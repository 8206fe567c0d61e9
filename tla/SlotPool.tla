------------------------------- MODULE SlotPool -------------------------------
(***************************************************************************)
(* The worker's pool of execution slots and the calls of lime.Run that use *)
(* it.  A slot is a CPU and a host UID of its own; a call takes one from   *)
(* the pool's buffered channel, gives the work directory to the slot's     *)
(* UID, runs the sandbox and undoes both in the order of its defers.       *)
(*                                                                         *)
(* A work directory belongs to one call at a time, so Runs stands for both. *)
(* The worker's loop makes one call at a time (Runs of one element); the   *)
(* pool is built for as many as there are CPUs.                            *)
(***************************************************************************)
EXTENDS Naturals, Sequences, FiniteSets, Functions

CONSTANTS
    Slots,   \* the slots of NewSlotPool
    Runs,    \* concurrent calls of lime.Run, each with its work directory
    Root     \* owner of a work directory that no sandbox uses

ASSUME SlotPoolAssumption == IsFiniteSet(Slots) /\ Root \notin Slots

VARIABLES
    pool,       \* the channel's buffer
    pc,         \* where each call is
    slot,       \* the slot of its allocation, Root when it has none
    owner,      \* the owner of its work directory
    cancelled   \* the worker's context is done

vars == <<pool, pc, slot, owner, cancelled>>

Holding  == {"holding", "sandboxed", "restoring", "releasing"}
Held     == {slot[r] : r \in {q \in Runs : pc[q] \in Holding}}
Capacity == Cardinality(Slots)

TypeOK ==
    /\ pool \in Seq(Slots)
    /\ pc \in [Runs -> {"idle", "allocating"} \cup Holding]
    /\ slot \in [Runs -> Slots \cup {Root}]
    /\ owner \in [Runs -> Slots \cup {Root}]
    /\ cancelled \in BOOLEAN
    /\ \A r \in Runs : pc[r] \in Holding <=> slot[r] # Root

Init ==
    /\ pool \in {q \in [1..Capacity -> Slots] : IsInjective(q)}
    /\ pc = [r \in Runs |-> "idle"]
    /\ slot = [r \in Runs |-> Root]
    /\ owner = [r \in Runs |-> Root]
    /\ cancelled = FALSE

Goto(r, from, to) == pc[r] = from /\ pc' = [pc EXCEPT ![r] = to]

Call(r) ==
    /\ Goto(r, "idle", "allocating")
    /\ UNCHANGED <<pool, slot, owner, cancelled>>

\* The select takes a slot when there is one, context done or not.
Allocate(r) ==
    /\ Goto(r, "allocating", "holding")
    /\ pool # <<>>
    /\ slot' = [slot EXCEPT ![r] = Head(pool)]
    /\ pool' = Tail(pool)
    /\ UNCHANGED <<owner, cancelled>>

AllocateCancelled(r) ==
    /\ Goto(r, "allocating", "idle")
    /\ cancelled
    /\ UNCHANGED <<pool, slot, owner, cancelled>>

\* Mutant: the error return is left before Release was deferred.
ReturnWithoutRelease(r) ==
    /\ Goto(r, "holding", "idle")
    /\ slot' = [slot EXCEPT ![r] = Root]
    /\ UNCHANGED <<pool, owner, cancelled>>

\* No rootfs, no work directory, or it cannot be given to the slot's UID.
SetupFails(r) ==
    /\ Goto(r, "holding", "releasing")
    /\ UNCHANGED <<pool, slot, owner, cancelled>>

Chown(r) ==
    /\ Goto(r, "holding", "sandboxed")
    /\ owner' = [owner EXCEPT ![r] = slot[r]]
    /\ UNCHANGED <<pool, slot, cancelled>>

\* Mutant: the directory is not given back before the slot is.
SandboxEndsUnrestored(r) ==
    /\ Goto(r, "sandboxed", "releasing")
    /\ UNCHANGED <<pool, slot, owner, cancelled>>

\* A response, an error of lime, its timeout, or a cancelled context.
SandboxEnds(r) ==
    /\ Goto(r, "sandboxed", "restoring")
    /\ UNCHANGED <<pool, slot, owner, cancelled>>

Restore(r) ==
    /\ Goto(r, "restoring", "releasing")
    /\ owner' = [owner EXCEPT ![r] = Root]
    /\ UNCHANGED <<pool, slot, cancelled>>

\* Mutant: Release without the compare-and-swap, called twice.
ReleaseTwice(r) ==
    /\ Goto(r, "releasing", "idle")
    /\ pool' = pool \o <<slot[r], slot[r]>>
    /\ slot' = [slot EXCEPT ![r] = Root]
    /\ UNCHANGED <<owner, cancelled>>

\* The send blocks while the buffer is full.
Release(r) ==
    /\ Goto(r, "releasing", "idle")
    /\ Len(pool) < Capacity
    /\ pool' = Append(pool, slot[r])
    /\ slot' = [slot EXCEPT ![r] = Root]
    /\ UNCHANGED <<owner, cancelled>>

\* SIGINT or SIGTERM.
Cancel ==
    /\ ~cancelled
    /\ cancelled' = TRUE
    /\ UNCHANGED <<pool, pc, slot, owner>>

Next ==
    \/ \E r \in Runs :
            \/ Call(r) \/ Allocate(r) \/ AllocateCancelled(r)
            \/ SetupFails(r) \/ Chown(r) \/ SandboxEnds(r)
            \/ Restore(r) \/ Release(r)
    \/ Cancel

Spec == Init /\ [][Next]_vars

\* A call that holds a slot goes on: the sandbox ends, by its timeout at the
\* latest.  Go's channels serve waiting receivers in order: a call for which
\* a slot is offered again and again gets one.
Fairness ==
    \A r \in Runs :
        /\ WF_vars(SetupFails(r) \/ Chown(r))
        /\ WF_vars(SandboxEnds(r) \/ Restore(r) \/ Release(r))
        /\ SF_vars(Allocate(r))

FairSpec == Spec /\ Fairness

-----------------------------------------------------------------------------

\* Every slot is in the pool, once, or with exactly one call: neither a
\* cancelled Allocate nor an error return of lime.Run loses or doubles one.
SlotsConserved ==
    /\ IsInjective(pool)
    /\ Range(pool) \cup Held = Slots
    /\ Range(pool) \cap Held = {}
    /\ \A r, q \in Runs :
            pc[r] \in Holding /\ pc[q] \in Holding /\ slot[r] = slot[q] => r = q

\* A directory that belongs to a slot's UID is the directory of the call that
\* holds this slot: no other call's sandbox ever runs under that UID.
WorkDirPrivate ==
    \A r, q \in Runs :
        pc[q] \in Holding /\ owner[r] = slot[q] => r = q

\* Release, which the defer runs even on a panic or a cancelled context, is
\* never stuck on a full channel.
ReleaseNeverBlocks ==
    \A r \in Runs : pc[r] = "releasing" => Len(pool) < Capacity

\* The inductive invariant behind the three.
IInv ==
    /\ TypeOK
    /\ SlotsConserved
    /\ \A r \in Runs :
            owner[r] # Root => pc[r] \in {"sandboxed", "restoring"} /\ owner[r] = slot[r]

\* Whoever waits for a slot gets one or is cancelled.
WaiterServed == \A r \in Runs : pc[r] = "allocating" ~> pc[r] # "allocating"
=============================================================================
