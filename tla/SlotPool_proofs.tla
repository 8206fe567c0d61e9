--------------------------- MODULE SlotPool_proofs ---------------------------
(***************************************************************************)
(* Machine-checked proofs about SlotPool, for any finite set of slots and  *)
(* any set of calls.                                                       *)
(***************************************************************************)
EXTENDS SlotPool, QueueLemmas, FiniteSetTheorems

(* A new pool holds every slot once. *)
LEMMA FullPool ==
    ASSUME NEW q \in [1..Capacity -> Slots], IsInjective(q)
    PROVE  q \in Seq(Slots) /\ Range(q) = Slots
<1>1. Capacity \in Nat
  BY SlotPoolAssumption, FS_CardinalityType DEF Capacity
<1>2. q \in Seq(Slots)
  BY <1>1
<1>3. q \in Injection(1..Capacity, Slots)
  BY DEF Injection
<1>4. Cardinality(1..Capacity) = Cardinality(Slots)
  BY <1>1, FS_Interval DEF Capacity
<1>5. q \in Surjection(1..Capacity, Slots)
  BY <1>3, <1>4, SlotPoolAssumption, FS_Injection
<1>6. Range(q) = Slots
  BY <1>5 DEF Surjection, Range
<1>7. QED
  BY <1>2, <1>6

(* A pool without duplicates that lacks a slot has room for it. *)
LEMMA RoomForTheMissing ==
    ASSUME NEW q \in Seq(Slots), IsInjective(q),
           NEW s \in Slots, s \notin Range(q)
    PROVE  Len(q) < Capacity
<1> DEFINE T == Slots \ {s}
<1>1. /\ Len(q) \in Nat
      /\ DOMAIN q = 1..Len(q)
      /\ q \in [1..Len(q) -> Slots]
  OBVIOUS
<1>2. \A i \in 1..Len(q) : q[i] \in T
  BY <1>1 DEF Range
<1>3. q \in [1..Len(q) -> T]
  BY <1>1, <1>2
<1>4. q \in Injection(1..Len(q), T)
  BY <1>3 DEF Injection
<1>5. IsFiniteSet(T) /\ Cardinality(T) = Capacity - 1
  BY SlotPoolAssumption, FS_RemoveElement DEF Capacity
<1>6. Cardinality(1..Len(q)) <= Cardinality(T)
  BY <1>4, <1>5, FS_Injection
<1>7. Cardinality(1..Len(q)) = Len(q)
  BY <1>1, FS_Interval
<1>8. Capacity \in Nat
  BY SlotPoolAssumption, FS_CardinalityType DEF Capacity
<1>9. QED
  BY <1>1, <1>5, <1>6, <1>7, <1>8

(* The new pool and no call satisfy the invariant. *)
LEMMA InitInvariant == Init => IInv
<1> SUFFICES ASSUME Init PROVE IInv
  OBVIOUS
<1>1. pool \in Seq(Slots) /\ Range(pool) = Slots /\ IsInjective(pool)
  BY FullPool DEF Init
<1>2. TypeOK
  BY <1>1 DEF Init, TypeOK, Holding
<1>3. SlotsConserved
  BY <1>1 DEF Init, SlotsConserved, Held, Holding
<1>4. QED
  BY <1>2, <1>3 DEF IInv, Init

(* What the two halves of the conservation say, slot by slot. *)
LEMMA HeldBy ==
    ASSUME NEW s PROVE s \in Held <=> \E r \in Runs : pc[r] \in Holding /\ slot[r] = s
BY DEF Held

(* A step that takes the first slot of the pool. *)
LEMMA AllocateInvariant ==
    ASSUME IInv, NEW r \in Runs, Allocate(r) PROVE IInv'
<1> DEFINE h == Head(pool)
<1>1. /\ h \in Slots
      /\ Tail(pool) \in Seq(Slots)
      /\ Range(pool) = Range(Tail(pool)) \cup {h}
  BY RangeTail DEF IInv, TypeOK, Allocate
<1>2. IsInjective(Tail(pool)) /\ h \notin Range(Tail(pool))
  BY InjectiveTail DEF IInv, TypeOK, SlotsConserved, Allocate
<1>3. /\ pool' = Tail(pool)
      /\ pc' = [pc EXCEPT ![r] = "holding"]
      /\ slot' = [slot EXCEPT ![r] = h]
      /\ UNCHANGED <<owner, cancelled>>
      /\ pc[r] = "allocating"
  BY DEF Allocate, Goto
<1>4. TypeOK'
  BY <1>1, <1>3, SlotPoolAssumption DEF IInv, TypeOK, Holding
<1>5. \A q \in Runs : q # r => pc'[q] = pc[q] /\ slot'[q] = slot[q]
  BY <1>3 DEF IInv, TypeOK
<1>6. pc'[r] \in Holding /\ slot'[r] = h /\ pc[r] \notin Holding
  BY <1>3 DEF IInv, TypeOK, Holding
<1>7. Held' = Held \cup {h}
  BY <1>5, <1>6 DEF Held
<1>8. h \notin Held
  BY <1>1 DEF IInv, SlotsConserved
<1>9. SlotsConserved'
  <2>1. Range(pool') = Range(Tail(pool)) /\ IsInjective(pool')
    BY <1>2, <1>3
  <2>2. Range(pool') \cup Held' = Slots /\ Range(pool') \cap Held' = {}
    BY <2>1, <1>1, <1>2, <1>7 DEF IInv, SlotsConserved
  <2>3. \A p, q \in Runs :
            pc'[p] \in Holding /\ pc'[q] \in Holding /\ slot'[p] = slot'[q] => p = q
    BY <1>5, <1>6, <1>8 DEF IInv, SlotsConserved, Held
  <2>4. QED
    BY <2>1, <2>2, <2>3 DEF SlotsConserved
<1>10. \A q \in Runs :
            owner'[q] # Root => pc'[q] \in {"sandboxed", "restoring"} /\ owner'[q] = slot'[q]
  BY <1>3, <1>5 DEF IInv
<1>11. QED
  BY <1>4, <1>9, <1>10 DEF IInv

(* A step that sends the slot back. *)
LEMMA ReleaseInvariant ==
    ASSUME IInv, NEW r \in Runs, Release(r) PROVE IInv'
<1> DEFINE h == slot[r]
<1>1. /\ pool' = Append(pool, h)
      /\ pc' = [pc EXCEPT ![r] = "idle"]
      /\ slot' = [slot EXCEPT ![r] = Root]
      /\ UNCHANGED <<owner, cancelled>>
      /\ pc[r] = "releasing" /\ pc[r] \in Holding
  BY DEF Release, Goto, Holding
<1>2. h \in Slots /\ h \in Held
  BY <1>1 DEF IInv, TypeOK, Held
<1>3. pool \in Seq(Slots) /\ h \notin Range(pool)
  BY <1>2 DEF IInv, TypeOK, SlotsConserved
<1>4. Range(pool') = Range(pool) \cup {h}
  BY <1>1, <1>2, <1>3, RangeAppend
<1>5. IsInjective(pool')
  BY <1>1, <1>2, <1>3, InjectiveAppend DEF IInv, SlotsConserved
<1>6. pool' \in Seq(Slots)
  BY <1>1, <1>2, <1>3
<1>7. TypeOK'
  BY <1>1, <1>6 DEF IInv, TypeOK, Holding
<1>8. \A q \in Runs : q # r => pc'[q] = pc[q] /\ slot'[q] = slot[q]
  BY <1>1 DEF IInv, TypeOK
<1>9. pc'[r] \notin Holding
  BY <1>1 DEF IInv, TypeOK, Holding
<1>10. \A q \in Runs : q # r /\ pc[q] \in Holding => slot[q] # h
  BY <1>1 DEF IInv, SlotsConserved
<1>11. Held' = Held \ {h}
  BY <1>1, <1>8, <1>9, <1>10 DEF Held
<1>12. SlotsConserved'
  <2>1. Range(pool') \cup Held' = Slots /\ Range(pool') \cap Held' = {}
    BY <1>2, <1>4, <1>11 DEF IInv, SlotsConserved
  <2>2. \A p, q \in Runs :
            pc'[p] \in Holding /\ pc'[q] \in Holding /\ slot'[p] = slot'[q] => p = q
    BY <1>8, <1>9 DEF IInv, SlotsConserved
  <2>3. QED
    BY <1>5, <2>1, <2>2 DEF SlotsConserved
<1>13. \A q \in Runs :
            owner'[q] # Root => pc'[q] \in {"sandboxed", "restoring"} /\ owner'[q] = slot'[q]
  BY <1>1, <1>8 DEF IInv
<1>14. QED
  BY <1>7, <1>12, <1>13 DEF IInv

(* A step that leaves the pool and every allocation as they are. *)
LEMMA QuietInvariant ==
    ASSUME IInv, NEW r \in Runs,
           \/ Call(r) \/ AllocateCancelled(r) \/ SetupFails(r)
           \/ Chown(r) \/ SandboxEnds(r) \/ Restore(r)
    PROVE  IInv'
<1>1. /\ UNCHANGED <<pool, slot>>
      /\ \A q \in Runs : q # r => pc'[q] = pc[q] /\ owner'[q] = owner[q]
      /\ pc'[r] \in Holding <=> pc[r] \in Holding
  BY DEF IInv, TypeOK, Call, AllocateCancelled, SetupFails, Chown,
         SandboxEnds, Restore, Goto, Holding
<1>2. TypeOK'
  BY DEF IInv, TypeOK, Call, AllocateCancelled, SetupFails, Chown,
         SandboxEnds, Restore, Goto, Holding
<1>3. \A q \in Runs : pc'[q] \in Holding <=> pc[q] \in Holding
  BY <1>1
<1>4. Held' = Held
  BY <1>1, <1>3 DEF Held
<1>5. SlotsConserved'
  BY <1>1, <1>3, <1>4 DEF IInv, SlotsConserved
<1>6. owner'[r] # Root => pc'[r] \in {"sandboxed", "restoring"} /\ owner'[r] = slot'[r]
  BY <1>1 DEF IInv, TypeOK, Call, AllocateCancelled, SetupFails, Chown,
         SandboxEnds, Restore, Goto
<1>7. \A q \in Runs :
            owner'[q] # Root => pc'[q] \in {"sandboxed", "restoring"} /\ owner'[q] = slot'[q]
  BY <1>1, <1>6 DEF IInv
<1>8. QED
  BY <1>2, <1>5, <1>7 DEF IInv

(* IInv holds in every reachable state. *)
THEOREM PoolInvariance == Spec => []IInv
<1>1. IInv /\ [Next]_vars => IInv'
  <2> SUFFICES ASSUME IInv, [Next]_vars PROVE IInv'
    OBVIOUS
  <2>1. CASE Cancel
    BY <2>1 DEF Cancel, IInv, TypeOK, SlotsConserved, Held
  <2>2. CASE UNCHANGED vars
    BY <2>2 DEF vars, IInv, TypeOK, SlotsConserved, Held
  <2>3. ASSUME NEW r \in Runs, Allocate(r) PROVE IInv'
    BY <2>3, AllocateInvariant
  <2>4. ASSUME NEW r \in Runs, Release(r) PROVE IInv'
    BY <2>4, ReleaseInvariant
  <2>5. ASSUME NEW r \in Runs,
               \/ Call(r) \/ AllocateCancelled(r) \/ SetupFails(r)
               \/ Chown(r) \/ SandboxEnds(r) \/ Restore(r)
        PROVE  IInv'
    BY <2>5, QuietInvariant
  <2>6. QED
    BY <2>1, <2>2, <2>3, <2>4, <2>5 DEF Next
<1>2. QED
  BY <1>1, InitInvariant, PTL DEF Spec

(* No history of calls, failures and cancellations loses or doubles a slot. *)
THEOREM NoSlotLost == Spec => []SlotsConserved
<1>1. IInv => SlotsConserved
  BY DEF IInv
<1>2. QED
  BY <1>1, PoolInvariance, PTL

(* No sandbox runs under the UID that owns another call's directory. *)
THEOREM DirectoriesPrivate == Spec => []WorkDirPrivate
<1>1. IInv => WorkDirPrivate
  <2> SUFFICES ASSUME IInv, NEW r \in Runs, NEW q \in Runs,
                      pc[q] \in Holding, owner[r] = slot[q]
               PROVE  r = q
    BY DEF WorkDirPrivate
  <2>1. owner[r] # Root
    BY DEF IInv, TypeOK
  <2>2. pc[r] \in Holding /\ owner[r] = slot[r]
    BY <2>1 DEF IInv, Holding
  <2>3. QED
    BY <2>2 DEF IInv, SlotsConserved
<1>2. QED
  BY <1>1, PoolInvariance, PTL

(* The channel has room whenever a slot is returned. *)
THEOREM ReleaseHasRoom == Spec => []ReleaseNeverBlocks
<1>1. IInv => ReleaseNeverBlocks
  <2> SUFFICES ASSUME IInv, NEW r \in Runs, pc[r] = "releasing"
               PROVE  Len(pool) < Capacity
    BY DEF ReleaseNeverBlocks
  <2>1. slot[r] \in Slots /\ slot[r] \in Held
    BY DEF IInv, TypeOK, Held, Holding
  <2>2. slot[r] \notin Range(pool)
    BY <2>1 DEF IInv, SlotsConserved
  <2>3. QED
    BY <2>1, <2>2, RoomForTheMissing DEF IInv, TypeOK, SlotsConserved
<1>2. QED
  BY <1>1, PoolInvariance, PTL

(* The calls that have a slot and the slots in the pool add up to the      *)
(* capacity: a call that finds the channel empty waits for Capacity others *)
(* that are using a slot, and a pool that no call uses is full again.      *)
SlotsAddUp ==
    LET calls == {r \in Runs : pc[r] \in Holding}
    IN  IsFiniteSet(calls) /\ Len(pool) + Cardinality(calls) = Capacity

(* The number of sandboxes that run at once is the number of slots, less   *)
(* those that are free, after any history of calls and failures.           *)
THEOREM PoolBoundsTheCalls == Spec => []SlotsAddUp
<1>1. IInv => SlotsAddUp
  <2> SUFFICES ASSUME IInv PROVE SlotsAddUp
    OBVIOUS
  <2> DEFINE calls == {r \in Runs : pc[r] \in Holding}
  <2> DEFINE f == [r \in calls |-> slot[r]]
  <2>1. /\ pool \in Seq(Slots) /\ IsInjective(pool)
        /\ Range(pool) \cup Held = Slots /\ Range(pool) \cap Held = {}
    BY DEF IInv, TypeOK, SlotsConserved
  <2>2. /\ IsFiniteSet(Range(pool)) /\ IsFiniteSet(Held)
    BY <2>1, SlotPoolAssumption, FS_Subset
  <2>3. Cardinality(Range(pool)) = Len(pool) /\ Len(pool) \in Nat
    <3>1. Len(pool) \in Nat /\ DOMAIN pool = 1..Len(pool) /\ pool \in [1..Len(pool) -> Slots]
      BY <2>1
    <3>2. pool \in [1..Len(pool) -> Range(pool)]
      BY <3>1 DEF Range
    <3>3. pool \in Surjection(1..Len(pool), Range(pool))
      BY <3>1, <3>2 DEF Surjection, Range
    <3>4. pool \in Injection(1..Len(pool), Range(pool))
      BY <2>1, <3>1, <3>2 DEF Injection, IsInjective
    <3>5. IsFiniteSet(1..Len(pool)) /\ Cardinality(1..Len(pool)) = Len(pool)
      BY <3>1, FS_Interval
    <3>6. QED
      BY ONLY <3>1, <3>3, <3>4, <3>5, FS_Surjection
  <2>4. IsFiniteSet(calls) /\ Cardinality(calls) = Cardinality(Held)
    <3>1. f \in Injection(calls, Held)
      <4>1. f \in [calls -> Held]
        BY DEF Held
      <4>2. \A r, q \in calls : f[r] = f[q] => r = q
        BY DEF IInv, SlotsConserved
      <4>3. QED
        BY <4>1, <4>2 DEF Injection, IsInjective
    <3>2. f \in Surjection(calls, Held)
      BY DEF Surjection, Held
    <3> HIDE DEF f, calls
    <3>3. QED
      BY ONLY <2>2, <3>1, <3>2, FS_Injection
  <2>5. Cardinality(Range(pool) \cup Held) = Cardinality(Range(pool)) + Cardinality(Held)
    <3>1. Cardinality({}) = 0
      BY FS_EmptySet
    <3>2. Cardinality(Range(pool)) \in Nat /\ Cardinality(Held) \in Nat
      BY <2>2, FS_CardinalityType
    <3>3. Cardinality(Range(pool) \cup Held) =
             Cardinality(Range(pool)) + Cardinality(Held) - Cardinality(Range(pool) \cap Held)
      BY <2>2, FS_Union
    <3>4. Cardinality(Range(pool) \cap Held) = 0
      BY ONLY <2>1, <3>1
    <3>5. QED
      BY ONLY <3>2, <3>3, <3>4
  <2>6. QED
    BY <2>1, <2>3, <2>4, <2>5 DEF SlotsAddUp, Capacity
<1>2. QED
  BY <1>1, PoolInvariance, PTL
=============================================================================
