----------------------------- MODULE TestcaseCache -----------------------------
(***************************************************************************)
(* The worker's cache of testcase files and its use by the judging loop:   *)
(* for every testcase GetOrFetch its input, GetOrFetch its expected output, *)
(* then read both files.  The files are on a volume that survives the      *)
(* worker process; the LRU list that counts and evicts them is in memory.  *)
(*                                                                         *)
(* The object storage is external; the apiserver overwrites its objects    *)
(* when the testcases of a problem are uploaded again, under the same keys. *)
(***************************************************************************)
EXTENDS Naturals, Sequences, FiniteSets, Functions

CONSTANTS
    Testcases,    \* testcases, each with an input and an output object
    Capacity,     \* of the LRU list, 1000 in worker/main.go
    MaxVersion,   \* bound on the uploads of an object
    FaultKinds,   \* subset of {"open", "copy", "remove", "crash"}
    MaxFaults     \* bound on the faults of each kind

ASSUME CacheAssumption ==
    /\ Capacity \in Nat \ {0}
    /\ MaxVersion \in Nat \ {0}
    /\ FaultKinds \subseteq {"open", "copy", "remove", "crash"}
    /\ MaxFaults \in Nat

Legs == {"in", "out"}
Keys == Testcases \X Legs

VARIABLES
    stored,    \* version of each object in the bucket
    files,     \* local files: version and whether all of it is there
    tracked,   \* the LRU list of keys, most recent first
    task,      \* the testcase being prepared, its leg and its step
    served,    \* history: what was read last for each leg
    faults     \* faults of each kind so far

vars == <<stored, files, tracked, task, served, faults>>

Absent  == [version |-> 0, whole |-> FALSE]
File    == [version : 1..MaxVersion, whole : BOOLEAN]
Idle    == [step |-> "idle"]
Task    == [step : {"stat", "open", "copy", "read"}, tc : Testcases, leg : Legs]
Key     == <<task.tc, task.leg>>
Busy    == task # Idle
At(step) == Busy /\ task.step = step
Present == {k \in Keys : files[k] # Absent}

TypeOK ==
    /\ stored \in [Keys -> 1..MaxVersion]
    /\ files \in [Keys -> File \cup {Absent}]
    /\ tracked \in Seq(Keys)
    /\ task \in Task \cup {Idle}
    /\ served \in [Legs -> File \cup {Absent}]
    /\ faults \in [FaultKinds -> 0..MaxFaults]

Init ==
    /\ stored = [k \in Keys |-> 1]
    /\ files = [k \in Keys |-> Absent]
    /\ tracked = <<>>
    /\ task = Idle
    /\ served = [leg \in Legs |-> Absent]
    /\ faults = [kind \in FaultKinds |-> 0]

Fault(kind) ==
    /\ kind \in FaultKinds
    /\ faults[kind] < MaxFaults
    /\ faults' = [faults EXCEPT ![kind] = @ + 1]

Step(step) == task' = [task EXCEPT !.step = step]

\* GetOrFetch returned the path of the leg's file: the output follows the
\* input, the reads follow the output.
PathReturned ==
    task' = IF task.leg = "in" THEN [task EXCEPT !.leg = "out", !.step = "stat"]
                               ELSE [task EXCEPT !.leg = "in", !.step = "read"]

-----------------------------------------------------------------------------
(* The LRU list.  A hit on disk never touches it: keys leave in the order  *)
(* in which they were fetched.                                             *)

\* Mutants of Evicted and Discarded.
EvictAtCapacity(list) ==
    IF Len(list) >= Capacity THEN {list[Len(list)]} ELSE {}
KeepFiles(disk, keys) == disk

Evicted(list) == IF Len(list) > Capacity THEN {list[Len(list)]} ELSE {}

\* Mutant: both legs of a testcase share an entry.
MovedTestcase(list, k) == <<k[1]>> \o list

\* MoveToFront of the key's entry, or PushFront of a new one.
Moved(list, k) ==
    IF k \notin Range(list)
    THEN <<k>> \o list
    ELSE LET i == CHOOSE j \in DOMAIN list : list[j] = k
         IN  <<k>> \o SubSeq(list, 1, i - 1) \o SubSeq(list, i + 1, Len(list))

\* The Back of a list that has outgrown its capacity is removed.
Trimmed(list) ==
    IF Evicted(list) = {} THEN list ELSE SubSeq(list, 1, Len(list) - 1)

\* The files that onDelete has removed.
Discarded(disk, keys) ==
    [k \in Keys |-> IF k \in keys THEN Absent ELSE disk[k]]

\* Mutant: the entry of an evicted file stays in the list.
PutWithoutRemove(k, removed) ==
    /\ tracked' = Moved(tracked, k)
    /\ files' = Discarded([files EXCEPT ![k].whole = TRUE], removed)

\* The list forgets what it evicts, whether or not onDelete removes its file.
Put(k, removed) ==
    /\ tracked' = Trimmed(Moved(tracked, k))
    /\ files' = Discarded([files EXCEPT ![k].whole = TRUE], removed)

Overflow == Evicted(Moved(tracked, Key))

-----------------------------------------------------------------------------

Begin(tc) ==
    /\ ~Busy
    /\ task' = [step |-> "stat", tc |-> tc, leg |-> "in"]
    /\ served' = [leg \in Legs |-> Absent]
    /\ UNCHANGED <<stored, files, tracked, faults>>

Hit ==
    /\ At("stat")
    /\ Key \in Present
    /\ PathReturned
    /\ UNCHANGED <<stored, files, tracked, served, faults>>

Miss ==
    /\ At("stat")
    /\ Key \notin Present
    /\ Step("open")
    /\ UNCHANGED <<stored, files, tracked, served, faults>>

\* The object or the local file cannot be opened: the job is a system error.
OpenFails ==
    /\ At("open")
    /\ Fault("open")
    /\ task' = Idle
    /\ UNCHANGED <<stored, files, tracked, served>>

Open ==
    /\ At("open")
    /\ files' = [files EXCEPT ![Key] = [version |-> stored[Key], whole |-> FALSE]]
    /\ Step("copy")
    /\ UNCHANGED <<stored, tracked, served, faults>>

\* The file is left behind with what had been copied.
CopyFails ==
    /\ At("copy")
    /\ Fault("copy")
    /\ task' = Idle
    /\ UNCHANGED <<stored, files, tracked, served>>

Copy ==
    /\ At("copy")
    /\ Put(Key, Overflow)
    /\ PathReturned
    /\ UNCHANGED <<stored, served, faults>>

\* os.Remove fails in onDelete, which prints it: the file stays, off the list.
RemoveFails ==
    /\ At("copy")
    /\ Overflow # {}
    /\ Fault("remove")
    /\ Put(Key, {})
    /\ PathReturned
    /\ UNCHANGED <<stored, served>>

\* A file that is gone makes the job a system error.
Read ==
    /\ At("read")
    /\ served' = [served EXCEPT ![task.leg] = files[Key]]
    /\ task' = IF task.leg = "in" /\ Key \in Present
               THEN [task EXCEPT !.leg = "out"]
               ELSE Idle
    /\ UNCHANGED <<stored, files, tracked, faults>>

\* The worker process dies and is restarted: files stay, the list is new.
Crash ==
    /\ Fault("crash")
    /\ tracked' = <<>>
    /\ task' = Idle
    /\ UNCHANGED <<stored, files, served>>

\* ProcessTestcaseFiles or ProcessTestcasesFromZip for the same problem.
Upload(k) ==
    /\ stored[k] < MaxVersion
    /\ stored' = [stored EXCEPT ![k] = @ + 1]
    /\ UNCHANGED <<files, tracked, task, served, faults>>

Next ==
    \/ \E tc \in Testcases : Begin(tc)
    \/ Hit \/ Miss \/ OpenFails \/ Open \/ CopyFails \/ Copy \/ RemoveFails
    \/ Read \/ Crash
    \/ \E k \in Keys : Upload(k)

Spec == Init /\ [][Next]_vars

-----------------------------------------------------------------------------

\* The list never outgrows its capacity, counts no key twice, and every key
\* it counts has its file: an eviction never frees less than it accounts for.
TrackedHaveFiles ==
    /\ Len(tracked) <= Capacity
    /\ IsInjective(tracked)
    /\ Range(tracked) \subseteq Present

\* None of these faults has happened.
Without(kinds) == \A kind \in kinds \cap FaultKinds : faults[kind] = 0

\* Files that neither the list nor the copy in hand accounts for: nothing
\* will ever evict them.
Stray == Present \ (Range(tracked) \cup (IF At("copy") THEN {Key} ELSE {}))

Times(kind) == IF kind \in FaultKinds THEN faults[kind] ELSE 0

\* Files escape the list by faults only, and only so many: a copy that failed
\* leaves one, an eviction whose file could not be removed one, the death of
\* the process what the list held and the copy in hand.
DiskAccounted ==
    /\ IsFiniteSet(Stray)
    /\ Cardinality(Stray) <=
           Times("copy") + Times("remove") + Times("crash") * (Capacity + 1)

\* GetOrFetch "returns the local file path": while no fetch failed, the path
\* it returned for either leg still leads to a file when the judge
\* reads it, whatever was evicted, kept, uploaded or restarted in between.  It
\* rests on keys being fetched, and so evicted, in pairs: a failed fetch of
\* an output leaves an input that a later hit returns and the Put of its
\* output then evicts.
PathStillThere ==
    Without({"open", "copy"}) =>
        /\ At("read") => Key \in Present
        /\ At("read") /\ task.leg = "in" => <<task.tc, "out">> \in Present

\* What the judge reads is all of some version of the object.
ServedWhole ==
    \A leg \in Legs : served[leg] # Absent => served[leg].whole
=============================================================================
