------------------------- MODULE TestcaseCache_proofs -------------------------
(***************************************************************************)
(* Machine-checked proofs about TestcaseCache, for any set of testcases,   *)
(* any capacity and any number of uploads and faults.                      *)
(***************************************************************************)
EXTENDS TestcaseCache, QueueLemmas, FiniteSetTheorems

Full == Len(tracked) = Capacity

(* What a Put does to the list and to the files on disk: a new first entry, *)
(* the others one place back, and the last one gone if the list was full;  *)
(* its file too, unless it could not be removed.                           *)
Gone == IF Full THEN {tracked[Len(tracked)]} ELSE {}

PutDone(k, removed) ==
    /\ tracked' \in Seq(Keys)
    /\ Len(tracked') = IF Full THEN Capacity ELSE Len(tracked) + 1
    /\ tracked'[1] = k
    /\ \A i \in 2..Len(tracked') : tracked'[i] = tracked[i-1]
    /\ IsInjective(tracked')
    /\ Range(tracked') = ({k} \cup Range(tracked)) \ Gone
    /\ k \notin Gone
    /\ Gone \subseteq Range(tracked)
    /\ files' = [x \in Keys |-> IF x \in removed THEN Absent
                                ELSE IF x = k THEN [files[k] EXCEPT !.whole = TRUE]
                                ELSE files[x]]

LEMMA PutMoves ==
    ASSUME TypeOK, TrackedHaveFiles, NEW k \in Keys, k \notin Range(tracked),
           NEW removed, Put(k, removed)
    PROVE  PutDone(k, removed) /\ Evicted(Moved(tracked, k)) = Gone
<1> DEFINE list == <<k>> \o tracked
<1>1. tracked \in Seq(Keys) /\ Len(tracked) \in Nat /\ IsInjective(tracked)
      /\ Len(tracked) <= Capacity /\ Capacity \in Nat \ {0}
      /\ DOMAIN tracked = 1..Len(tracked)
  BY CacheAssumption DEF TypeOK, TrackedHaveFiles
<1>2. /\ list \in Seq(Keys)
      /\ Len(list) = Len(tracked) + 1
      /\ list[1] = k
      /\ \A i \in 1..Len(tracked) : list[i+1] = tracked[i]
      /\ IsInjective(list)
      /\ Range(list) = {k} \cup Range(tracked)
  BY <1>1, PushFront
<1>3. Moved(tracked, k) = list
  BY DEF Moved
<1>4. /\ tracked' = Trimmed(list)
      /\ files' = Discarded([files EXCEPT ![k].whole = TRUE], removed)
  BY <1>3 DEF Put
<1> HIDE DEF list
<1>5. Evicted(list) = Gone
  <2>1. CASE Full
    <3>1. Len(list) > Capacity /\ list[Len(list)] = tracked[Len(tracked)]
      BY <1>1, <1>2, <2>1 DEF Full
    <3>2. QED
      BY <2>1, <3>1 DEF Evicted, Gone
  <2>2. CASE ~Full
    <3>1. Len(tracked) \in Nat /\ Capacity \in Nat /\ Len(tracked) < Capacity
      <4>1. Len(tracked) # Capacity
        BY <2>2 DEF Full
      <4>2. Len(tracked) \in Nat /\ Len(tracked) <= Capacity /\ Capacity \in Nat
        BY <1>1
      <4>3. QED
        BY ONLY <4>1, <4>2
    <3>2. Len(list) = Len(tracked) + 1
      BY <1>2
    <3>3. ~(Len(list) > Capacity)
      BY ONLY <3>1, <3>2
    <3>4. QED
      BY <2>2, <3>3 DEF Evicted, Gone
  <2>3. QED
    BY <2>1, <2>2
<1>6. Gone \subseteq Range(tracked)
  <2>1. CASE Full
    <3>1. Len(tracked) \in DOMAIN tracked
      BY <1>1, <2>1 DEF Full
    <3>2. QED
      BY <2>1, <3>1 DEF Gone, Range
  <2>2. CASE ~Full
    BY <2>2 DEF Gone
  <2>3. QED
    BY <2>1, <2>2
<1>7. files' = [x \in Keys |-> IF x \in removed THEN Absent
                               ELSE IF x = k THEN [files[k] EXCEPT !.whole = TRUE]
                               ELSE files[x]]
  BY <1>4 DEF Discarded, TypeOK
<1>8. CASE Full
  <2>1. tracked' = SubSeq(list, 1, Len(list) - 1)
    BY <1>4, <1>5, <1>8 DEF Trimmed, Gone
  <2>2. /\ tracked' \in Seq(Keys)
        /\ Len(tracked') = Len(list) - 1
        /\ \A i \in 1..(Len(list) - 1) : tracked'[i] = list[i]
        /\ IsInjective(tracked')
        /\ Range(tracked') = Range(list) \ {list[Len(list)]}
    BY <1>1, <1>2, <2>1, DropLast
  <2>3. list[Len(list)] = tracked[Len(tracked)]
    BY <1>1, <1>2, <1>8 DEF Full
  <2>4. \A i \in 2..Len(tracked') : tracked'[i] = tracked[i-1]
    BY <1>1, <1>2, <2>2
  <2>5. tracked'[1] = k
    BY <1>1, <1>2, <1>8, <2>2 DEF Full
  <2>6. PutDone(k, removed)
    BY <1>1, <1>2, <1>6, <1>7, <1>8, <2>2, <2>3, <2>4, <2>5 DEF PutDone, Gone, Full
  <2>7. QED
    BY <1>3, <1>5, <2>6
<1>9. CASE ~Full
  <2>1. tracked' = list
    BY <1>4, <1>5, <1>9 DEF Trimmed, Gone
  <2>2. \A i \in 2..Len(tracked') : tracked'[i] = tracked[i-1]
    BY <1>1, <1>2, <2>1
  <2>3. PutDone(k, removed)
    BY <1>1, <1>2, <1>6, <1>7, <1>9, <2>1, <2>2 DEF PutDone, Gone
  <2>4. QED
    BY <1>3, <1>5, <2>3
<1>10. QED
  BY <1>8, <1>9

LEMMA PresentAfterPut ==
    ASSUME TypeOK, NEW k \in Present, NEW removed, k \notin removed, PutDone(k, removed)
    PROVE  Present' = Present \ removed
<1>1. [files[k] EXCEPT !.whole = TRUE] # Absent
  <2>1. files[k] \in File
    BY DEF TypeOK, Present
  <2>2. [files[k] EXCEPT !.whole = TRUE] \in File
    BY <2>1 DEF File
  <2>3. QED
    BY <2>2, CacheAssumption DEF File, Absent
<1>2. \A x \in Keys : files'[x] # Absent <=> x \notin removed /\ files[x] # Absent
  BY <1>1 DEF PutDone, Present
<1>3. QED
  BY <1>2 DEF Present

(***************************************************************************)
(* The list and the disk.                                                  *)
(***************************************************************************)

(* A file is only fetched when there is none, and is counted when all of   *)
(* it is there.                                                            *)
FetchedOnce ==
    /\ At("open") => Key \notin Present
    /\ At("copy") => Key \in Present /\ Key \notin Range(tracked)

CacheInv == TypeOK /\ TrackedHaveFiles /\ DiskAccounted /\ FetchedOnce

LEMMA UnionIsSmall ==
    ASSUME NEW S, NEW T, IsFiniteSet(S), IsFiniteSet(T)
    PROVE  /\ IsFiniteSet(S \cup T)
           /\ Cardinality(S \cup T) <= Cardinality(S) + Cardinality(T)
<1>1. IsFiniteSet(S \cap T)
  BY FS_Intersection
<1>2. Cardinality(S) \in Nat /\ Cardinality(T) \in Nat /\ Cardinality(S \cap T) \in Nat
  BY <1>1, FS_CardinalityType
<1>3. /\ IsFiniteSet(S \cup T)
      /\ Cardinality(S \cup T) = Cardinality(S) + Cardinality(T) - Cardinality(S \cap T)
  BY FS_Union
<1>4. QED
  BY ONLY <1>2, <1>3

(* The list counts no more files than it may.                              *)
LEMMA CountedFiles ==
    ASSUME TypeOK, TrackedHaveFiles
    PROVE  IsFiniteSet(Range(tracked)) /\ Cardinality(Range(tracked)) <= Capacity
<1>1. tracked \in Seq(Keys) /\ Len(tracked) \in Nat /\ Len(tracked) <= Capacity
  BY DEF TypeOK, TrackedHaveFiles
<1>2. DOMAIN tracked = 1..Len(tracked) /\ tracked \in [1..Len(tracked) -> Keys]
  BY <1>1
<1>3. tracked \in Surjection(1..Len(tracked), Range(tracked))
  <2>1. tracked \in [1..Len(tracked) -> Range(tracked)]
    BY <1>2 DEF Range
  <2>2. QED
    BY <1>2, <2>1 DEF Surjection, Range
<1>4. IsFiniteSet(1..Len(tracked)) /\ Cardinality(1..Len(tracked)) = Len(tracked)
  BY <1>1, FS_Interval
<1>5. /\ IsFiniteSet(Range(tracked))
      /\ Cardinality(Range(tracked)) <= Cardinality(1..Len(tracked))
  BY ONLY <1>3, <1>4, FS_Surjection
<1>6. Cardinality(Range(tracked)) \in Nat
  BY ONLY <1>5, FS_CardinalityType
<1>7. QED
  BY ONLY <1>1, <1>4, <1>5, <1>6, CacheAssumption

LEMMA TimesNat ==
    ASSUME faults \in [FaultKinds -> 0..MaxFaults], NEW kind
    PROVE  Times(kind) \in Nat
<1>1. ASSUME kind \in FaultKinds PROVE faults[kind] \in 0..MaxFaults
  BY <1>1
<1>2. QED
  BY <1>1 DEF Times

LEMMA KeyIsKey == ASSUME TypeOK, Busy PROVE task \in Task /\ Key \in Keys
BY DEF TypeOK, Busy, Task, Key, Keys

LEMMA TaskSteps ==
    ASSUME TypeOK, Busy
    PROVE  /\ \A s \in {"stat", "open", "copy", "read"} : Step(s) =>
                  task' = [step |-> s, tc |-> task.tc, leg |-> task.leg]
           /\ PathReturned =>
                  task' = IF task.leg = "in"
                          THEN [step |-> "stat", tc |-> task.tc, leg |-> "out"]
                          ELSE [step |-> "read", tc |-> task.tc, leg |-> "in"]
<1>1. task = [step |-> task.step, tc |-> task.tc, leg |-> task.leg]
  BY KeyIsKey DEF Task
<1>2. QED
  BY <1>1 DEF Step, PathReturned

LEMMA NotIdle ==
    ASSUME NEW s, NEW t, NEW l
    PROVE  [step |-> s, tc |-> t, leg |-> l] # Idle
<1>1. DOMAIN [step |-> s, tc |-> t, leg |-> l] = {"step", "tc", "leg"}
  OBVIOUS
<1>2. DOMAIN Idle = {"step"}
  BY DEF Idle
<1>3. QED
  BY <1>1, <1>2

LEMMA CacheInit == Init => CacheInv
<1> SUFFICES ASSUME Init PROVE CacheInv
  OBVIOUS
<1>1. Present = {} /\ ~Busy
  BY DEF Init, Present, Busy
<1>2. Range(tracked) = {} /\ IsInjective(tracked) /\ Len(tracked) = 0
  BY DEF Init, Range, IsInjective
<1>3. TypeOK
  BY CacheAssumption DEF Init, TypeOK
<1>4. TrackedHaveFiles
  BY <1>2, CacheAssumption DEF TrackedHaveFiles
<1>5. DiskAccounted
  <2>1. Stray = {}
    BY <1>1 DEF Stray
  <2>2. IsFiniteSet(Stray) /\ Cardinality(Stray) = 0
    BY <2>1, FS_EmptySet
  <2>3. Times("copy") = 0 /\ Times("remove") = 0 /\ Times("crash") = 0
    BY DEF Init, Times
  <2>4. QED
    BY <2>2, <2>3, CacheAssumption DEF DiskAccounted
<1>6. FetchedOnce
  BY <1>1 DEF FetchedOnce, At
<1>7. QED
  BY <1>3, <1>4, <1>5, <1>6 DEF CacheInv

(* A fault is counted, and a step that is none counts none.                *)
LEMMA FaultCounted ==
    ASSUME TypeOK, NEW kind, Fault(kind)
    PROVE  /\ faults' \in [FaultKinds -> 0..MaxFaults]
           /\ \A K : kind \in K => ~Without(K)'
           /\ \A K : kind \notin K => (Without(K)' <=> Without(K))
           /\ Times(kind)' = Times(kind) + 1 /\ \A x : x # kind => Times(x)' = Times(x)
<1>1. /\ kind \in FaultKinds /\ faults[kind] \in 0..MaxFaults /\ faults[kind] < MaxFaults
      /\ faults' = [faults EXCEPT ![kind] = @ + 1]
      /\ faults \in [FaultKinds -> 0..MaxFaults]
  BY DEF Fault, TypeOK
<1>2. faults[kind] + 1 \in 0..MaxFaults /\ faults[kind] + 1 # 0
  BY <1>1, CacheAssumption
<1>3. /\ faults' \in [FaultKinds -> 0..MaxFaults]
      /\ faults'[kind] # 0
      /\ \A x \in FaultKinds : x # kind => faults'[x] = faults[x]
  BY <1>1, <1>2
<1>4. Times(kind)' = Times(kind) + 1 /\ \A x : x # kind => Times(x)' = Times(x)
  BY <1>1, <1>3 DEF Times
<1>5. QED
  BY <1>1, <1>3, <1>4 DEF Without

(* What the faults so far may have left on the disk.                       *)
Escaped == Times("copy") + Times("remove") + Times("crash") * (Capacity + 1)

LEMMA EscapedGrows ==
    ASSUME TypeOK, NEW kind \in {"open", "copy", "remove", "crash"}, Fault(kind)
    PROVE  /\ Escaped \in Nat
           /\ Escaped' = CASE kind = "open"  -> Escaped
                           [] kind = "crash" -> Escaped + Capacity + 1
                           [] OTHER          -> Escaped + 1
<1>1. /\ Times("copy") \in Nat /\ Times("remove") \in Nat /\ Times("crash") \in Nat
      /\ Capacity \in Nat /\ Capacity' = Capacity
  BY TimesNat, CacheAssumption DEF TypeOK
<1>2. Times(kind)' = Times(kind) + 1 /\ \A x : x # kind => Times(x)' = Times(x)
  BY FaultCounted
<1>3. Times("crash") * (Capacity + 1) \in Nat
  BY ONLY <1>1
<1>4. Escaped \in Nat
  BY <1>1, <1>3 DEF Escaped
<1>5. CASE kind = "open"
  <2>1. /\ Times("copy")' = Times("copy")
        /\ Times("remove")' = Times("remove") /\ Times("crash")' = Times("crash")
    BY <1>2, <1>5
  <2>2. QED
    BY <1>1, <1>4, <1>5, <2>1 DEF Escaped
<1>6. CASE kind = "copy"
  <2>1. /\ Times("copy")' = Times("copy") + 1
        /\ Times("remove")' = Times("remove") /\ Times("crash")' = Times("crash")
    BY <1>2, <1>6
  <2>2. QED
    BY <1>1, <1>3, <1>6, <2>1 DEF Escaped
<1>7. CASE kind = "remove"
  <2>1. /\ Times("remove")' = Times("remove") + 1
        /\ Times("copy")' = Times("copy") /\ Times("crash")' = Times("crash")
    BY <1>2, <1>7
  <2>2. QED
    BY <1>1, <1>3, <1>7, <2>1 DEF Escaped
<1>8. CASE kind = "crash"
  <2>1. /\ Times("crash")' = Times("crash") + 1
        /\ Times("copy")' = Times("copy") /\ Times("remove")' = Times("remove")
    BY <1>2, <1>8
  <2>2. (Times("crash") + 1) * (Capacity + 1) = Times("crash") * (Capacity + 1) + Capacity + 1
    BY ONLY <1>1
  <2>3. QED
    BY <1>1, <1>3, <1>8, <2>1, <2>2 DEF Escaped
<1>9. QED
  BY <1>4, <1>5, <1>6, <1>7, <1>8

(* Steps that change neither the list nor the disk.                        *)
LEMMA TaskStepKeeps ==
    ASSUME CacheInv, UNCHANGED <<files, tracked, faults>>, TypeOK',
           At("copy") => At("copy")' /\ Key' = Key,
           At("copy")' => At("copy") /\ Key' = Key,
           At("open")' => Key' \notin Present
    PROVE  CacheInv'
<1>1. Present' = Present
  BY DEF Present
<1>2. TrackedHaveFiles'
  BY <1>1 DEF CacheInv, TrackedHaveFiles
<1>3. DiskAccounted'
  <2>1. Stray' = Stray
    BY <1>1 DEF Stray
  <2>2. \A kind : Times(kind)' = Times(kind)
    BY DEF Times
  <2>3. QED
    BY <2>1, <2>2 DEF CacheInv, DiskAccounted
<1>4. FetchedOnce'
  BY <1>1 DEF CacheInv, FetchedOnce
<1>5. QED
  BY <1>2, <1>3, <1>4 DEF CacheInv

(* Steps that fail: the list may be gone, the files are not.               *)
LEMMA FaultKeeps ==
    ASSUME CacheInv, NEW kind, Fault(kind), files' = files, stored' = stored,
           served' = served, task' = Idle,
           \/ kind = "open" /\ ~At("copy") /\ tracked' = tracked
           \/ kind = "copy" /\ At("copy") /\ tracked' = tracked
           \/ kind = "crash" /\ tracked' = <<>>
    PROVE  CacheInv'
<1>1. Present' = Present /\ ~Busy'
  BY DEF Present, Busy
<1>2. TypeOK
  BY DEF CacheInv
<1>3. /\ faults' \in [FaultKinds -> 0..MaxFaults] /\ faults \in [FaultKinds -> 0..MaxFaults]
      /\ Times(kind)' = Times(kind) + 1 /\ \A x : x # kind => Times(x)' = Times(x)
  BY <1>2, FaultCounted DEF TypeOK
<1>4. TypeOK'
  <2>1. tracked \in Seq(Keys) /\ <<>> \in Seq(Keys)
    BY <1>2 DEF TypeOK
  <2>2. tracked' \in Seq(Keys)
    BY <2>1
  <2>3. QED
    BY <1>2, <1>3, <2>2 DEF TypeOK
<1>5. TrackedHaveFiles'
  <2>1. CASE tracked' = tracked
    BY <1>1, <2>1 DEF CacheInv, TrackedHaveFiles
  <2>2. CASE tracked' = <<>>
    <3>1. Range(tracked') = {} /\ IsInjective(tracked') /\ Len(tracked') = 0
      BY <2>2 DEF Range, IsInjective
    <3>2. QED
      BY <3>1, CacheAssumption DEF TrackedHaveFiles
  <2>3. QED
    BY <2>1, <2>2
<1>6. DiskAccounted'
  <2>1. IsFiniteSet(Stray) /\ Cardinality(Stray) \in Nat /\ Cardinality(Stray) <= Escaped
    BY FS_CardinalityType DEF CacheInv, DiskAccounted, Escaped
  <2>2. /\ Escaped \in Nat /\ Capacity \in Nat
        /\ kind = "open"  => Escaped' = Escaped
        /\ kind = "copy"  => Escaped' = Escaped + 1
        /\ kind = "crash" => Escaped' = Escaped + Capacity + 1
    BY <1>2, EscapedGrows, CacheAssumption
  <2>3. Stray' = Present \ Range(tracked')
    BY <1>1 DEF Stray, At
  <2>4. IsFiniteSet(Stray \cup {Key}) /\ Cardinality(Stray \cup {Key}) \in Nat
        /\ Cardinality(Stray \cup {Key}) <= Cardinality(Stray) + 1
    <3>1. IsFiniteSet(Stray \cup {Key})
          /\ Cardinality(Stray \cup {Key}) = IF Key \in Stray THEN Cardinality(Stray)
                                                             ELSE Cardinality(Stray) + 1
      BY ONLY <2>1, FS_AddElement
    <3>2. QED
      BY ONLY <2>1, <3>1
  <2>5. CASE kind = "open"
    <3>1. Stray' = Stray /\ Escaped' = Escaped
      BY <2>2, <2>3, <2>5 DEF Stray
    <3>2. QED
      BY <2>1, <3>1 DEF DiskAccounted, Escaped
  <2>6. CASE kind = "copy"
    <3>1. Stray' \subseteq Stray \cup {Key} /\ Escaped' = Escaped + 1
      BY <2>2, <2>3, <2>6 DEF Stray
    <3>2. IsFiniteSet(Stray') /\ Cardinality(Stray') <= Cardinality(Stray \cup {Key})
          /\ Cardinality(Stray') \in Nat
      BY ONLY <2>4, <3>1, FS_Subset, FS_CardinalityType
    <3>3. Cardinality(Stray') <= Escaped'
      BY ONLY <2>1, <2>2, <2>4, <3>1, <3>2
    <3>4. QED
      BY ONLY <3>2, <3>3 DEF DiskAccounted, Escaped
  <2>7. CASE kind = "crash"
    <3> DEFINE held == Range(tracked)
    <3>1. Stray' \subseteq (Stray \cup {Key}) \cup held /\ Escaped' = Escaped + Capacity + 1
      BY <2>2, <2>3, <2>7 DEF Stray
    <3>2. IsFiniteSet(held) /\ Cardinality(held) <= Capacity /\ Cardinality(held) \in Nat
      BY <1>2, CountedFiles, FS_CardinalityType DEF CacheInv
    <3> HIDE DEF held
    <3>3. /\ IsFiniteSet((Stray \cup {Key}) \cup held)
          /\ Cardinality((Stray \cup {Key}) \cup held) <=
                 Cardinality(Stray \cup {Key}) + Cardinality(held)
      BY ONLY <2>4, <3>2, UnionIsSmall
    <3>4. IsFiniteSet(Stray') /\ Cardinality(Stray') <= Cardinality((Stray \cup {Key}) \cup held)
      BY ONLY <3>1, <3>3, FS_Subset
    <3>5. /\ Cardinality(Stray') \in Nat
          /\ Cardinality((Stray \cup {Key}) \cup held) \in Nat
      BY ONLY <3>3, <3>4, FS_CardinalityType
    <3>6. Cardinality(Stray') <= Escaped'
      BY ONLY <2>1, <2>2, <2>4, <3>1, <3>2, <3>3, <3>4, <3>5
    <3>7. QED
      BY ONLY <3>4, <3>6 DEF DiskAccounted, Escaped
  <2>8. QED
    BY <2>5, <2>6, <2>7
<1>7. FetchedOnce'
  BY <1>1 DEF FetchedOnce, At
<1>8. QED
  BY <1>4, <1>5, <1>6, <1>7 DEF CacheInv

LEMMA OpenKeeps ==
    ASSUME CacheInv, Open
    PROVE  CacheInv' /\ Present' = Present \cup {Key} /\ Key \notin Present
<1> DEFINE new == [version |-> stored[Key], whole |-> FALSE]
<1>1. /\ TypeOK /\ Busy /\ At("open")
      /\ files' = [files EXCEPT ![Key] = new]
      /\ UNCHANGED <<stored, tracked, served, faults>>
      /\ task' = [step |-> "copy", tc |-> task.tc, leg |-> task.leg]
  BY TaskSteps DEF CacheInv, Open, At
<1>2. task \in Task /\ Key \in Keys /\ Key \notin Present
  BY <1>1, KeyIsKey DEF CacheInv, FetchedOnce
<1>3. new \in File /\ new # Absent
  <2>1. stored[Key] \in 1..MaxVersion
    BY <1>1, <1>2 DEF TypeOK
  <2>2. stored[Key] # 0
    BY <2>1, CacheAssumption
  <2>3. QED
    BY <2>1, <2>2 DEF File, Absent
<1> HIDE DEF new
<1>4. Present' = Present \cup {Key}
  <2>1. \A x \in Keys : files'[x] = IF x = Key THEN new ELSE files[x]
    BY <1>1 DEF TypeOK
  <2>2. QED
    BY <1>2, <1>3, <2>1 DEF Present
<1>5. Busy' /\ At("copy")' /\ ~At("open")' /\ Key' = Key
  BY <1>1, NotIdle DEF Busy, At, Key
<1>6. TypeOK'
  <2>1. task' \in Task
    BY <1>1, <1>2 DEF Task
  <2>2. QED
    BY <1>1, <1>2, <1>3, <2>1 DEF TypeOK
<1>7. TrackedHaveFiles'
  BY <1>1, <1>4 DEF CacheInv, TrackedHaveFiles
<1>8. DiskAccounted'
  <2>1. \A kind : Times(kind)' = Times(kind)
    BY <1>1 DEF Times
  <2>2. ~At("copy")
    BY <1>1 DEF At
  <2>3. Stray' = Stray
    BY <1>1, <1>2, <1>4, <1>5, <2>2 DEF Stray
  <2>4. QED
    BY <2>1, <2>3 DEF CacheInv, DiskAccounted
<1>9. FetchedOnce'
  <2>1. Key \notin Range(tracked)
    BY <1>2 DEF CacheInv, TrackedHaveFiles
  <2>2. QED
    BY <1>1, <1>4, <1>5, <2>1 DEF FetchedOnce
<1>10. QED
  BY <1>2, <1>4, <1>6, <1>7, <1>8, <1>9 DEF CacheInv

(* The file at hand is counted; the one evicted for it is removed, or its  *)
(* removal fails.                                                          *)
CopyRemoves(removed) ==
    /\ Put(Key, removed)
    /\ \/ removed = Gone /\ faults' = faults
       \/ removed = {} /\ Fault("remove")

LEMMA CopyOrRemoveFails ==
    ASSUME CacheInv, Copy \/ RemoveFails
    PROVE  /\ At("copy") /\ PathReturned /\ UNCHANGED <<stored, served>>
           /\ \E removed \in SUBSET Gone : CopyRemoves(removed)
           /\ Copy => CopyRemoves(Gone) /\ faults' = faults
           /\ RemoveFails => CopyRemoves({}) /\ Fault("remove")
<1>1. /\ TypeOK /\ TrackedHaveFiles /\ At("copy") /\ PathReturned
      /\ UNCHANGED <<stored, served>>
      /\ Key \in Keys /\ Key \notin Range(tracked)
  BY KeyIsKey DEF CacheInv, FetchedOnce, Copy, RemoveFails, At
<1>2. CASE Copy
  <2>1. Put(Key, Overflow) /\ faults' = faults
    BY <1>2 DEF Copy
  <2>2. Overflow = Gone
    BY <1>1, <2>1, PutMoves DEF Overflow
  <2>3. CopyRemoves(Gone)
    BY <2>1, <2>2 DEF CopyRemoves
  <2>4. CASE RemoveFails
    <3>1. Fault("remove")
      BY <2>4 DEF RemoveFails
    <3>2. Times("remove")' = Times("remove") + 1 /\ Times("remove") \in Nat
      BY <1>1, <3>1, FaultCounted, TimesNat DEF TypeOK
    <3>3. Times("remove")' = Times("remove")
      BY <2>1 DEF Times
    <3>4. QED
      BY ONLY <3>2, <3>3
  <2>5. QED
    BY <1>1, <2>1, <2>3, <2>4
<1>3. CASE RemoveFails /\ ~Copy
  BY <1>1, <1>3 DEF RemoveFails, CopyRemoves
<1>4. QED
  BY <1>2, <1>3

LEMMA CopyKeeps ==
    ASSUME CacheInv, Copy \/ RemoveFails
    PROVE  /\ CacheInv'
           /\ \E removed \in SUBSET Gone :
                 /\ PutDone(Key, removed) /\ Present' = Present \ removed
                 /\ Copy => removed = Gone
<1>0. PICK removed \in SUBSET Gone : CopyRemoves(removed) /\ (Copy => removed = Gone)
  BY CopyOrRemoveFails
<1>1. /\ TypeOK /\ TrackedHaveFiles /\ Busy /\ At("copy")
      /\ Put(Key, removed) /\ PathReturned
      /\ UNCHANGED <<stored, served>>
  BY <1>0, CopyOrRemoveFails DEF CacheInv, CopyRemoves, At
<1>2. task \in Task /\ Key \in Keys /\ Key \in Present /\ Key \notin Range(tracked)
  BY <1>1, KeyIsKey DEF CacheInv, FetchedOnce
<1>3. PutDone(Key, removed)
  BY <1>1, <1>2, PutMoves
<1>4. Present' = Present \ removed
  <2>1. Key \notin removed
    BY <1>0, <1>3 DEF PutDone
  <2>2. QED
    BY <1>1, <1>2, <1>3, <2>1, PresentAfterPut
<1>5. /\ task' \in Task
      /\ Busy' /\ ~At("copy")' /\ ~At("open")'
  <2>1. CASE task.leg = "in"
    <3>1. task' = [step |-> "stat", tc |-> task.tc, leg |-> "out"]
      BY <1>1, <2>1, TaskSteps
    <3>2. QED
      BY <1>2, <3>1, NotIdle DEF Task, Legs, Busy, At
  <2>2. CASE task.leg # "in"
    <3>1. task' = [step |-> "read", tc |-> task.tc, leg |-> "in"]
      BY <1>1, <2>2, TaskSteps
    <3>2. QED
      BY <1>2, <3>1, NotIdle DEF Task, Legs, Busy, At
  <2>3. QED
    BY <2>1, <2>2
<1>6. TypeOK'
  <2>1. [files[Key] EXCEPT !.whole = TRUE] \in File
    <3>1. files[Key] \in File
      BY <1>1, <1>2 DEF TypeOK, Present
    <3>2. QED
      BY <3>1 DEF File
  <2>2. files' \in [Keys -> File \cup {Absent}]
    BY <1>1, <1>3, <2>1 DEF PutDone, TypeOK
  <2>3. tracked' \in Seq(Keys)
    BY <1>3 DEF PutDone
  <2>4. faults' \in [FaultKinds -> 0..MaxFaults]
    BY <1>0, <1>1, FaultCounted DEF CopyRemoves, TypeOK
  <2>5. QED
    BY <1>1, <1>5, <2>2, <2>3, <2>4 DEF TypeOK
<1>7. TrackedHaveFiles'
  <2>1. Len(tracked') <= Capacity
    <3>1. Len(tracked) \in Nat /\ Len(tracked) <= Capacity /\ Capacity \in Nat
      BY <1>1, CacheAssumption DEF TypeOK, TrackedHaveFiles
    <3>2. CASE Full
      BY <1>3, <3>1, <3>2 DEF PutDone
    <3>3. CASE ~Full
      <4>1. Len(tracked) # Capacity /\ Len(tracked') = Len(tracked) + 1
        BY <1>3, <3>3 DEF PutDone, Full
      <4>2. QED
        BY ONLY <3>1, <4>1
    <3>4. QED
      BY <3>2, <3>3
  <2>2. Range(tracked') \subseteq Present'
    BY <1>0, <1>1, <1>2, <1>3, <1>4 DEF PutDone, TrackedHaveFiles
  <2>3. QED
    BY <1>3, <2>1, <2>2 DEF TrackedHaveFiles, PutDone
<1>8. DiskAccounted'
  <2>1. Stray' = Stray \cup (Gone \ removed) /\ Gone \subseteq Range(tracked)
    <3>1. Stray = Present \ (Range(tracked) \cup {Key})
      BY <1>1 DEF Stray
    <3>2. Stray' = Present' \ Range(tracked')
      BY <1>5 DEF Stray
    <3>3. /\ Stray' = (Present \ removed) \ (({Key} \cup Range(tracked)) \ Gone)
          /\ Gone \subseteq Range(tracked) /\ Key \notin Gone
      BY <1>3, <1>4, <3>2 DEF PutDone
    <3>4. removed \subseteq Gone /\ Range(tracked) \subseteq Present
      BY <1>0, <1>1 DEF TrackedHaveFiles
    <3>5. QED
      BY ONLY <3>1, <3>3, <3>4
  <2>2. IsFiniteSet(Stray) /\ Cardinality(Stray) \in Nat /\ Cardinality(Stray) <= Escaped
    BY FS_CardinalityType DEF CacheInv, DiskAccounted, Escaped
  <2>3. CASE removed = Gone /\ faults' = faults
    <3>1. Stray' = Stray /\ \A kind : Times(kind)' = Times(kind)
      BY <2>1, <2>3 DEF Times
    <3>2. QED
      BY <3>1 DEF CacheInv, DiskAccounted
  <2>4. CASE removed = {} /\ Fault("remove")
    <3>1. Escaped \in Nat /\ Escaped' = Escaped + 1
      BY <1>1, <2>4, EscapedGrows
    <3>2. IsFiniteSet(Gone) /\ Cardinality(Gone) \in Nat /\ Cardinality(Gone) <= 1
      <4>1. PICK last : Gone = {} \/ Gone = {last}
        BY DEF Gone
      <4>2. IsFiniteSet({}) /\ Cardinality({}) = 0
        BY FS_EmptySet
      <4>3. IsFiniteSet({last}) /\ Cardinality({last}) = 1
        BY FS_Singleton
      <4>4. QED
        BY ONLY <4>1, <4>2, <4>3
    <3>3. Stray' = Stray \cup Gone
      BY <2>1, <2>4
    <3>4. /\ IsFiniteSet(Stray \cup Gone)
          /\ Cardinality(Stray \cup Gone) <= Cardinality(Stray) + Cardinality(Gone)
          /\ Cardinality(Stray \cup Gone) \in Nat
      BY ONLY <2>2, <3>2, UnionIsSmall, FS_CardinalityType
    <3>5. Cardinality(Stray \cup Gone) <= Escaped'
      BY ONLY <2>2, <3>1, <3>2, <3>4
    <3>6. QED
      BY ONLY <3>3, <3>4, <3>5 DEF DiskAccounted, Escaped
  <2>5. QED
    BY <1>0, <2>3, <2>4 DEF CopyRemoves
<1>9. FetchedOnce'
  BY <1>5 DEF FetchedOnce
<1>10. CacheInv'
  BY <1>6, <1>7, <1>8, <1>9 DEF CacheInv
<1>11. QED
  BY <1>0, <1>3, <1>4, <1>10

(* One lemma for each of the other actions.                                *)
LEMMA OtherStepsKeep ==
    ASSUME CacheInv,
           \/ \E tc \in Testcases : Begin(tc)
           \/ Hit \/ Miss \/ OpenFails \/ CopyFails \/ Read \/ Crash
           \/ \E k \in Keys : Upload(k)
           \/ UNCHANGED vars
    PROVE  CacheInv'
<1>1. TypeOK
  BY DEF CacheInv
<1>2. ASSUME NEW tc \in Testcases, Begin(tc) PROVE CacheInv'
  <2>1. /\ task' = [step |-> "stat", tc |-> tc, leg |-> "in"] /\ ~Busy
        /\ served' = [leg \in Legs |-> Absent]
        /\ UNCHANGED <<stored, files, tracked, faults>>
    BY <1>2 DEF Begin
  <2>2. task' \in Task
    BY <2>1 DEF Task, Legs
  <2>3. TypeOK'
    BY <1>1, <2>1, <2>2 DEF TypeOK
  <2>4. ~At("copy") /\ ~At("copy")' /\ ~At("open")'
    BY <2>1 DEF At, Busy
  <2>5. QED
    BY <2>1, <2>3, <2>4, TaskStepKeeps
<1>3. CASE Hit
  <2>1. /\ Busy /\ task.step = "stat" /\ PathReturned
        /\ UNCHANGED <<stored, files, tracked, served, faults>>
    BY <1>3 DEF Hit, At
  <2>2. task' \in Task /\ task'.step \in {"stat", "read"}
    <3>1. CASE task.leg = "in"
      <4>1. task' = [step |-> "stat", tc |-> task.tc, leg |-> "out"]
        BY <1>1, <2>1, <3>1, TaskSteps
      <4>2. QED
        BY <1>1, <2>1, <4>1, KeyIsKey DEF Task, Legs
    <3>2. CASE task.leg # "in"
      <4>1. task' = [step |-> "read", tc |-> task.tc, leg |-> "in"]
        BY <1>1, <2>1, <3>2, TaskSteps
      <4>2. QED
        BY <1>1, <2>1, <4>1, KeyIsKey DEF Task, Legs
    <3>3. QED
      BY <3>1, <3>2
  <2>3. TypeOK'
    BY <1>1, <2>1, <2>2 DEF TypeOK
  <2>4. ~At("copy") /\ ~At("copy")' /\ ~At("open")'
    BY <2>1, <2>2 DEF At
  <2>5. QED
    BY <2>1, <2>3, <2>4, TaskStepKeeps
<1>4. CASE Miss
  <2>1. /\ Busy /\ task.step = "stat" /\ Key \notin Present
        /\ task' = [step |-> "open", tc |-> task.tc, leg |-> task.leg]
        /\ UNCHANGED <<stored, files, tracked, served, faults>>
    BY <1>1, <1>4, TaskSteps DEF Miss, At
  <2>2. task' \in Task /\ task'.step = "open" /\ Key' = Key
    BY <1>1, <2>1, KeyIsKey DEF Task, Key
  <2>3. TypeOK'
    BY <1>1, <2>1, <2>2 DEF TypeOK
  <2>4. ~At("copy") /\ ~At("copy")'
    BY <2>1, <2>2 DEF At
  <2>5. QED
    BY <2>1, <2>2, <2>3, <2>4, TaskStepKeeps
<1>5. CASE OpenFails \/ CopyFails
  BY <1>5, FaultKeeps DEF OpenFails, CopyFails, At
<1>6. CASE Crash
  BY <1>6, FaultKeeps DEF Crash
<1>7. CASE Read
  <2>1. /\ Busy /\ task.step = "read"
        /\ served' = [served EXCEPT ![task.leg] = files[Key]]
        /\ UNCHANGED <<stored, files, tracked, faults>>
        /\ task' = IF task.leg = "in" /\ Key \in Present
                   THEN [task EXCEPT !.leg = "out"] ELSE Idle
    BY <1>7 DEF Read, At
  <2>2. task \in Task /\ Key \in Keys
    BY <1>1, <2>1, KeyIsKey
  <2>3. [task EXCEPT !.leg = "out"] \in Task /\ [task EXCEPT !.leg = "out"].step = "read"
    BY <2>1, <2>2 DEF Task, Legs
  <2>4. served' \in [Legs -> File \cup {Absent}]
    BY <1>1, <2>1, <2>2 DEF TypeOK
  <2>5. TypeOK'
    BY <1>1, <2>1, <2>3, <2>4 DEF TypeOK
  <2>6. ~At("copy") /\ ~At("copy")' /\ ~At("open")'
    BY <2>1, <2>3 DEF At, Busy
  <2>7. QED
    BY <2>1, <2>5, <2>6, TaskStepKeeps
<1>8. ASSUME NEW k \in Keys, Upload(k) PROVE CacheInv'
  <2>1. /\ UNCHANGED <<files, tracked, task, served, faults>>
        /\ stored[k] < MaxVersion /\ stored' = [stored EXCEPT ![k] = @ + 1]
    BY <1>8 DEF Upload
  <2>2. stored[k] \in 1..MaxVersion /\ stored[k] + 1 \in 1..MaxVersion
    BY <1>1, <2>1, CacheAssumption DEF TypeOK
  <2>3. TypeOK'
    BY <1>1, <2>1, <2>2 DEF TypeOK
  <2>4. Key' = Key /\ (At("copy")' <=> At("copy")) /\ (At("open")' <=> At("open"))
    BY <2>1 DEF Key, At, Busy
  <2>5. QED
    BY <2>1, <2>3, <2>4, TaskStepKeeps DEF CacheInv, FetchedOnce
<1>9. CASE UNCHANGED vars
  <2>1. UNCHANGED <<stored, files, tracked, task, served, faults>>
    BY <1>9 DEF vars
  <2>2. Key' = Key /\ (At("copy")' <=> At("copy")) /\ (At("open")' <=> At("open"))
    BY <2>1 DEF Key, At, Busy
  <2>3. TypeOK'
    BY <1>1, <2>1 DEF TypeOK
  <2>4. QED
    BY <2>1, <2>2, <2>3, TaskStepKeeps DEF CacheInv, FetchedOnce
<1>10. QED
  BY <1>2, <1>3, <1>4, <1>5, <1>6, <1>7, <1>8, <1>9

(* The list and the disk agree in every reachable state.                   *)
THEOREM CacheInvariance == Spec => []CacheInv
<1>1. CacheInv /\ [Next]_vars => CacheInv'
  BY OpenKeeps, CopyKeeps, OtherStepsKeep DEF Next
<1>2. QED
  BY CacheInit, <1>1, PTL DEF Spec

(* Every variable of the cache keeps its type.                             *)
THEOREM CacheTypes == Spec => []TypeOK
<1>1. CacheInv => TypeOK
  BY DEF CacheInv
<1>2. QED
  BY <1>1, CacheInvariance, PTL

(* Whatever is fetched, evicted, uploaded or restarted, each key the list  *)
(* counts is counted once and has its file, and the list keeps to its      *)
(* capacity.                                                               *)
THEOREM TrackedFilesExist == Spec => []TrackedHaveFiles
<1>1. CacheInv => TrackedHaveFiles
  BY DEF CacheInv
<1>2. QED
  BY <1>1, CacheInvariance, PTL

(* Only faults let files escape the list, and each only so many: the disk  *)
(* holds at most what the list may count, the copy in hand and those.      *)
THEOREM DiskIsAccountedFor == Spec => []DiskAccounted
<1>1. CacheInv => DiskAccounted
  BY DEF CacheInv
<1>2. QED
  BY <1>1, CacheInvariance, PTL

(***************************************************************************)
(* The paths returned for a testcase.                                      *)
(***************************************************************************)

In(t)  == <<t, "in">>
Out(t) == <<t, "out">>

Counted == Range(tracked)

(* The judge has an input of t and is about to get its output.             *)
GettingOutput(t) ==
    Busy /\ task.tc = t /\ task.leg = "out" /\ task.step \in {"stat", "open", "copy"}

Copying(k) == At("copy") /\ Key = k

(* An input is counted right behind its output.                            *)
Adjacent(t) ==
    \A i, j \in DOMAIN tracked :
        tracked[i] = In(t) /\ tracked[j] = Out(t) => i = j + 1

(* The files of t come and go in pairs.  An output that outlives its input *)
(* is the next to be evicted.                                              *)
InPairs(t) ==
    /\ In(t) \in Counted => Out(t) \in Present
    /\ Adjacent(t)
    /\ Out(t) \in Counted /\ In(t) \notin Counted
         /\ (In(t) \notin Present \/ Copying(In(t)))
       => Full /\ tracked[Len(tracked)] = Out(t)

(* While an output is fetched its input is the newest entry, or none.      *)
HalfPair(t) ==
    /\ In(t) \in Present
    /\ IF Out(t) \in Present /\ ~Copying(Out(t))
       THEN Adjacent(t)
       ELSE In(t) \in Counted => tracked[1] = In(t)
    /\ At("open") => Out(t) \notin Present

Reading ==
    At("read") => /\ Key \in Present
                  /\ task.leg = "in" => Out(task.tc) \in Present

Pairs ==
    /\ \A t \in Testcases : IF GettingOutput(t) THEN HalfPair(t) ELSE InPairs(t)
    /\ Reading

LEMMA PairKeys ==
    ASSUME NEW t \in Testcases
    PROVE  In(t) \in Keys /\ Out(t) \in Keys /\ In(t) # Out(t)
BY DEF In, Out, Keys, Legs

LEMMA KeyOfTask ==
    ASSUME TypeOK, Busy
    PROVE  /\ task.tc \in Testcases
           /\ Key = IF task.leg = "in" THEN In(task.tc) ELSE Out(task.tc)
BY KeyIsKey DEF Task, Legs, Key, In, Out

(* The testcases that a Put of another one's key moves.                    *)
LEMMA PutKeepsOthers ==
    ASSUME TypeOK, TrackedHaveFiles, NEW k \in Present, k \notin Counted,
           NEW removed \in SUBSET Gone, PutDone(k, removed),
           Present' = Present \ removed, ~At("copy")',
           NEW t \in Testcases, k # In(t), k # Out(t), InPairs(t)
    PROVE  InPairs(t)'
<1>1. /\ tracked \in Seq(Keys) /\ Len(tracked) \in Nat /\ DOMAIN tracked = 1..Len(tracked)
      /\ Capacity \in Nat \ {0} /\ Len(tracked) <= Capacity
      /\ \A i, j \in DOMAIN tracked : tracked[i] = tracked[j] => i = j
      /\ Counted \subseteq Present
  BY CacheAssumption DEF TypeOK, TrackedHaveFiles, IsInjective, Counted
<1>2. /\ tracked' \in Seq(Keys) /\ Len(tracked') \in Nat /\ DOMAIN tracked' = 1..Len(tracked')
      /\ tracked'[1] = k
      /\ \A i \in 2..Len(tracked') : tracked'[i] = tracked[i-1]
      /\ Len(tracked') = IF Full THEN Capacity ELSE Len(tracked) + 1
      /\ Counted' = ({k} \cup Counted) \ Gone
  BY DEF PutDone, Counted
<1>3. \A i \in DOMAIN tracked' : tracked'[i] \in {In(t), Out(t)} =>
          i - 1 \in DOMAIN tracked /\ tracked'[i] = tracked[i-1] /\ i \in Nat
  <2> SUFFICES ASSUME NEW i \in DOMAIN tracked', tracked'[i] \in {In(t), Out(t)}
               PROVE  i - 1 \in DOMAIN tracked /\ tracked'[i] = tracked[i-1] /\ i \in Nat
    OBVIOUS
  <2>1. i \in 2..Len(tracked')
    BY <1>2
  <2>2. Len(tracked') <= Len(tracked) + 1
    <3>1. CASE Full
      <4>1. Len(tracked') = Len(tracked)
        BY <1>2, <3>1 DEF Full
      <4>2. QED
        BY <1>1, <4>1
    <3>2. CASE ~Full
      BY <1>1, <1>2, <3>2
    <3>3. QED
      BY <3>1, <3>2
  <2>3. i - 1 \in 1..Len(tracked) /\ i \in Nat
    BY ONLY <1>1, <1>2, <2>1, <2>2
  <2>4. QED
    BY <1>1, <1>2, <2>1, <2>3
<1>4. Adjacent(t)'
  <2> SUFFICES ASSUME NEW i \in DOMAIN tracked', NEW j \in DOMAIN tracked',
                      tracked'[i] = In(t), tracked'[j] = Out(t)
               PROVE  i = j + 1
    BY DEF Adjacent, In, Out
  <2>1. /\ i - 1 \in DOMAIN tracked /\ tracked[i-1] = In(t) /\ i \in Nat
        /\ j - 1 \in DOMAIN tracked /\ tracked[j-1] = Out(t) /\ j \in Nat
    BY <1>3
  <2>2. i - 1 = (j - 1) + 1
    BY <2>1 DEF InPairs, Adjacent
  <2>3. QED
    BY <2>1, <2>2
<1>5. ASSUME In(t) \in Counted' PROVE Out(t) \in Present'
  <2>1. In(t) \in Counted /\ Out(t) \in Present
    BY <1>2, <1>5 DEF InPairs
  <2>2. Out(t) \notin Gone
    <3>1. SUFFICES ASSUME Full, tracked[Len(tracked)] = Out(t) PROVE FALSE
      BY DEF Gone
    <3>2. PICK i \in DOMAIN tracked : tracked[i] = In(t)
      BY <2>1 DEF Counted, Range
    <3>3. Len(tracked) \in DOMAIN tracked
      BY <1>1, <3>1 DEF Full
    <3>4. i = Len(tracked) + 1
      BY <3>1, <3>2, <3>3 DEF InPairs, Adjacent
    <3>5. QED
      BY <1>1, <3>2, <3>4
  <2>3. QED
    BY <2>1, <2>2
<1>6. ASSUME Out(t) \in Counted', In(t) \notin Counted', In(t) \notin Present'
      PROVE  Full' /\ tracked'[Len(tracked')] = Out(t)
  <2>1. PICK j \in DOMAIN tracked' : tracked'[j] = Out(t)
    BY <1>6 DEF Counted, Range
  <2>2. j - 1 \in DOMAIN tracked /\ tracked[j-1] = Out(t) /\ j \in Nat
    BY <1>3, <2>1
  <2>3. Out(t) \in Counted
    BY <1>2, <1>6
  <2>4. CASE In(t) \in Counted
    <3>1. In(t) \in Gone
      BY <1>2, <1>6, <2>4
    <3>2. Full /\ tracked[Len(tracked)] = In(t)
      BY <3>1 DEF Gone
    <3>3. Len(tracked) \in DOMAIN tracked
      BY <1>1, <3>2 DEF Full
    <3>4. Len(tracked) = (j - 1) + 1
      BY <2>2, <3>2, <3>3 DEF InPairs, Adjacent
    <3>5. j = Len(tracked) /\ Len(tracked') = Capacity /\ Len(tracked) = Capacity
      BY <1>2, <2>2, <3>2, <3>4 DEF Full
    <3>6. QED
      BY <2>1, <3>5 DEF Full
  <2>5. CASE In(t) \notin Counted
    <3>1. Gone \subseteq Counted
      BY DEF PutDone, Counted
    <3>2. In(t) \notin Present
      BY <1>6, <2>5, <3>1
    <3>3. Full /\ tracked[Len(tracked)] = Out(t)
      BY <2>3, <2>5, <3>2 DEF InPairs
    <3>4. Out(t) \in Gone
      BY <3>3 DEF Gone
    <3>5. QED
      BY <1>2, <1>6, <3>4
  <2>6. QED
    BY <2>4, <2>5
<1>7. ~Copying(In(t))'
  BY DEF Copying
<1>8. QED
  BY <1>4, <1>5, <1>6, <1>7 DEF InPairs, In, Out

(* A step that leaves the list and the files alone.                        *)
LEMMA PairsUnmoved ==
    ASSUME NEW t, UNCHANGED <<tracked, files>>, InPairs(t),
           Copying(In(t))' => Copying(In(t))
    PROVE  InPairs(t)'
<1>1. Present' = Present /\ Counted' = Counted /\ Full' = Full
  BY DEF Present, Counted, Full
<1>2. QED
  BY <1>1 DEF InPairs, Adjacent, In, Out

LEMMA BeginPairs ==
    ASSUME Pairs, NEW tc \in Testcases, Begin(tc)
    PROVE  Pairs'
<1>1. /\ ~Busy /\ task' = [step |-> "stat", tc |-> tc, leg |-> "in"]
      /\ UNCHANGED <<tracked, files>>
  BY DEF Begin
<1>2. ASSUME NEW t \in Testcases PROVE ~GettingOutput(t)' /\ InPairs(t)'
  <2>1. ~GettingOutput(t) /\ ~GettingOutput(t)' /\ ~Copying(In(t))'
    BY <1>1 DEF GettingOutput, Copying, At
  <2>2. QED
    BY <1>1, <2>1, PairsUnmoved DEF Pairs
<1>3. ~At("read")'
  BY <1>1 DEF At
<1>4. QED
  BY <1>2, <1>3 DEF Pairs, Reading

LEMMA HitPairs ==
    ASSUME CacheInv, Pairs, Hit
    PROVE  Pairs'
<1>0. PICK tc \in Testcases : tc = task.tc
  BY KeyIsKey DEF CacheInv, Hit, Miss, At, Task
<1>1. /\ TypeOK /\ Busy /\ task.step = "stat" /\ Key \in Present
      /\ UNCHANGED <<tracked, files>>
      /\ tc \in Testcases /\ task.leg \in Legs
  BY <1>0, KeyIsKey DEF CacheInv, Hit, At, Task
<1>2. /\ Present' = Present /\ Counted' = Counted
      /\ \A t : Adjacent(t)' <=> Adjacent(t)
  BY <1>1 DEF Present, Counted, Adjacent, In, Out
<1>3. CASE task.leg = "in"
  <2>1. task' = [step |-> "stat", tc |-> tc, leg |-> "out"]
    BY <1>0, <1>1, <1>3, TaskSteps DEF Hit
  <2>2. Key = In(tc)
    BY <1>0, <1>1, <1>3, KeyOfTask
  <2>3. Busy' /\ ~At("copy")' /\ ~At("open")' /\ ~At("read")'
    BY <2>1, NotIdle DEF Busy, At
  <2>4. ASSUME NEW t \in Testcases
        PROVE  ~GettingOutput(t) /\ InPairs(t) /\ (GettingOutput(t)' <=> t = tc)
    BY <1>0, <1>3, <2>1, <2>3 DEF GettingOutput, Pairs
  <2>5. HalfPair(tc)'
    <3>1. In(tc)' = In(tc) /\ Out(tc)' = Out(tc)
      BY DEF In, Out
    <3>2. Out(tc) \in Present \/ In(tc) \notin Counted
      BY <1>1, <2>4 DEF InPairs
    <3>3. Adjacent(tc)
      BY <1>1, <2>4 DEF InPairs
    <3>4. Present' = Present /\ Counted' = Counted /\ tracked' = tracked /\ Adjacent(tc)'
      BY <1>1, <1>2, <3>3
    <3>5. QED
      BY <1>1, <2>2, <2>3, <3>1, <3>2, <3>4 DEF HalfPair, Copying
  <2>6. ASSUME NEW t \in Testcases, t # tc PROVE InPairs(t)'
    <3>1. ~Copying(In(t))'
      BY <2>3 DEF Copying
    <3>2. QED
      BY <1>1, <2>4, <3>1, PairsUnmoved
  <2>7. QED
    BY <2>3, <2>4, <2>5, <2>6 DEF Pairs, Reading
<1>4. CASE task.leg = "out"
  <2>1. task' = [step |-> "read", tc |-> tc, leg |-> "in"]
    BY <1>0, <1>1, <1>4, TaskSteps DEF Hit
  <2>2. Key = Out(tc) /\ Key' = In(tc)
    BY <1>0, <1>1, <1>4, <2>1, KeyOfTask DEF Key, In
  <2>3. ~At("copy") /\ ~At("copy")'
    BY <1>1, <2>1 DEF At
  <2>4. GettingOutput(tc) /\ HalfPair(tc)
    BY <1>0, <1>1, <1>4 DEF GettingOutput, Pairs
  <2>5. In(tc) \in Present /\ Out(tc) \in Present /\ Adjacent(tc)
    BY <1>1, <2>2, <2>3, <2>4 DEF HalfPair, Copying
  <2>6. InPairs(tc)
    BY <2>3, <2>5 DEF InPairs, Copying
  <2>7. ASSUME NEW t \in Testcases PROVE InPairs(t) /\ ~GettingOutput(t)'
    BY <1>0, <2>1, <2>6 DEF Pairs, GettingOutput
  <2>8. ASSUME NEW t \in Testcases PROVE InPairs(t)'
    <3>1. ~Copying(In(t))'
      BY <2>3 DEF Copying
    <3>2. QED
      BY <1>1, <2>7, <3>1, PairsUnmoved
  <2>9. Reading'
    BY <1>2, <2>1, <2>2, <2>5 DEF Reading, Out
  <2>10. QED
    BY <2>7, <2>8, <2>9 DEF Pairs
<1>5. QED
  BY <1>1, <1>3, <1>4 DEF Legs

LEMMA MissPairs ==
    ASSUME CacheInv, Pairs, Miss
    PROVE  Pairs'
<1>0. PICK tc \in Testcases : tc = task.tc
  BY KeyIsKey DEF CacheInv, Hit, Miss, At, Task
<1>1. /\ TypeOK /\ Busy /\ task.step = "stat" /\ Key \notin Present
      /\ UNCHANGED <<tracked, files>>
      /\ tc \in Testcases /\ task.leg \in Legs
      /\ task' = [step |-> "open", tc |-> tc, leg |-> task.leg]
  BY <1>0, KeyIsKey, TaskSteps DEF CacheInv, Miss, At, Task
<1>2. /\ Present' = Present /\ Counted' = Counted
      /\ \A t : Adjacent(t)' <=> Adjacent(t)
  BY <1>1 DEF Present, Counted, Adjacent, In, Out
<1>3. Busy' /\ ~At("copy")' /\ ~At("read")' /\ ~At("copy")
  BY <1>1, NotIdle DEF Busy, At
<1>4. ASSUME NEW t \in Testcases PROVE GettingOutput(t)' <=> GettingOutput(t)
  BY <1>0, <1>1, <1>3 DEF GettingOutput
<1>5. ASSUME NEW t \in Testcases, ~GettingOutput(t) PROVE InPairs(t)'
  <2>1. ~Copying(In(t))'
    BY <1>3 DEF Copying
  <2>2. QED
    BY <1>1, <1>5, <2>1, PairsUnmoved DEF Pairs
<1>6. ASSUME NEW t \in Testcases, GettingOutput(t) PROVE HalfPair(t)'
  <2>1. HalfPair(t) /\ Key = Out(t)
    BY <1>0, <1>1, <1>6, KeyOfTask DEF Pairs, GettingOutput
  <2>2. ~Copying(Out(t)) /\ Out(t)' = Out(t) /\ In(t)' = In(t)
    BY <1>3 DEF Copying, Out, In
  <2>3. QED
    BY <1>1, <1>2, <1>3, <2>1, <2>2 DEF HalfPair
<1>7. QED
  BY <1>3, <1>4, <1>5, <1>6 DEF Pairs, Reading

LEMMA OpenPairs ==
    ASSUME CacheInv, Pairs, Open
    PROVE  Pairs'
<1>0. PICK tc \in Testcases : tc = task.tc
  BY KeyIsKey DEF CacheInv, Open, At, Task
<1>1. /\ TypeOK /\ Busy /\ task.step = "open"
      /\ tracked' = tracked
      /\ task.leg \in Legs
      /\ task' = [step |-> "copy", tc |-> tc, leg |-> task.leg]
      /\ Present' = Present \cup {Key} /\ Key \notin Present
  BY <1>0, KeyIsKey, TaskSteps, OpenKeeps DEF CacheInv, Open, At, Task
<1>2. /\ Counted' = Counted /\ Full' = Full
      /\ \A t \in Testcases : Adjacent(t) => Adjacent(t)'
  BY <1>1 DEF Counted, Adjacent, Full
<1>3. Busy' /\ At("copy")' /\ ~At("read")' /\ ~At("open")' /\ ~At("copy") /\ At("open")
  BY <1>1, NotIdle DEF Busy, At
<1>4. Key' = Key /\ Key = IF task.leg = "in" THEN In(tc) ELSE Out(tc)
  BY <1>0, <1>1, KeyOfTask DEF Key
<1>5. ASSUME NEW t \in Testcases PROVE GettingOutput(t)' <=> GettingOutput(t)
  BY <1>0, <1>1, <1>3 DEF GettingOutput
<1>6. ASSUME NEW t \in Testcases, ~GettingOutput(t) PROVE InPairs(t)'
  <2>1. InPairs(t)
    BY <1>6 DEF Pairs
  <2>2. ASSUME Out(t) \in Counted, In(t) \notin Counted,
               In(t) \notin Present' \/ Key' = In(t)
        PROVE  Full /\ tracked[Len(tracked)] = Out(t)
    <3>1. In(t) \notin Present
      BY <1>1, <1>4, <2>2
    <3>2. QED
      BY <2>1, <2>2, <3>1 DEF InPairs
  <2>3. (In(t) \in Counted => Out(t) \in Present') /\ Adjacent(t)'
    BY <1>1, <1>2, <2>1 DEF InPairs
  <2>4. QED
    BY <1>1, <1>2, <1>3, <2>2, <2>3 DEF InPairs, Copying
<1>7. ASSUME NEW t \in Testcases, GettingOutput(t) PROVE HalfPair(t)'
  <2>1. HalfPair(t) /\ t = tc /\ Key = Out(t)
    BY <1>0, <1>4, <1>7 DEF Pairs, GettingOutput
  <2>2. In(t) \in Present /\ (In(t) \in Counted => tracked[1] = In(t))
    BY <1>1, <2>1 DEF HalfPair
  <2>3. Copying(Out(t))' /\ In(t) \in Present'
    BY <1>1, <1>3, <1>4, <2>1, <2>2 DEF Copying
  <2>4. QED
    BY <1>1, <1>2, <1>3, <2>2, <2>3 DEF HalfPair
<1>8. QED
  BY <1>3, <1>5, <1>6, <1>7 DEF Pairs, Reading

LEMMA CopyPairs ==
    ASSUME CacheInv, Pairs, Copy \/ RemoveFails, Capacity # 1
    PROVE  Pairs'
<1>0. PICK tc \in Testcases : tc = task.tc
  BY KeyIsKey DEF CacheInv, Copy, RemoveFails, At, Task
<1>r. PICK removed \in SUBSET Gone :
          PutDone(Key, removed) /\ Present' = Present \ removed
  BY CopyKeeps
<1>1. /\ TypeOK /\ TrackedHaveFiles /\ Busy /\ At("copy") /\ PathReturned
      /\ task.leg \in Legs /\ task.step = "copy"
      /\ PutDone(Key, removed)
      /\ Key \in Present /\ Key \notin Counted
      /\ Present' = Present \ removed /\ removed \subseteq Gone
  BY <1>r, KeyIsKey DEF CacheInv, FetchedOnce, Copy, RemoveFails, At, Task, Counted
<1>2. /\ tracked \in Seq(Keys) /\ Len(tracked) \in Nat /\ DOMAIN tracked = 1..Len(tracked)
      /\ Capacity \in Nat \ {0}
      /\ Counted \subseteq Present
  BY <1>1, CacheAssumption DEF TypeOK, TrackedHaveFiles, Counted
<1>3. /\ Len(tracked') \in Nat /\ DOMAIN tracked' = 1..Len(tracked')
      /\ tracked'[1] = Key
      /\ \A i \in 2..Len(tracked') : tracked'[i] = tracked[i-1]
      /\ \A i, j \in DOMAIN tracked' : tracked'[i] = tracked'[j] => i = j
      /\ Len(tracked') = IF Full THEN Capacity ELSE Len(tracked) + 1
      /\ Counted' = ({Key} \cup Counted) \ Gone
      /\ Key \notin Gone /\ Gone \subseteq Counted
  BY <1>1 DEF PutDone, Counted, IsInjective
<1>4. Key = IF task.leg = "in" THEN In(tc) ELSE Out(tc)
  BY <1>0, <1>1, KeyOfTask
<1>5. ASSUME NEW t \in Testcases, t # tc, ~At("copy")' PROVE InPairs(t)'
  <2>1. InPairs(t)
    BY <1>0, <1>5 DEF Pairs, GettingOutput
  <2>2. Key # In(t) /\ Key # Out(t)
    BY <1>4, <1>5 DEF In, Out
  <2>3. QED
    BY <1>1, <1>5, <2>1, <2>2, PutKeepsOthers
<1>6. CASE task.leg = "in"
  <2>1. task' = [step |-> "stat", tc |-> tc, leg |-> "out"]
    BY <1>0, <1>1, <1>6, TaskSteps
  <2>2. Busy' /\ ~At("copy")' /\ ~At("open")' /\ ~At("read")'
    BY <2>1, NotIdle DEF Busy, At
  <2>3. \A t \in Testcases : GettingOutput(t)' <=> t = tc
    BY <2>1, <2>2 DEF GettingOutput
  <2>4. Key = In(tc) /\ Copying(In(tc)) /\ InPairs(tc)
    BY <1>0, <1>1, <1>4, <1>6 DEF Pairs, GettingOutput, Copying
  <2>5. Out(tc) \notin Counted'
    <3>1. SUFFICES ASSUME Out(tc) \in Counted PROVE Out(tc) \in Gone
      BY <1>3, <2>4, PairKeys
    <3>2. Full /\ tracked[Len(tracked)] = Out(tc)
      BY <1>1, <2>4, <3>1 DEF InPairs
    <3>3. QED
      BY <3>2 DEF Gone
  <2>6. Adjacent(tc)'
    BY <2>5 DEF Adjacent, Counted, Range, Out
  <2>7. HalfPair(tc)'
    BY <1>1, <1>3, <2>2, <2>4, <2>6 DEF HalfPair, In
  <2>8. QED
    BY <1>5, <2>2, <2>3, <2>7 DEF Pairs, Reading
<1>7. CASE task.leg = "out"
  <2>1. task' = [step |-> "read", tc |-> tc, leg |-> "in"]
    BY <1>0, <1>1, <1>7, TaskSteps
  <2>2. ~At("copy")' /\ Key = Out(tc) /\ Key' = In(tc)
    BY <1>4, <1>7, <2>1 DEF At, Key, In
  <2>3. /\ In(tc) \in Present
        /\ In(tc) \in Counted => tracked[1] = In(tc)
    <3>1. GettingOutput(tc) /\ Copying(Out(tc))
      BY <1>0, <1>1, <1>7, <2>2 DEF GettingOutput, Copying
    <3>2. QED
      BY <3>1 DEF Pairs, HalfPair
  <2>4. In(tc) \in Present'
    <3>1. SUFFICES ASSUME In(tc) \in Gone PROVE FALSE
      BY <1>1, <2>3
    <3>2. Full /\ tracked[Len(tracked)] = In(tc)
      BY <3>1 DEF Gone
    <3>3. tracked[1] = In(tc)
      BY <1>3, <2>3, <3>1
    <3>4. Len(tracked) = Capacity
      BY <3>2 DEF Full
    <3>5. 1 \in DOMAIN tracked /\ Len(tracked) \in DOMAIN tracked /\ Len(tracked) # 1
      BY <1>2, <3>4
    <3>6. QED
      BY <1>1, <3>2, <3>3, <3>5 DEF TrackedHaveFiles, IsInjective
  <2>5. Out(tc) \in Present'
    BY <1>1, <1>3, <2>2
  <2>6. Adjacent(tc)'
    <3> SUFFICES ASSUME NEW i \in DOMAIN tracked', NEW j \in DOMAIN tracked',
                        tracked'[i] = In(tc), tracked'[j] = Out(tc)
                 PROVE  i = j + 1
      BY DEF Adjacent
    <3>1. 1 \in DOMAIN tracked'
      BY <1>3
    <3>2. j = 1
      BY <1>3, <2>2, <3>1
    <3>3. In(tc) \in Counted'
      BY DEF Counted, Range
    <3>4. In(tc) \in Counted /\ tracked[1] = In(tc)
      BY <1>3, <2>2, <2>3, <3>3, PairKeys
    <3>5. i # 1
      BY <2>2, <1>3, PairKeys
    <3>6. 2 \in 2..Len(tracked') /\ 2 \in DOMAIN tracked'
      BY <1>3, <3>5
    <3>7. tracked'[2] = In(tc)
      BY <1>3, <3>4, <3>6
    <3>8. i = 2
      BY <1>3, <3>6, <3>7
    <3>9. QED
      BY <3>2, <3>8
  <2>7. InPairs(tc)'
    BY <2>2, <2>4, <2>5, <2>6 DEF InPairs, Copying, In, Out
  <2>8. \A t \in Testcases : ~GettingOutput(t)'
    BY <2>1 DEF GettingOutput
  <2>9. Reading'
    BY <2>1, <2>2, <2>4, <2>5 DEF Reading, Out
  <2>10. QED
    BY <1>5, <2>2, <2>7, <2>8, <2>9 DEF Pairs
<1>8. QED
  BY <1>1, <1>6, <1>7 DEF Legs

LEMMA ReadPairs ==
    ASSUME CacheInv, Pairs, Read
    PROVE  Pairs'
<1>0. PICK tc \in Testcases : tc = task.tc
  BY KeyIsKey DEF CacheInv, Read, At, Task
<1>1. /\ TypeOK /\ Busy /\ task.step = "read" /\ At("read") /\ Key \in Present
      /\ UNCHANGED <<tracked, files>>
      /\ task = [step |-> "read", tc |-> tc, leg |-> task.leg]
      /\ task.leg = "in" => Out(tc) \in Present
  BY <1>0, KeyIsKey DEF CacheInv, Read, At, Task, Pairs, Reading
<1>2. task' = IF task.leg = "in" THEN [step |-> "read", tc |-> tc, leg |-> "out"] ELSE Idle
  BY <1>1 DEF Read
<1>3. Present' = Present
  BY <1>1 DEF Present
<1>4. ASSUME NEW t \in Testcases PROVE ~GettingOutput(t)' /\ InPairs(t)'
  <2>1. ~GettingOutput(t) /\ ~GettingOutput(t)' /\ ~Copying(In(t))'
    BY <1>1, <1>2 DEF GettingOutput, Copying, At, Busy
  <2>2. QED
    BY <1>1, <2>1, PairsUnmoved DEF Pairs
<1>5. Reading'
  <2>1. CASE task.leg = "in"
    <3>1. task'.leg = "out" /\ Key' = Out(tc)
      BY <1>2, <2>1 DEF Key, Out
    <3>2. QED
      BY <1>1, <1>3, <2>1, <3>1 DEF Reading
  <2>2. CASE task.leg # "in"
    BY <1>2, <2>2 DEF Reading, At, Busy
  <2>3. QED
    BY <2>1, <2>2
<1>6. QED
  BY <1>4, <1>5 DEF Pairs

LEMMA CrashPairs ==
    ASSUME Crash
    PROVE  Pairs'
<1>1. tracked' = <<>> /\ ~Busy'
  BY DEF Crash, Busy
<1>2. Counted' = {} /\ DOMAIN tracked' = {}
  BY <1>1 DEF Counted, Range
<1>3. ASSUME NEW t \in Testcases PROVE ~GettingOutput(t)' /\ InPairs(t)'
  BY <1>1, <1>2 DEF GettingOutput, InPairs, Adjacent, In, Out
<1>4. QED
  BY <1>1, <1>3 DEF Pairs, Reading, At

LEMMA UploadPairs ==
    ASSUME Pairs, UNCHANGED <<files, tracked, task>>
    PROVE  Pairs'
BY DEF Pairs, Reading, HalfPair, InPairs, GettingOutput, Copying, Adjacent, At, Busy,
       Key, Present, Counted, Full, In, Out

(* While no fetch fails, a path that was returned for the testcase at hand *)
(* leads to a file until it has been read: for every capacity but 1, in    *)
(* which the two files of a testcase do not fit.                           *)
THEOREM PathsOutliveTheirUse ==
    ASSUME Capacity # 1
    PROVE  Spec => []PathStillThere
<1> DEFINE PairInv == Without({"open", "copy"}) => Pairs
<1>1. Init => PairInv
  <2> SUFFICES ASSUME Init PROVE Pairs
    OBVIOUS
  <2>1. tracked = <<>> /\ ~Busy
    BY DEF Init, Busy
  <2>2. Counted = {} /\ DOMAIN tracked = {}
    BY <2>1 DEF Counted, Range
  <2>3. ASSUME NEW t \in Testcases PROVE ~GettingOutput(t) /\ InPairs(t)
    BY <2>1, <2>2 DEF GettingOutput, InPairs, Adjacent
  <2>4. QED
    BY <2>1, <2>3 DEF Pairs, Reading, At
<1>2. CacheInv /\ PairInv /\ [Next]_vars => PairInv'
  <2> SUFFICES ASSUME CacheInv, PairInv, [Next]_vars, Without({"open", "copy"})'
               PROVE  Pairs'
    OBVIOUS
  <2>1. TypeOK
    BY DEF CacheInv
  <2>2. CASE OpenFails \/ CopyFails
    BY <2>1, <2>2, FaultCounted DEF OpenFails, CopyFails
  <2>3. CASE Crash
    BY <2>3, CrashPairs
  <2>4. ASSUME faults' = faults PROVE Pairs
    BY <2>4 DEF Without
  <2>5. ASSUME NEW tc \in Testcases, Begin(tc) PROVE Pairs'
    BY <2>4, <2>5, BeginPairs DEF Begin
  <2>6. CASE Hit
    BY <2>4, <2>6, HitPairs DEF Hit
  <2>7. CASE Miss
    BY <2>4, <2>7, MissPairs DEF Miss
  <2>8. CASE Open
    BY <2>4, <2>8, OpenPairs DEF Open
  <2>9. CASE Copy \/ RemoveFails
    <3>1. Without({"open", "copy"})
      <4>1. CASE Copy
        BY <4>1 DEF Copy, Without
      <4>2. CASE RemoveFails
        <5>1. Fault("remove") /\ "remove" \notin {"open", "copy"}
          BY <4>2 DEF RemoveFails
        <5>2. Without({"open", "copy"})' <=> Without({"open", "copy"})
          BY <2>1, <5>1, FaultCounted
        <5>3. QED
          BY <5>2
      <4>3. QED
        BY <2>9, <4>1, <4>2
    <3>2. QED
      BY <2>9, <3>1, CopyPairs
  <2>10. CASE Read
    BY <2>4, <2>10, ReadPairs DEF Read
  <2>11. ASSUME NEW k \in Keys, Upload(k) PROVE Pairs'
    BY <2>4, <2>11, UploadPairs DEF Upload
  <2>12. CASE UNCHANGED vars
    BY <2>4, <2>12, UploadPairs DEF vars
  <2>13. QED
    BY <2>2, <2>3, <2>5, <2>6, <2>7, <2>8, <2>9, <2>10, <2>11, <2>12 DEF Next
<1>3. CacheInv /\ PairInv => PathStillThere
  <2> SUFFICES ASSUME CacheInv, Without({"open", "copy"}), Pairs, At("read")
               PROVE  Key \in Present /\ (task.leg = "in" => <<task.tc, "out">> \in Present)
    BY DEF PathStillThere
  <2>1. QED
    BY DEF Pairs, Reading, Out
<1> HIDE DEF PairInv
<1>4. QED
  BY <1>1, <1>2, <1>3, CacheInvariance, PTL DEF Spec

(***************************************************************************)
(* What the judge reads.                                                   *)
(***************************************************************************)

(* Every file but the one being copied is whole, and so is what was read.  *)
WholeFiles ==
    /\ \A k \in Present : files[k].whole \/ Copying(k)
    /\ ServedWhole

(* A part of a file is only ever read after a copy failed half way or the  *)
(* worker died in it: what the run cache_truncated finds needs one of them.*)
THEOREM PartsNeedAFault == Spec => [](Without({"copy", "crash"}) => ServedWhole)
<1> DEFINE WholeInv == Without({"copy", "crash"}) => WholeFiles
<1>1. Init => WholeInv
  <2> SUFFICES ASSUME Init PROVE WholeFiles
    OBVIOUS
  <2>1. Present = {} /\ \A leg \in Legs : served[leg] = Absent
    BY DEF Init, Present
  <2>2. QED
    BY <2>1 DEF WholeFiles, ServedWhole
<1>2. CacheInv /\ WholeInv /\ [Next]_vars => WholeInv'
  <2> SUFFICES ASSUME CacheInv, WholeInv, [Next]_vars, Without({"copy", "crash"})'
               PROVE  WholeFiles'
    OBVIOUS
  <2>1. TypeOK
    BY DEF CacheInv
  <2>2. CASE CopyFails \/ Crash
    BY <2>1, <2>2, FaultCounted DEF CopyFails, Crash
  <2>3. ASSUME faults' = faults PROVE WholeFiles
    BY <2>3 DEF Without
  <2>4. ASSUME WholeFiles, UNCHANGED files, served' = served, ~At("copy")
        PROVE  WholeFiles'
    BY <2>4 DEF WholeFiles, ServedWhole, Present, Copying
  <2>5. CASE OpenFails
    <3>1. WholeFiles
      BY <2>1, <2>5, FaultCounted DEF OpenFails
    <3>2. QED
      BY <2>4, <2>5, <3>1 DEF OpenFails, At
  <2>6. ASSUME NEW tc \in Testcases, Begin(tc) PROVE WholeFiles'
    <3>1. WholeFiles /\ ~At("copy") /\ files' = files
      BY <2>3, <2>6 DEF Begin, At
    <3>2. ServedWhole'
      BY <2>6 DEF Begin, ServedWhole, Absent
    <3>3. QED
      BY <3>1, <3>2 DEF WholeFiles, Present, Copying
  <2>7. CASE Hit \/ Miss
    BY <2>3, <2>4, <2>7 DEF Hit, Miss, At
  <2>8. CASE Open
    <3>1. WholeFiles /\ served' = served /\ ~At("copy")
      BY <2>3, <2>8 DEF Open, At
    <3>2. Present' = Present \cup {Key}
      BY <2>8, OpenKeeps
    <3>3. At("copy")' /\ Key' = Key
      <4>1. Busy /\ task' = [step |-> "copy", tc |-> task.tc, leg |-> task.leg]
        BY <2>1, <2>8, TaskSteps DEF Open, At
      <4>2. QED
        BY <4>1, NotIdle DEF At, Busy, Key
    <3>4. ASSUME NEW k \in Present' PROVE files'[k].whole \/ Copying(k)'
      <4>1. CASE k = Key
        BY <3>3, <4>1 DEF Copying
      <4>2. CASE k # Key
        <5>1. k \in Present /\ files'[k] = files[k]
          BY <2>1, <2>8, <3>2, <4>2 DEF Open, TypeOK, Present
        <5>2. QED
          BY <3>1, <5>1 DEF WholeFiles, Copying
      <4>3. QED
        BY <4>1, <4>2
    <3>5. QED
      BY <3>1, <3>4 DEF WholeFiles, ServedWhole
  <2>9. CASE Copy \/ RemoveFails
    <3>1. WholeFiles /\ served' = served
      BY <2>1, <2>3, <2>9, FaultCounted DEF Copy, RemoveFails
    <3>2. PICK removed : PutDone(Key, removed) /\ Present' = Present \ removed
      BY <2>9, CopyKeeps
    <3>3. ASSUME NEW k \in Present' PROVE files'[k].whole
      <4>1. k \in Present /\ k \notin removed /\ k \in Keys
        BY <3>2 DEF Present
      <4>2. files[k] \in File
        BY <2>1, <4>1 DEF TypeOK, Present
      <4>3. CASE k = Key
        <5>1. files'[k] = [files[k] EXCEPT !.whole = TRUE]
          BY <3>2, <4>1, <4>3 DEF PutDone
        <5>2. QED
          BY <4>2, <5>1 DEF File
      <4>4. CASE k # Key
        <5>1. files'[k] = files[k]
          BY <3>2, <4>1, <4>4 DEF PutDone
        <5>2. files[k].whole
          BY <3>1, <4>1, <4>4 DEF WholeFiles, Copying
        <5>3. QED
          BY <5>1, <5>2
      <4>5. QED
        BY <4>3, <4>4
    <3>4. QED
      BY <3>1, <3>3 DEF WholeFiles, ServedWhole
  <2>10. CASE Read
    <3>1. WholeFiles /\ files' = files /\ ~At("copy") /\ Busy
          /\ served' = [served EXCEPT ![task.leg] = files[Key]]
      BY <2>3, <2>10 DEF Read, At
    <3>2. files[Key] # Absent => files[Key].whole
      BY <2>1, <3>1, KeyIsKey DEF WholeFiles, Present, Copying
    <3>3. ServedWhole'
      BY <2>1, <3>1, <3>2 DEF WholeFiles, ServedWhole, TypeOK
    <3>4. QED
      BY <3>1, <3>3 DEF WholeFiles, Present, Copying
  <2>11. ASSUME UNCHANGED <<files, tracked, task, served, faults>> PROVE WholeFiles'
    BY <2>3, <2>11 DEF WholeFiles, ServedWhole, Present, Copying, At, Busy, Key
  <2>12. QED
    BY <2>2, <2>5, <2>6, <2>7, <2>8, <2>9, <2>10, <2>11 DEF Next, Upload, vars
<1>3. WholeInv => (Without({"copy", "crash"}) => ServedWhole)
  BY DEF WholeFiles
<1> HIDE DEF WholeInv
<1>4. QED
  BY <1>1, <1>2, <1>3, CacheInvariance, PTL DEF Spec
===============================================================================
