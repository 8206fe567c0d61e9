----------------------------- MODULE QueueLemmas -----------------------------
(***************************************************************************)
(* What the queue operations of the models do to the set of messages a     *)
(* queue holds.  The proofs about the pipeline reason with these sets only.*)
(***************************************************************************)
EXTENDS Naturals, Sequences, Functions, TLAPS

(* Publishing a message adds that message and nothing else. *)
LEMMA RangeAppend ==
    ASSUME NEW S, NEW q \in Seq(S), NEW x \in S
    PROVE  Range(Append(q, x)) = Range(q) \cup {x}
<1> DEFINE r == Append(q, x)
<1>1. /\ r \in Seq(S)
      /\ Len(r) = Len(q) + 1
      /\ \A i \in 1..Len(q) : r[i] = q[i]
      /\ r[Len(q)+1] = x
  OBVIOUS
<1>2. ASSUME NEW y \in Range(r) PROVE y \in Range(q) \cup {x}
  BY <1>1 DEF Range
<1>3. ASSUME NEW y \in Range(q) PROVE y \in Range(r)
  BY <1>1 DEF Range
<1>4. x \in Range(r)
  <2>1. Len(q)+1 \in DOMAIN r
    BY <1>1
  <2>2. QED
    BY <2>1, <1>1 DEF Range
<1>5. QED
  BY <1>2, <1>3, <1>4

(* Delivering or acknowledging the first message removes only that one. *)
LEMMA RangeTail ==
    ASSUME NEW S, NEW q \in Seq(S), q # <<>>
    PROVE  /\ Head(q) \in S
           /\ Tail(q) \in Seq(S)
           /\ Range(q) = Range(Tail(q)) \cup {Head(q)}
<1> DEFINE r == Tail(q)
<1>1. /\ r \in Seq(S)
      /\ Len(r) = Len(q) - 1
      /\ Len(q) \in Nat \ {0}
      /\ \A i \in 1..Len(r) : r[i] = q[i+1]
      /\ Head(q) = q[1]
  OBVIOUS
<1>2. ASSUME NEW y \in Range(q) PROVE y \in Range(r) \cup {Head(q)}
  <2>1. PICK i \in 1..Len(q) : q[i] = y
    BY DEF Range
  <2>2. CASE i = 1
    BY <1>1, <2>1, <2>2
  <2>3. CASE i # 1
    <3>1. i - 1 \in DOMAIN r /\ r[i-1] = y
      BY <1>1, <2>1, <2>3
    <3>2. y \in Range(r)
      BY <3>1 DEF Range
    <3>3. QED
      BY <3>2
  <2>4. QED
    BY <2>2, <2>3
<1>3. ASSUME NEW y \in Range(r) PROVE y \in Range(q)
  <2>1. PICK i \in 1..Len(r) : r[i] = y
    BY <1>1 DEF Range
  <2>2. i + 1 \in DOMAIN q /\ q[i+1] = y
    BY <1>1, <2>1
  <2>3. QED
    BY <2>2 DEF Range
<1>4. Head(q) \in Range(q)
  <2>1. 1 \in DOMAIN q
    BY <1>1
  <2>2. QED
    BY <2>1, <1>1 DEF Range
<1>5. Head(q) \in S
  BY <1>1
<1>6. QED
  BY <1>1, <1>2, <1>3, <1>4, <1>5

(* Requeueing puts back every message it is given. *)
LEMMA RangeConcat ==
    ASSUME NEW S, NEW p \in Seq(S), NEW q \in Seq(S)
    PROVE  Range(p \o q) = Range(p) \cup Range(q)
<1> DEFINE r == p \o q
<1>1. /\ r \in Seq(S)
      /\ Len(r) = Len(p) + Len(q)
      /\ \A i \in 1..Len(p) : r[i] = p[i]
      /\ \A i \in Len(p)+1 .. Len(p)+Len(q) : r[i] = q[i-Len(p)]
  OBVIOUS
<1>2. ASSUME NEW y \in Range(r) PROVE y \in Range(q) \cup Range(p)
  <2>1. PICK i \in 1..Len(r) : r[i] = y
    BY <1>1 DEF Range
  <2>2. CASE i <= Len(p)
    BY <2>1, <2>2, <1>1 DEF Range
  <2>3. CASE i > Len(p)
    <3>1. i - Len(p) \in 1..Len(q)
      BY <2>1, <2>3, <1>1
    <3>2. y = q[i-Len(p)]
      BY <2>1, <2>3, <1>1, <3>1
    <3>3. QED
      BY <3>1, <3>2 DEF Range
  <2>4. QED
    BY <2>1, <2>2, <2>3
<1>3. ASSUME NEW y \in Range(p) PROVE y \in Range(r)
  BY <1>1 DEF Range
<1>4. ASSUME NEW y \in Range(q) PROVE y \in Range(r)
  <2>1. PICK i \in 1..Len(q) : q[i] = y
    BY DEF Range
  <2>2. /\ i+Len(p) \in 1..Len(r)
        /\ r[i+Len(p)] = y
    BY <2>1, <1>1
  <2>3. QED
    BY <2>2, <1>1 DEF Range
<1>5. QED
  BY <1>2, <1>3, <1>4

(* Publishing to a queue leaves its first message first. *)
LEMMA AppendHead ==
    ASSUME NEW S, NEW q \in Seq(S), NEW x \in S
    PROVE  /\ Append(q, x) # <<>>
           /\ q # <<>> => Head(Append(q, x)) = Head(q)
<1>1. Len(Append(q, x)) = Len(q) + 1 /\ Len(q) \in Nat
  OBVIOUS
<1>2. Append(q, x) # <<>>
  BY <1>1
<1>3. ASSUME q # <<>> PROVE Head(Append(q, x)) = Head(q)
  <2>1. Len(q) >= 1
    BY <1>3
  <2>2. Append(q, x)[1] = q[1]
    BY <2>1
  <2>3. QED
    BY <2>2, <1>2, <1>3
<1>4. QED
  BY <1>2, <1>3

(* A queue of one message, and the queue of none. *)
LEMMA RangeSmall ==
    ASSUME NEW S, NEW x \in S
    PROVE  /\ <<x>> \in Seq(S) /\ Range(<<x>>) = {x}
           /\ <<>> \in Seq(S)  /\ Range(<<>>) = {}
<1>1. /\ <<x>> \in Seq(S)
      /\ Range(<<x>>) = {x}
  BY DEF Range
<1>2. /\ <<>> \in Seq(S)
      /\ Range(<<>>) = {}
  BY DEF Range
<1>3. QED
  BY <1>1, <1>2

(* A queue without duplicates stays so when something new is appended. *)
LEMMA InjectiveAppend ==
    ASSUME NEW S, NEW q \in Seq(S), NEW x \in S,
           IsInjective(q), x \notin Range(q)
    PROVE  IsInjective(Append(q, x))
<1> DEFINE r == Append(q, x)
<1>1. /\ DOMAIN r = 1..(Len(q) + 1)
      /\ DOMAIN q = 1..Len(q)
      /\ Len(q) \in Nat
      /\ \A i \in 1..Len(q) : r[i] = q[i]
      /\ r[Len(q)+1] = x
  OBVIOUS
<1>2. \A i \in 1..Len(q) : q[i] # x
  BY <1>1 DEF Range
<1>3. ASSUME NEW i \in DOMAIN r, NEW j \in DOMAIN r, r[i] = r[j]
      PROVE  i = j
  <2>1. CASE i \in 1..Len(q) /\ j \in 1..Len(q)
    <3>1. q[i] = q[j]
      BY <1>1, <1>3, <2>1
    <3>2. QED
      BY <3>1, <2>1, <1>1 DEF IsInjective
  <2>2. CASE i \notin 1..Len(q) /\ j \notin 1..Len(q)
    BY <1>1, <2>2
  <2>3. CASE i \in 1..Len(q) /\ j \notin 1..Len(q)
    BY <1>1, <1>2, <1>3, <2>3
  <2>4. CASE i \notin 1..Len(q) /\ j \in 1..Len(q)
    BY <1>1, <1>2, <1>3, <2>4
  <2>5. QED
    BY <2>1, <2>2, <2>3, <2>4
<1>4. QED
  BY <1>3 DEF IsInjective

(* Two queues without duplicates and with nothing in common, in a row. *)
LEMMA InjectiveConcat ==
    ASSUME NEW S, NEW p \in Seq(S), NEW q \in Seq(S),
           IsInjective(p), IsInjective(q), Range(p) \cap Range(q) = {}
    PROVE  IsInjective(p \o q)
<1> DEFINE r == p \o q
<1>1. /\ Len(p) \in Nat /\ Len(q) \in Nat
      /\ DOMAIN p = 1..Len(p) /\ DOMAIN q = 1..Len(q)
      /\ DOMAIN r = 1..(Len(p) + Len(q))
      /\ \A i \in 1..Len(p) : r[i] = p[i]
      /\ \A i \in Len(p)+1 .. Len(p)+Len(q) : r[i] = q[i-Len(p)]
  OBVIOUS
<1>2. /\ \A i, j \in 1..Len(p) : p[i] = p[j] => i = j
      /\ \A i, j \in 1..Len(q) : q[i] = q[j] => i = j
  BY <1>1 DEF IsInjective
<1>3. \A i \in 1..Len(p), j \in 1..Len(q) : p[i] # q[j]
  BY <1>1 DEF Range
<1>4. ASSUME NEW i \in 1..(Len(p) + Len(q)), NEW j \in 1..(Len(p) + Len(q)),
             r[i] = r[j]
      PROVE  i = j
  <2>1. CASE i <= Len(p) /\ j <= Len(p)
    BY <1>1, <1>2, <1>4, <2>1
  <2>2. CASE i > Len(p) /\ j > Len(p)
    <3>1. /\ i - Len(p) \in 1..Len(q) /\ j - Len(p) \in 1..Len(q)
          /\ q[i - Len(p)] = q[j - Len(p)]
      BY <1>1, <1>4, <2>2
    <3>2. i - Len(p) = j - Len(p)
      BY <1>2, <3>1
    <3>3. QED
      BY <1>1, <3>2
  <2>3. CASE i <= Len(p) /\ j > Len(p)
    <3>1. i \in 1..Len(p) /\ j - Len(p) \in 1..Len(q) /\ p[i] = q[j - Len(p)]
      BY <1>1, <1>4, <2>3
    <3>2. QED
      BY <1>3, <3>1
  <2>4. CASE i > Len(p) /\ j <= Len(p)
    <3>1. j \in 1..Len(p) /\ i - Len(p) \in 1..Len(q) /\ p[j] = q[i - Len(p)]
      BY <1>1, <1>4, <2>4
    <3>2. QED
      BY <1>3, <3>1
  <2>5. QED
    BY <1>1, <2>1, <2>2, <2>3, <2>4
<1>5. QED
  BY <1>1, <1>4 DEF IsInjective

(* The first of a queue without duplicates is not among the rest. *)
LEMMA InjectiveTail ==
    ASSUME NEW S, NEW q \in Seq(S), q # <<>>, IsInjective(q)
    PROVE  IsInjective(Tail(q)) /\ Head(q) \notin Range(Tail(q))
<1> DEFINE r == Tail(q)
<1>1. /\ Len(q) \in Nat \ {0}
      /\ DOMAIN q = 1..Len(q)
      /\ DOMAIN r = 1..(Len(q) - 1)
      /\ \A i \in 1..(Len(q) - 1) : r[i] = q[i+1]
      /\ Head(q) = q[1]
  OBVIOUS
<1>2. \A i, j \in 1..Len(q) : q[i] = q[j] => i = j
  BY <1>1 DEF IsInjective
<1>3. IsInjective(r)
  <2>1. \A i, j \in 1..(Len(q) - 1) : r[i] = r[j] => i = j
    BY <1>1, <1>2
  <2>2. QED
    BY <2>1, <1>1 DEF IsInjective
<1>4. \A i \in DOMAIN r : r[i] # Head(q)
  BY <1>1, <1>2
<1>5. QED
  BY <1>3, <1>4 DEF Range

(* A new entry at the front of a list without duplicates. *)
LEMMA PushFront ==
    ASSUME NEW S, NEW q \in Seq(S), NEW x \in S,
           IsInjective(q), x \notin Range(q)
    PROVE  /\ <<x>> \o q \in Seq(S)
           /\ Len(<<x>> \o q) = Len(q) + 1
           /\ (<<x>> \o q)[1] = x
           /\ \A i \in 1..Len(q) : (<<x>> \o q)[i+1] = q[i]
           /\ IsInjective(<<x>> \o q)
           /\ Range(<<x>> \o q) = {x} \cup Range(q)
<1> DEFINE r == <<x>> \o q
<1>1. /\ r \in Seq(S)
      /\ Len(q) \in Nat /\ DOMAIN q = 1..Len(q)
      /\ Len(r) = Len(q) + 1 /\ DOMAIN r = 1..(Len(q) + 1)
      /\ r[1] = x
      /\ \A i \in 2..(Len(q) + 1) : r[i] = q[i-1]
  OBVIOUS
<1>2. \A i \in 1..Len(q) : r[i+1] = q[i]
  BY <1>1
<1>3. \A i \in 1..Len(q) : q[i] # x
  BY <1>1 DEF Range
<1>4. IsInjective(r)
  <2>1. \A i, j \in 1..Len(q) : q[i] = q[j] => i = j
    BY <1>1 DEF IsInjective
  <2>2. ASSUME NEW i \in 1..(Len(q) + 1), NEW j \in 1..(Len(q) + 1), r[i] = r[j]
        PROVE  i = j
    <3>1. CASE i = 1 \/ j = 1
      BY <1>1, <1>3, <2>2, <3>1
    <3>2. CASE i # 1 /\ j # 1
      <4>1. i - 1 \in 1..Len(q) /\ j - 1 \in 1..Len(q) /\ q[i-1] = q[j-1]
        BY <1>1, <2>2, <3>2
      <4>2. i - 1 = j - 1
        BY <2>1, <4>1
      <4>3. QED
        BY <4>2
    <3>3. QED
      BY <3>1, <3>2
  <2>3. QED
    BY <1>1, <2>2 DEF IsInjective
<1>5. Range(r) = {x} \cup Range(q)
  <2>1. \A y \in Range(r) : y = x \/ y \in Range(q)
    BY <1>1 DEF Range
  <2>2. x \in Range(r)
    BY <1>1 DEF Range
  <2>3. ASSUME NEW y \in Range(q) PROVE y \in Range(r)
    <3>1. PICK i \in 1..Len(q) : q[i] = y
      BY <1>1 DEF Range
    <3>2. i + 1 \in DOMAIN r /\ r[i+1] = y
      BY <1>1, <1>2, <3>1
    <3>3. QED
      BY <3>2 DEF Range
  <2>4. QED
    BY <2>1, <2>2, <2>3
<1>6. QED
  BY <1>1, <1>2, <1>4, <1>5

(* The last entry of a list without duplicates is removed. *)
LEMMA DropLast ==
    ASSUME NEW S, NEW q \in Seq(S), Len(q) > 0, IsInjective(q)
    PROVE  LET r == SubSeq(q, 1, Len(q) - 1)
           IN  /\ r \in Seq(S)
               /\ Len(r) = Len(q) - 1
               /\ \A i \in 1..(Len(q) - 1) : r[i] = q[i]
               /\ IsInjective(r)
               /\ Range(r) = Range(q) \ {q[Len(q)]}
<1> DEFINE r == SubSeq(q, 1, Len(q) - 1)
<1>1. /\ r \in Seq(S)
      /\ Len(q) \in Nat /\ DOMAIN q = 1..Len(q)
      /\ Len(r) = Len(q) - 1 /\ DOMAIN r = 1..(Len(q) - 1)
      /\ \A i \in 1..(Len(q) - 1) : r[i] = q[i]
  <2>1. /\ Len(q) \in Nat /\ Len(q) - 1 \in Nat /\ DOMAIN q = 1..Len(q)
        /\ \A i \in 1..(Len(q) - 1) : q[i] \in S
    OBVIOUS
  <2>2. r = [i \in 1..(Len(q) - 1) |-> q[i]]
    OBVIOUS
  <2>3. r \in [1..(Len(q) - 1) -> S]
    BY <2>1, <2>2
  <2>4. r \in Seq(S) /\ Len(r) = Len(q) - 1
    BY <2>1, <2>3
  <2>5. QED
    BY <2>1, <2>2, <2>4
<1>2. \A i, j \in 1..Len(q) : q[i] = q[j] => i = j
  BY <1>1 DEF IsInjective
<1>3. IsInjective(r)
  BY <1>1, <1>2 DEF IsInjective
<1>4. ASSUME NEW y \in Range(r) PROVE y \in Range(q) \ {q[Len(q)]}
  <2>1. PICK i \in 1..(Len(q) - 1) : y = q[i]
    BY <1>1, <1>4 DEF Range
  <2>2. y \in Range(q)
    BY <1>1, <2>1 DEF Range
  <2>3. y # q[Len(q)]
    BY <1>1, <1>2, <2>1
  <2>4. QED
    BY <2>2, <2>3
<1>5. ASSUME NEW y \in Range(q) \ {q[Len(q)]} PROVE y \in Range(r)
  <2>1. PICK i \in 1..Len(q) : y = q[i]
    BY <1>1, <1>5 DEF Range
  <2>2. i \in 1..(Len(q) - 1)
    BY <1>1, <1>5, <2>1
  <2>3. i \in DOMAIN r /\ r[i] = y
    BY <1>1, <2>1, <2>2
  <2>4. QED
    BY <2>3 DEF Range
<1>6. QED
  BY <1>1, <1>3, <1>4, <1>5

(* What is in a queue after a publish, position by position. *)
LEMMA AppendFacts ==
    ASSUME NEW S, NEW q \in Seq(S), NEW m \in S
    PROVE  /\ Append(q, m) \in Seq(S)
           /\ Len(q) \in Nat /\ DOMAIN q = 1..Len(q)
           /\ DOMAIN Append(q, m) = 1..(Len(q) + 1)
           /\ \A i \in 1..Len(q) : Append(q, m)[i] = q[i]
           /\ Append(q, m)[Len(q)+1] = m
OBVIOUS

(* The first message of two queues in a row is that of the first queue. *)
LEMMA ConcatTail ==
    ASSUME NEW S, NEW p \in Seq(S), NEW q \in Seq(S), p # <<>>
    PROVE  /\ p \o q # <<>> /\ Head(p \o q) = Head(p)
           /\ Tail(p) \o q = Tail(p \o q)
<1>1. /\ Len(p) \in Nat \ {0} /\ Len(q) \in Nat
      /\ p \o q \in Seq(S) /\ Len(p \o q) = Len(p) + Len(q)
      /\ Tail(p) \in Seq(S) /\ Len(Tail(p)) = Len(p) - 1
      /\ \A i \in 1..(Len(p) - 1) : Tail(p)[i] = p[i+1]
      /\ \A i \in 1..Len(p) : (p \o q)[i] = p[i]
      /\ \A i \in Len(p)+1 .. Len(p)+Len(q) : (p \o q)[i] = q[i-Len(p)]
  OBVIOUS
<1>2. p \o q # <<>> /\ Head(p \o q) = Head(p)
  BY <1>1
<1>3. Tail(p) \o q = Tail(p \o q)
  OBVIOUS
<1>4. QED
  BY <1>2, <1>3

(* Taking the first message of a queue and putting it back. *)
LEMMA ConcatOne ==
    ASSUME NEW S, NEW q \in Seq(S), q # <<>>
    PROVE  <<Head(q)>> \o Tail(q) = q
OBVIOUS

(* A queue of one message at most. *)
LEMMA SingleQueue ==
    ASSUME NEW S, NEW q \in Seq(S), Len(q) <= 1, q # <<>>
    PROVE  q = <<Head(q)>> /\ Tail(q) = <<>>
<1>1. Len(q) \in Nat /\ Len(q) # 0 /\ DOMAIN q = 1..Len(q) /\ Head(q) = q[1]
  OBVIOUS
<1>2. Len(q) = 1
  BY <1>1
<1>3. q = <<q[1]>>
  BY <1>2
<1>4. Tail(q) \in Seq(S) /\ Len(Tail(q)) = 0
  BY <1>1, <1>2
<1>5. Tail(q) = <<>>
  BY <1>4
<1>6. q = <<Head(q)>>
  BY ONLY <1>1, <1>3
<1>7. QED
  BY ONLY <1>5, <1>6

(* The empty queue. *)
LEMMA EmptyQueue ==
    ASSUME NEW S, NEW q \in Seq(S)
    PROVE  /\ <<>> \o q = q
           /\ Len(q) < 1 => q = <<>>
OBVIOUS

(* A publish to the second of two queues in a row. *)
LEMMA ConcatAppend ==
    ASSUME NEW S, NEW p \in Seq(S), NEW q \in Seq(S), NEW x \in S
    PROVE  p \o Append(q, x) = Append(p \o q, x)
OBVIOUS
=============================================================================
