-------------------------- MODULE ClientPages_proofs --------------------------
(***************************************************************************)
(* Machine-checked proofs about the pages of the web client, for any       *)
(* number of requests in flight and any bound on clicks and rows.          *)
(***************************************************************************)
EXTENDS ClientPages, QueueLemmas, SequenceTheorems, FiniteSetTheorems

(***************************************************************************)
(* What the operators of ApiClient do to the requests in flight, seen as   *)
(* the set Range(net).                                                     *)
(***************************************************************************)

IsRequest(r) == r = [op |-> r.op, arg |-> r.arg, status |-> r.status,
                     data |-> r.data, late |-> r.late]

IsNet(n) == \E S : n \in Seq(S) /\ \A r \in S : IsRequest(r)

(* Two requests that differ at most in whether their answer is late.       *)
Same(r, q) == r.op = q.op /\ r.arg = q.arg /\ r.status = q.status /\ r.data = q.data

LEMMA NewRequest ==
    ASSUME NEW op, NEW arg
    PROVE  IsRequest(Request(op, arg))
BY DEF IsRequest, Request

LEMMA EmptyNet == IsNet(<<>>) /\ Range(<<>>) = {}
<1>1. <<>> \in Seq({}) /\ \A r \in {} : IsRequest(r)
  OBVIOUS
<1>2. Range(<<>>) = {}
  BY DEF Range
<1>3. QED
  BY <1>1, <1>2 DEF IsNet

(* The requests of a net are requests, and are those at its places.        *)
LEMMA NetElements ==
    ASSUME NEW n, IsNet(n)
    PROVE  /\ \A k \in DOMAIN n : n[k] \in Range(n) /\ IsRequest(n[k])
           /\ \A r \in Range(n) : IsRequest(r) /\ \E k \in DOMAIN n : n[k] = r
           /\ n \in Seq(Range(n))
<1>1. PICK S : n \in Seq(S) /\ \A r \in S : IsRequest(r)
  BY DEF IsNet
<1>2. DOMAIN n = 1..Len(n) /\ \A k \in DOMAIN n : n[k] \in S
  BY <1>1
<1>3. n \in Seq(Range(n))
  BY <1>1, <1>2 DEF Range
<1>4. QED
  BY <1>1, <1>2, <1>3 DEF Range

LEMMA SendAdds ==
    ASSUME IsNet(net), NEW r, IsRequest(r), Send(r)
    PROVE  IsNet(net') /\ Range(net') = Range(net) \cup {r}
<1> DEFINE S == Range(net) \cup {r}
<1>1. net \in Seq(S) /\ r \in S
  BY NetElements
<1>2. net' = Append(net, r) /\ net' \in Seq(S)
  BY <1>1 DEF Send
<1>3. \A x \in S : IsRequest(x)
  BY NetElements
<1>4. /\ Len(net) \in Nat
      /\ Len(net') = Len(net) + 1
      /\ DOMAIN net' = 1..(Len(net) + 1)
      /\ DOMAIN net = 1..Len(net)
      /\ \A k \in 1..Len(net) : net'[k] = net[k]
      /\ net'[Len(net) + 1] = r
  BY <1>1, <1>2
<1>5. Range(net') = Range(net) \cup {r}
  BY <1>4 DEF Range
<1>6. QED
  BY <1>2, <1>3, <1>5 DEF IsNet

(* A request is replaced by another one.                                   *)
LEMMA ReplaceOne ==
    ASSUME IsNet(net), NEW i \in DOMAIN net, NEW r, IsRequest(r),
           net' = [net EXCEPT ![i] = r]
    PROVE  /\ IsNet(net')
           /\ Range(net') \subseteq Range(net) \cup {r}
           /\ Range(net) \subseteq Range(net') \cup {net[i]}
           /\ r \in Range(net')
<1> DEFINE S == Range(net) \cup {r}
<1>1. net \in Seq(S) /\ r \in S /\ \A x \in S : IsRequest(x)
  BY NetElements
<1>2. net' \in Seq(S) /\ DOMAIN net' = DOMAIN net
  BY <1>1
<1>3. net'[i] = r /\ \A k \in DOMAIN net : k # i => net'[k] = net[k]
  BY <1>1
<1>4. QED
  BY <1>1, <1>2, <1>3 DEF IsNet, Range

(* Answering and failing keep what a request asked for.                    *)
LEMMA AnswerKeeps ==
    ASSUME IsNet(net), NEW i \in DOMAIN net, NEW d, Answer(i, d)
    PROVE  \E r : /\ IsRequest(r)
                  /\ r.op = net[i].op /\ r.arg = net[i].arg /\ r.late = net[i].late
                  /\ r.status = "ok" /\ r.data = <<d>>
                  /\ net' = [net EXCEPT ![i] = r]
<1> DEFINE q == net[i]
           r == [op |-> q.op, arg |-> q.arg, status |-> "ok",
                 data |-> <<d>>, late |-> q.late]
           u == [op |-> q.op, arg |-> q.arg, status |-> "ok",
                 data |-> q.data, late |-> q.late]
<1>1. q = [op |-> q.op, arg |-> q.arg, status |-> q.status,
           data |-> q.data, late |-> q.late]
  BY NetElements DEF IsRequest
<1>2. PICK S : net \in Seq(S)
  BY DEF IsNet
<1> HIDE DEF q
<1>3. r = [[q EXCEPT !.status = "ok"] EXCEPT !.data = <<d>>]
  <2>1. u = [q EXCEPT !.status = "ok"]
    BY <1>1
  <2>2. r = [u EXCEPT !.data = <<d>>]
    OBVIOUS
  <2>3. QED
    BY <2>1, <2>2
<1>4. net' = [net EXCEPT ![i] = r]
  BY <1>2, <1>3 DEF Answer, q
<1>5. QED
  BY <1>4 DEF IsRequest, q

LEMMA ReadKeeps ==
    ASSUME IsNet(net), NEW i \in DOMAIN net, NEW d, Read(i, d)
    PROVE  \E r : /\ IsRequest(r)
                  /\ r.op = net[i].op /\ r.arg = net[i].arg /\ r.late = net[i].late
                  /\ r.status = "read" /\ r.data = <<d>>
                  /\ net' = [net EXCEPT ![i] = r]
<1> DEFINE q == net[i]
           r == [op |-> q.op, arg |-> q.arg, status |-> "read",
                 data |-> <<d>>, late |-> q.late]
           u == [op |-> q.op, arg |-> q.arg, status |-> "read",
                 data |-> q.data, late |-> q.late]
<1>1. q = [op |-> q.op, arg |-> q.arg, status |-> q.status,
           data |-> q.data, late |-> q.late]
  BY NetElements DEF IsRequest
<1>2. PICK S : net \in Seq(S)
  BY DEF IsNet
<1> HIDE DEF q
<1>3. r = [[q EXCEPT !.status = "read"] EXCEPT !.data = <<d>>]
  <2>1. u = [q EXCEPT !.status = "read"]
    BY <1>1
  <2>2. r = [u EXCEPT !.data = <<d>>]
    OBVIOUS
  <2>3. QED
    BY <2>1, <2>2
<1>4. net' = [net EXCEPT ![i] = r]
  BY <1>2, <1>3 DEF Read, q
<1>5. QED
  BY <1>4 DEF IsRequest, q

LEMMA FailKeeps ==
    ASSUME IsNet(net), NEW i \in DOMAIN net, Fail(i)
    PROVE  \E r : /\ IsRequest(r)
                  /\ r.op = net[i].op /\ r.arg = net[i].arg /\ r.late = net[i].late
                  /\ r.status = "error"
                  /\ net' = [net EXCEPT ![i] = r]
<1> DEFINE q == net[i]
           r == [op |-> q.op, arg |-> q.arg, status |-> "error",
                 data |-> q.data, late |-> q.late]
<1>1. q = [op |-> q.op, arg |-> q.arg, status |-> q.status,
           data |-> q.data, late |-> q.late]
  BY NetElements DEF IsRequest
<1>2. PICK S : net \in Seq(S)
  BY DEF IsNet
<1>3. r = [q EXCEPT !.status = "error"]
  BY <1>1
<1>4. net' = [net EXCEPT ![i] = r]
  BY <1>2, <1>3 DEF Fail
<1>5. QED
  BY <1>4 DEF IsRequest

LEMMA RangeSubSeq ==
    ASSUME NEW S, NEW n \in Seq(S), NEW a \in Nat \ {0}, NEW b \in Nat, b <= Len(n)
    PROVE  /\ SubSeq(n, a, b) \in Seq(S)
           /\ Range(SubSeq(n, a, b)) = {n[k] : k \in a..b}
<1> DEFINE m == SubSeq(n, a, b)
<1>1. Len(n) \in Nat /\ \A k \in a..b : n[k] \in S
  OBVIOUS
<1>2. m = [k \in 1..(b - a + 1) |-> n[a + k - 1]]
  OBVIOUS
<1>3. \A k \in 1..(b - a + 1) : a + k - 1 \in a..b
  OBVIOUS
<1>4. \A k \in a..b : k - a + 1 \in 1..(b - a + 1) /\ a + (k - a + 1) - 1 = k
  OBVIOUS
<1>5. m \in Seq(S)
  BY <1>1, <1>2, <1>3
<1>6. ASSUME NEW j \in 1..(b - a + 1) PROVE m[j] \in {n[k] : k \in a..b}
  BY <1>2, <1>3
<1>7. ASSUME NEW k \in a..b PROVE \E j \in 1..(b - a + 1) : m[j] = n[k]
  BY <1>2, <1>4
<1>8. DOMAIN m = 1..(b - a + 1)
  BY <1>2
<1>9. QED
  BY ONLY <1>5, <1>6, <1>7, <1>8 DEF Range

(* The call of request i returns; those of rs are sent.                    *)
LEMMA RemoveAtKeeps ==
    ASSUME NEW S, NEW n \in Seq(S), NEW i \in DOMAIN n, NEW rs \in Seq(S)
    PROVE  /\ RemoveAt(n, i) \o rs \in Seq(S)
           /\ Range(RemoveAt(n, i) \o rs) =
                  {n[k] : k \in DOMAIN n \ {i}} \cup Range(rs)
<1> DEFINE a == SubSeq(n, 1, i - 1)
           b == SubSeq(n, i + 1, Len(n))
<1>1. Len(n) \in Nat /\ DOMAIN n = 1..Len(n) /\ i \in 1..Len(n)
  OBVIOUS
<1>2. a \in Seq(S) /\ Range(a) = {n[k] : k \in 1..(i - 1)}
  BY <1>1, RangeSubSeq
<1>3. b \in Seq(S) /\ Range(b) = {n[k] : k \in (i + 1)..Len(n)}
  BY <1>1, RangeSubSeq
<1>4. RemoveAt(n, i) = a \o b
  BY DEF RemoveAt
<1> HIDE DEF a, b
<1>5. RemoveAt(n, i) \in Seq(S)
  BY <1>2, <1>3, <1>4
<1>6. Range(RemoveAt(n, i)) = Range(a) \cup Range(b)
  <2>1. Range(a \o b) = Range(a) \cup Range(b)
    BY <1>2, <1>3, RangeConcat
  <2>2. QED
    BY <1>4, <2>1
<1>7. DOMAIN n \ {i} = (1..(i - 1)) \cup ((i + 1)..Len(n))
  BY <1>1
<1>8. Range(RemoveAt(n, i)) = {n[k] : k \in DOMAIN n \ {i}}
  BY <1>2, <1>3, <1>6, <1>7
<1>9. Range(RemoveAt(n, i) \o rs) = Range(RemoveAt(n, i)) \cup Range(rs)
  BY <1>5, RangeConcat
<1>10. RemoveAt(n, i) \o rs \in Seq(S)
  BY <1>5
<1>11. QED
  BY <1>8, <1>9, <1>10

LEMMA JoinNets ==
    ASSUME NEW n, NEW m, IsNet(n), IsNet(m)
    PROVE  \E S : n \in Seq(S) /\ m \in Seq(S) /\ \A r \in S : IsRequest(r)
<1>1. PICK A : n \in Seq(A) /\ \A r \in A : IsRequest(r)
  BY DEF IsNet
<1>2. PICK B : m \in Seq(B) /\ \A r \in B : IsRequest(r)
  BY DEF IsNet
<1>3. n \in Seq(A \cup B) /\ m \in Seq(A \cup B)
  BY <1>1, <1>2
<1>4. QED
  BY <1>1, <1>2, <1>3

LEMMA ReturnKeeps ==
    ASSUME IsNet(net), NEW i \in DOMAIN net, NEW rs, IsNet(rs), Return(i, rs)
    PROVE  /\ IsNet(net')
           /\ Range(net') = {net[k] : k \in DOMAIN net \ {i}} \cup Range(rs)
<1>1. PICK S : net \in Seq(S) /\ rs \in Seq(S) /\ \A r \in S : IsRequest(r)
  BY JoinNets
<1>2. QED
  BY <1>1, RemoveAtKeeps DEF Return, IsNet

LEMMA LateRecord ==
    ASSUME NEW q, IsRequest(q), NEW b
    PROVE  [q EXCEPT !.late = b] = [op |-> q.op, arg |-> q.arg, status |-> q.status,
                                    data |-> q.data, late |-> b]
BY DEF IsRequest

(* The requests of a load's kind may be marked late, and stay otherwise.   *)
LEMMA ReturnLoadKeeps ==
    ASSUME IsNet(net), NEW i \in DOMAIN net, NEW rs, IsNet(rs), ReturnLoad(i, rs)
    PROVE  /\ IsNet(net')
           /\ \A r \in Range(net') : \/ r \in Range(rs)
                                     \/ \E k \in DOMAIN net : Same(r, net[k])
           /\ \A k \in DOMAIN net \ {i} : \E r \in Range(net') : Same(r, net[k])
           /\ Range(rs) \subseteq Range(net')
<1> DEFINE Marked(k) == IF k < i /\ net[k].op = net[i].op
                        THEN [net[k] EXCEPT !.late = TRUE] ELSE net[k]
           n == [k \in DOMAIN net |-> Marked(k)]
<1>1. ASSUME NEW k \in DOMAIN net
      PROVE  IsRequest(Marked(k)) /\ Same(Marked(k), net[k])
  <2> DEFINE q == net[k]
             u == [op |-> q.op, arg |-> q.arg, status |-> q.status,
                   data |-> q.data, late |-> TRUE]
  <2>1. q = [op |-> q.op, arg |-> q.arg, status |-> q.status,
             data |-> q.data, late |-> q.late]
    BY NetElements DEF IsRequest
  <2>2. CASE Marked(k) = [net[k] EXCEPT !.late = TRUE]
    <3> HIDE DEF q, Marked
    <3>1. u = [q EXCEPT !.late = TRUE]
      BY <2>1, LateRecord DEF IsRequest
    <3>2. IsRequest(u) /\ Same(u, q)
      BY DEF IsRequest, Same
    <3>3. Marked(k) = u
      BY <2>2, <3>1 DEF q
    <3> HIDE DEF u
    <3>4. QED
      BY <3>2, <3>3 DEF q
  <2>3. CASE Marked(k) = net[k]
    BY <2>1, <2>3 DEF IsRequest, Same
  <2>4. QED
    BY <2>2, <2>3
<1> HIDE DEF Marked
<1>2. /\ n \in Seq({Marked(k) : k \in DOMAIN net})
      /\ DOMAIN n = DOMAIN net
  <2>1. Len(net) \in Nat /\ DOMAIN net = 1..Len(net)
    BY NetElements
  <2>2. n \in [1..Len(net) -> {Marked(k) : k \in DOMAIN net}]
    BY <2>1
  <2>3. QED
    BY <2>1, <2>2
<1>3. IsNet(n)
  BY <1>1, <1>2 DEF IsNet
<1>4. net' = RemoveAt(n, i) \o rs
  BY DEF ReturnLoad, Marked
<1>5. PICK S : n \in Seq(S) /\ rs \in Seq(S) /\ \A r \in S : IsRequest(r)
  BY <1>3, JoinNets
<1> HIDE DEF n
<1>6. /\ net' \in Seq(S)
      /\ Range(net') = {n[k] : k \in DOMAIN n \ {i}} \cup Range(rs)
  BY <1>2, <1>4, <1>5, RemoveAtKeeps
<1>7. \A k \in DOMAIN net : Same(n[k], net[k])
  BY <1>1 DEF n
<1>8. QED
  BY <1>2, <1>5, <1>6, <1>7 DEF IsNet

(***************************************************************************)
(* Where the requests go: those at the places A of n are in m, in their    *)
(* order and each once, and behind them the request of R, if there is one. *)
(***************************************************************************)

Moves(n, m, A, R, f) ==
    /\ A \subseteq DOMAIN n
    /\ f \in [DOMAIN m -> A \cup {Len(n) + 1}]
    /\ \A j, k \in DOMAIN m : f[j] = f[k] => j = k
    /\ \A j, k \in DOMAIN m : j < k => f[j] < f[k]
    /\ \A j \in DOMAIN m : f[j] \in A => Same(m[j], n[f[j]]) /\ (n[f[j]].late => m[j].late)
    /\ \A j \in DOMAIN m : f[j] \notin A => m[j] \in R
    /\ \A k \in A : \E j \in DOMAIN m : f[j] = k
    /\ R # {} => \E j \in DOMAIN m : f[j] \notin A

LEMMA ConcatPlaces ==
    ASSUME NEW S, NEW a \in Seq(S), NEW b \in Seq(S)
    PROVE  /\ a \o b \in Seq(S) /\ Len(a \o b) = Len(a) + Len(b)
           /\ \A j \in 1..Len(a) : (a \o b)[j] = a[j]
           /\ \A j \in 1..Len(b) : (a \o b)[Len(a) + j] = b[j]
OBVIOUS

(* The places of a sequence from which one element is taken.               *)
LEMMA PlacesLeft ==
    ASSUME NEW S, NEW n \in Seq(S), NEW i \in DOMAIN n
    PROVE  /\ RemoveAt(n, i) \in Seq(S)
           /\ Len(RemoveAt(n, i)) = Len(n) - 1
           /\ \A j \in 1..(Len(n) - 1) :
                 RemoveAt(n, i)[j] = n[IF j < i THEN j ELSE j + 1]
<1> DEFINE a == SubSeq(n, 1, i - 1)
           b == SubSeq(n, i + 1, Len(n))
<1>1. Len(n) \in Nat /\ i \in 1..Len(n) /\ DOMAIN n = 1..Len(n)
  OBVIOUS
<1>2. /\ a \in Seq(S) /\ Len(a) = i - 1
      /\ \A j \in 1..(i - 1) : a[j] = n[j]
  BY <1>1
<1>3. /\ b \in Seq(S) /\ Len(b) = Len(n) - i
      /\ \A j \in 1..(Len(n) - i) : b[j] = n[j + i]
  BY <1>1
<1>4. RemoveAt(n, i) = a \o b
  BY DEF RemoveAt
<1> HIDE DEF a, b
<1>5. /\ a \o b \in Seq(S) /\ Len(a \o b) = Len(n) - 1
      /\ \A j \in 1..(i - 1) : (a \o b)[j] = a[j]
      /\ \A j \in 1..(Len(n) - i) : (a \o b)[(i - 1) + j] = b[j]
  <2>1. Len(a) + Len(b) = Len(n) - 1
    BY <1>1, <1>2, <1>3
  <2>2. /\ a \o b \in Seq(S) /\ Len(a \o b) = Len(a) + Len(b)
        /\ \A j \in 1..Len(a) : (a \o b)[j] = a[j]
        /\ \A j \in 1..Len(b) : (a \o b)[Len(a) + j] = b[j]
    <3>1. \A p, q \in Seq(S) :
             /\ p \o q \in Seq(S) /\ Len(p \o q) = Len(p) + Len(q)
             /\ \A j \in 1..Len(p) : (p \o q)[j] = p[j]
             /\ \A j \in 1..Len(q) : (p \o q)[Len(p) + j] = q[j]
      BY ConcatPlaces
    <3>2. a \in Seq(S) /\ b \in Seq(S)
      BY <1>2, <1>3
    <3>3. QED
      BY ONLY <3>1, <3>2
  <2>3. Len(a) = i - 1 /\ Len(b) = Len(n) - i
    BY <1>2, <1>3
  <2>4. QED
    BY ONLY <2>1, <2>2, <2>3
<1>6. ASSUME NEW j \in 1..(Len(n) - 1)
      PROVE  (a \o b)[j] = n[IF j < i THEN j ELSE j + 1]
  <2>1. CASE j < i
    BY <1>1, <1>2, <1>5, <2>1
  <2>2. CASE ~(j < i)
    <3>1. PICK k \in 1..(Len(n) - i) : j = (i - 1) + k
      <4>1. j - (i - 1) \in 1..(Len(n) - i) /\ j = (i - 1) + (j - (i - 1))
        BY <1>1, <2>2
      <4>2. QED
        BY <4>1
    <3>2. (a \o b)[j] = b[k] /\ b[k] = n[k + i] /\ k + i = j + 1
      BY <1>1, <1>3, <1>5, <3>1
    <3>3. QED
      BY <2>2, <3>2
  <2>3. QED
    BY <2>1, <2>2
<1>7. QED
  BY <1>4, <1>5, <1>6

(* The rest of the requests when one has returned and rs are sent.         *)
LEMMA RestMoves ==
    ASSUME NEW n, IsNet(n), NEW i \in DOMAIN n,
           NEW R, NEW rs, \/ R = {} /\ rs = <<>>
                          \/ \E r \in R : R = {r} /\ rs = <<r>> /\ IsRequest(r)
    PROVE  /\ IsNet(RemoveAt(n, i) \o rs)
           /\ \E f : Moves(n, RemoveAt(n, i) \o rs, DOMAIN n \ {i}, R, f)
<1> DEFINE b == RemoveAt(n, i)
           m == b \o rs
           L == Len(n) - 1
           f == [j \in DOMAIN m |-> IF j < i THEN j ELSE j + 1]
<1>1. IsNet(rs)
  <2>1. CASE R = {} /\ rs = <<>>
    BY <2>1, EmptyNet
  <2>2. ASSUME NEW r \in R, R = {r}, rs = <<r>>, IsRequest(r)
        PROVE  IsNet(rs)
    <3>1. rs \in Seq({r})
      BY <2>2
    <3>2. QED
      BY <2>2, <3>1 DEF IsNet
  <2>3. QED
    BY <2>1, <2>2
<1>2. PICK S : n \in Seq(S) /\ rs \in Seq(S) /\ \A r \in S : IsRequest(r)
  BY <1>1, JoinNets
<1>20. Len(n) \in Nat /\ DOMAIN n = 1..Len(n) /\ i \in 1..Len(n)
  BY <1>2
<1>3. /\ Len(n) \in Nat /\ DOMAIN n = 1..Len(n) /\ i \in 1..Len(n)
      /\ b \in Seq(S) /\ Len(b) = L
      /\ \A j \in 1..L : b[j] = n[IF j < i THEN j ELSE j + 1]
  BY <1>2, <1>20, PlacesLeft, Zenon
<1> HIDE DEF b
<1>4. m \in Seq(S)
  BY <1>2, <1>3
<1>5. IsNet(m)
  BY <1>2, <1>4 DEF IsNet
<1>6. /\ L \in Nat /\ L <= Len(m) /\ DOMAIN m = 1..Len(m)
      /\ Len(m) = L + Len(rs)
      /\ \A j \in 1..L : m[j] = b[j]
      /\ \A j \in 1..Len(rs) : m[L + j] = rs[j]
  <2>1. L \in Nat /\ Len(rs) \in Nat
    BY <1>2, <1>3
  <2>2. /\ Len(m) = L + Len(rs)
        /\ \A j \in 1..L : m[j] = b[j]
        /\ \A j \in 1..Len(rs) : m[L + j] = rs[j]
    BY <1>2, <1>3, ConcatPlaces
  <2>3. QED
    BY <1>4, <2>1, <2>2
<1>7. \/ R = {} /\ Len(m) = L
      \/ R = {m[L + 1]} /\ Len(m) = L + 1
  <2>1. CASE R = {} /\ rs = <<>>
    BY <1>6, <2>1
  <2>2. ASSUME NEW r \in R, R = {r}, rs = <<r>>, IsRequest(r)
        PROVE  R = {m[L + 1]} /\ Len(m) = L + 1
    <3>1. Len(rs) = 1 /\ rs[1] = r
      BY <2>2
    <3>2. m[L + 1] = rs[1]
      BY <1>6, <3>1
    <3>3. QED
      BY <1>6, <2>2, <3>1, <3>2
  <2>3. QED
    BY <2>1, <2>2
<1> HIDE DEF m
<1>8. \A j \in DOMAIN m : \/ j \in 1..L /\ f[j] \in DOMAIN n \ {i} /\ m[j] = n[f[j]]
                          \/ j = L + 1 /\ f[j] = Len(n) + 1 /\ R = {m[j]}
  <2>1. ASSUME NEW j \in 1..L
        PROVE  f[j] \in DOMAIN n \ {i} /\ m[j] = n[f[j]]
    <3>1. j \in DOMAIN m /\ m[j] = n[IF j < i THEN j ELSE j + 1]
      BY <1>3, <1>6
    <3>2. f[j] = IF j < i THEN j ELSE j + 1
      BY <3>1
    <3>3. (IF j < i THEN j ELSE j + 1) \in DOMAIN n \ {i}
      BY <1>3
    <3>4. QED
      BY ONLY <3>1, <3>2, <3>3
  <2>2. ASSUME NEW j \in DOMAIN m, j \notin 1..L
        PROVE  j = L + 1 /\ f[j] = Len(n) + 1 /\ R = {m[j]}
    <3>1. L \in Nat /\ Len(m) \in {L, L + 1} /\ j \in 1..Len(m)
      BY <1>6, <1>7, <2>2
    <3>3. Len(n) \in Nat /\ i \in 1..Len(n) /\ L = Len(n) - 1
      BY <1>3
    <3>4. j = L + 1 /\ ~(j < i) /\ j + 1 = Len(n) + 1
      BY ONLY <2>2, <3>1, <3>3
    <3>5. Len(m) # L
      BY <3>1, <3>4
    <3>6. R = {m[j]}
      BY <1>7, <3>4, <3>5
    <3>2. f[j] = IF j < i THEN j ELSE j + 1
      OBVIOUS
    <3>7. QED
      BY ONLY <3>2, <3>4, <3>6
  <2>3. QED
    BY <2>1, <2>2
<1>9. f \in [DOMAIN m -> (DOMAIN n \ {i}) \cup {Len(n) + 1}]
  BY <1>8
<1>10. \A j, k \in DOMAIN m : (f[j] = f[k] => j = k) /\ (j < k => f[j] < f[k])
  BY <1>3, <1>6
<1>11. \A k \in DOMAIN n \ {i} : \E j \in DOMAIN m : f[j] = k
  <2>1. ASSUME NEW k \in DOMAIN n \ {i} PROVE \E j \in DOMAIN m : f[j] = k
    <3>1. CASE k < i
      <4>1. k \in DOMAIN m /\ f[k] = k
        BY <1>3, <1>6, <3>1
      <4>2. QED
        BY <4>1
    <3>2. CASE k > i
      <4>1. k - 1 \in DOMAIN m /\ f[k - 1] = k
        BY <1>3, <1>6, <3>2
      <4>2. QED
        BY <4>1
    <3>3. QED
      BY <1>3, <3>1, <3>2
  <2>2. QED
    BY <2>1
<1>12. R # {} => \E j \in DOMAIN m : f[j] = Len(n) + 1
  <2>1. ASSUME R # {} PROVE \E j \in DOMAIN m : f[j] = Len(n) + 1
    <3>2. Len(m) = L + 1 /\ L \in Nat /\ DOMAIN m = 1..Len(m)
      BY <1>6, <1>7, <2>1
    <3>1. L + 1 \in DOMAIN m /\ L + 1 \notin 1..L
      BY ONLY <3>2
    <3>10. f[L + 1] = Len(n) + 1
      BY <1>8, <3>1
    <3>3. QED
      BY <3>1, <3>10
  <2>2. QED
    BY <2>1
<1>13. Len(n) + 1 \notin DOMAIN n
  BY <1>3
<1> HIDE DEF f
<1>14. Moves(n, m, DOMAIN n \ {i}, R, f)
  BY <1>8, <1>9, <1>10, <1>11, <1>12, <1>13 DEF Moves, Same
<1>15. QED
  BY <1>5, <1>14 DEF m, b

LEMMA ReturnMoves ==
    ASSUME IsNet(net), NEW i \in DOMAIN net, Return(i, <<>>)
    PROVE  IsNet(net') /\ \E f : Moves(net, net', DOMAIN net \ {i}, {}, f)
BY RestMoves DEF Return

LEMMA ReturnSendMoves ==
    ASSUME IsNet(net), NEW i \in DOMAIN net, NEW r, IsRequest(r), Return(i, <<r>>)
    PROVE  IsNet(net') /\ \E f : Moves(net, net', DOMAIN net \ {i}, {r}, f)
BY RestMoves DEF Return

LEMMA ReturnMaySend ==
    ASSUME IsNet(net), NEW i \in DOMAIN net, NEW r, IsRequest(r),
           Return(i, <<>>) \/ Return(i, <<r>>)
    PROVE  IsNet(net') /\ \E R, f : R \subseteq {r} /\ Moves(net, net', DOMAIN net \ {i}, R, f)
<1>1. CASE Return(i, <<>>)
  <2>1. IsNet(net') /\ \E f : Moves(net, net', DOMAIN net \ {i}, {}, f)
    BY <1>1, ReturnMoves
  <2>2. {} \subseteq {r}
    OBVIOUS
  <2>3. QED
    BY <2>1, <2>2
<1>2. CASE Return(i, <<r>>)
  <2>1. IsNet(net') /\ \E f : Moves(net, net', DOMAIN net \ {i}, {r}, f)
    BY <1>2, ReturnSendMoves
  <2>2. {r} \subseteq {r}
    OBVIOUS
  <2>3. QED
    BY <2>1, <2>2
<1>3. QED
  BY <1>1, <1>2

(* The answer to a load makes the older ones of its kind late.             *)
LEMMA ReturnLoadMoves ==
    ASSUME IsNet(net), NEW i \in DOMAIN net, ReturnLoad(i, <<>>)
    PROVE  /\ IsNet(net')
           /\ \E f : /\ Moves(net, net', DOMAIN net \ {i}, {}, f)
                     /\ \A j \in DOMAIN net' :
                           f[j] < i /\ net'[j].op = net[i].op => net'[j].late
<1> DEFINE Marked(k) == IF k < i /\ net[k].op = net[i].op
                        THEN [net[k] EXCEPT !.late = TRUE] ELSE net[k]
           n == [k \in DOMAIN net |-> Marked(k)]
<1>1. ASSUME NEW k \in DOMAIN net
      PROVE  /\ IsRequest(Marked(k)) /\ Same(Marked(k), net[k])
             /\ net[k].late => Marked(k).late
             /\ k < i /\ net[k].op = net[i].op => Marked(k).late
  <2> DEFINE q == net[k]
             u == [op |-> q.op, arg |-> q.arg, status |-> q.status,
                   data |-> q.data, late |-> TRUE]
  <2>1. IsRequest(q)
    BY NetElements
  <2>2. CASE k < i /\ net[k].op = net[i].op
    <3>1. Marked(k) = u
      BY <2>1, <2>2, LateRecord
    <3>2. IsRequest(u) /\ Same(u, q) /\ u.late
      BY DEF IsRequest, Same
    <3>3. QED
      BY ONLY <3>1, <3>2
  <2>3. CASE ~(k < i /\ net[k].op = net[i].op)
    BY <2>1, <2>3 DEF Same
  <2>4. QED
    BY <2>2, <2>3
<1> HIDE DEF Marked
<1>2. Len(net) \in Nat /\ DOMAIN net = 1..Len(net)
  BY NetElements
<1>3. n \in Seq({Marked(k) : k \in DOMAIN net}) /\ DOMAIN n = DOMAIN net /\ Len(n) = Len(net)
  <2>1. n \in [1..Len(net) -> {Marked(k) : k \in DOMAIN net}]
    BY <1>2
  <2>2. QED
    BY <1>2, <2>1
<1>4. IsNet(n)
  BY <1>1, <1>3 DEF IsNet
<1>5. net' = RemoveAt(n, i) \o <<>>
  BY DEF ReturnLoad, Marked
<1>6. \A k \in DOMAIN net : n[k] = Marked(k)
  OBVIOUS
<1> HIDE DEF n
<1>7. PICK f : IsNet(net') /\ Moves(n, net', DOMAIN n \ {i}, {}, f)
  BY <1>3, <1>4, <1>5, RestMoves
<1>8. \A j \in DOMAIN net' : f[j] \in DOMAIN net \ {i}
  BY <1>3, <1>7 DEF Moves
<1>9. ASSUME NEW j \in DOMAIN net'
      PROVE  /\ Same(net'[j], net[f[j]])
             /\ net[f[j]].late => net'[j].late
             /\ f[j] < i /\ net'[j].op = net[i].op => net'[j].late
  <2>1. /\ f[j] \in DOMAIN net
        /\ Same(net'[j], n[f[j]]) /\ (n[f[j]].late => net'[j].late)
    BY <1>3, <1>7, <1>8 DEF Moves
  <2>2. PICK k \in DOMAIN net : k = f[j]
    BY <2>1
  <2>3. QED
    BY <1>1, <1>6, <2>1, <2>2 DEF Same
<1>10. Moves(net, net', DOMAIN net \ {i}, {}, f)
  BY <1>3, <1>7, <1>9 DEF Moves
<1>11. QED
  BY <1>7, <1>9, <1>10

LEMMA SendMoves ==
    ASSUME IsNet(net), NEW r, IsRequest(r), Send(r)
    PROVE  IsNet(net') /\ \E f : Moves(net, net', DOMAIN net, {r}, f)
<1> DEFINE f == [j \in DOMAIN net' |-> j]
<1>1. IsNet(net')
  BY SendAdds
<1>2. net \in Seq(Range(net)) /\ net' = Append(net, r)
  BY NetElements DEF Send
<1>3. /\ Len(net) \in Nat /\ DOMAIN net = 1..Len(net)
      /\ DOMAIN net' = 1..(Len(net) + 1)
      /\ \A k \in 1..Len(net) : net'[k] = net[k]
      /\ net'[Len(net) + 1] = r
  BY <1>2
<1>4. f \in [DOMAIN net' -> DOMAIN net \cup {Len(net) + 1}]
  BY <1>3
<1>5. \A j \in DOMAIN net' : f[j] = j
  OBVIOUS
<1>6. Len(net) + 1 \in DOMAIN net' /\ Len(net) + 1 \notin DOMAIN net
  BY <1>3
<1> HIDE DEF f
<1>7. Moves(net, net', DOMAIN net, {r}, f)
  BY <1>3, <1>4, <1>5, <1>6 DEF Moves, Same
<1>8. QED
  BY <1>1, <1>7

(* The clean-up of an effect takes the only request of its kind.           *)
LEMMA WithoutMoves ==
    ASSUME NEW n, IsNet(n), NEW op,
           \A i, j \in DOMAIN n : n[i].op = op /\ n[j].op = op => i = j
    PROVE  /\ IsNet(Without(n, op))
           /\ \E f : Moves(n, Without(n, op), {k \in DOMAIN n : n[k].op # op}, {}, f)
<1> DEFINE T(r) == r.op = op
           A == {k \in DOMAIN n : n[k].op # op}
<1>1. Len(n) \in Nat /\ DOMAIN n = 1..Len(n) /\ n \in Seq(Range(n))
  BY NetElements
<1>2. CASE \E i \in 1..Len(n) : T(n[i])
  <2>1. PICK i \in DOMAIN n : n[i].op = op
    BY <1>1, <1>2
  <2>2. {k \in 1..Len(n) : T(n[k])} = {i}
    BY <1>1, <2>1
  <2>3. SelectInSeq(n, T) = i
    <3>1. \A x \in {i} : Min({i}) = x
      BY <1>1 DEF Min
    <3>2. QED
      BY <2>2, <3>1 DEF SelectInSeq
  <2>4. Without(n, op) = RemoveAt(n, i)
    BY <1>2, <2>3 DEF Without, RemoveFirstMatch
  <2>5. RemoveAt(n, i) \o <<>> = RemoveAt(n, i)
    <3>1. RemoveAt(n, i) \in Seq(Range(n))
      BY <1>1, PlacesLeft
    <3>2. QED
      BY <3>1, ConcatEmptySeq
  <2>6. A = DOMAIN n \ {i}
    BY <2>1
  <2> HIDE DEF A
  <2>7. /\ IsNet(RemoveAt(n, i) \o <<>>)
        /\ \E f : Moves(n, RemoveAt(n, i) \o <<>>, DOMAIN n \ {i}, {}, f)
    BY <2>1, RestMoves
  <2>8. QED
    BY <2>4, <2>5, <2>6, <2>7 DEF A
<1>3. CASE ~\E i \in 1..Len(n) : T(n[i])
  <2> DEFINE f == [j \in DOMAIN n |-> j]
  <2>1. Without(n, op) = n
    BY <1>3 DEF Without, RemoveFirstMatch
  <2>2. A = DOMAIN n
    BY <1>1, <1>3
  <2>3. f \in [DOMAIN n -> DOMAIN n \cup {Len(n) + 1}] /\ \A j \in DOMAIN n : f[j] = j
    OBVIOUS
  <2> HIDE DEF f
  <2>4. Moves(n, n, DOMAIN n, {}, f)
    BY <2>3 DEF Moves, Same
  <2>5. QED
    BY <2>1, <2>2, <2>4
<1>4. QED
  BY <1>2, <1>3

(* Request i of n is answered, and stays what was asked for.               *)
Served(n, m, i) == /\ DOMAIN m = DOMAIN n
                   /\ \A k \in DOMAIN n \ {i} : m[k] = n[k]
                   /\ m[i].op = n[i].op /\ m[i].arg = n[i].arg /\ m[i].late = n[i].late

LEMMA ReplaceServes ==
    ASSUME IsNet(net), NEW i \in DOMAIN net, NEW r, IsRequest(r),
           r.op = net[i].op, r.arg = net[i].arg, r.late = net[i].late,
           net' = [net EXCEPT ![i] = r]
    PROVE  IsNet(net') /\ Served(net, net', i) /\ net'[i] = r
<1>1. net \in Seq(Range(net))
  BY NetElements
<1>2. net'[i] = r /\ DOMAIN net' = DOMAIN net /\ \A k \in DOMAIN net \ {i} : net'[k] = net[k]
  BY <1>1
<1>3. QED
  BY <1>2, ReplaceOne DEF Served

LEMMA AnswerServes ==
    ASSUME IsNet(net), NEW i \in DOMAIN net, NEW d, Answer(i, d)
    PROVE  /\ IsNet(net') /\ Served(net, net', i)
           /\ net'[i].status = "ok" /\ net'[i].data[1] = d
<1>1. PICK r : /\ IsRequest(r)
               /\ r.op = net[i].op /\ r.arg = net[i].arg /\ r.late = net[i].late
               /\ r.status = "ok" /\ r.data = <<d>>
               /\ net' = [net EXCEPT ![i] = r]
  BY AnswerKeeps
<1>2. <<d>>[1] = d
  OBVIOUS
<1>3. QED
  BY <1>1, <1>2, ReplaceServes

LEMMA ReadServes ==
    ASSUME IsNet(net), NEW i \in DOMAIN net, NEW d, Read(i, d)
    PROVE  /\ IsNet(net') /\ Served(net, net', i)
           /\ net'[i].status = "read" /\ net'[i].data[1] = d
<1>1. PICK r : /\ IsRequest(r)
               /\ r.op = net[i].op /\ r.arg = net[i].arg /\ r.late = net[i].late
               /\ r.status = "read" /\ r.data = <<d>>
               /\ net' = [net EXCEPT ![i] = r]
  BY ReadKeeps
<1>2. <<d>>[1] = d
  OBVIOUS
<1>3. QED
  BY <1>1, <1>2, ReplaceServes

LEMMA FailServes ==
    ASSUME IsNet(net), NEW i \in DOMAIN net, Fail(i)
    PROVE  /\ IsNet(net') /\ Served(net, net', i)
           /\ net'[i].status = "error"
<1>1. PICK r : /\ IsRequest(r)
               /\ r.op = net[i].op /\ r.arg = net[i].arg /\ r.late = net[i].late
               /\ r.status = "error"
               /\ net' = [net EXCEPT ![i] = r]
  BY FailKeeps
<1>2. QED
  BY <1>1, ReplaceServes

(***************************************************************************)
(* Polling of submissions.                                                 *)
(***************************************************************************)

(* The effect's clean-up and its next run: what is left is one interval,   *)
(* if there is something to wait for.                                      *)
LEMMA EffectMatches ==
    ASSUME PollingMatchesScreen, NEW l, PollEffect(l), list' = l
    PROVE  PollingMatchesScreen'
<1>1. Remaining = 0
  BY DEF PollingMatchesScreen, Remaining
<1>2. intervals' = (IF HasPending(l) THEN 1 ELSE 0) /\ pollRef' = HasPending(l)
  BY <1>1 DEF PollEffect
<1>3. HasPending(list)' = HasPending(l)
  BY DEF HasPending
<1>4. QED
  BY <1>2, <1>3 DEF PollingMatchesScreen

(* A step that leaves the list and the effect alone.                       *)
LEMMA EffectKept ==
    ASSUME PollingMatchesScreen, UNCHANGED <<list, poll>>
    PROVE  PollingMatchesScreen'
BY DEF PollingMatchesScreen, HasPending, poll

LEMMA MountMatches ==
    ASSUME PollingMatchesScreen, NEW p, NEW id, NEW l, Mount(p, id, l)
    PROVE  PollingMatchesScreen'
BY EffectMatches DEF Mount

LEMMA SubmissionsMatch ==
    ASSUME PollingMatchesScreen, SubNext
    PROVE  PollingMatchesScreen'
<1> USE DEF screen
<1>1. CASE OpenForm \/ OpenMine \/ \E id : OpenDetail(id)
  BY <1>1, MountMatches DEF OpenForm, OpenMine, OpenDetail
<1>2. CASE Arrive \/ \E n \in DOMAIN rows : ViewRow(n)
  BY <1>1, <1>2 DEF Arrive, ViewRow
<1>3. CASE SubSignOut
  <2>1. CASE place = "mine"
    <3>1. PollEffect(list) /\ list' = list
      BY <1>3, <2>1 DEF SubSignOut
    <3>2. QED
      BY <3>1, EffectMatches
  <2>2. CASE place # "mine"
    BY <1>3, <2>2, EffectKept DEF SubSignOut
  <2>3. QED
    BY <2>1, <2>2
<1>4. ASSUME NEW i \in DOMAIN net, DetailPolled(i)
      PROVE  PollingMatchesScreen'
  <2>1. CASE list' = list
    BY <1>4, <2>1, EffectKept DEF DetailPolled
  <2>2. CASE list' # list
    <3>1. PollEffect(list') /\ list' = Data(i)
      BY <1>4, <2>2 DEF DetailPolled
    <3>2. PollEffect(Data(i))
      BY <3>1
    <3>3. QED
      BY <3>1, <3>2, EffectMatches
  <2>3. QED
    BY <2>1, <2>2
<1>5. ASSUME NEW i \in DOMAIN net, MineAnswered(i)
      PROVE  PollingMatchesScreen'
  <2>1. list' = Data(i) /\ PollEffect(list')
    BY <1>5 DEF MineAnswered
  <2>2. PollEffect(Data(i))
    BY <2>1
  <2>3. QED
    BY <2>1, <2>2, EffectMatches
<1>6. CASE SubmitCode \/ DetailTick \/ MineTick
  BY <1>6, EffectKept DEF SubmitCode, DetailTick, MineTick
<1>7. ASSUME NEW i \in DOMAIN net,
             \/ ReadSubmissions(i) \/ StoreSubmission(i) \/ SubmitAnswered(i)
             \/ MineLoadFailed(i) \/ PollFailed(i) \/ SubFails(i)
      PROVE  PollingMatchesScreen'
  BY <1>7, EffectKept DEF ReadSubmissions, StoreSubmission, SubmitAnswered,
     MineLoadFailed, PollFailed, SubFails
<1>8. ASSUME NEW n \in DOMAIN rows, Judge(n)
      PROVE  PollingMatchesScreen'
  BY <1>8, EffectKept DEF Judge
<1>9. QED
  BY <1>1, <1>2, <1>3, <1>4, <1>5, <1>6, <1>7, <1>8
     DEF SubNext, Ticks, Reads, Polled, Posted, Errors, Losses

(* One interval runs exactly while a pending verdict is shown, whatever    *)
(* the order of answers, page changes and sign-outs.                       *)
THEOREM PollingNeverLeaks == Spec => []PollingMatchesScreen
<1>1. Init => PollingMatchesScreen
  <2> SUFFICES ASSUME SubInit PROVE PollingMatchesScreen
    BY DEF Init
  <2>1. list = <<>> /\ intervals = 0 /\ pollRef = FALSE
    BY DEF SubInit
  <2>2. HasPending(list) = FALSE
    BY <2>1 DEF HasPending
  <2>3. QED
    BY <2>1, <2>2 DEF PollingMatchesScreen
<1>2. PollingMatchesScreen /\ [Next]_vars => PollingMatchesScreen'
  <2> SUFFICES ASSUME PollingMatchesScreen, [Next]_vars
               PROVE  PollingMatchesScreen'
    OBVIOUS
  <2>1. CASE SubmissionsStep
    BY <2>1, SubmissionsMatch DEF SubmissionsStep
  <2>2. CASE \/ ContestStep \/ ProblemsStep \/ ConsoleStep \/ DeskStep
             \/ ApprovalStep \/ UNCHANGED vars
    BY <2>2, EffectKept DEF ContestStep, ProblemsStep, ConsoleStep, DeskStep,
       ApprovalStep, vars, subPage, screen
  <2>3. QED
    BY <2>1, <2>2 DEF Next
<1>3. QED
  BY <1>1, <1>2, PTL DEF Spec

(***************************************************************************)
(* The form of the problem console.                                        *)
(***************************************************************************)

IsFields(f) ==
    f = [of |-> f.of, text |-> f.text, groups |-> f.groups, files |-> f.files]

(* A problem that was loaded is the one that was asked for.                *)
LoadedAsAsked ==
    \A r \in Range(net) : r.op = "detail" =>
        /\ r.status \in {"sent", "ok", "error"}
        /\ r.status = "ok" => r.data[1].of = r.arg

(* The inductive invariant: while the page is closed nothing is on its way *)
(* to its form.                                                            *)
FormInv ==
    /\ IsFields(fields)
    /\ IF open = "problem console" THEN IsNet(net) /\ LoadedAsAsked
                                   ELSE fields.of = editing
    /\ FormMatchesHeading

DetailLoading == \E r \in Range(net) : r.op = "detail" /\ r.arg = editing

LEMMA HeadingByRange ==
    FormMatchesHeading <=> fields.of = editing \/ DetailLoading \/ upset
BY DEF FormMatchesHeading, DetailLoading, InFlight, Range

(* A step that leaves the form alone, and the requests for details too.    *)
LEMMA FormKept ==
    ASSUME FormInv, open = "problem console", UNCHANGED <<open, fields, editing, upset>>,
           IsNet(net'), LoadedAsAsked',
           \A k \in DOMAIN net : net[k].op = "detail" =>
               \E r \in Range(net') : r.op = "detail" /\ r.arg = net[k].arg
    PROVE  FormInv'
<1>1. DetailLoading => DetailLoading'
  BY DEF DetailLoading, Range
<1>2. fields' = fields /\ editing' = editing /\ upset' = upset /\ open' = open
  OBVIOUS
<1>3. fields.of = editing \/ DetailLoading \/ upset
  BY HeadingByRange DEF FormInv
<1>4. fields'.of = editing' \/ DetailLoading' \/ upset'
  BY ONLY <1>1, <1>2, <1>3, Zenon
<1>5. DetailLoading' => \E i \in InFlight({"detail"})' : net'[i].arg = editing'
  BY DEF DetailLoading, InFlight, Range
<1>6. FormMatchesHeading'
  BY ONLY <1>4, <1>5, Zenon DEF FormMatchesHeading
<1>7. QED
  BY <1>2, <1>6 DEF FormInv

(* A request is replaced by its answer.                                    *)
LEMMA FormReplace ==
    ASSUME FormInv, open = "problem console", UNCHANGED <<open, fields, editing, upset>>,
           NEW i \in DOMAIN net, NEW r, IsRequest(r),
           r.op = net[i].op, r.arg = net[i].arg,
           r.op = "detail" => /\ r.status \in {"sent", "ok", "error"}
                              /\ r.status = "ok" => r.data[1].of = r.arg,
           net' = [net EXCEPT ![i] = r]
    PROVE  FormInv'
<1>1. IsNet(net) /\ LoadedAsAsked
  BY DEF FormInv
<1>2. /\ IsNet(net')
      /\ Range(net') \subseteq Range(net) \cup {r}
      /\ Range(net) \subseteq Range(net') \cup {net[i]}
      /\ r \in Range(net')
  BY <1>1, ReplaceOne
<1>3. LoadedAsAsked'
  BY <1>1, <1>2 DEF LoadedAsAsked
<1>4. ASSUME NEW k \in DOMAIN net, net[k].op = "detail"
      PROVE  \E q \in Range(net') : q.op = "detail" /\ q.arg = net[k].arg
  <2>1. net[k] \in Range(net)
    BY DEF Range
  <2>2. QED
    BY <1>2, <1>4, <2>1
<1>5. QED
  BY <1>2, <1>3, <1>4, FormKept

(* The server answers.                                                     *)
LEMMA FormAnswer ==
    ASSUME FormInv, open = "problem console", UNCHANGED <<open, fields, editing, upset>>,
           NEW i \in DOMAIN net, NEW d, Answer(i, d),
           net[i].op = "detail" => d.of = net[i].arg
    PROVE  FormInv'
<1>1. PICK r : /\ IsRequest(r)
               /\ r.op = net[i].op /\ r.arg = net[i].arg
               /\ r.status = "ok" /\ r.data = <<d>>
               /\ net' = [net EXCEPT ![i] = r]
  <2>1. IsNet(net)
    BY DEF FormInv
  <2>2. \E r : /\ IsRequest(r)
               /\ r.op = net[i].op /\ r.arg = net[i].arg /\ r.late = net[i].late
               /\ r.status = "ok" /\ r.data = <<d>>
               /\ net' = [net EXCEPT ![i] = r]
    BY <2>1, AnswerKeeps
  <2>3. QED
    BY ONLY <2>2
<1>2. r.data[1] = d
  <2>1. <<d>>[1] = d
    OBVIOUS
  <2>2. QED
    BY ONLY <1>1, <2>1
<1>3. r.op = "detail" => r.data[1].of = r.arg
  BY <1>1, <1>2
<1>4. QED
  BY <1>1, <1>3, FormReplace

(* A request fails.                                                        *)
LEMMA FormFails ==
    ASSUME FormInv, open = "problem console", UNCHANGED <<open, fields, editing, upset>>,
           NEW i \in DOMAIN net, Fail(i)
    PROVE  FormInv'
<1>1. PICK r : /\ IsRequest(r)
               /\ r.op = net[i].op /\ r.arg = net[i].arg /\ r.status = "error"
               /\ net' = [net EXCEPT ![i] = r]
  BY FailKeeps DEF FormInv
<1>2. QED
  BY <1>1, FormReplace

(* The server is part of the way through a save.                           *)
LEMMA FormMidway ==
    ASSUME FormInv, open = "problem console", UNCHANGED <<open, fields, editing, upset>>,
           NEW i \in DOMAIN net, NEW d, Read(i, d), net[i].op # "detail"
    PROVE  FormInv'
<1>1. PICK r : /\ IsRequest(r)
               /\ r.op = net[i].op /\ r.arg = net[i].arg
               /\ net' = [net EXCEPT ![i] = r]
  BY ReadKeeps DEF FormInv
<1>2. QED
  BY <1>1, FormReplace

(* A click that sends a request.                                           *)
LEMMA FormSend ==
    ASSUME FormInv, open = "problem console", open' = open,
           NEW r, IsRequest(r), r.status = "sent", Send(r)
    PROVE  /\ IsNet(net') /\ LoadedAsAsked'
           /\ r \in Range(net')
           /\ \A k \in DOMAIN net : net[k].op = "detail" =>
                 \E q \in Range(net') : q.op = "detail" /\ q.arg = net[k].arg
<1>1. IsNet(net) /\ LoadedAsAsked
  BY DEF FormInv
<1>2. IsNet(net') /\ Range(net') = Range(net) \cup {r}
  BY <1>1, SendAdds
<1>3. QED
  BY <1>1, <1>2 DEF LoadedAsAsked, Range

(* What is said of a request does not depend on whether its answer is late. *)
LEMMA LoadedSame ==
    ASSUME LoadedAsAsked, NEW q \in Range(net), NEW r, Same(r, q), r.op = "detail"
    PROVE  /\ r.status \in {"sent", "ok", "error"}
           /\ r.status = "ok" => r.data[1].of = r.arg
BY DEF LoadedAsAsked, Same

(* The answer to a request for something else than details.                *)
LEMMA FormReturn ==
    ASSUME FormInv, open = "problem console", NEW i \in DOMAIN net, net[i].op # "detail",
           NEW rs, rs = <<>> \/ rs = <<Request("list", 0)>>,
           Return(i, rs) \/ ReturnLoad(i, rs)
    PROVE  /\ IsNet(net') /\ LoadedAsAsked'
           /\ \A k \in DOMAIN net : net[k].op = "detail" =>
                 \E q \in Range(net') : q.op = "detail" /\ q.arg = net[k].arg
<1>1. IsNet(net) /\ LoadedAsAsked
  BY DEF FormInv
<1>2. IsNet(rs) /\ \A q \in Range(rs) : q.status = "sent"
  <2>1. CASE rs = <<>>
    BY <2>1, EmptyNet
  <2>2. CASE rs = <<Request("list", 0)>>
    <3>1. rs \in Seq({Request("list", 0)}) /\ Range(rs) = {Request("list", 0)}
      BY <2>2, RangeSmall
    <3>2. IsRequest(Request("list", 0))
      BY NewRequest
    <3>3. Request("list", 0).status = "sent"
      BY DEF Request
    <3>4. QED
      BY <3>1, <3>2, <3>3 DEF IsNet
  <2>3. QED
    BY <2>1, <2>2
<1>3. CASE Return(i, rs)
  <2>1. /\ IsNet(net')
        /\ Range(net') = {net[k] : k \in DOMAIN net \ {i}} \cup Range(rs)
    BY <1>1, <1>2, <1>3, ReturnKeeps
  <2>2. \A k \in DOMAIN net : net[k] \in Range(net)
    BY DEF Range
  <2>3. LoadedAsAsked'
    BY <1>1, <1>2, <2>1, <2>2 DEF LoadedAsAsked
  <2>4. QED
    BY <2>1, <2>3
<1>4. CASE ReturnLoad(i, rs)
  <2>1. /\ IsNet(net')
        /\ \A r \in Range(net') : \/ r \in Range(rs)
                                  \/ \E k \in DOMAIN net : Same(r, net[k])
        /\ \A k \in DOMAIN net \ {i} : \E r \in Range(net') : Same(r, net[k])
    BY <1>1, <1>2, <1>4, ReturnLoadKeeps
  <2>2. \A k \in DOMAIN net : net[k] \in Range(net)
    BY DEF Range
  <2>3. ASSUME NEW r \in Range(net'), r.op = "detail"
        PROVE  /\ r.status \in {"sent", "ok", "error"}
               /\ r.status = "ok" => r.data[1].of = r.arg
    <3>1. CASE r \in Range(rs)
      BY <1>2, <3>1
    <3>2. ASSUME NEW k \in DOMAIN net, Same(r, net[k])
          PROVE  /\ r.status \in {"sent", "ok", "error"}
                 /\ r.status = "ok" => r.data[1].of = r.arg
      BY <2>2, <2>3, <3>2, LoadedSame DEF FormInv
    <3>3. QED
      BY <2>1, <3>1, <3>2
  <2>4. LoadedAsAsked'
    BY ONLY <2>3 DEF LoadedAsAsked
  <2>5. ASSUME NEW k \in DOMAIN net, net[k].op = "detail"
        PROVE  \E q \in Range(net') : q.op = "detail" /\ q.arg = net[k].arg
    <3>1. k # i
      BY <1>1, <1>2, <2>5
    <3>2. PICK q \in Range(net') : Same(q, net[k])
      BY ONLY <2>1, <3>1, k \in DOMAIN net
    <3>3. QED
      BY ONLY <2>5, <3>2 DEF Same
  <2>6. QED
    BY ONLY <2>1, <2>4, <2>5
<1>5. QED
  BY <1>3, <1>4

(* resetForm shows the blank form of a new problem.                        *)
LEMMA FormReset ==
    ASSUME FormInv, open = "problem console", open' = open, ResetForm,
           IsNet(net'), LoadedAsAsked'
    PROVE  FormInv'
<1>1. fields' = Blank /\ editing' = 0
  BY DEF ResetForm
<1>2. IsFields(fields') /\ fields'.of = editing'
  BY <1>1 DEF Blank, Loaded, IsFields
<1>3. QED
  BY <1>2 DEF FormInv, FormMatchesHeading

(* The clicks on the page.                                                 *)
LEMMA FormClicks ==
    ASSUME FormInv, open = "problem console", open' = open,
           \/ CancelEdit \/ TypeInForm \/ ChooseZip \/ SwitchMode
           \/ SubmitProblem \/ RefuseSubmit
           \/ \E p \in Ids : EditProblem(p) \/ DeleteProblem(p)
    PROVE  FormInv'
<1>1. CASE CancelEdit
  <2>1. net' = net /\ ResetForm
    BY <1>1 DEF CancelEdit
  <2>2. IsNet(net') /\ LoadedAsAsked'
    BY <2>1 DEF FormInv, LoadedAsAsked
  <2>3. QED
    BY <2>1, <2>2, FormReset
<1>2. CASE TypeInForm
  <2>1. /\ \/ fields' = [fields EXCEPT !.text = edits + 1]
           \/ \E chosen \in BOOLEAN :
                  fields' = [fields EXCEPT !.groups = edits + 1, !.files = chosen]
        /\ UNCHANGED <<editing, upset, net>>
    BY <1>2 DEF TypeInForm
  <2>2. IsFields(fields)
    BY DEF FormInv
  <2>3. IsFields(fields') /\ fields'.of = fields.of
    <3>1. PICK f, g, k : f = fields /\ g = fields' /\ k = edits + 1
      OBVIOUS
    <3>2. IsFields(f)
      BY <2>2, <3>1
    <3>3. PICK chosen : \/ g = [f EXCEPT !.text = k]
                        \/ g = [f EXCEPT !.groups = k, !.files = chosen]
      BY <2>1, <3>1
    <3>4. PICK a, b, c, d : f = [of |-> a, text |-> b, groups |-> c, files |-> d]
      BY ONLY <3>2 DEF IsFields
    <3>5. CASE g = [f EXCEPT !.text = k]
      <4>1. g = [of |-> a, text |-> k, groups |-> c, files |-> d]
        BY ONLY <3>4, <3>5
      <4>2. IsFields(g) /\ g.of = f.of
        BY ONLY <3>4, <4>1 DEF IsFields
      <4>3. QED
        BY ONLY <3>1, <4>2
    <3>6. CASE g = [f EXCEPT !.groups = k, !.files = chosen]
      <4>1. g = [of |-> a, text |-> b, groups |-> k, files |-> chosen]
        BY ONLY <3>4, <3>6
      <4>2. IsFields(g) /\ g.of = f.of
        BY ONLY <3>4, <4>1 DEF IsFields
      <4>3. QED
        BY ONLY <3>1, <4>2
    <3>7. QED
      BY ONLY <3>3, <3>5, <3>6
  <2>4. IsNet(net') /\ LoadedAsAsked'
    BY <2>1 DEF FormInv, LoadedAsAsked
  <2>5. FormMatchesHeading'
    BY <2>1, <2>3, Zenon DEF FormInv, FormMatchesHeading, InFlight
  <2>6. QED
    BY <2>3, <2>4, <2>5 DEF FormInv
<1>3. CASE SubmitProblem
  <2> DEFINE r == Request("save", [id |-> editing, text |-> fields.text,
                                   groups |-> fields.groups, upload |-> Upload])
  <2>1. Send(r) /\ UNCHANGED <<open, fields, editing, upset>>
    BY <1>3 DEF SubmitProblem, Click
  <2>2. IsRequest(r) /\ r.status = "sent"
    BY NewRequest DEF Request
  <2>3. QED
    BY <2>1, <2>2, FormSend, FormKept
<1>4. ASSUME NEW p \in Ids, DeleteProblem(p)
      PROVE  FormInv'
  <2> DEFINE r == Request("delete", [id |-> p, editing |-> editing])
  <2>1. Send(r) /\ UNCHANGED <<open, fields, editing, upset>>
    BY <1>4 DEF DeleteProblem, Click
  <2>2. IsRequest(r) /\ r.status = "sent"
    BY NewRequest DEF Request
  <2>3. QED
    BY <2>1, <2>2, FormSend, FormKept
<1>5. ASSUME NEW p \in Ids, EditProblem(p)
      PROVE  FormInv'
  <2> DEFINE r == Request("detail", p)
  <2>1. Send(r) /\ editing' = p /\ fields' = fields
    BY <1>5 DEF EditProblem, Click
  <2>2. IsRequest(r) /\ r.status = "sent" /\ r.op = "detail" /\ r.arg = p
    BY NewRequest DEF Request
  <2> HIDE DEF r
  <2>3. IsNet(net') /\ LoadedAsAsked' /\ r \in Range(net')
    BY <2>1, <2>2, FormSend
  <2>4. \E i \in DOMAIN net' : net'[i].op = "detail" /\ net'[i].arg = p
    BY <2>2, <2>3 DEF Range
  <2>5. FormMatchesHeading'
    BY <2>1, <2>4 DEF FormMatchesHeading, InFlight
  <2>6. QED
    BY <2>1, <2>3, <2>5 DEF FormInv
<1>6. CASE ChooseZip \/ SwitchMode \/ RefuseSubmit
  <2>1. UNCHANGED <<fields, editing, upset, net>>
    BY <1>6 DEF ChooseZip, SwitchMode, RefuseSubmit
  <2>2. QED
    BY <2>1, Zenon DEF FormInv, LoadedAsAsked, FormMatchesHeading, InFlight
<1>7. QED
  BY <1>1, <1>2, <1>3, <1>4, <1>5, <1>6

(* The problem that was asked for comes in, or does not.                   *)
LEMMA FormDetail ==
    ASSUME FormInv, open = "problem console", open' = open,
           NEW i \in DOMAIN net, DetailAnswered(i)
    PROVE  FormInv'
<1>1. IsNet(net) /\ LoadedAsAsked
  BY DEF FormInv
<1>2. /\ net[i].op = "detail"
      /\ fields' = IF net[i].status = "ok"
                   THEN Loaded(net[i].data[1].of, net[i].data[1].text) ELSE fields
      /\ upset' = (net[i].status = "error" \/ net[i].late \/ net[i].arg # editing)
      /\ ReturnLoad(i, <<>>)
      /\ editing' = editing
      /\ net[i].status # "sent"
  BY DEF DetailAnswered, Handled, Failed, Data, Waiting
<1>3. /\ IsNet(net')
      /\ \A r \in Range(net') : \E k \in DOMAIN net : Same(r, net[k])
  BY <1>1, <1>2, EmptyNet, ReturnLoadKeeps
<1>4. \A k \in DOMAIN net : net[k] \in Range(net)
  BY DEF Range
<1>5. ASSUME NEW r \in Range(net'), r.op = "detail"
      PROVE  /\ r.status \in {"sent", "ok", "error"}
             /\ r.status = "ok" => r.data[1].of = r.arg
  <2>1. PICK k \in DOMAIN net : Same(r, net[k])
    BY <1>3
  <2>2. QED
    BY <1>1, <1>4, <1>5, <2>1, LoadedSame
<1>6. LoadedAsAsked'
  BY ONLY <1>5 DEF LoadedAsAsked
<1>7. CASE net[i].status = "ok"
  <2>1. net[i].data[1].of = net[i].arg
    BY <1>1, <1>2, <1>4, <1>7 DEF LoadedAsAsked
  <2>2. IsFields(fields') /\ fields'.of = net[i].arg
    BY <1>2, <1>7, <2>1 DEF Loaded, IsFields
  <2>3. fields'.of = editing' \/ upset'
    BY <1>2, <2>2
  <2>4. FormMatchesHeading'
    BY <2>3, Zenon DEF FormMatchesHeading
  <2>5. QED
    BY <1>3, <1>6, <2>2, <2>4 DEF FormInv
<1>8. CASE net[i].status # "ok"
  <2>1. IsFields(fields')
    BY <1>2, <1>8 DEF FormInv
  <2>2. net[i].status = "error"
    BY <1>1, <1>2, <1>4, <1>8 DEF LoadedAsAsked
  <2>3. FALSE \/ upset'
    BY <1>2, <2>2
  <2>4. FormMatchesHeading'
    BY <2>3, Zenon DEF FormMatchesHeading
  <2>5. QED
    BY <1>3, <1>6, <2>1, <2>4 DEF FormInv
<1>9. QED
  BY <1>7, <1>8

(* The list of problems comes in, a save or a deletion is reported.        *)
LEMMA FormReported ==
    ASSUME FormInv, open = "problem console", open' = open, NEW i \in DOMAIN net,
           ProblemsLoaded(i) \/ SaveAnswered(i) \/ DeleteAnswered(i)
    PROVE  FormInv'
<1> DEFINE more == <<Request("list", 0)>>
<1>1. CASE ProblemsLoaded(i)
  <2>1. /\ net[i].op # "detail" /\ ReturnLoad(i, <<>>)
        /\ UNCHANGED <<fields, editing, upset>>
    BY <1>1 DEF ProblemsLoaded
  <2>2. QED
    BY <2>1, FormReturn, FormKept
<1>2. CASE SaveAnswered(i)
  <2>1. /\ net[i].op # "detail"
        /\ Return(i, <<>>) \/ Return(i, more)
        /\ UNCHANGED <<fields, editing, upset>>
    BY <1>2 DEF SaveAnswered
  <2>2. QED
    BY <2>1, FormReturn, FormKept
<1>3. CASE DeleteAnswered(i)
  <2>1. /\ net[i].op # "detail"
        /\ Return(i, <<>>) \/ Return(i, more)
        /\ ResetForm \/ UNCHANGED <<fields, editing, upset>>
    BY <1>3 DEF DeleteAnswered
  <2>2. /\ IsNet(net') /\ LoadedAsAsked'
        /\ \A k \in DOMAIN net : net[k].op = "detail" =>
               \E q \in Range(net') : q.op = "detail" /\ q.arg = net[k].arg
    BY <2>1, FormReturn
  <2>3. QED
    BY <2>1, <2>2, FormReset, FormKept
<1>4. QED
  BY <1>1, <1>2, <1>3

(* The server handles a request, or the request fails.                     *)
LEMMA FormServed ==
    ASSUME FormInv, open = "problem console", open' = open, NEW i \in DOMAIN net,
           \/ HandleRead(i) \/ InsertRow(i) \/ StoreTestcases(i) \/ UpdateRow(i)
           \/ HandleDelete(i) \/ ProblemRequestFails(i)
    PROVE  FormInv'
<1>1. UNCHANGED <<open, fields, editing, upset>>
  BY DEF HandleRead, InsertRow, StoreTestcases, UpdateRow, HandleDelete, ProblemRequestFails,
         problemPage
<1>2. CASE HandleRead(i)
  <2> DEFINE d == [of |-> net[i].arg, text |-> stored[net[i].arg].text]
  <2>1. \/ net[i].op = "list" /\ Answer(i, Exist)
        \/ net[i].op = "detail" /\ Answer(i, d)
    BY <1>2 DEF HandleRead
  <2>2. d.of = net[i].arg
    OBVIOUS
  <2> HIDE DEF d
  <2>3. QED
    BY <1>1, <2>1, <2>2, FormAnswer
<1>3. CASE InsertRow(i) \/ StoreTestcases(i) \/ UpdateRow(i)
  <2>1. /\ net[i].op = "save"
        /\ \E d : Read(i, d) \/ Answer(i, d) \/ Fail(i)
    BY <1>3 DEF InsertRow, StoreTestcases, UpdateRow
  <2>2. QED
    BY <1>1, <2>1, FormAnswer, FormMidway, FormFails
<1>4. CASE HandleDelete(i)
  <2>1. net[i].op = "delete" /\ (Answer(i, 0) \/ Fail(i))
    BY <1>4 DEF HandleDelete
  <2>2. QED
    BY <1>1, <2>1, FormAnswer, FormFails
<1>5. CASE ProblemRequestFails(i)
  BY <1>1, <1>5, FormFails DEF ProblemRequestFails
<1>6. QED
  BY <1>2, <1>3, <1>4, <1>5

(* While the page is closed its form stays as it was mounted.              *)
LEMMA FormClosed ==
    ASSUME FormInv, open # "problem console", UNCHANGED <<open, problemPage>>
    PROVE  FormInv'
<1>1. fields'.of = editing' /\ IsFields(fields')
  BY DEF FormInv, problemPage
<1>2. QED
  BY <1>1 DEF FormInv, FormMatchesHeading

LEMMA FormMounted == Init => FormInv
<1> SUFFICES ASSUME Init PROVE FormInv
  OBVIOUS
<1>1. fields = Blank /\ editing = 0
  BY DEF Init, ProblemsInit
<1>2. IsFields(fields) /\ fields.of = editing
  BY <1>1 DEF Blank, Loaded, IsFields
<1>3. CASE open = "problem console"
  <2>1. net = <<Request("list", 0)>>
    BY <1>3 DEF Init, ProblemsMounted
  <2>2. net \in Seq({Request("list", 0)}) /\ Range(net) = {Request("list", 0)}
    BY <2>1, RangeSmall
  <2>3. IsNet(net)
    BY <2>2, NewRequest DEF IsNet
  <2>4. LoadedAsAsked
    BY <2>2 DEF LoadedAsAsked, Request
  <2>5. QED
    BY <1>2, <1>3, <2>3, <2>4 DEF FormInv, FormMatchesHeading
<1>4. CASE open # "problem console"
  BY <1>2, <1>4 DEF FormInv, FormMatchesHeading
<1>5. QED
  BY <1>3, <1>4

(* The form never shows the fields of a problem its heading does not name, *)
(* save when a load was overtaken or failed: no order of clicks, answers,  *)
(* failures and deletions separates them in another way.                   *)
THEOREM FormAlwaysNamesItsProblem == Spec => []FormMatchesHeading
<1>1. FormInv /\ [Next]_vars => FormInv'
  <2> SUFFICES ASSUME FormInv, [Next]_vars PROVE FormInv'
    OBVIOUS
  <2>1. CASE ProblemsStep
    <3>1. open = "problem console" /\ open' = open /\ ProblemsNext
      BY <2>1 DEF ProblemsStep
    <3>2. CASE \/ CancelEdit \/ TypeInForm \/ ChooseZip \/ SwitchMode
               \/ SubmitProblem \/ RefuseSubmit
               \/ \E p \in Ids : EditProblem(p) \/ DeleteProblem(p)
      BY <3>1, <3>2, FormClicks
    <3>3. CASE \E i \in DOMAIN net : DetailAnswered(i)
      BY <3>1, <3>3, FormDetail
    <3>4. CASE \E i \in DOMAIN net :
                  ProblemsLoaded(i) \/ SaveAnswered(i) \/ DeleteAnswered(i)
      BY <3>1, <3>4, FormReported
    <3>5. CASE \E i \in DOMAIN net :
                  \/ HandleRead(i) \/ InsertRow(i) \/ StoreTestcases(i)
                  \/ UpdateRow(i) \/ HandleDelete(i) \/ ProblemRequestFails(i)
      BY <3>1, <3>5, FormServed
    <3>6. QED
      BY <3>1, <3>2, <3>3, <3>4, <3>5 DEF ProblemsNext
  <2>2. CASE SubmissionsStep \/ ContestStep \/ ConsoleStep \/ DeskStep \/ ApprovalStep
    <3>1. open # "problem console" /\ UNCHANGED <<open, problemPage>>
      BY <2>2 DEF SubmissionsStep, ContestStep, ConsoleStep, DeskStep, ApprovalStep
    <3>2. QED
      BY <3>1, FormClosed
  <2>3. CASE UNCHANGED vars
    <3>1. UNCHANGED <<open, fields, editing, upset, net>>
      BY <2>3 DEF vars, problemPage
    <3>2. QED
      BY <3>1, Zenon DEF FormInv, LoadedAsAsked, FormMatchesHeading, InFlight
  <2>4. QED
    BY <2>1, <2>2, <2>3 DEF Next
<1>2. FormInv => FormMatchesHeading
  BY DEF FormInv
<1>3. QED
  BY <1>1, <1>2, FormMounted, PTL DEF Spec
(***************************************************************************)
(* Decisions on what was submitted.                                        *)
(***************************************************************************)

Deciding(i, k) == net[i].op = "decide" /\ net[i].arg.kind = k

(* Of a kind that is not doubled one decision is on its way at most, and   *)
(* none while one is reported; what was stored for it is in force.         *)
Orderly(k) ==
    k \notin doubled =>
        /\ \A i, j \in DOMAIN net : Deciding(i, k) /\ Deciding(j, k) => i = j
        /\ \A i \in DOMAIN net : Deciding(i, k) => report.kind # k
        /\ k \notin overtaken =>
              /\ \A i \in DOMAIN net :
                    Deciding(i, k) /\ Handled(i) => approval[k] = net[i].arg.decision
              /\ report.kind = k => approval[k] = report.decision

(* The inductive invariant: while the pages are closed nothing is reported. *)
ApprovalInv ==
    /\ approval = [k \in Kinds |-> approval[k]]
    /\ report = none \/ report.kind \in Kinds
    /\ open # "approvals" => report = none
    /\ open = "approvals" =>
          /\ IsNet(net)
          /\ \A i \in DOMAIN net : net[i].op = "decide" => net[i].arg.kind \in Kinds
          /\ \A k \in Kinds : Orderly(k)

(* The requests that are not about a decision come and go.                 *)
LEMMA DecisionsKept ==
    ASSUME ApprovalInv, open = "approvals", open' = open,
           UNCHANGED <<approval, report, doubled, overtaken>>, IsNet(net'),
           NEW A, NEW R, NEW f, Moves(net, net', A, R, f),
           \A r \in R : r.op # "decide"
    PROVE  ApprovalInv'
<1>1. ASSUME NEW j \in DOMAIN net', net'[j].op = "decide"
      PROVE  f[j] \in DOMAIN net /\ Same(net'[j], net[f[j]])
  BY <1>1 DEF Moves
<1>2. \A j, k \in DOMAIN net' : f[j] = f[k] => j = k
  BY DEF Moves
<1>3. \A i \in DOMAIN net' : net'[i].op = "decide" => net'[i].arg.kind \in Kinds
  BY <1>1 DEF ApprovalInv, Same
<1>4. ASSUME NEW k \in Kinds PROVE Orderly(k)'
  <2>1. Orderly(k)
    BY DEF ApprovalInv
  <2>2. ASSUME NEW j \in DOMAIN net', Deciding(j, k)'
        PROVE  /\ f[j] \in DOMAIN net /\ Deciding(f[j], k)
               /\ Handled(j)' => Handled(f[j])
               /\ net'[j].arg = net[f[j]].arg
    BY <1>1, <2>2 DEF Deciding, Handled, Same
  <2>3. QED
    BY <1>2, <2>1, <2>2 DEF Orderly
<1>5. QED
  BY <1>3, <1>4 DEF ApprovalInv

(* The server reads for a request, or a request fails.                     *)
LEMMA DecisionsServed ==
    ASSUME ApprovalInv, open = "approvals", open' = open,
           UNCHANGED <<approval, report, doubled, overtaken>>, IsNet(net'),
           NEW i \in DOMAIN net, Served(net, net', i),
           net[i].op = "decide" => net'[i].status # "ok"
    PROVE  ApprovalInv'
<1>1. \A j \in DOMAIN net : net'[j].op = net[j].op /\ net'[j].arg = net[j].arg
  BY DEF Served
<1>2. \A j \in DOMAIN net : net'[j].op = "decide" /\ Handled(j)' => Handled(j)
  BY DEF Served, Handled
<1>3. DOMAIN net' = DOMAIN net
  BY DEF Served
<1>4. ASSUME NEW k \in Kinds PROVE Orderly(k)'
  <2>1. Orderly(k)
    BY DEF ApprovalInv
  <2>2. QED
    BY <1>1, <1>2, <1>3, <2>1 DEF Orderly, Deciding
<1>5. QED
  BY <1>1, <1>3, <1>4 DEF ApprovalInv

(* A click on a decision.                                                  *)
LEMMA DecisionSent ==
    ASSUME ApprovalInv, open = "approvals", open' = open,
           NEW k \in Kinds, NEW d \in Decision, DecideOn(k, d)
    PROVE  ApprovalInv'
<1> DEFINE r == Request("decide", [kind |-> k, decision |-> d])
<1>1. IsRequest(r) /\ r.op = "decide" /\ r.arg.kind = k /\ r.status = "sent"
  BY NewRequest DEF Request
<1>2. /\ Send(r) /\ report' = none /\ UNCHANGED <<approval, overtaken>>
      /\ doubled' = IF DecisionsOn(k) = {} THEN doubled \ {k} ELSE doubled \cup {k}
  BY DEF DecideOn, Decide
<1> HIDE DEF r
<1>3. IsNet(net)
  BY DEF ApprovalInv
<1>4. PICK f : IsNet(net') /\ Moves(net, net', DOMAIN net, {r}, f)
  BY <1>1, <1>2, <1>3, SendMoves
<1>5. ASSUME NEW j \in DOMAIN net'
      PROVE  \/ f[j] \in DOMAIN net /\ Same(net'[j], net[f[j]])
             \/ f[j] = Len(net) + 1 /\ net'[j] = r
  BY <1>4 DEF Moves
<1>6. \A i, j \in DOMAIN net' : f[i] = f[j] => i = j
  BY <1>4 DEF Moves
<1>7. \A i \in DOMAIN net' : net'[i].op = "decide" => net'[i].arg.kind \in Kinds
  BY <1>1, <1>5 DEF ApprovalInv, Same
<1>8. ASSUME NEW q \in Kinds PROVE Orderly(q)'
  <2>1. Orderly(q)
    BY DEF ApprovalInv
  <2>2. report'.kind # q
    BY <1>2 DEF none, Kinds
  <2>3. CASE q # k
    <3>1. q \notin doubled' => q \notin doubled
      BY <1>2, <2>3
    <3>2. ASSUME NEW j \in DOMAIN net', Deciding(j, q)'
          PROVE  /\ f[j] \in DOMAIN net /\ Deciding(f[j], q)
                 /\ Handled(j)' => Handled(f[j])
                 /\ net'[j].arg = net[f[j]].arg
      BY <1>1, <1>5, <2>3, <3>2 DEF Deciding, Handled, Same
    <3>3. QED
      BY <1>2, <1>6, <2>1, <2>2, <3>1, <3>2 DEF Orderly
  <2>4. CASE q = k /\ k \notin doubled'
    <3>1. \A j \in DOMAIN net : ~Deciding(j, k)
      BY <1>2, <2>4 DEF Deciding, DecisionsOn, InFlight
    <3>2. \A j \in DOMAIN net' : Deciding(j, k)' => f[j] = Len(net) + 1 /\ ~Handled(j)'
      BY <1>1, <1>5, <3>1 DEF Deciding, Handled, Same
    <3>3. QED
      BY <1>6, <2>2, <2>4, <3>2 DEF Orderly
  <2>5. QED
    BY <2>3, <2>4 DEF Orderly
<1>9. QED
  BY <1>2, <1>4, <1>7, <1>8 DEF ApprovalInv

(* The answer to a decision, reported if it is a success.                  *)
LEMMA DecisionReturns ==
    ASSUME ApprovalInv, open = "approvals", open' = open,
           NEW i \in DOMAIN net, DecisionAnswered(i)
    PROVE  ApprovalInv'
<1> DEFINE r == Request("pending", "both")
<1>1. IsRequest(r) /\ r.op # "decide"
  BY NewRequest DEF Request
<1> HIDE DEF r
<1>2. /\ net[i].op = "decide" /\ UNCHANGED <<approval, doubled, overtaken>>
      /\ \/ Handled(i) /\ report' = net[i].arg /\ Return(i, <<r>>)
         \/ ~Handled(i) /\ report' = report /\ Return(i, <<>>)
  BY DEF DecisionAnswered, r
<1>3. IsNet(net)
  BY DEF ApprovalInv
<1>4. PICK R, f : /\ IsNet(net') /\ Moves(net, net', DOMAIN net \ {i}, R, f)
                  /\ \A q \in R : q.op # "decide"
  <2>1. IsNet(net') /\ \E R, f : R \subseteq {r} /\ Moves(net, net', DOMAIN net \ {i}, R, f)
    BY <1>1, <1>2, <1>3, ReturnMaySend
  <2>2. QED
    BY <1>1, <2>1
<1>5. CASE ~Handled(i)
  <2>1. UNCHANGED <<approval, report, doubled, overtaken>>
    BY <1>2, <1>5
  <2>2. QED
    BY <1>4, <2>1, DecisionsKept
<1>6. CASE Handled(i)
  <2>1. report' = net[i].arg /\ net[i].arg.kind \in Kinds
    BY <1>2, <1>6 DEF ApprovalInv
  <2>2. ASSUME NEW j \in DOMAIN net', net'[j].op = "decide"
        PROVE  f[j] \in DOMAIN net \ {i} /\ Same(net'[j], net[f[j]])
    BY <1>4, <2>2 DEF Moves
  <2>3. \A j, k \in DOMAIN net' : f[j] = f[k] => j = k
    BY <1>4 DEF Moves
  <2>4. \A j \in DOMAIN net' : net'[j].op = "decide" => net'[j].arg.kind \in Kinds
    BY <2>2 DEF ApprovalInv, Same
  <2>5. ASSUME NEW k \in Kinds PROVE Orderly(k)'
    <3>1. Orderly(k)
      BY DEF ApprovalInv
    <3>2. ASSUME NEW j \in DOMAIN net', Deciding(j, k)'
          PROVE  /\ f[j] \in DOMAIN net \ {i} /\ Deciding(f[j], k)
                 /\ Handled(j)' => Handled(f[j])
                 /\ net'[j].arg = net[f[j]].arg
      BY <2>2, <3>2 DEF Deciding, Handled, Same
    <3>3. CASE net[i].arg.kind = k
      <4>1. Deciding(i, k)
        BY <1>2, <3>3 DEF Deciding
      <4>2. k \notin doubled => \A j \in DOMAIN net' : ~Deciding(j, k)'
        BY <3>1, <3>2, <4>1 DEF Orderly
      <4>3. k \notin doubled \cup overtaken => approval[k] = net[i].arg.decision
        BY <1>6, <3>1, <4>1 DEF Orderly
      <4>4. QED
        BY <1>2, <2>1, <4>2, <4>3 DEF Orderly
    <3>4. CASE net[i].arg.kind # k
      <4>1. report'.kind # k
        BY <2>1, <3>4
      <4>2. QED
        BY <1>2, <2>3, <3>1, <3>2, <4>1 DEF Orderly
    <3>5. QED
      BY <3>3, <3>4
  <2>6. QED
    BY <1>2, <1>4, <2>1, <2>4, <2>5 DEF ApprovalInv
<1>7. QED
  BY <1>5, <1>6

(* A decision is stored, and its answer may be lost.                       *)
LEMMA DecisionStored ==
    ASSUME ApprovalInv, open = "approvals", open' = open,
           NEW i \in DOMAIN net, StoreDecision(i)
    PROVE  ApprovalInv'
<1> DEFINE c == net[i].arg.kind
           d == net[i].arg.decision
<1>1. /\ net[i].op = "decide" /\ UNCHANGED <<report, doubled>>
      /\ approval' = [approval EXCEPT ![c] = d]
      /\ overtaken' = overtaken \ {c}
      /\ Answer(i, 0) \/ Fail(i)
  BY DEF StoreDecision
<1>2. IsNet(net) /\ c \in Kinds
  BY <1>1 DEF ApprovalInv
<1>3. IsNet(net') /\ Served(net, net', i)
  BY <1>1, <1>2, AnswerServes, FailServes
<1>4. approval' = [k \in Kinds |-> IF k = c THEN d ELSE approval[k]]
  BY <1>1, <1>2 DEF ApprovalInv
<1>5. /\ DOMAIN net' = DOMAIN net
      /\ \A j \in DOMAIN net : net'[j].op = net[j].op /\ net'[j].arg = net[j].arg
      /\ \A j \in DOMAIN net \ {i} : Handled(j)' = Handled(j)
  BY <1>3 DEF Served, Handled
<1>6. ASSUME NEW k \in Kinds PROVE Orderly(k)'
  <2>1. Orderly(k)
    BY DEF ApprovalInv
  <2>2. CASE k = c
    <3>1. Deciding(i, k)
      BY <1>1, <2>2 DEF Deciding
    <3>2. k \notin doubled => /\ \A j \in DOMAIN net : Deciding(j, k) => j = i
                              /\ report.kind # k
      BY <2>1, <3>1 DEF Orderly
    <3>3. \A j \in DOMAIN net : Deciding(j, k)' = Deciding(j, k)
      BY <1>5 DEF Deciding
    <3>4. approval'[k] = net'[i].arg.decision
      BY <1>4, <1>5, <2>2
    <3>5. QED
      BY <1>1, <1>5, <3>2, <3>3, <3>4 DEF Orderly
  <2>3. CASE k # c
    <3>1. approval'[k] = approval[k] /\ (k \in overtaken' <=> k \in overtaken)
      BY <1>1, <1>4, <2>3
    <3>2. \A j \in DOMAIN net : Deciding(j, k)' <=> Deciding(j, k)
      BY <1>5 DEF Deciding
    <3>3. \A j \in DOMAIN net : Deciding(j, k) => j # i
      BY <2>3 DEF Deciding
    <3>4. QED
      BY <1>1, <1>5, <2>1, <3>1, <3>2, <3>3 DEF Orderly
  <2>4. QED
    BY <2>2, <2>3
<1>7. QED
  BY <1>1, <1>3, <1>4, <1>5, <1>6 DEF ApprovalInv

(* An edit writes back the status it has read.                             *)
LEMMA StatusWrittenBack ==
    ASSUME ApprovalInv, open = "approvals", open' = open,
           NEW i \in DOMAIN net, WriteExisting(i)
    PROVE  ApprovalInv'
<1> DEFINE c == net[i].arg
           d == Data(i)
<1>1. /\ net[i].op = "update" /\ UNCHANGED <<report, doubled>>
      /\ approval' = [approval EXCEPT ![c] = d]
      /\ overtaken' = IF d # approval[c] THEN overtaken \cup {c} ELSE overtaken
      /\ Answer(i, 0) \/ Fail(i)
  BY DEF WriteExisting
<1>2. IsNet(net)
  BY DEF ApprovalInv
<1>3. IsNet(net') /\ Served(net, net', i)
  BY <1>1, <1>2, AnswerServes, FailServes
<1> HIDE DEF c, d
<1>4. approval' = [k \in Kinds |-> IF k = c THEN d ELSE approval[k]]
  BY <1>1, <1>2 DEF ApprovalInv
<1>5. /\ DOMAIN net' = DOMAIN net
      /\ \A j \in DOMAIN net : net'[j].op = net[j].op /\ net'[j].arg = net[j].arg
      /\ \A j \in DOMAIN net \ {i} : Handled(j)' = Handled(j)
  BY <1>3 DEF Served, Handled
<1>6. ASSUME NEW k \in Kinds PROVE Orderly(k)'
  <2>1. Orderly(k)
    BY DEF ApprovalInv
  <2>2. k \notin overtaken' => k \notin overtaken /\ approval'[k] = approval[k]
    BY <1>1, <1>4
  <2>3. \A j \in DOMAIN net : Deciding(j, k)' <=> Deciding(j, k)
    BY <1>5 DEF Deciding
  <2>4. \A j \in DOMAIN net : Deciding(j, k) => j # i
    BY <1>1 DEF Deciding
  <2>5. QED
    BY <1>1, <1>5, <2>1, <2>2, <2>3, <2>4 DEF Orderly
<1>7. QED
  BY <1>1, <1>3, <1>4, <1>5, <1>6 DEF ApprovalInv

LEMMA ApprovalStepKeeps ==
    ASSUME ApprovalInv, open = "approvals", open' = open, ApprovalNext
    PROVE  ApprovalInv'
<1> DEFINE steady == UNCHANGED <<approval, report, doubled, overtaken>>
<1>1. IsNet(net)
  BY DEF ApprovalInv
<1>2. CASE ToggleEditing
  <2>1. UNCHANGED <<approval, report, doubled, overtaken, net>>
    BY <1>2 DEF ToggleEditing
  <2>2. QED
    BY <2>1 DEF ApprovalInv, Orderly, Deciding, Handled
<1>3. CASE UpdateContest \/ UpdateProblem
  <2>1. PICK r : /\ r \in {Request("update", "contest"), Request("update", "problem")}
                 /\ Send(r) /\ steady
    BY <1>3 DEF UpdateContest, UpdateProblem, Decide
  <2>2. IsRequest(r) /\ r.op # "decide"
    BY <2>1, NewRequest DEF Request
  <2>3. PICK f : IsNet(net') /\ Moves(net, net', DOMAIN net, {r}, f)
    BY <1>1, <2>1, <2>2, SendMoves
  <2>4. QED
    BY <2>1, <2>2, <2>3, DecisionsKept
<1>4. ASSUME NEW i \in DOMAIN net, PendingLoaded(i) \/ ContestLoaded(i)
      PROVE  ApprovalInv'
  <2>1. ReturnLoad(i, <<>>) /\ steady
    BY <1>4 DEF PendingLoaded, ContestLoaded
  <2>2. PICK f : IsNet(net') /\ Moves(net, net', DOMAIN net \ {i}, {}, f)
    BY <1>1, <2>1, ReturnLoadMoves
  <2>3. QED
    BY <2>1, <2>2, DecisionsKept
<1>5. ASSUME NEW i \in DOMAIN net, ContestUpdated(i) \/ ProblemUpdated(i)
      PROVE  ApprovalInv'
  <2> DEFINE r == Request("contest", "contest")
  <2>1. IsRequest(r) /\ r.op # "decide"
    BY NewRequest DEF Request
  <2>2. steady /\ (Return(i, <<r>>) \/ Return(i, <<>>))
    BY <1>5 DEF ContestUpdated, ProblemUpdated, approvalPage
  <2> HIDE DEF r
  <2>3. PICK R, f : /\ IsNet(net') /\ Moves(net, net', DOMAIN net \ {i}, R, f)
                    /\ \A q \in R : q.op # "decide"
    <3>1. IsNet(net') /\ \E R, f : R \subseteq {r} /\ Moves(net, net', DOMAIN net \ {i}, R, f)
      BY <1>1, <2>1, <2>2, ReturnMaySend
    <3>2. QED
      BY <2>1, <3>1
  <2>4. QED
    BY <2>2, <2>3, DecisionsKept
<1>6. ASSUME NEW i \in DOMAIN net,
             \/ \E k \in Kinds : ReadPending(i, k)
             \/ ReadContest(i) \/ ReadExisting(i)
      PROVE  ApprovalInv'
  <2>1. /\ steady /\ net[i].op # "decide"
        /\ \E d : Read(i, d) \/ Answer(i, d)
    BY <1>6 DEF ReadPending, ReadContest, ReadExisting, approvalPage
  <2>2. IsNet(net') /\ Served(net, net', i)
    BY <1>1, <2>1, ReadServes, AnswerServes
  <2>3. QED
    BY <2>1, <2>2, DecisionsServed
<1>7. ASSUME NEW i \in DOMAIN net, ApprovalFails(i)
      PROVE  ApprovalInv'
  <2>1. steady /\ Fail(i)
    BY <1>7 DEF ApprovalFails, approvalPage
  <2>2. IsNet(net') /\ Served(net, net', i) /\ net'[i].status = "error"
    BY <1>1, <2>1, FailServes
  <2>3. QED
    BY <2>1, <2>2, DecisionsServed
<1>8. QED
  BY <1>2, <1>3, <1>4, <1>5, <1>6, <1>7, DecisionSent, DecisionReturns,
     DecisionStored, StatusWrittenBack DEF ApprovalNext

(* Two requests of a page that is mounted.                                 *)
LEMMA MountedNet ==
    ASSUME NEW r, NEW q, IsRequest(r), IsRequest(q)
    PROVE  IsNet(<<r, q>>) /\ \A i \in DOMAIN <<r, q>> : <<r, q>>[i] \in {r, q}
<1>1. <<r, q>> \in Seq({r, q}) /\ DOMAIN <<r, q>> = {1, 2}
  OBVIOUS
<1>2. <<r, q>>[1] = r /\ <<r, q>>[2] = q
  OBVIOUS
<1>3. \A x \in {r, q} : IsRequest(x)
  OBVIOUS
<1>4. IsNet(<<r, q>>)
  <2> DEFINE n == <<r, q>>
             T == {r, q}
  <2>1. n \in Seq(T) /\ \A x \in T : IsRequest(x)
    BY <1>1, <1>3
  <2> HIDE DEF n, T
  <2>2. IsNet(n)
    BY <2>1 DEF IsNet
  <2>3. QED
    BY <2>2 DEF n
<1>5. QED
  BY <1>1, <1>2, <1>4

(* The decision the page reports is in force, in whatever order clicks,    *)
(* answers, lost answers and the manager's edits come, unless two          *)
(* decisions were on their way at once or an edit wrote back what it had   *)
(* read before.                                                            *)
THEOREM ReportedDecisionIsStored == Spec => []ReportedDecisionStands
<1>1. Init => ApprovalInv
  <2> SUFFICES ASSUME Init PROVE ApprovalInv
    OBVIOUS
  <2>1. report = none /\ approval = [k \in Kinds |-> "pending"]
    BY DEF Init, ApprovalInit
  <2>2. CASE open = "approvals"
    <3> DEFINE r == Request("pending", "both")
               q == Request("contest", "contest")
    <3>1. net = <<r, q>>
      BY <2>2 DEF Init, ApprovalMounted
    <3>2. IsRequest(r) /\ IsRequest(q) /\ r.op # "decide" /\ q.op # "decide"
      BY NewRequest DEF Request
    <3>3. IsNet(net) /\ \A i \in DOMAIN net : net[i].op # "decide"
      BY <3>1, <3>2, MountedNet
    <3>4. report.kind \notin Kinds
      BY <2>1 DEF none, Kinds
    <3>5. \A k \in Kinds : Orderly(k)
      BY <3>3, <3>4 DEF Orderly, Deciding
    <3>6. QED
      BY <2>1, <2>2, <3>3, <3>5 DEF ApprovalInv
  <2>3. CASE open # "approvals"
    BY <2>1, <2>3 DEF ApprovalInv
  <2>4. QED
    BY <2>2, <2>3
<1>2. ApprovalInv /\ [Next]_vars => ApprovalInv'
  <2> SUFFICES ASSUME ApprovalInv, [Next]_vars PROVE ApprovalInv'
    OBVIOUS
  <2>1. CASE ApprovalStep
    BY <2>1, ApprovalStepKeeps DEF ApprovalStep
  <2>2. CASE SubmissionsStep \/ ContestStep \/ ProblemsStep \/ ConsoleStep \/ DeskStep
    <3>1. open # "approvals" /\ UNCHANGED <<open, approval, report>>
      BY <2>2 DEF SubmissionsStep, ContestStep, ProblemsStep, ConsoleStep, DeskStep,
         approvalPage
    <3>2. QED
      BY <3>1 DEF ApprovalInv
  <2>3. CASE UNCHANGED vars
    <3>1. UNCHANGED <<open, net, approval, report, doubled, overtaken>>
      BY <2>3 DEF vars, approvalPage
    <3>2. QED
      BY <3>1 DEF ApprovalInv, Orderly, Deciding, Handled
  <2>4. QED
    BY <2>1, <2>2, <2>3 DEF Next
<1>3. ApprovalInv => ReportedDecisionStands
  <2> SUFFICES ASSUME ApprovalInv, report # none, report.kind \notin doubled \cup overtaken
               PROVE  approval[report.kind] = report.decision
    BY DEF ReportedDecisionStands
  <2>1. open = "approvals" /\ report.kind \in Kinds
    BY DEF ApprovalInv
  <2>2. Orderly(report.kind)
    BY <2>1 DEF ApprovalInv
  <2>3. QED
    BY <2>2 DEF Orderly
<1>4. QED
  BY <1>1, <1>2, <1>3, PTL DEF Spec

(***************************************************************************)
(* The button of the contest page.                                         *)
(***************************************************************************)

Checking(i) == net[i].op = "check"
Own(i)      == net[i].op # "check" /\ net[i].arg = "mine"
Toggling(i) == net[i].op \in {"register", "unregister"} /\ net[i].arg = "mine"

Truth == IF member THEN "yes" ELSE "no"

(* What the server has answered, and what the button knows.                *)
Told ==
    /\ \A i \in DOMAIN net : Checking(i) /\ Handled(i) => Data(i) = Truth
    /\ \A i \in DOMAIN net :
          Toggling(i) /\ Handled(i) =>
             Truth = (IF net[i].op = "register" THEN "yes" ELSE "no")
    /\ \/ registered \in {"unknown", Truth}
       \/ \E i \in DOMAIN net : Toggling(i) /\ Handled(i)

(* One check at most and one request of the component that is mounted.     *)
OneAtATime ==
    /\ \A i, j \in DOMAIN net : Checking(i) /\ Checking(j) => i = j
    /\ \A i, j \in DOMAIN net : Own(i) /\ Own(j) => i = j
    /\ \A i \in DOMAIN net : Own(i) => busy
    /\ \A i \in DOMAIN net : Checking(i) => registered = "unknown"
    /\ \A i \in DOMAIN net : Toggling(i) => registered # "unknown"

ContestRequest(r) == r.status \in {"sent", "ok", "error"} /\ r.arg \in {"mine", "orphan"}

ButtonInv ==
    /\ open # "contest" => registered = "unknown"
    /\ open = "contest" => /\ IsNet(net)
                           /\ \A i \in DOMAIN net : ContestRequest(net[i])
                           /\ OneAtATime
                           /\ ~doubt => Told

(* Requests of a component that has gone.                                  *)
LEMMA OrphansNet ==
    ASSUME NEW n, IsNet(n), \A i \in DOMAIN n : ContestRequest(n[i]),
           \A i, j \in DOMAIN n : n[i].op = "check" /\ n[j].op = "check" => i = j
    PROVE  /\ IsNet(Orphans(n))
           /\ \A r \in Range(Orphans(n)) :
                 ContestRequest(r) /\ r.op # "check" /\ r.arg = "orphan"
<1> DEFINE kept == Without(n, "check")
           Orphan(q) == [op |-> q.op, arg |-> "orphan", status |-> q.status,
                         data |-> q.data, late |-> q.late]
           m == [i \in DOMAIN kept |-> Orphan(kept[i])]
           A == {k \in DOMAIN n : n[k].op # "check"}
<1>1. PICK f : IsNet(kept) /\ Moves(n, kept, A, {}, f)
  BY WithoutMoves
<1>2. \A i \in DOMAIN kept : IsRequest(kept[i])
  BY <1>1, NetElements
<1>3. \A i \in DOMAIN kept : f[i] \in A /\ Same(kept[i], n[f[i]])
  BY <1>1 DEF Moves
<1>4. ASSUME NEW i \in DOMAIN kept
      PROVE  [kept[i] EXCEPT !.arg = "orphan"] = Orphan(kept[i])
  <2> DEFINE q == kept[i]
  <2>1. q = [op |-> q.op, arg |-> q.arg, status |-> q.status, data |-> q.data, late |-> q.late]
    BY <1>2 DEF IsRequest
  <2> HIDE DEF q, kept
  <2>2. [q EXCEPT !.arg = "orphan"] = Orphan(q)
    BY <2>1
  <2>3. QED
    BY <2>2 DEF q
<1>5. Orphans(n) = m
  BY <1>4 DEF Orphans
<1>6. ASSUME NEW i \in DOMAIN kept
      PROVE  LET r == Orphan(kept[i]) IN
             IsRequest(r) /\ ContestRequest(r) /\ r.op # "check" /\ r.arg = "orphan"
  <2>1. ContestRequest(n[f[i]]) /\ kept[i].op # "check" /\ kept[i].status = n[f[i]].status
    BY <1>3 DEF Same
  <2>2. QED
    BY <2>1 DEF ContestRequest, IsRequest
<1>7. Len(kept) \in Nat /\ DOMAIN kept = 1..Len(kept)
  BY <1>1, NetElements
<1> HIDE DEF kept, Orphan, A
<1> DEFINE S == {Orphan(kept[i]) : i \in DOMAIN kept}
<1>8. m \in Seq(S)
  <2>1. m \in [1..Len(kept) -> S]
    BY <1>7
  <2>2. QED
    BY <1>7, <2>1
<1>9. Range(m) = S
  BY DEF Range
<1>10. \A r \in S : IsRequest(r) /\ ContestRequest(r) /\ r.op # "check" /\ r.arg = "orphan"
  BY <1>6
<1>11. IsNet(m)
  <2> HIDE DEF m, S
  <2>1. QED
    BY <1>8, <1>10 DEF IsNet
<1>12. QED
  BY <1>5, <1>9, <1>10, <1>11

(* A component is mounted: nothing but its first check is its own.         *)
LEMMA ButtonFresh ==
    ASSUME open = "contest", open' = open, registered' = "unknown", IsNet(net'),
           \A i \in DOMAIN net' :
              /\ ContestRequest(net'[i])
              /\ IF net'[i].op = "check" THEN net'[i].status = "sent"
                                         ELSE net'[i].arg = "orphan",
           \A i, j \in DOMAIN net' : net'[i].op = "check" /\ net'[j].op = "check" => i = j
    PROVE  ButtonInv'
<1>1. \A i \in DOMAIN net' : ~Own(i)' /\ ~Toggling(i)'
  BY DEF Own, Toggling
<1>2. \A i \in DOMAIN net' : Checking(i)' => ~Handled(i)'
  BY DEF Checking, Handled
<1>3. OneAtATime'
  BY <1>1 DEF OneAtATime, Checking
<1>4. Told'
  BY <1>1, <1>2 DEF Told
<1>5. QED
  BY <1>3, <1>4 DEF ButtonInv

LEMMA LeaveFresh ==
    ASSUME open = "contest", open' = open, NEW n, IsNet(n),
           \A i \in DOMAIN n : ContestRequest(n[i]),
           \A i, j \in DOMAIN n : n[i].op = "check" /\ n[j].op = "check" => i = j,
           Leave(n)
    PROVE  ButtonInv'
<1>1. net' = Orphans(n) /\ registered' = "unknown"
  BY DEF Leave
<1>2. /\ IsNet(net')
      /\ \A r \in Range(net') : ContestRequest(r) /\ r.op # "check" /\ r.arg = "orphan"
  BY <1>1, OrphansNet
<1>3. \A i \in DOMAIN net' : net'[i] \in Range(net')
  BY DEF Range
<1>4. QED
  BY <1>1, <1>2, <1>3, ButtonFresh

LEMMA MountFresh ==
    ASSUME ButtonInv, open = "contest", open' = open, MountButton
    PROVE  ButtonInv'
<1> DEFINE n == Orphans(net)
           r == Request("check", "mine")
<1>1. /\ IsNet(net) /\ \A i \in DOMAIN net : ContestRequest(net[i])
      /\ \A i, j \in DOMAIN net : net[i].op = "check" /\ net[j].op = "check" => i = j
  BY DEF ButtonInv, OneAtATime, Checking
<1>2. CASE ~token
  <2>1. Leave(net)
    BY <1>2 DEF MountButton, Leave
  <2>2. QED
    BY <1>1, <2>1, LeaveFresh
<1>3. CASE token
  <2>1. net' = Append(n, r) /\ registered' = "unknown"
    BY <1>3 DEF MountButton
  <2>2. /\ IsNet(n)
        /\ \A q \in Range(n) : ContestRequest(q) /\ q.op # "check" /\ q.arg = "orphan"
    BY <1>1, OrphansNet
  <2>3. IsRequest(r) /\ ContestRequest(r) /\ r.status = "sent" /\ r.op = "check"
    BY NewRequest DEF Request, ContestRequest
  <2> HIDE DEF n, r
  <2>4. n \in Seq(Range(n)) /\ \A q \in Range(n) : IsRequest(q)
    BY <2>2, NetElements
  <2> DEFINE S == Range(n) \cup {r}
  <2>5. n \in Seq(S) /\ r \in S /\ \A q \in S : IsRequest(q)
    BY <2>3, <2>4
  <2> HIDE DEF S
  <2>6. /\ net' \in Seq(S) /\ Len(n) \in Nat
        /\ DOMAIN n = 1..Len(n) /\ DOMAIN net' = 1..(Len(n) + 1)
        /\ \A k \in 1..Len(n) : net'[k] = n[k]
        /\ net'[Len(n) + 1] = r
    BY <2>1, <2>5
  <2>7. IsNet(net')
    BY <2>5, <2>6 DEF IsNet
  <2>8. ASSUME NEW k \in DOMAIN net'
        PROVE  \/ k \in DOMAIN n /\ net'[k] \in Range(n)
               \/ k = Len(n) + 1 /\ net'[k] = r
    BY <2>6, <2>8 DEF Range
  <2>9. \A k \in DOMAIN net' :
           /\ ContestRequest(net'[k])
           /\ IF net'[k].op = "check" THEN net'[k].status = "sent" ELSE net'[k].arg = "orphan"
    BY <2>2, <2>3, <2>8
  <2>10. \A i, j \in DOMAIN net' : net'[i].op = "check" /\ net'[j].op = "check" => i = j
    BY <2>2, <2>8
  <2>11. QED
    BY <2>1, <2>7, <2>9, <2>10, ButtonFresh
<1>4. QED
  BY <1>2, <1>3

(* Requests that come and go while the button and the row stay as they     *)
(* are, save that a check or a toggle is taken by the step itself.         *)
LEMMA ButtonMoved ==
    ASSUME ButtonInv, open = "contest", open' = open,
           NEW A, NEW f, IsNet(net'), Moves(net, net', A, {}, f)
    PROVE  /\ \A i \in DOMAIN net' :
                 /\ f[i] \in A /\ f[i] \in DOMAIN net
                 /\ ContestRequest(net'[i]) /\ Same(net'[i], net[f[i]])
                 /\ Checking(i)' = Checking(f[i]) /\ Own(i)' = Own(f[i])
                 /\ Toggling(i)' = Toggling(f[i])
                 /\ Handled(i)' = Handled(f[i]) /\ Data(i)' = Data(f[i])
           /\ \A i, j \in DOMAIN net' : f[i] = f[j] => i = j
<1>1. \A i \in DOMAIN net' : f[i] \in A /\ f[i] \in DOMAIN net /\ Same(net'[i], net[f[i]])
  BY DEF Moves
<1>2. \A i \in DOMAIN net' : ContestRequest(net'[i])
  BY <1>1 DEF ButtonInv, ContestRequest, Same
<1>3. QED
  BY <1>1, <1>2 DEF Moves, Same, Checking, Own, Toggling, Handled, Data

LEMMA ButtonCheck ==
    ASSUME ButtonInv, open = "contest", open' = open,
           NEW i \in DOMAIN net, CheckAnswered(i)
    PROVE  ButtonInv'
<1>1. /\ Checking(i) /\ ~Waiting(i)
      /\ registered' = IF Handled(i) THEN Data(i) ELSE "no"
      /\ doubt' = (doubt \/ Failed(i))
      /\ Return(i, <<>>) /\ UNCHANGED <<member, busy>>
  BY DEF CheckAnswered, Checking
<1>2. PICK f : IsNet(net') /\ Moves(net, net', DOMAIN net \ {i}, {}, f)
  BY <1>1, ReturnMoves DEF ButtonInv
<1>3. /\ \A j \in DOMAIN net' :
            /\ f[j] \in DOMAIN net /\ f[j] # i /\ ContestRequest(net'[j])
            /\ Own(j)' = Own(f[j]) /\ Checking(j)' = Checking(f[j])
            /\ Toggling(j)' = Toggling(f[j])
      /\ \A j, k \in DOMAIN net' : f[j] = f[k] => j = k
  BY <1>2, ButtonMoved
<1>4. /\ registered = "unknown" /\ \A j \in DOMAIN net : ~Toggling(j)
      /\ \A j \in DOMAIN net : Checking(j) => j = i
  BY <1>1 DEF ButtonInv, OneAtATime
<1>5. \A j \in DOMAIN net' : ~Toggling(j)' /\ ~Checking(j)'
  BY <1>3, <1>4
<1>6. OneAtATime'
  BY <1>1, <1>3, <1>5 DEF OneAtATime, ButtonInv
<1>7. ~doubt' => ~doubt /\ Handled(i)
  BY <1>1 DEF ButtonInv, ContestRequest, Waiting, Handled, Failed
<1>8. ~doubt' => Told'
  BY <1>1, <1>5, <1>7 DEF Told, ButtonInv, Truth
<1>9. QED
  BY <1>2, <1>3, <1>6, <1>8 DEF ButtonInv

LEMMA ButtonTold ==
    ASSUME ButtonInv, open = "contest", open' = open,
           NEW i \in DOMAIN net, ToggleAnswered(i)
    PROVE  ButtonInv'
<1>1. /\ net[i].op \in {"register", "unregister"} /\ ~Waiting(i)
      /\ Return(i, <<>>) /\ UNCHANGED <<member, doubt>>
      /\ IF net[i].arg = "orphan" THEN UNCHANGED <<registered, busy>>
         ELSE registered' = IF Failed(i) THEN registered
                            ELSE IF net[i].op = "register" THEN "yes" ELSE "no"
  BY DEF ToggleAnswered
<1>2. PICK f : IsNet(net') /\ Moves(net, net', DOMAIN net \ {i}, {}, f)
  BY <1>1, ReturnMoves DEF ButtonInv
<1>3. /\ \A j \in DOMAIN net' :
            /\ f[j] \in DOMAIN net \ {i} /\ ContestRequest(net'[j])
            /\ Own(j)' = Own(f[j]) /\ Checking(j)' = Checking(f[j])
            /\ Toggling(j)' = Toggling(f[j])
            /\ Handled(j)' = Handled(f[j]) /\ Data(j)' = Data(f[j])
            /\ net'[j].op = net[f[j]].op
      /\ \A j, k \in DOMAIN net' : f[j] = f[k] => j = k
  BY <1>2, ButtonMoved DEF Same
<1>4. OneAtATime /\ (~doubt => Told) /\ Truth' = Truth
  BY <1>1 DEF ButtonInv, Truth
<1>5. CASE net[i].arg = "orphan"
  <2>1. OneAtATime'
    BY <1>1, <1>3, <1>4, <1>5 DEF OneAtATime
  <2>2. \A k \in DOMAIN net : k # i => \E j \in DOMAIN net' : f[j] = k
    BY <1>2 DEF Moves
  <2>3. ~Toggling(i)
    BY <1>5 DEF Toggling
  <2>4. ~doubt => registered' \in {"unknown", Truth'}
                  \/ \E j \in DOMAIN net' : Toggling(j)' /\ Handled(j)'
    BY <1>1, <1>3, <1>4, <1>5, <2>2, <2>3 DEF Told
  <2>5. ~doubt' => Told'
    BY <1>1, <1>3, <1>4, <2>4 DEF Told
  <2>6. QED
    BY <1>2, <1>3, <2>1, <2>5 DEF ButtonInv
<1>6. CASE net[i].arg # "orphan"
  <2>1. Own(i) /\ Toggling(i)
    BY <1>1, <1>6 DEF ButtonInv, ContestRequest, Own, Toggling
  <2>2. /\ registered # "unknown"
        /\ \A j \in DOMAIN net : Own(j) => j = i
        /\ \A j \in DOMAIN net : Toggling(j) => j = i
        /\ \A j \in DOMAIN net : ~Checking(j)
    BY <1>4, <2>1 DEF OneAtATime, Own, Toggling
  <2>3. \A j \in DOMAIN net' : ~Own(j)' /\ ~Toggling(j)' /\ ~Checking(j)'
    BY <1>3, <2>2
  <2>4. OneAtATime'
    BY <2>3 DEF OneAtATime
  <2>5. ~doubt => registered' = Truth
    <3>1. CASE Failed(i)
      <4>1. ~Handled(i) /\ registered' = registered
        BY <1>1, <1>6, <3>1 DEF Failed, Handled
      <4>2. QED
        BY <1>4, <2>2, <4>1 DEF Told
    <3>2. CASE ~Failed(i)
      <4>1. Handled(i)
        BY <1>1, <3>2 DEF ButtonInv, ContestRequest, Waiting, Failed, Handled
      <4>2. QED
        BY <1>1, <1>4, <1>6, <2>1, <3>2, <4>1 DEF Told
    <3>3. QED
      BY <3>1, <3>2
  <2>6. ~doubt' => Told'
    BY <1>1, <1>4, <2>3, <2>5 DEF Told
  <2>7. QED
    BY <1>2, <1>3, <2>4, <2>6 DEF ButtonInv
<1>7. QED
  BY <1>5, <1>6

(* The token goes, or the answer to a submission of an entry comes in.     *)
LEMMA ButtonAside ==
    ASSUME ButtonInv, open = "contest", open' = open,
           \/ TokenGone
           \/ \E i \in DOMAIN net : EntryRefused(i)
    PROVE  ButtonInv'
<1>1. IsNet(net) /\ OneAtATime /\ (~doubt => Told)
  BY DEF ButtonInv
<1>2. UNCHANGED <<member, doubt, registered>>
  BY DEF TokenGone, EntryRefused
<1>3. \E A, f : /\ IsNet(net') /\ Moves(net, net', A, {}, f)
                /\ \A k \in DOMAIN net : Toggling(k) => k \in A
                /\ \A k \in A : Own(k) => busy'
  <2>1. CASE TokenGone
    <3> DEFINE A == {k \in DOMAIN net : net[k].op # "check"}
    <3>1. net' = Without(net, "check") /\ busy' = busy
      BY <2>1 DEF TokenGone
    <3>2. \A i, j \in DOMAIN net : net[i].op = "check" /\ net[j].op = "check" => i = j
      BY <1>1 DEF OneAtATime, Checking
    <3>3. PICK f : IsNet(net') /\ Moves(net, net', A, {}, f)
      BY <1>1, <3>1, <3>2, WithoutMoves
    <3>4. (\A k \in DOMAIN net : Toggling(k) => k \in A) /\ \A k \in A : Own(k) => busy'
      BY <1>1, <3>1 DEF Toggling, OneAtATime
    <3>5. QED
      BY <3>3, <3>4
  <2>2. ASSUME NEW i \in DOMAIN net, EntryRefused(i)
        PROVE  \E A, f : /\ IsNet(net') /\ Moves(net, net', A, {}, f)
                         /\ \A k \in DOMAIN net : Toggling(k) => k \in A
                         /\ \A k \in A : Own(k) => busy'
    <3> DEFINE A == DOMAIN net \ {i}
    <3>1. /\ net[i].op = "entry" /\ Return(i, <<>>)
          /\ IF net[i].arg = "orphan" THEN busy' = busy ELSE busy' = FALSE
      BY <2>2 DEF EntryRefused
    <3>2. PICK f : IsNet(net') /\ Moves(net, net', A, {}, f)
      BY <1>1, <3>1, ReturnMoves
    <3>3. \A k \in DOMAIN net : Toggling(k) => k \in A
      BY <3>1 DEF Toggling
    <3>4. \A k \in A : Own(k) => busy'
      <4>1. CASE net[i].arg = "orphan"
        BY <1>1, <3>1, <4>1 DEF OneAtATime
      <4>2. CASE net[i].arg # "orphan"
        <5>1. Own(i)
          BY <3>1, <4>2 DEF Own, ButtonInv, ContestRequest
        <5>2. QED
          BY <1>1, <5>1 DEF OneAtATime
      <4>3. QED
        BY <4>1, <4>2
    <3>5. QED
      BY <3>2, <3>3, <3>4
  <2>3. QED
    BY <2>1, <2>2
<1>4. PICK A, f : /\ IsNet(net') /\ Moves(net, net', A, {}, f)
                  /\ \A k \in DOMAIN net : Toggling(k) => k \in A
                  /\ \A k \in A : Own(k) => busy'
  BY <1>3
<1>5. /\ \A j \in DOMAIN net' :
            /\ f[j] \in A /\ f[j] \in DOMAIN net /\ ContestRequest(net'[j])
            /\ Own(j)' = Own(f[j]) /\ Checking(j)' = Checking(f[j])
            /\ Toggling(j)' = Toggling(f[j])
            /\ Handled(j)' = Handled(f[j]) /\ Data(j)' = Data(f[j])
            /\ net'[j].op = net[f[j]].op
      /\ \A j, k \in DOMAIN net' : f[j] = f[k] => j = k
  BY <1>4, ButtonMoved DEF Same
<1>6. \A k \in A : \E j \in DOMAIN net' : f[j] = k
  BY <1>4 DEF Moves
<1>7. OneAtATime'
  BY <1>1, <1>2, <1>4, <1>5 DEF OneAtATime
<1>8. Truth' = Truth
  BY <1>2 DEF Truth
<1>9. ~doubt => registered' \in {"unknown", Truth'}
                \/ \E j \in DOMAIN net' : Toggling(j)' /\ Handled(j)'
  BY <1>1, <1>2, <1>4, <1>5, <1>6, <1>8 DEF Told
<1>10. ~doubt' => Told'
  BY <1>1, <1>2, <1>5, <1>8, <1>9 DEF Told
<1>11. QED
  BY <1>4, <1>5, <1>7, <1>10 DEF ButtonInv

(* A click that sends a request of the component that is mounted.          *)
LEMMA ButtonClicked ==
    ASSUME ButtonInv, open = "contest", open' = open,
           Register \/ Unregister \/ SubmitEntry
    PROVE  ButtonInv'
<1>1. PICK op \in {"register", "unregister", "entry"} :
         /\ Send(Request(op, "mine")) /\ ~busy /\ busy' = TRUE
         /\ UNCHANGED <<member, registered, doubt>>
         /\ op # "entry" => registered # "unknown"
  BY DEF Register, Unregister, Toggle, SubmitEntry
<1> DEFINE r == Request(op, "mine")
<1>2. IsRequest(r) /\ r.op = op /\ r.arg = "mine" /\ r.status = "sent"
  BY NewRequest DEF Request
<1>3. Send(r)
  BY <1>1
<1> HIDE DEF r
<1>4. IsNet(net) /\ OneAtATime /\ (~doubt => Told)
  BY DEF ButtonInv
<1>5. PICK f : IsNet(net') /\ Moves(net, net', DOMAIN net, {r}, f)
  BY <1>2, <1>3, <1>4, SendMoves
<1>6. ASSUME NEW j \in DOMAIN net'
      PROVE  \/ f[j] \in DOMAIN net /\ Same(net'[j], net[f[j]])
             \/ f[j] = Len(net) + 1 /\ f[j] \notin DOMAIN net /\ net'[j] = r
  BY <1>5 DEF Moves
<1>7. \A i, j \in DOMAIN net' : f[i] = f[j] => i = j
  BY <1>5 DEF Moves
<1>8. \A i \in DOMAIN net' : ContestRequest(net'[i])
  BY <1>2, <1>6 DEF ButtonInv, ContestRequest, Same
<1>9. \A j \in DOMAIN net : ~Own(j) /\ ~Toggling(j)
  BY <1>1, <1>4 DEF OneAtATime, Own, Toggling
<1>10. \A j \in DOMAIN net' :
          /\ Own(j)' => f[j] = Len(net) + 1
          /\ Toggling(j)' => op # "entry" /\ ~Handled(j)'
          /\ Checking(j)' => /\ f[j] \in DOMAIN net /\ Checking(f[j])
                             /\ Handled(j)' => Handled(f[j])
                             /\ Data(j)' = Data(f[j])
  BY <1>1, <1>2, <1>6, <1>9 DEF Own, Toggling, Checking, Handled, Data, Same
<1>11. OneAtATime'
  BY <1>1, <1>4, <1>7, <1>10 DEF OneAtATime
<1>12. Truth' = Truth
  BY <1>1 DEF Truth
<1>13. ~doubt' => Told'
  BY <1>1, <1>4, <1>9, <1>10, <1>12 DEF Told
<1>14. QED
  BY <1>5, <1>8, <1>11, <1>13 DEF ButtonInv

(* The server answers, or a request fails.                                 *)
LEMMA ButtonServed ==
    ASSUME ButtonInv, open = "contest", open' = open, NEW i \in DOMAIN net,
           HandleCheck(i) \/ HandleToggle(i) \/ HandleEntry(i) \/ ContestFails(i)
    PROVE  ButtonInv'
<1>1. IsNet(net) /\ OneAtATime /\ (~doubt => Told) /\ ContestRequest(net[i])
  BY DEF ButtonInv
<1>2. /\ UNCHANGED <<registered, busy>> /\ Waiting(i)
      /\ (\E d : Answer(i, d)) \/ Fail(i)
  BY DEF HandleCheck, HandleToggle, HandleEntry, ContestFails
<1>3. IsNet(net') /\ Served(net, net', i) /\ net'[i].status \in {"ok", "error"}
  BY <1>1, <1>2, AnswerServes, FailServes
<1>4. /\ DOMAIN net' = DOMAIN net
      /\ \A j \in DOMAIN net : /\ Checking(j)' = Checking(j) /\ Own(j)' = Own(j)
                               /\ Toggling(j)' = Toggling(j)
                               /\ net'[j].op = net[j].op /\ net'[j].arg = net[j].arg
      /\ \A j \in DOMAIN net \ {i} : Handled(j)' = Handled(j) /\ Data(j)' = Data(j)
      /\ \A j \in DOMAIN net : ContestRequest(net'[j])
      /\ ~Handled(i)
  BY <1>2, <1>3 DEF Served, Checking, Own, Toggling, Handled, Data, ContestRequest,
     Waiting, ButtonInv
<1>5. OneAtATime'
  BY <1>1, <1>2, <1>4 DEF OneAtATime
<1>6. CASE HandleCheck(i)
  <2>1. Checking(i) /\ member' = member /\ Answer(i, Truth)
    BY <1>6 DEF HandleCheck, Checking, Truth
  <2>2. Data(i)' = Truth
    BY <1>1, <2>1, AnswerServes DEF Data
  <2>3. Truth' = Truth
    BY <2>1 DEF Truth
  <2>4. registered = "unknown" /\ (\A j \in DOMAIN net : ~Toggling(j))
        /\ \A j \in DOMAIN net : Checking(j) => j = i
    BY <1>1, <2>1 DEF OneAtATime
  <2>5. Told'
    BY <1>2, <1>4, <2>2, <2>3, <2>4 DEF Told
  <2>6. QED
    BY <1>3, <1>4, <1>5, <2>5 DEF ButtonInv
<1>7. CASE HandleToggle(i)
  <2>1. /\ net[i].op \in {"register", "unregister"}
        /\ member' = (net[i].op = "register")
        /\ \/ Answer(i, net[i].arg) /\ doubt' = (doubt \/ net[i].arg = "orphan")
           \/ doubt' = TRUE
    BY <1>7 DEF HandleToggle
  <2>2. CASE ~doubt'
    <3>1. ~doubt /\ net[i].arg # "orphan" /\ Answer(i, net[i].arg)
      BY <2>1, <2>2
    <3>2. Toggling(i) /\ Handled(i)'
      BY <1>1, <2>1, <3>1, AnswerServes DEF Toggling, Handled, ContestRequest
    <3>3. Truth' = (IF net[i].op = "register" THEN "yes" ELSE "no")
      BY <2>1 DEF Truth
    <3>4. /\ \A j \in DOMAIN net : ~Checking(j)
          /\ \A j \in DOMAIN net : Toggling(j) => j = i
      BY <1>1, <3>2 DEF OneAtATime, Toggling, Own
    <3>5. Told'
      BY <1>4, <3>2, <3>3, <3>4 DEF Told
    <3>6. QED
      BY <1>3, <1>4, <1>5, <3>5 DEF ButtonInv
  <2>3. CASE doubt'
    BY <1>3, <1>4, <1>5, <2>3 DEF ButtonInv
  <2>4. QED
    BY <2>2, <2>3
<1>8. CASE HandleEntry(i) \/ ContestFails(i)
  <2>1. member' = member /\ doubt' = doubt
    BY <1>8 DEF HandleEntry, ContestFails
  <2>6. Truth' = Truth
    BY <2>1 DEF Truth
  <2>2. Handled(i)' => ~Checking(i) /\ ~Toggling(i)
    <3>1. CASE HandleEntry(i)
      BY <3>1 DEF HandleEntry, Checking, Toggling
    <3>2. CASE ContestFails(i)
      BY <1>1, <3>2, FailServes DEF ContestFails, Handled
    <3>3. QED
      BY <1>8, <3>1, <3>2
  <2>3. ~doubt => registered' \in {"unknown", Truth'}
                  \/ \E j \in DOMAIN net' : Toggling(j)' /\ Handled(j)'
    BY <1>1, <1>2, <1>4, <2>1, <2>6 DEF Told
  <2>4. ~doubt' => Told'
    BY <1>1, <1>4, <2>1, <2>2, <2>3, <2>6 DEF Told
  <2>5. QED
    BY <1>3, <1>4, <1>5, <2>4 DEF ButtonInv
<1>9. QED
  BY <1>6, <1>7, <1>8

LEMMA ButtonStepKeeps ==
    ASSUME ButtonInv, open = "contest", open' = open, ContestNext
    PROVE  ButtonInv'
<1>1. /\ IsNet(net) /\ \A i \in DOMAIN net : ContestRequest(net[i])
      /\ \A i, j \in DOMAIN net : net[i].op = "check" /\ net[j].op = "check" => i = j
  BY DEF ButtonInv, OneAtATime, Checking
<1>2. ASSUME UNCHANGED <<registered, busy, net, member, doubt>>
      PROVE  ButtonInv'
  BY <1>2 DEF ButtonInv, OneAtATime, Told, Truth, Checking, Own, Toggling, Handled, Data
<1>3. CASE Passes
  BY <1>2, <1>3 DEF Passes
<1>4. CASE ClockTick \/ OpenContest \/ OpenProblem \/ SignInAgain
  <2>1. MountButton \/ Leave(net) \/ UNCHANGED <<registered, busy, net, member, doubt>>
    BY <1>4 DEF ClockTick, OpenContest, OpenProblem, SignInAgain
  <2>2. QED
    BY <1>1, <1>2, <2>1, MountFresh, LeaveFresh
<1>5. ASSUME NEW i \in DOMAIN net, EntryAccepted(i)
      PROVE  ButtonInv'
  <2> DEFINE n == RemoveAt(net, i)
  <2>1. Leave(n)
    BY <1>5, Zenon DEF EntryAccepted
  <2>2. /\ n \in Seq(Range(net)) /\ Len(n) = Len(net) - 1
        /\ \A j \in 1..(Len(net) - 1) : n[j] = net[IF j < i THEN j ELSE j + 1]
        /\ Len(net) \in Nat /\ DOMAIN net = 1..Len(net) /\ i \in 1..Len(net)
        /\ \A r \in Range(net) : IsRequest(r)
    <3>1. net \in Seq(Range(net)) /\ \A r \in Range(net) : IsRequest(r)
      BY <1>1, NetElements
    <3>2. Len(net) \in Nat /\ DOMAIN net = 1..Len(net) /\ i \in 1..Len(net)
      BY <3>1
    <3>3. QED
      BY <3>1, <3>2, PlacesLeft, Zenon
  <2> HIDE DEF n
  <2>3. IsNet(n) /\ DOMAIN n = 1..(Len(net) - 1)
    BY <2>2 DEF IsNet
  <2>4. \A j \in DOMAIN n : (IF j < i THEN j ELSE j + 1) \in DOMAIN net
    BY <2>2, <2>3
  <2>5. \A j \in DOMAIN n : ContestRequest(n[j])
    BY <1>1, <2>2, <2>3, <2>4
  <2>6. ASSUME NEW j \in DOMAIN n, NEW k \in DOMAIN n, n[j].op = "check", n[k].op = "check"
        PROVE  j = k
    <3>1. (IF j < i THEN j ELSE j + 1) = (IF k < i THEN k ELSE k + 1)
      BY <1>1, <2>2, <2>3, <2>4, <2>6
    <3>2. j \in Int /\ k \in Int /\ i \in Int
      BY <2>2, <2>3
    <3>3. QED
      BY ONLY <3>1, <3>2
  <2>7. QED
    BY <2>1, <2>3, <2>5, <2>6, LeaveFresh
<1>6. QED
  BY <1>3, <1>4, <1>5, ButtonClicked, ButtonAside, ButtonCheck, ButtonTold, ButtonServed
     DEF ContestNext

LEMMA ButtonInductive == Spec => []ButtonInv
<1>1. Init => ButtonInv
  <2> SUFFICES ASSUME Init PROVE ButtonInv
    OBVIOUS
  <2>1. registered = "unknown"
    BY DEF Init, ContestInit
  <2>2. CASE open = "contest"
    <3>1. net = <<>>
      BY <2>2 DEF Init
    <3>2. IsNet(net) /\ DOMAIN net = {}
      BY <3>1, EmptyNet
    <3>3. QED
      BY <2>1, <2>2, <3>2 DEF ButtonInv, OneAtATime, Told
  <2>3. CASE open # "contest"
    BY <2>1, <2>3 DEF ButtonInv
  <2>4. QED
    BY <2>2, <2>3
<1>2. ButtonInv /\ [Next]_vars => ButtonInv'
  <2> SUFFICES ASSUME ButtonInv, [Next]_vars PROVE ButtonInv'
    OBVIOUS
  <2>1. CASE ContestStep
    BY <2>1, ButtonStepKeeps DEF ContestStep
  <2>2. CASE SubmissionsStep \/ ApprovalStep \/ ProblemsStep \/ ConsoleStep \/ DeskStep
    <3>1. open # "contest" /\ UNCHANGED <<open, registered>>
      BY <2>2 DEF SubmissionsStep, ApprovalStep, ProblemsStep, ConsoleStep, DeskStep,
         contestPage
    <3>2. QED
      BY <3>1 DEF ButtonInv
  <2>3. CASE UNCHANGED vars
    <3>1. UNCHANGED <<open, registered, busy, net, member, doubt>>
      BY <2>3 DEF vars, contestPage
    <3>2. QED
      BY <3>1 DEF ButtonInv, OneAtATime, Told, Truth, Checking, Own, Toggling, Handled, Data
  <2>4. QED
    BY <2>1, <2>2, <2>3 DEF Next
<1>3. QED
  BY <1>1, <1>2, PTL DEF Spec

(* Between two toggles the button tells whether the user is registered,    *)
(* whatever the order of its requests and answers; what can make it lie is *)
(* in `doubt`.                                                             *)
THEOREM ButtonTellsTheTruth == Spec => []ButtonTellsTruth
<1>1. ButtonInv => ButtonTellsTruth
  <2> SUFFICES ASSUME ButtonInv, registered # "unknown", ~busy, ~doubt
               PROVE  registered = Truth
    BY DEF ButtonTellsTruth, Truth
  <2>1. OneAtATime /\ Told
    BY DEF ButtonInv
  <2>2. \A i \in DOMAIN net : ~Toggling(i)
    BY <2>1 DEF OneAtATime, Own, Toggling
  <2>3. QED
    BY <2>1, <2>2 DEF Told
<1>2. QED
  BY ButtonInductive, <1>1, PTL

(* What a stored sequence holds after a new entry, and after a new value.  *)
LEMMA StoreGrows ==
    ASSUME NEW S, NEW s \in Seq(S), NEW e
    PROVE  /\ Append(s, e) \in Seq(S \cup {e})
           /\ DOMAIN Append(s, e) = 1..(Len(s) + 1) /\ Len(s) + 1 \in DOMAIN Append(s, e)
           /\ \A k \in DOMAIN s : Append(s, e)[k] = s[k]
           /\ Append(s, e)[Len(s) + 1] = e
<1>1. s \in Seq(S \cup {e}) /\ e \in S \cup {e} /\ Len(s) + 1 \in 1..(Len(s) + 1)
  OBVIOUS
<1> DEFINE T == S \cup {e}
<1> HIDE DEF T
<1>2. s \in Seq(T) /\ e \in T
  BY <1>1 DEF T
<1>3. /\ Append(s, e) \in Seq(T)
      /\ DOMAIN Append(s, e) = 1..(Len(s) + 1)
      /\ \A k \in DOMAIN s : Append(s, e)[k] = s[k]
      /\ Append(s, e)[Len(s) + 1] = e
  BY <1>2, AppendProperties
<1>4. QED
  BY <1>1, <1>3 DEF T

LEMMA StoreChanges ==
    ASSUME NEW S, NEW s \in Seq(S), NEW e, NEW k \in DOMAIN s
    PROVE  /\ [s EXCEPT ![k] = e] \in Seq(S \cup {e})
           /\ DOMAIN [s EXCEPT ![k] = e] = DOMAIN s
           /\ [s EXCEPT ![k] = e][k] = e
           /\ \A j \in DOMAIN s : j # k => [s EXCEPT ![k] = e][j] = s[j]
<1>1. s \in Seq(S \cup {e}) /\ e \in S \cup {e}
  OBVIOUS
<1> DEFINE T == S \cup {e}
<1> HIDE DEF T
<1>2. s \in Seq(T) /\ e \in T
  BY <1>1 DEF T
<1>3. /\ [s EXCEPT ![k] = e] \in Seq(T)
      /\ DOMAIN [s EXCEPT ![k] = e] = DOMAIN s
      /\ [s EXCEPT ![k] = e][k] = e
      /\ \A j \in DOMAIN s : j # k => [s EXCEPT ![k] = e][j] = s[j]
  BY <1>2
<1>4. QED
  BY <1>3 DEF T

(***************************************************************************)
(* Saves of the problem console.                                           *)
(***************************************************************************)

Saving(i) == net[i].op = "save"

IsSent(a) == a = [id |-> a.id, text |-> a.text, groups |-> a.groups, upload |-> a.upload]

IsProblem(x) == x = [text |-> x.text, groups |-> x.groups, files |-> x.files]

HoldsText(p, a)  == stored[p].text = a.text
HoldsTests(p, a) == a.upload # 0 => stored[p].groups = a.groups /\ stored[p].files = a.upload

(* How far a save is: a POST begins with the row, a PUT with the files.    *)
SaveStored(i) ==
    /\ IsSent(net[i].arg)
    /\ Midway(i) => /\ Target(i) \in DOMAIN stored
                    /\ IF Creates(i) THEN HoldsText(Target(i), net[i].arg)
                       ELSE HoldsTests(Target(i), net[i].arg)
    /\ Handled(i) => /\ Data(i) \in DOMAIN stored
                     /\ HoldsText(Data(i), net[i].arg)
                     /\ HoldsTests(Data(i), net[i].arg)

(* Of saves that are not raced one is on its way at most; what the server  *)
(* answered, and what the page reports, is stored.                         *)
SavesStored ==
    /\ \A i, j \in DOMAIN net : Saving(i) /\ Saving(j) => i = j
    /\ \A i \in DOMAIN net : Saving(i) => SaveStored(i)
    /\ status = "saved" => /\ \A i \in DOMAIN net : ~Saving(i)
                           /\ saved.id \in DOMAIN stored
                           /\ HoldsText(saved.id, saved)
                           /\ HoldsTests(saved.id, saved)

StoredRows == (\E S : stored \in Seq(S)) /\ \A p \in DOMAIN stored : IsProblem(stored[p])

SaveInv ==
    /\ open # "problem console" => status = "none"
    /\ open = "problem console" => /\ IsNet(net)
                                   /\ StoredRows
                                   /\ ~raced => SavesStored

(* What is said of a save speaks of what it asked and was told.            *)
LEMMA SaveSame ==
    ASSUME UNCHANGED stored, NEW i, NEW j, Same(net'[j], net[i])
    PROVE  /\ Saving(j)' = Saving(i)
           /\ SaveStored(i) => SaveStored(j)'
<1>1. /\ net'[j].op = net[i].op /\ net'[j].arg = net[i].arg
      /\ net'[j].status = net[i].status /\ net'[j].data = net[i].data
  BY DEF Same
<1>2. QED
  BY <1>1 DEF Saving, SaveStored, Midway, Handled, Target, Creates, Data, HoldsText, HoldsTests

(* Requests that are no saves come and go; a form that is reset no longer  *)
(* reports.                                                                *)
LEMMA SavesKept ==
    ASSUME SaveInv, open = "problem console", open' = open,
           UNCHANGED <<stored, saved, raced>>, (status' = status \/ status' = "none"), IsNet(net'),
           NEW A, NEW R, NEW f, Moves(net, net', A, R, f), \A q \in R : q.op # "save"
    PROVE  SaveInv'
<1>1. ASSUME NEW j \in DOMAIN net', Saving(j)'
      PROVE  /\ f[j] \in DOMAIN net /\ Saving(f[j])
             /\ SaveStored(f[j]) => SaveStored(j)'
  <2>1. f[j] \in DOMAIN net /\ Same(net'[j], net[f[j]])
    BY <1>1 DEF Moves, Saving
  <2>2. QED
    BY <1>1, <2>1, SaveSame
<1>2. \A j, k \in DOMAIN net' : f[j] = f[k] => j = k
  BY DEF Moves
<1>3. ASSUME ~raced PROVE SavesStored'
  <2>1. SavesStored
    BY <1>3 DEF SaveInv
  <2>2. \A i, j \in DOMAIN net' : Saving(i)' /\ Saving(j)' => i = j
    BY <1>1, <1>2, <2>1 DEF SavesStored
  <2>3. \A i \in DOMAIN net' : Saving(i)' => SaveStored(i)'
    BY <1>1, <2>1 DEF SavesStored
  <2>4. status' = "saved" => status = "saved"
    OBVIOUS
  <2>5. status' = "saved" => /\ \A i \in DOMAIN net' : ~Saving(i)'
                             /\ saved'.id \in DOMAIN stored'
                             /\ HoldsText(saved.id, saved)'
                             /\ HoldsTests(saved.id, saved)'
    BY <1>1, <2>1, <2>4 DEF SavesStored, HoldsText, HoldsTests
  <2>6. QED
    BY <2>2, <2>3, <2>5 DEF SavesStored
<1>4. QED
  BY <1>3 DEF SaveInv, StoredRows

LEMMA SavesUntouched ==
    ASSUME SaveInv, UNCHANGED <<open, stored, saved, raced, net>>, (status' = status \/ status' = "none")
    PROVE  SaveInv'
BY DEF SaveInv, StoredRows, SavesStored, Saving, SaveStored, Midway, Handled, Target, Creates, Data,
       HoldsText, HoldsTests

(* The server takes a step for request i.                                  *)
LEMMA SavesServed ==
    ASSUME SaveInv, open = "problem console", open' = open,
           UNCHANGED <<stored, saved, raced, status>>, IsNet(net'),
           NEW i \in DOMAIN net, Served(net, net', i),
           net[i].op = "save" => net'[i].status = "error"
    PROVE  SaveInv'
<1>1. DOMAIN net' = DOMAIN net /\ \A j \in DOMAIN net : Saving(j)' = Saving(j)
  BY DEF Served, Saving
<1>2. ASSUME NEW j \in DOMAIN net, Saving(j), SaveStored(j)
      PROVE  SaveStored(j)'
  <2>1. CASE j = i
    <3>1. net'[i].status = "error" /\ net'[i].arg = net[i].arg
      BY <1>2, <2>1 DEF Served, Saving
    <3>2. QED
      BY <1>2, <2>1, <3>1 DEF SaveStored, Midway, Handled
  <2>2. CASE j # i
    <3>1. Same(net'[j], net[j])
      BY <2>2 DEF Served, Same
    <3>2. QED
      BY <1>2, <3>1, SaveSame
  <2>3. QED
    BY <2>1, <2>2
<1>3. ASSUME ~raced PROVE SavesStored'
  <2>1. SavesStored
    BY <1>3 DEF SaveInv
  <2>2. status = "saved" => HoldsText(saved.id, saved)' /\ HoldsTests(saved.id, saved)'
    BY <2>1 DEF SavesStored, HoldsText, HoldsTests
  <2>3. QED
    BY <1>1, <1>2, <2>1, <2>2 DEF SavesStored
<1>4. QED
  BY <1>3 DEF SaveInv, StoredRows

(* A save takes a step on the server, alone if it is not raced.            *)
LEMMA SaveAdvances ==
    ASSUME SaveInv, open = "problem console", open' = open,
           UNCHANGED <<saved, raced, status>>, IsNet(net'), StoredRows',
           NEW i \in DOMAIN net, Served(net, net', i), Saving(i),
           ~raced => SaveStored(i)'
    PROVE  SaveInv'
<1>1. DOMAIN net' = DOMAIN net /\ \A j \in DOMAIN net : Saving(j)' = Saving(j)
  BY DEF Served, Saving
<1>2. ASSUME ~raced PROVE SavesStored'
  <2>1. SavesStored
    BY <1>2 DEF SaveInv
  <2>2. status # "saved" /\ \A j \in DOMAIN net : Saving(j) => j = i
    BY <2>1 DEF SavesStored
  <2>3. \A j \in DOMAIN net' : Saving(j)' => SaveStored(j)'
    BY <1>1, <1>2, <2>2
  <2>4. QED
    BY <1>1, <2>2, <2>3 DEF SavesStored
<1>3. QED
  BY <1>2 DEF SaveInv

(* A click on SAVE; it is raced if another save is on its way.             *)
LEMMA SaveSent ==
    ASSUME SaveInv, open = "problem console", open' = open, SubmitProblem
    PROVE  SaveInv'
<1> DEFINE a == [id |-> editing, text |-> fields.text, groups |-> fields.groups,
                 upload |-> Upload]
           r == Request("save", a)
<1>1. IsRequest(r) /\ r.op = "save" /\ r.status = "sent" /\ IsSent(r.arg)
  <2>1. IsSent(a)
    BY DEF IsSent
  <2>2. QED
    BY <2>1, NewRequest DEF Request
<1>2. /\ Send(r) /\ status' = "saving" /\ UNCHANGED <<stored, saved>>
      /\ raced' = (InFlight({"save"}) # {})
  BY DEF SubmitProblem, Click
<1> HIDE DEF r
<1>3. PICK f : IsNet(net') /\ Moves(net, net', DOMAIN net, {r}, f)
  BY <1>1, <1>2, SendMoves DEF SaveInv
<1>4. CASE raced'
  BY <1>2, <1>3, <1>4 DEF SaveInv, StoredRows
<1>5. CASE ~raced'
  <2>1. \A j \in DOMAIN net : ~Saving(j)
    BY <1>2, <1>5 DEF InFlight, Saving
  <2>6. ASSUME NEW j \in DOMAIN net', Saving(j)'
        PROVE  f[j] = Len(net) + 1 /\ net'[j] = r
    <3>1. ~(f[j] \in DOMAIN net /\ Same(net'[j], net[f[j]]))
      BY <2>1, <2>6 DEF Same, Saving
    <3>2. /\ f[j] \in DOMAIN net \cup {Len(net) + 1}
          /\ f[j] \in DOMAIN net => Same(net'[j], net[f[j]])
          /\ f[j] \notin DOMAIN net => net'[j] \in {r}
      BY <1>3 DEF Moves
    <3>3. QED
      BY <3>1, <3>2
  <2>2. \A j \in DOMAIN net' : Saving(j)' => f[j] = Len(net) + 1 /\ SaveStored(j)'
    BY <1>1, <2>6 DEF SaveStored, Handled, Midway
  <2>3. \A j, k \in DOMAIN net' : f[j] = f[k] => j = k
    BY <1>3 DEF Moves
  <2>4. SavesStored'
    BY <1>2, <2>2, <2>3 DEF SavesStored
  <2>5. QED
    BY <1>2, <1>3, <2>4 DEF SaveInv, StoredRows
<1>6. QED
  BY <1>4, <1>5

(* The answer to a save is reported.                                       *)
LEMMA SaveReturns ==
    ASSUME SaveInv, open = "problem console", open' = open,
           NEW i \in DOMAIN net, SaveAnswered(i)
    PROVE  SaveInv'
<1> DEFINE r == Request("list", 0)
<1>1. IsRequest(r) /\ r.op # "save"
  BY NewRequest DEF Request
<1>2. /\ Saving(i) /\ UNCHANGED <<stored, raced>>
      /\ Return(i, <<>>) \/ Return(i, <<r>>)
      /\ \/ Handled(i) /\ saved' = [net[i].arg EXCEPT !.id = Data(i)]
         \/ status' = "failed"
  BY DEF SaveAnswered, Saving
<1> HIDE DEF r
<1>3. IsNet(net') /\ \E R, f : R \subseteq {r} /\ Moves(net, net', DOMAIN net \ {i}, R, f)
  BY <1>1, <1>2, ReturnMaySend DEF SaveInv
<1>4. PICK R, f : R \subseteq {r} /\ Moves(net, net', DOMAIN net \ {i}, R, f)
  BY <1>3
<1>5. ASSUME NEW j \in DOMAIN net', Saving(j)'
      PROVE  f[j] \in DOMAIN net \ {i} /\ Saving(f[j])
  BY <1>1, <1>4, <1>5 DEF Moves, Same, Saving
<1>6. ASSUME ~raced PROVE SavesStored'
  <2>1. SavesStored
    BY <1>6 DEF SaveInv
  <2>2. \A j \in DOMAIN net' : ~Saving(j)'
    BY <1>2, <1>5, <2>1 DEF SavesStored
  <2>3. CASE status' = "failed"
    BY <2>2, <2>3 DEF SavesStored
  <2>4. CASE Handled(i) /\ saved' = [net[i].arg EXCEPT !.id = Data(i)]
    <3>1. PICK a : a = net[i].arg
      OBVIOUS
    <3>2. /\ IsSent(a) /\ Data(i) \in DOMAIN stored
          /\ HoldsText(Data(i), a) /\ HoldsTests(Data(i), a)
      BY <1>2, <2>1, <2>4, <3>1 DEF SavesStored, SaveStored
    <3>3. saved' = [id |-> Data(i), text |-> a.text, groups |-> a.groups, upload |-> a.upload]
      BY <2>4, <3>1, <3>2 DEF IsSent
    <3>4. /\ saved'.id = Data(i) /\ saved'.text = a.text
          /\ saved'.groups = a.groups /\ saved'.upload = a.upload
      BY ONLY <3>3
    <3>5. HoldsText(saved.id, saved)' /\ HoldsTests(saved.id, saved)'
      BY <1>2, <3>2, <3>4 DEF HoldsText, HoldsTests
    <3>6. QED
      BY <1>2, <2>2, <3>2, <3>4, <3>5 DEF SavesStored
  <2>5. QED
    BY <1>2, <2>3, <2>4
<1>7. QED
  BY <1>2, <1>3, <1>6 DEF SaveInv, StoredRows

(* A row of the table is replaced, or one is added.                        *)
LEMMA RowReplaced ==
    ASSUME StoredRows, NEW p \in DOMAIN stored, NEW e, IsProblem(e),
           stored' = [stored EXCEPT ![p] = e]
    PROVE  StoredRows' /\ p \in DOMAIN stored' /\ stored'[p] = e
<1>1. PICK S : stored \in Seq(S)
  BY DEF StoredRows
<1>2. /\ stored' \in Seq(S \cup {e}) /\ DOMAIN stored' = DOMAIN stored
      /\ stored'[p] = e
      /\ \A q \in DOMAIN stored : q # p => stored'[q] = stored[q]
  BY <1>1, StoreChanges
<1>3. QED
  BY <1>2 DEF StoredRows

LEMMA RowAdded ==
    ASSUME StoredRows, NEW e, IsProblem(e), stored' = Append(stored, e)
    PROVE  StoredRows' /\ Len(stored) + 1 \in DOMAIN stored' /\ stored'[Len(stored) + 1] = e
<1>1. PICK S : stored \in Seq(S)
  BY DEF StoredRows
<1>2. /\ stored' \in Seq(S \cup {e})
      /\ DOMAIN stored' = 1..(Len(stored) + 1) /\ Len(stored) + 1 \in DOMAIN stored'
      /\ \A k \in DOMAIN stored : stored'[k] = stored[k]
      /\ stored'[Len(stored) + 1] = e
  BY <1>1, StoreGrows
<1>3. \A k \in DOMAIN stored' : k \in DOMAIN stored \/ k = Len(stored) + 1
  <2>1. Len(stored) \in Nat /\ DOMAIN stored = 1..Len(stored)
    BY <1>1
  <2>2. QED
    BY ONLY <1>2, <2>1
<1>4. QED
  BY <1>2, <1>3 DEF StoredRows

(* POST inserts the row.                                                   *)
LEMMA SaveInserts ==
    ASSUME SaveInv, open = "problem console", open' = open,
           NEW i \in DOMAIN net, InsertRow(i)
    PROVE  SaveInv'
<1>1. PICK p, e : /\ p = Len(stored) + 1 /\ e = New(net[i].arg.text)
                  /\ stored' = Append(stored, e)
                  /\ Read(i, p) \/ Fail(i)
                  /\ Saving(i) /\ Creates(i) /\ UNCHANGED <<status, saved, raced>>
  BY DEF InsertRow, Saving
<1>2. IsProblem(e) /\ e.text = net[i].arg.text
  BY <1>1 DEF New, IsProblem
<1>3. StoredRows /\ IsNet(net)
  BY DEF SaveInv
<1>4. StoredRows' /\ p \in DOMAIN stored' /\ stored'[p] = e
  BY <1>1, <1>2, <1>3, RowAdded
<1>5. /\ IsNet(net') /\ Served(net, net', i) /\ ~Handled(i)'
      /\ Midway(i)' => Data(i)' = p
  BY <1>1, <1>3, ReadServes, FailServes DEF Data, Midway, Handled
<1>6. net'[i].arg = net[i].arg
  BY <1>5 DEF Served
<1>7. ASSUME ~raced PROVE SaveStored(i)'
  <2>1. IsSent(net[i].arg)
    BY <1>1, <1>7 DEF SaveInv, SavesStored, SaveStored
  <2>2. Creates(i)' /\ (Midway(i)' => Target(i)' = p)
    BY <1>1, <1>5, <1>6 DEF Creates, Target
  <2>3. Midway(i)' => Target(i)' \in DOMAIN stored' /\ HoldsText(Target(i), net[i].arg)'
    BY <1>2, <1>4, <1>6, <2>2 DEF HoldsText
  <2>4. QED
    BY <1>5, <1>6, <2>1, <2>2, <2>3 DEF SaveStored
<1>8. QED
  BY <1>1, <1>4, <1>5, <1>7, SaveAdvances

(* Files and groups are stored, or only the files.                         *)
LEMMA SaveStoresTests ==
    ASSUME SaveInv, open = "problem console", open' = open,
           NEW i \in DOMAIN net, StoreTestcases(i)
    PROVE  SaveInv'
<1>1. PICK p, a : p = Target(i) /\ a = net[i].arg
  OBVIOUS
<1>2. /\ Saving(i) /\ UNCHANGED <<status, saved, raced>> /\ p \in DOMAIN stored
      /\ IF Creates(i) THEN Midway(i) ELSE Waiting(i)
  BY <1>1 DEF StoreTestcases, Saving, Exist
<1>3. \/ stored' = [stored EXCEPT ![p].files = a.upload] /\ Fail(i)
      \/ /\ stored' = [[stored EXCEPT ![p].files = a.upload] EXCEPT ![p].groups = a.groups]
         /\ Fail(i) \/ IF Creates(i) THEN Answer(i, p) ELSE Read(i, p)
  BY <1>1 DEF StoreTestcases
<1>4. StoredRows /\ IsNet(net) /\ IsProblem(stored[p])
  BY <1>2 DEF SaveInv, StoredRows
<1>5. PICK row : row = stored[p]
  OBVIOUS
<1>6. PICK S : stored \in Seq(S)
  BY <1>4 DEF StoredRows
<1>7. CASE stored' = [stored EXCEPT ![p].files = a.upload] /\ Fail(i)
  <2>1. PICK e : e = [text |-> row.text, groups |-> row.groups, files |-> a.upload]
    OBVIOUS
  <2>2. IsProblem(e)
    BY <2>1 DEF IsProblem
  <2>3. e = [row EXCEPT !.files = a.upload]
    <3>1. PICK x, y, z : row = [text |-> x, groups |-> y, files |-> z]
      BY <1>4, <1>5 DEF IsProblem
    <3>2. QED
      BY ONLY <2>1, <3>1
  <2>4. stored' = [stored EXCEPT ![p] = e]
    BY <1>2, <1>5, <1>6, <1>7, <2>3
  <2>5. StoredRows'
    BY <1>2, <1>4, <2>2, <2>4, RowReplaced
  <2>6. IsNet(net') /\ Served(net, net', i) /\ net'[i].status = "error"
    BY <1>4, <1>7, FailServes
  <2>7. ~raced => SaveStored(i)'
    BY <1>2, <2>6 DEF SaveInv, SavesStored, SaveStored, Served, Midway, Handled
  <2>8. QED
    BY <1>2, <2>5, <2>6, <2>7, SaveAdvances
<1>8. CASE /\ stored' = [[stored EXCEPT ![p].files = a.upload] EXCEPT ![p].groups = a.groups]
           /\ Fail(i) \/ IF Creates(i) THEN Answer(i, p) ELSE Read(i, p)
  <2>1. PICK e : e = [text |-> row.text, groups |-> a.groups, files |-> a.upload]
    OBVIOUS
  <2>2. IsProblem(e) /\ e.text = row.text /\ e.groups = a.groups /\ e.files = a.upload
    BY <2>1 DEF IsProblem
  <2>3. e = [[row EXCEPT !.files = a.upload] EXCEPT !.groups = a.groups]
    <3>1. PICK x, y, z : row = [text |-> x, groups |-> y, files |-> z]
      BY <1>4, <1>5 DEF IsProblem
    <3>2. PICK u, g : u = a.upload /\ g = a.groups
      OBVIOUS
    <3>3. PICK with : with = [row EXCEPT !.files = u]
      OBVIOUS
    <3>4. with = [text |-> x, groups |-> y, files |-> u] /\ row.text = x
      BY ONLY <3>1, <3>3
    <3>5. [with EXCEPT !.groups = g] = [text |-> x, groups |-> g, files |-> u]
      BY ONLY <3>4
    <3>6. QED
      BY ONLY <2>1, <3>2, <3>3, <3>4, <3>5
  <2>4. stored' = [stored EXCEPT ![p] = e]
    BY <1>2, <1>5, <1>6, <1>8, <2>3
  <2>5. StoredRows' /\ p \in DOMAIN stored' /\ stored'[p] = e
    BY <1>2, <1>4, <2>2, <2>4, RowReplaced
  <2>6. /\ IsNet(net') /\ Served(net, net', i)
        /\ Midway(i)' => ~Creates(i)
        /\ Handled(i)' => Creates(i) /\ Data(i)' = p
    BY <1>4, <1>8, AnswerServes, ReadServes, FailServes DEF Midway, Handled, Data
  <2>7. net'[i].arg = a
    BY <1>1, <2>6 DEF Served
  <2>8. HoldsTests(p, a)'
    BY <2>2, <2>5 DEF HoldsTests
  <2>9. ASSUME ~raced PROVE SaveStored(i)'
    <3>1. SaveStored(i)
      BY <1>2, <2>9 DEF SaveInv, SavesStored
    <3>2. Midway(i)' => ~Creates(i)' /\ Target(i)' = p
      BY <1>1, <2>6, <2>7 DEF Creates, Target
    <3>3. ASSUME Handled(i)' PROVE HoldsText(p, a)'
      <4>1. Creates(i) /\ Midway(i)
        BY <1>2, <2>6, <3>3
      <4>2. row.text = a.text
        BY <1>1, <1>5, <3>1, <4>1 DEF SaveStored, HoldsText
      <4>3. QED
        BY <2>2, <2>5, <4>2 DEF HoldsText
    <3>4. IsSent(a)
      BY <1>1, <3>1 DEF SaveStored
    <3>5. QED
      BY <2>5, <2>6, <2>7, <2>8, <3>2, <3>3, <3>4 DEF SaveStored
  <2>10. QED
    BY <1>2, <2>5, <2>6, <2>9, SaveAdvances
<1>9. QED
  BY <1>3, <1>7, <1>8

(* PUT writes the row; its answer may be lost.                             *)
LEMMA SaveUpdates ==
    ASSUME SaveInv, open = "problem console", open' = open,
           NEW i \in DOMAIN net, UpdateRow(i)
    PROVE  SaveInv'
<1>1. PICK p, a : p = net[i].arg.id /\ a = net[i].arg
  OBVIOUS
<1>2. /\ Saving(i) /\ UNCHANGED <<status, saved, raced>> /\ p \in DOMAIN stored
      /\ ~Creates(i) /\ IF a.upload = 0 THEN Waiting(i) ELSE Midway(i)
      /\ stored' = [stored EXCEPT ![p].text = a.text]
      /\ Answer(i, p) \/ Fail(i)
  BY <1>1 DEF UpdateRow, Saving, Exist
<1>3. StoredRows /\ IsNet(net) /\ IsProblem(stored[p])
  BY <1>2 DEF SaveInv, StoredRows
<1>4. PICK row : row = stored[p]
  OBVIOUS
<1>5. PICK S : stored \in Seq(S)
  BY <1>3 DEF StoredRows
<1>6. PICK e : e = [text |-> a.text, groups |-> row.groups, files |-> row.files]
  OBVIOUS
<1>7. IsProblem(e) /\ e.text = a.text /\ e.groups = row.groups /\ e.files = row.files
  BY <1>6 DEF IsProblem
<1>8. e = [row EXCEPT !.text = a.text]
  <2>1. PICK x, y, z : row = [text |-> x, groups |-> y, files |-> z]
    BY <1>3, <1>4 DEF IsProblem
  <2>2. QED
    BY ONLY <1>6, <2>1
<1>9. stored' = [stored EXCEPT ![p] = e]
  BY <1>2, <1>4, <1>5, <1>8
<1>10. StoredRows' /\ p \in DOMAIN stored' /\ stored'[p] = e
  BY <1>2, <1>3, <1>7, <1>9, RowReplaced
<1>11. /\ IsNet(net') /\ Served(net, net', i) /\ ~Midway(i)'
       /\ Handled(i)' => Data(i)' = p
  BY <1>2, <1>3, AnswerServes, FailServes DEF Midway, Handled, Data
<1>12. net'[i].arg = a
  BY <1>1, <1>11 DEF Served
<1>13. ASSUME ~raced PROVE SaveStored(i)'
  <2>1. SaveStored(i)
    BY <1>2, <1>13 DEF SaveInv, SavesStored
  <2>2. HoldsTests(p, a)
    <3>1. CASE a.upload = 0
      BY <3>1 DEF HoldsTests
    <3>2. CASE a.upload # 0
      BY <1>1, <1>2, <2>1, <3>2 DEF SaveStored, Target
    <3>3. QED
      BY <3>1, <3>2
  <2>3. HoldsTests(p, a)' /\ HoldsText(p, a)'
    BY <1>4, <1>7, <1>10, <2>2 DEF HoldsTests, HoldsText
  <2>4. IsSent(a)
    BY <1>1, <2>1 DEF SaveStored
  <2>5. QED
    BY <1>10, <1>11, <1>12, <2>3, <2>4 DEF SaveStored
<1>14. QED
  BY <1>2, <1>10, <1>11, <1>13, SaveAdvances

LEMMA SaveStepKeeps ==
    ASSUME SaveInv, open = "problem console", open' = open, ProblemsNext
    PROVE  SaveInv'
<1> DEFINE steady == UNCHANGED <<stored, saved, raced>> /\ (status' = status \/ status' = "none")
<1>1. IsNet(net)
  BY DEF SaveInv
<1>2. CASE CancelEdit \/ TypeInForm \/ ChooseZip \/ SwitchMode \/ RefuseSubmit
  BY <1>2, SavesUntouched DEF CancelEdit, TypeInForm, ChooseZip, SwitchMode, RefuseSubmit,
     ResetForm
<1>3. ASSUME NEW p \in Ids, EditProblem(p) \/ DeleteProblem(p)
      PROVE  SaveInv'
  <2>1. PICK r : IsRequest(r) /\ r.op # "save" /\ Send(r) /\ steady
    <3>1. \A arg : /\ Request("detail", arg).op # "save"
                   /\ Request("delete", arg).op # "save"
      BY DEF Request
    <3>2. QED
      BY <1>3, <3>1, NewRequest DEF EditProblem, DeleteProblem, Click
  <2>2. PICK f : IsNet(net') /\ Moves(net, net', DOMAIN net, {r}, f)
    BY <1>1, <2>1, SendMoves
  <2>3. PICK A, R : /\ A = DOMAIN net /\ R = {r}
                    /\ Moves(net, net', A, R, f) /\ \A q \in R : q.op # "save"
    BY ONLY <2>1, <2>2
  <2>4. QED
    BY <2>1, <2>2, <2>3, SavesKept
<1>4. ASSUME NEW i \in DOMAIN net, DetailAnswered(i) \/ ProblemsLoaded(i)
      PROVE  SaveInv'
  <2>1. steady /\ ReturnLoad(i, <<>>)
    BY <1>4 DEF DetailAnswered, ProblemsLoaded
  <2>2. PICK f : IsNet(net') /\ Moves(net, net', DOMAIN net \ {i}, {}, f)
    BY <1>1, <2>1, ReturnLoadMoves
  <2>3. PICK A, R : /\ A = DOMAIN net \ {i} /\ R = {}
                    /\ Moves(net, net', A, R, f) /\ \A q \in R : q.op # "save"
    BY ONLY <2>1, <2>2
  <2>4. QED
    BY <2>1, <2>2, <2>3, SavesKept
<1>5. ASSUME NEW i \in DOMAIN net, DeleteAnswered(i)
      PROVE  SaveInv'
  <2> DEFINE r == Request("list", 0)
  <2>1. IsRequest(r) /\ r.op # "save"
    BY NewRequest DEF Request
  <2>2. steady /\ (Return(i, <<>>) \/ Return(i, <<r>>))
    BY <1>5 DEF DeleteAnswered, ResetForm
  <2> HIDE DEF r
  <2>3. IsNet(net') /\ \E R, f : R \subseteq {r} /\ Moves(net, net', DOMAIN net \ {i}, R, f)
    BY <1>1, <2>1, <2>2, ReturnMaySend
  <2>4. PICK R, f : R \subseteq {r} /\ Moves(net, net', DOMAIN net \ {i}, R, f)
    BY <2>3
  <2>5. \A q \in R : q.op # "save"
    BY <2>1, <2>4
  <2>6. QED
    BY <2>2, <2>3, <2>4, <2>5, SavesKept
<1>6. ASSUME NEW i \in DOMAIN net, HandleRead(i) \/ HandleDelete(i)
      PROVE  SaveInv'
  <2>1. /\ UNCHANGED <<stored, saved, raced, status>> /\ net[i].op # "save"
        /\ (\E d : Answer(i, d)) \/ Fail(i)
    BY <1>6 DEF HandleRead, HandleDelete, problemPage
  <2>2. IsNet(net') /\ Served(net, net', i)
    BY <1>1, <2>1, AnswerServes, FailServes
  <2>3. QED
    BY <2>1, <2>2, SavesServed
<1>7. ASSUME NEW i \in DOMAIN net, ProblemRequestFails(i)
      PROVE  SaveInv'
  <2>1. UNCHANGED <<stored, saved, raced, status>> /\ Fail(i)
    BY <1>7 DEF ProblemRequestFails, problemPage
  <2>2. IsNet(net') /\ Served(net, net', i) /\ net'[i].status = "error"
    BY <1>1, <2>1, FailServes
  <2>3. QED
    BY <2>1, <2>2, SavesServed
<1>8. QED
  BY <1>2, <1>3, <1>4, <1>5, <1>6, <1>7, SaveSent, SaveReturns, SaveInserts,
     SaveStoresTests, SaveUpdates
     DEF ProblemsNext

(* A save that is reported is stored, and not what an earlier click had    *)
(* sent, unless two saves were on their way at once: the text, and the     *)
(* groups and files if it sent any, through every partial failure of the   *)
(* saves before it.                                                        *)
THEOREM SavedIsStored == Spec => []SavedMeansStored
<1>1. Init => SaveInv
  <2> SUFFICES ASSUME Init PROVE SaveInv
    OBVIOUS
  <2>1. status = "none" /\ stored = <<New(0), New(0)>>
    BY DEF Init, ProblemsInit
  <2>2. StoredRows
    <3>1. PICK e : e = New(0)
      OBVIOUS
    <3>2. IsProblem(e)
      BY <3>1 DEF New, IsProblem
    <3>3. stored = <<e, e>>
      BY <2>1, <3>1
    <3>4. stored \in Seq({e}) /\ \A p \in DOMAIN stored : stored[p] = e
      BY ONLY <3>3
    <3>5. QED
      BY <3>2, <3>4 DEF StoredRows
  <2>3. CASE open = "problem console"
    <3> DEFINE r == Request("list", 0)
    <3>1. net = <<r>>
      BY <2>3 DEF Init, ProblemsMounted
    <3>2. IsRequest(r) /\ r.op # "save"
      BY NewRequest DEF Request
    <3> HIDE DEF r
    <3>3. net \in Seq({r}) /\ DOMAIN net = {1} /\ net[1] = r
      BY <3>1
    <3>4. IsNet(net)
      BY <3>2, <3>3 DEF IsNet
    <3>5. SavesStored
      BY <2>1, <3>2, <3>3 DEF SavesStored, Saving
    <3>6. QED
      BY <2>2, <2>3, <3>4, <3>5 DEF SaveInv
  <2>4. CASE open # "problem console"
    BY <2>1, <2>4 DEF SaveInv
  <2>5. QED
    BY <2>3, <2>4
<1>2. SaveInv /\ [Next]_vars => SaveInv'
  <2> SUFFICES ASSUME SaveInv, [Next]_vars PROVE SaveInv'
    OBVIOUS
  <2>1. CASE ProblemsStep
    BY <2>1, SaveStepKeeps DEF ProblemsStep
  <2>2. CASE SubmissionsStep \/ ApprovalStep \/ ContestStep \/ ConsoleStep \/ DeskStep
    <3>1. open # "problem console" /\ UNCHANGED <<open, status>>
      BY <2>2 DEF SubmissionsStep, ApprovalStep, ContestStep, ConsoleStep, DeskStep,
         problemPage
    <3>2. QED
      BY <3>1 DEF SaveInv
  <2>3. CASE UNCHANGED vars
    BY <2>3, SavesUntouched DEF vars, problemPage
  <2>4. QED
    BY <2>1, <2>2, <2>3 DEF Next
<1>3. SaveInv => SavedMeansStored
  <2> SUFFICES ASSUME SaveInv, status = "saved", ~raced
               PROVE  HoldsText(saved.id, saved) /\ HoldsTests(saved.id, saved)
    BY DEF SavedMeansStored, HoldsText, HoldsTests
  <2>1. SavesStored
    BY DEF SaveInv
  <2>2. QED
    BY <2>1 DEF SavesStored
<1>4. QED
  BY <1>1, <1>2, <1>3, PTL DEF Spec

(***************************************************************************)
(* The panel of the contest console.                                       *)
(***************************************************************************)

Loading(i)  == net[i].op = "problems"
Changing(i) == net[i].op \in {"add", "remove"}
Touched(c)  == \E j \in DOMAIN net : Changing(j) /\ Handled(j) /\ net[j].arg[1] = c
Stale(i)    == /\ Handled(i) /\ ~net[i].late
               /\ net[i].arg \in There /\ Data(i) # attached[net[i].arg]

(* What the page asks for belongs to contests the server has created.      *)
KnownContests ==
    /\ contests \subseteq DOMAIN attached
    /\ managing \in {0} \cup DOMAIN attached
    /\ \A i \in DOMAIN net : net[i].op = "contests" /\ Handled(i) => Data(i) \subseteq DOMAIN attached
    /\ \A i \in DOMAIN net : Loading(i) => /\ net[i].arg \in DOMAIN attached
                                           /\ net[i].status \in {"sent", "ok", "error"}
    /\ \A i \in DOMAIN net : Changing(i) => net[i].arg[1] \in DOMAIN attached

(* A load that is stale is followed by a later one, or will be: the        *)
(* continuation of the change that made it stale sends one.  The same      *)
(* holds of the panel.                                                     *)
PanelFollows ==
    /\ \A i \in DOMAIN net :
          Loading(i) /\ Stale(i) =>
             Touched(net[i].arg) \/ \E j \in DOMAIN net : Loading(j) /\ j > i
    /\ managing \in There /\ ~untold /\ panel # attached[managing] =>
          Touched(managing) \/ \E j \in DOMAIN net : Loading(j)

PanelInv ==
    /\ \E S : attached \in Seq(S)
    /\ open # "contest console" => managing = 0
    /\ open = "contest console" => IsNet(net) /\ KnownContests /\ PanelFollows

(* The tables of the server only grow, and hold what they held.            *)
RowsKept == /\ DOMAIN attached \subseteq DOMAIN attached'
            /\ \A c \in DOMAIN attached : attached'[c] = attached[c]
            /\ gone \subseteq gone'

(* Places are numbers.                                                     *)
LEMMA NetPlaces ==
    ASSUME NEW n, IsNet(n)
    PROVE  Len(n) \in Nat /\ DOMAIN n = 1..Len(n) /\ \A k \in DOMAIN n : k \in Int
<1>1. Len(n) \in Nat /\ DOMAIN n = 1..Len(n)
  BY NetElements
<1>2. QED
  BY <1>1

LEMMA RowsIndexed == ASSUME NEW S, NEW a \in Seq(S) PROVE 0 \notin DOMAIN a
OBVIOUS

(* Nothing is sent, and nothing returns.                                   *)
LEMMA PanelStays ==
    ASSUME PanelInv, UNCHANGED <<open, net, attached, gone, contests, panel, untold>>,
           managing' = managing \/ managing' = 0
    PROVE  PanelInv'
<1>1. CASE open = "contest console"
  <2>1. PICK S : attached \in Seq(S)
    BY <1>1 DEF PanelInv
  <2>2. 0 \notin DOMAIN attached
    BY <2>1, RowsIndexed
  <2>3. KnownContests'
    BY <1>1 DEF PanelInv, KnownContests, Loading, Changing, Handled, Data
  <2>4. PanelFollows'
    BY <1>1, <2>2 DEF PanelInv, PanelFollows, Loading, Changing, Handled, Data, Touched, Stale, There
  <2>5. QED
    BY <1>1, <2>1, <2>3, <2>4 DEF PanelInv
<1>2. CASE open # "contest console"
  BY <1>2 DEF PanelInv
<1>3. QED
  BY <1>1, <1>2

(* Requests are sent and return.  The continuation of a change that was    *)
(* stored loads the problems, and so does the click that opens the panel.  *)
LEMMA PanelMoves ==
    ASSUME PanelInv, open = "contest console", open' = open,
           UNCHANGED <<attached, panel, untold>>, gone \subseteq gone',
           contests' \subseteq DOMAIN attached, managing' \in {0} \cup DOMAIN attached,
           IsNet(net'), NEW A, NEW R, NEW f, Moves(net, net', A, R, f),
           \A q \in R : /\ q.status = "sent"
                        /\ q.op = "problems" => q.arg \in DOMAIN attached
                        /\ q.op \in {"add", "remove"} => q.arg[1] \in DOMAIN attached,
           \A k \in DOMAIN net \ A : ~Loading(k),
           (managing' \notin {0, managing} \/ \E k \in DOMAIN net \ A : Changing(k) /\ Handled(k))
              => R # {} /\ \A q \in R : q.op = "problems"
    PROVE  PanelInv'
<1> DEFINE loads == R # {} /\ \A q \in R : q.op = "problems"
<1>0. /\ IsNet(net) /\ KnownContests /\ PanelFollows
      /\ \E S : attached \in Seq(S)
  BY DEF PanelInv
<1>20. Len(net) \in Nat /\ DOMAIN net = 1..Len(net) /\ \A k \in DOMAIN net : k \in Int
  BY ONLY <1>0, NetPlaces
<1>21. \A k \in DOMAIN net' : k \in Int
  <2>1. IsNet(net')
    OBVIOUS
  <2>2. QED
    BY ONLY <2>1, NetPlaces
<1>1. ASSUME NEW j \in DOMAIN net'
      PROVE  \/ /\ f[j] \in A /\ f[j] \in DOMAIN net
                /\ Loading(j)' = Loading(f[j]) /\ Changing(j)' = Changing(f[j])
                /\ Handled(j)' = Handled(f[j]) /\ Data(j)' = Data(f[j])
                /\ net'[j].arg = net[f[j]].arg /\ net'[j].op = net[f[j]].op
                /\ net'[j].status = net[f[j]].status
                /\ net[f[j]].late => net'[j].late
             \/ f[j] \notin A /\ f[j] = Len(net) + 1 /\ net'[j] \in R /\ ~Handled(j)'
  <2>1. CASE f[j] \in A
    BY <2>1 DEF Moves, Same, Loading, Changing, Handled, Data
  <2>2. CASE f[j] \notin A
    <3>0. /\ f \in [DOMAIN net' -> A \cup {Len(net) + 1}]
          /\ \A i \in DOMAIN net' : f[i] \notin A => net'[i] \in R
      BY DEF Moves
    <3>1. f[j] = Len(net) + 1 /\ net'[j] \in R
      BY ONLY <2>2, <3>0
    <3>2. QED
      BY <2>2, <3>1 DEF Handled
  <2>3. QED
    BY <2>1, <2>2
<1>2. ASSUME NEW k \in A
      PROVE  \E j \in DOMAIN net' : f[j] = k
  BY DEF Moves
<1>3. KnownContests'
  <2>1. \A i \in DOMAIN net' : net'[i].op = "contests" /\ Handled(i)' => Data(i)' \subseteq DOMAIN attached
    <3>1. ASSUME NEW i \in DOMAIN net', net'[i].op = "contests", Handled(i)'
          PROVE  Data(i)' \subseteq DOMAIN attached
      <4>1. /\ f[i] \in DOMAIN net /\ net[f[i]].op = "contests" /\ Handled(f[i])
            /\ Data(i)' = Data(f[i])
        BY <1>1, <3>1
      <4>2. Data(f[i]) \subseteq DOMAIN attached
        BY <1>0, <4>1 DEF KnownContests
      <4>3. QED
        BY <4>1, <4>2
    <3>2. QED
      BY <3>1
  <2>2. \A i \in DOMAIN net' : Loading(i)' => /\ net'[i].arg \in DOMAIN attached
                                              /\ net'[i].status \in {"sent", "ok", "error"}
    BY <1>0, <1>1 DEF KnownContests, Loading
  <2>3. \A i \in DOMAIN net' : Changing(i)' => net'[i].arg[1] \in DOMAIN attached
    BY <1>0, <1>1 DEF KnownContests, Changing
  <2>4. QED
    BY <2>1, <2>2, <2>3 DEF KnownContests
<1>4. ASSUME NEW c, Touched(c)
      PROVE  Touched(c)' \/ loads
  <2>1. PICK k \in DOMAIN net : Changing(k) /\ Handled(k) /\ net[k].arg[1] = c
    BY <1>4 DEF Touched
  <2>2. CASE k \in A
    <3>1. PICK j \in DOMAIN net' : f[j] = k
      BY <1>2, <2>2
    <3>2. Changing(j)' /\ Handled(j)' /\ net'[j].arg[1] = c
      BY <1>1, <2>1, <2>2, <3>1
    <3>3. QED
      BY <3>2 DEF Touched
  <2>3. CASE k \notin A
    BY <2>1, <2>3
  <2>4. QED
    BY <2>2, <2>3
<1>5. ASSUME loads
      PROVE  \E j \in DOMAIN net' : Loading(j)' /\ f[j] = Len(net) + 1
  <2>1. PICK j \in DOMAIN net' : f[j] \notin A
    BY <1>5 DEF Moves
  <2>2. QED
    BY <1>1, <1>5, <2>1 DEF Loading
<1>6. ASSUME NEW k \in DOMAIN net, Loading(k)
      PROVE  \E j \in DOMAIN net' : Loading(j)' /\ f[j] = k
  <2>1. k \in A
    BY <1>6
  <2>2. QED
    BY <1>1, <1>2, <1>6, <2>1
<1>7. ASSUME NEW i \in DOMAIN net', Loading(i)', Stale(i)'
      PROVE  Touched(net[i].arg)' \/ \E j \in DOMAIN net' : Loading(j)' /\ j > i
  <2>1. f[i] \in DOMAIN net /\ Loading(f[i]) /\ Stale(f[i]) /\ net'[i].arg = net[f[i]].arg
    BY <1>1, <1>7 DEF Stale, There
  <2>2. \/ Touched(net'[i].arg)
        \/ \E k \in DOMAIN net : Loading(k) /\ k > f[i]
    BY <1>0, <2>1 DEF PanelFollows
  <2>3. ASSUME NEW j \in DOMAIN net', Loading(j)', f[j] > f[i]
        PROVE  \E u \in DOMAIN net' : Loading(u)' /\ u > i
    <3>1. f[j] \in DOMAIN net \cup {Len(net) + 1}
      BY <1>1, <2>3
    <3>2. f[j] \in Int /\ f[i] \in Int
      <4>1. Len(net) + 1 \in Int
        BY ONLY <1>20
      <4>2. QED
        BY <1>20, <2>1, <3>1, <4>1
    <3>3. i \in Int /\ j \in Int
      BY <1>21
    <3>4. (i = j => f[i] = f[j]) /\ (j < i => f[j] < f[i])
      BY DEF Moves
    <3>5. j > i
      BY ONLY <2>3, <3>2, <3>3, <3>4
    <3>6. QED
      BY <2>3, <3>5
  <2>4. CASE Touched(net'[i].arg)
    <3>1. CASE loads
      <4>1. PICK j \in DOMAIN net' : Loading(j)' /\ f[j] = Len(net) + 1
        BY <1>5, <3>1
      <4>2. Len(net) \in Nat /\ f[i] \in 1..Len(net)
        BY <1>20, <2>1
      <4>3. f[j] > f[i]
        BY ONLY <4>1, <4>2
      <4>4. QED
        BY <2>3, <4>1, <4>3
    <3>2. PICK c : c = net'[i].arg
      OBVIOUS
    <3>3. Touched(c)' \/ loads
      BY <1>4, <2>4, <3>2
    <3>4. Touched(c)' => Touched(net[i].arg)'
      BY <3>2 DEF Touched
    <3>5. QED
      BY <3>1, <3>3, <3>4
  <2>5. CASE \E k \in DOMAIN net : Loading(k) /\ k > f[i]
    <3>1. PICK k \in DOMAIN net : Loading(k) /\ k > f[i]
      BY <2>5
    <3>2. PICK j \in DOMAIN net' : Loading(j)' /\ f[j] = k
      BY <1>6, <3>1
    <3>3. QED
      BY <2>3, <3>1, <3>2
  <2>6. QED
    BY <2>2, <2>4, <2>5
<1>8. ASSUME managing' \in There', ~untold, panel # attached[managing']
      PROVE  Touched(managing)' \/ \E j \in DOMAIN net' : Loading(j)'
  <2>1. CASE loads
    BY <1>5, <2>1
  <2>2. CASE ~loads
    <3>1. managing' # 0
      BY <1>0, <1>8, RowsIndexed DEF There
    <3>2. managing' = managing /\ managing \in There
      BY <1>8, <2>2, <3>1 DEF There
    <3>3. Touched(managing) \/ \E j \in DOMAIN net : Loading(j)
      BY <1>0, <1>8, <3>2 DEF PanelFollows
    <3>4. CASE Touched(managing)
      <4>1. PICK c : c = managing
        OBVIOUS
      <4>2. Touched(c)'
        BY <1>4, <2>2, <3>4, <4>1
      <4>3. QED
        BY <3>2, <4>1, <4>2 DEF Touched
    <3>5. CASE \E j \in DOMAIN net : Loading(j)
      BY <1>6, <3>5
    <3>6. QED
      BY <3>3, <3>4, <3>5
  <2>3. QED
    BY <2>1, <2>2
<1>9. PanelFollows'
  BY <1>7, <1>8 DEF PanelFollows
<1>10. QED
  BY <1>0, <1>3, <1>9 DEF PanelInv

(* A request is handled; the tables keep what they held.                   *)
LEMMA PanelServed ==
    ASSUME PanelInv, open = "contest console", open' = open, RowsKept,
           \E S : attached' \in Seq(S),
           UNCHANGED <<contests, managing, panel, untold>>,
           NEW i \in DOMAIN net, Waiting(i), IsNet(net'), Served(net, net', i),
           net'[i].status \in {"ok", "error"},
           Handled(i)' => /\ net[i].op = "contests" => Data(i)' \subseteq DOMAIN attached
                          /\ net[i].op = "problems" /\ net[i].arg \in There
                             => Data(i)' = attached[net[i].arg]
    PROVE  PanelInv'
<1>0. /\ IsNet(net) /\ KnownContests /\ PanelFollows
      /\ \E S : attached \in Seq(S)
  BY DEF PanelInv
<1>1. ~Handled(i)
  BY DEF Waiting, Handled
<1>2. ASSUME NEW j \in DOMAIN net
      PROVE  /\ Loading(j)' = Loading(j) /\ Changing(j)' = Changing(j)
             /\ net'[j].arg = net[j].arg /\ net'[j].op = net[j].op /\ net'[j].late = net[j].late
             /\ j # i => Handled(j)' = Handled(j) /\ Data(j)' = Data(j)
                         /\ net'[j].status = net[j].status
  BY DEF Served, Loading, Changing, Handled, Data
<1>3. DOMAIN net' = DOMAIN net
  BY DEF Served
<1>4. KnownContests'
  <2>1. \A j \in DOMAIN net' :
           net'[j].op = "contests" /\ Handled(j)' => Data(j)' \subseteq DOMAIN attached'
    <3>1. ASSUME NEW j \in DOMAIN net, net[j].op = "contests", Handled(j)'
          PROVE  Data(j)' \subseteq DOMAIN attached
      <4>1. CASE j = i
        BY <3>1, <4>1
      <4>2. CASE j # i
        BY <1>0, <1>2, <3>1, <4>2 DEF KnownContests
      <4>3. QED
        BY <4>1, <4>2
    <3>2. QED
      BY <1>2, <1>3, <3>1 DEF RowsKept
  <2>2. \A j \in DOMAIN net' : Loading(j)' => /\ net'[j].arg \in DOMAIN attached'
                                              /\ net'[j].status \in {"sent", "ok", "error"}
    BY <1>0, <1>2, <1>3 DEF KnownContests, RowsKept
  <2>3. \A j \in DOMAIN net' : Changing(j)' => net'[j].arg[1] \in DOMAIN attached'
    BY <1>0, <1>2, <1>3 DEF KnownContests, RowsKept
  <2>4. contests' \subseteq DOMAIN attached' /\ managing' \in {0} \cup DOMAIN attached'
    BY <1>0 DEF KnownContests, RowsKept
  <2>5. QED
    BY <2>1, <2>2, <2>3, <2>4 DEF KnownContests
<1>5. ASSUME NEW c, Touched(c)
      PROVE  Touched(c)'
  BY <1>1, <1>2, <1>3, <1>5 DEF Touched
<1>6. \A c \in DOMAIN attached : c \in There' => c \in There /\ attached'[c] = attached[c]
  BY DEF There, RowsKept
<1>7. ASSUME NEW j \in DOMAIN net', Loading(j)', Stale(j)'
      PROVE  Touched(net[j].arg)' \/ \E k \in DOMAIN net' : Loading(k)' /\ k > j
  <2>1. j \in DOMAIN net /\ Loading(j) /\ net'[j].arg = net[j].arg
    BY <1>2, <1>3, <1>7
  <2>2. net[j].arg \in There /\ attached'[net[j].arg] = attached[net[j].arg]
    BY <1>0, <1>6, <1>7, <2>1 DEF KnownContests, Stale
  <2>3. j # i
    BY <1>7, <2>1, <2>2 DEF Stale, Loading
  <2>4. Stale(j)
    BY <1>2, <1>7, <2>1, <2>2, <2>3 DEF Stale
  <2>5. PICK c : c = net[j].arg
    OBVIOUS
  <2>6. Touched(c) \/ \E k \in DOMAIN net : Loading(k) /\ k > j
    BY <1>0, <2>1, <2>4, <2>5 DEF PanelFollows
  <2>7. Touched(c)' => Touched(net[j].arg)'
    BY <2>1, <2>5 DEF Touched
  <2>8. CASE Touched(c)
    BY <1>5, <2>7, <2>8
  <2>9. CASE \E k \in DOMAIN net : Loading(k) /\ k > j
    BY <1>2, <1>3, <2>9
  <2>10. QED
    BY <2>6, <2>8, <2>9
<1>8. ASSUME managing \in There', ~untold, panel # attached'[managing]
      PROVE  Touched(managing)' \/ \E k \in DOMAIN net' : Loading(k)'
  <2>1. managing # 0
    <3>1. managing \in DOMAIN attached'
      BY <1>8 DEF There
    <3>2. PICK S : attached' \in Seq(S)
      OBVIOUS
    <3>3. 0 \notin DOMAIN attached'
      BY ONLY <3>2, RowsIndexed
    <3>4. QED
      BY <3>1, <3>3
  <2>2. managing \in There /\ panel # attached[managing]
    BY <1>0, <1>6, <1>8, <2>1 DEF KnownContests
  <2>3. Touched(managing) \/ \E k \in DOMAIN net : Loading(k)
    BY <1>0, <1>8, <2>2 DEF PanelFollows
  <2>4. PICK c : c = managing
    OBVIOUS
  <2>5. Touched(c)' => Touched(managing)'
    BY <2>4 DEF Touched
  <2>6. CASE Touched(managing)
    BY <1>5, <2>4, <2>5, <2>6
  <2>7. CASE \E k \in DOMAIN net : Loading(k)
    BY <1>2, <1>3, <2>7
  <2>8. QED
    BY <2>3, <2>6, <2>7
<1>9. PanelFollows'
  BY <1>7, <1>8 DEF PanelFollows
<1>10. QED
  BY <1>4, <1>9 DEF PanelInv

(* The answer to a request is lost: the loads of kind op that were         *)
(* answered are late.                                                      *)
LEMMA LoseAnswerServes ==
    ASSUME IsNet(net), NEW i \in DOMAIN net, NEW op, LoseAnswer(i, op)
    PROVE  /\ IsNet(net') /\ DOMAIN net' = DOMAIN net
           /\ \A k \in DOMAIN net \ {i} : Same(net'[k], net[k])
           /\ net'[i].op = net[i].op /\ net'[i].arg = net[i].arg /\ net'[i].status = "error"
           /\ \A k \in DOMAIN net' : net'[k].op = op /\ net'[k].status = "ok" => net'[k].late
<1> DEFINE Marked(k) == IF k = i THEN [net[k] EXCEPT !.status = "error"]
                        ELSE IF net[k].op = op /\ net[k].status = "ok"
                             THEN [net[k] EXCEPT !.late = TRUE] ELSE net[k]
           n == [k \in DOMAIN net |-> Marked(k)]
<1>1. ASSUME NEW k \in DOMAIN net
      PROVE  /\ IsRequest(Marked(k)) /\ Marked(k).op = net[k].op /\ Marked(k).arg = net[k].arg
             /\ k # i => Same(Marked(k), net[k])
             /\ k = i => Marked(k).status = "error"
             /\ Marked(k).op = op /\ Marked(k).status = "ok" => Marked(k).late
  <2> DEFINE q == net[k]
             u == [op |-> q.op, arg |-> q.arg, status |-> q.status,
                   data |-> q.data, late |-> TRUE]
             w == [op |-> q.op, arg |-> q.arg, status |-> "error",
                   data |-> q.data, late |-> q.late]
  <2>1. IsRequest(q)
    BY NetElements
  <2>2. CASE k = i
    <3>1. [q EXCEPT !.status = "error"] = w
      <4>1. q = [op |-> q.op, arg |-> q.arg, status |-> q.status,
                 data |-> q.data, late |-> q.late]
        BY <2>1 DEF IsRequest
      <4> HIDE DEF q
      <4>2. QED
        BY ONLY <4>1
    <3>2. Marked(k) = w
      BY <2>2, <3>1
    <3>3. IsRequest(w) /\ w.op = q.op /\ w.arg = q.arg /\ w.status = "error"
      BY DEF IsRequest
    <3>4. QED
      BY ONLY <2>2, <3>2, <3>3
  <2>3. CASE k # i /\ net[k].op = op /\ net[k].status = "ok"
    <3>1. Marked(k) = u
      BY <2>1, <2>3, LateRecord
    <3>2. IsRequest(u) /\ Same(u, q) /\ u.late /\ u.op = q.op /\ u.arg = q.arg
      BY DEF IsRequest, Same
    <3>3. QED
      BY ONLY <2>3, <3>1, <3>2
  <2>4. CASE k # i /\ ~(net[k].op = op /\ net[k].status = "ok")
    BY <2>1, <2>4 DEF Same
  <2>5. QED
    BY <2>2, <2>3, <2>4
<1> HIDE DEF Marked
<1>2. Len(net) \in Nat /\ DOMAIN net = 1..Len(net)
  BY NetPlaces
<1>3. n \in Seq({Marked(k) : k \in DOMAIN net}) /\ DOMAIN n = DOMAIN net
  <2>1. n \in [1..Len(net) -> {Marked(k) : k \in DOMAIN net}]
    BY <1>2
  <2>2. QED
    BY <1>2, <2>1
<1>4. IsNet(n)
  BY <1>1, <1>3 DEF IsNet
<1>5. net' = n
  BY DEF LoseAnswer, Marked
<1>6. \A k \in DOMAIN net : n[k] = Marked(k)
  OBVIOUS
<1> HIDE DEF n
<1>7. QED
  BY <1>1, <1>3, <1>4, <1>5, <1>6

(* A problem is added to a contest or taken out of it.                     *)
LEMMA PanelTouched ==
    ASSUME PanelInv, open = "contest console", open' = open,
           NEW i \in DOMAIN net, StoreChange(i)
    PROVE  PanelInv'
<1>0. /\ IsNet(net) /\ KnownContests /\ PanelFollows
      /\ \E S : attached \in Seq(S)
  BY DEF PanelInv
<1>1. PICK c, row :
         /\ c = net[i].arg[1] /\ c \in There /\ Changing(i) /\ Waiting(i)
         /\ attached' = [attached EXCEPT ![c] = row]
         /\ UNCHANGED <<gone, contests, managing, panel>>
         /\ \/ Answer(i, 0) /\ UNCHANGED untold
            \/ LoseAnswer(i, "problems") /\ untold' = (untold \/ c = managing)
  BY DEF StoreChange, offers, Changing
<1>2. PICK S : attached \in Seq(S)
  BY <1>0
<1>3. /\ attached' \in Seq(S \cup {row}) /\ DOMAIN attached' = DOMAIN attached
      /\ \A k \in DOMAIN attached : k # c => attached'[k] = attached[k]
  <2>1. \A s \in Seq(S) : \A k \in DOMAIN s :
           /\ [s EXCEPT ![k] = row] \in Seq(S \cup {row})
           /\ DOMAIN [s EXCEPT ![k] = row] = DOMAIN s
           /\ \A j \in DOMAIN s : j # k => [s EXCEPT ![k] = row][j] = s[j]
    BY ONLY StoreChanges
  <2>2. c \in DOMAIN attached
    BY <1>1 DEF There
  <2>3. QED
    BY ONLY <1>1, <1>2, <2>1, <2>2
<1>4. There' = There
  BY <1>1, <1>3 DEF There
<1>5. /\ IsNet(net') /\ DOMAIN net' = DOMAIN net
      /\ \A k \in DOMAIN net : net'[k].op = net[k].op /\ net'[k].arg = net[k].arg
      /\ \A k \in DOMAIN net \ {i} : net'[k].status = net[k].status /\ net'[k].data = net[k].data
      /\ \/ /\ net'[i].status = "ok" /\ UNCHANGED untold
            /\ \A k \in DOMAIN net : net'[k].late = net[k].late
         \/ /\ net'[i].status = "error" /\ untold' = (untold \/ c = managing)
            /\ \A k \in DOMAIN net : net'[k].op = "problems" /\ net'[k].status = "ok"
                                     => net'[k].late
  <2>1. CASE Answer(i, 0) /\ UNCHANGED untold
    <3>1. /\ IsNet(net') /\ Served(net, net', i) /\ net'[i].status = "ok"
      BY <1>0, <2>1, AnswerServes
    <3>2. QED
      BY <2>1, <3>1 DEF Served
  <2>2. CASE LoseAnswer(i, "problems") /\ untold' = (untold \/ c = managing)
    BY <1>0, <2>2, LoseAnswerServes DEF Same
  <2>3. QED
    BY <1>1, <2>1, <2>2
<1>6. ASSUME NEW j \in DOMAIN net
      PROVE  /\ Loading(j)' = Loading(j) /\ Changing(j)' = Changing(j)
             /\ j # i => Handled(j)' = Handled(j) /\ Data(j)' = Data(j)
  BY <1>5 DEF Loading, Changing, Handled, Data
<1>7. ~Loading(i) /\ net[i].op # "contests" /\ ~Handled(i)
  BY <1>1 DEF Loading, Changing, Waiting, Handled
<1>8. KnownContests'
  <2>1. \A j \in DOMAIN net' :
           net'[j].op = "contests" /\ Handled(j)' => Data(j)' \subseteq DOMAIN attached'
    <3>1. ASSUME NEW j \in DOMAIN net, net[j].op = "contests", Handled(j)'
          PROVE  Data(j)' \subseteq DOMAIN attached
      BY <1>0, <1>6, <1>7, <3>1 DEF KnownContests
    <3>2. QED
      BY <1>3, <1>5, <3>1
  <2>2. \A j \in DOMAIN net' : Loading(j)' => /\ net'[j].arg \in DOMAIN attached'
                                              /\ net'[j].status \in {"sent", "ok", "error"}
    BY <1>0, <1>3, <1>5, <1>6, <1>7 DEF KnownContests
  <2>3. \A j \in DOMAIN net' : Changing(j)' => net'[j].arg[1] \in DOMAIN attached'
    BY <1>0, <1>3, <1>5, <1>6 DEF KnownContests
  <2>4. contests' \subseteq DOMAIN attached' /\ managing' \in {0} \cup DOMAIN attached'
    BY <1>0, <1>1, <1>3 DEF KnownContests
  <2>5. QED
    BY <2>1, <2>2, <2>3, <2>4 DEF KnownContests
<1>9. ASSUME NEW d, Touched(d)
      PROVE  Touched(d)'
  BY <1>5, <1>6, <1>7, <1>9 DEF Touched
<1>10. ASSUME net'[i].status = "ok"
       PROVE  Touched(c)'
  BY <1>1, <1>5, <1>6, <1>10 DEF Touched, Handled
<1>11. ASSUME NEW j \in DOMAIN net', Loading(j)', Stale(j)'
       PROVE  Touched(net[j].arg)' \/ \E k \in DOMAIN net' : Loading(k)' /\ k > j
  <2>1. j \in DOMAIN net /\ Loading(j) /\ net'[j].arg = net[j].arg /\ j # i
    BY <1>5, <1>6, <1>7, <1>11
  <2>2. /\ net'[i].status = "ok"
        /\ \A k \in DOMAIN net : net'[k].late = net[k].late
    BY <1>5, <1>11, <2>1 DEF Stale, Handled, Loading
  <2>3. PICK d : d = net[j].arg
    OBVIOUS
  <2>4. Touched(d)' => Touched(net[j].arg)'
    BY <2>1, <2>3 DEF Touched
  <2>5. CASE d = c
    BY <1>10, <2>2, <2>4, <2>5
  <2>6. CASE d # c
    <3>1. d \in There /\ attached'[d] = attached[d]
      BY <1>3, <1>4, <1>11, <2>1, <2>3, <2>6 DEF Stale, There
    <3>2. Stale(j)
      BY <1>6, <1>11, <2>1, <2>2, <2>3, <3>1 DEF Stale
    <3>3. Touched(d) \/ \E k \in DOMAIN net : Loading(k) /\ k > j
      BY <1>0, <2>1, <2>3, <3>2 DEF PanelFollows
    <3>4. CASE Touched(d)
      BY <1>9, <2>4, <3>4
    <3>5. CASE \E k \in DOMAIN net : Loading(k) /\ k > j
      BY <1>5, <1>6, <3>5
    <3>6. QED
      BY <3>3, <3>4, <3>5
  <2>7. QED
    BY <2>5, <2>6
<1>12. ASSUME managing \in There, ~untold', panel # attached'[managing]
       PROVE  Touched(managing)' \/ \E k \in DOMAIN net' : Loading(k)'
  <2>1. PICK d : d = managing
    OBVIOUS
  <2>2. Touched(d)' => Touched(managing)'
    BY <1>1, <2>1 DEF Touched
  <2>3. CASE d = c
    <3>1. net'[i].status = "ok"
      BY <1>5, <1>12, <2>1, <2>3
    <3>2. QED
      BY <1>10, <2>2, <2>3, <3>1
  <2>4. CASE d # c
    <3>1. ~untold /\ panel # attached[managing]
      <4>1. untold' = untold \/ untold' = (untold \/ c = managing)
        BY ONLY <1>5
      <4>2. ~untold
        BY ONLY <1>12, <2>1, <2>4, <4>1
      <4>3. managing \in DOMAIN attached
        BY <1>12 DEF There
      <4>4. attached'[managing] = attached[managing]
        BY ONLY <1>3, <2>1, <2>4, <4>3
      <4>5. QED
        BY ONLY <1>12, <4>2, <4>4
    <3>2. Touched(d) \/ \E k \in DOMAIN net : Loading(k)
      BY <1>0, <1>12, <2>1, <3>1 DEF PanelFollows
    <3>3. CASE Touched(d)
      BY <1>9, <2>2, <3>3
    <3>4. CASE \E k \in DOMAIN net : Loading(k)
      BY <1>5, <1>6, <3>4
    <3>5. QED
      BY <3>2, <3>3, <3>4
  <2>5. QED
    BY <2>3, <2>4
<1>13. PanelFollows'
  BY <1>1, <1>4, <1>11, <1>12 DEF PanelFollows
<1>14. QED
  BY <1>3, <1>5, <1>8, <1>13 DEF PanelInv

(* A load of the problems comes in: the panel shows what it brought, and   *)
(* the older loads are late.                                               *)
LEMMA PanelShown ==
    ASSUME PanelInv, open = "contest console", open' = open,
           NEW i \in DOMAIN net, PanelLoaded(i)
    PROVE  PanelInv'
<1>0. /\ IsNet(net) /\ KnownContests /\ PanelFollows
      /\ \E S : attached \in Seq(S)
  BY DEF PanelInv
<1>1. /\ Loading(i) /\ ~Waiting(i) /\ ReturnLoad(i, <<>>)
      /\ UNCHANGED <<attached, gone, contests, managing>>
      /\ panel' = IF Handled(i) THEN Data(i) ELSE {}
      /\ untold' = (Failed(i) \/ net[i].late \/ net[i].arg # managing)
  BY DEF PanelLoaded, Loading, rowsOfServer, offers
<1>2. PICK f : /\ IsNet(net') /\ Moves(net, net', DOMAIN net \ {i}, {}, f)
               /\ \A j \in DOMAIN net' : f[j] < i /\ net'[j].op = net[i].op => net'[j].late
  BY <1>0, <1>1, ReturnLoadMoves
<1>3. ASSUME NEW j \in DOMAIN net'
      PROVE  /\ f[j] \in DOMAIN net \ {i}
             /\ Loading(j)' = Loading(f[j]) /\ Changing(j)' = Changing(f[j])
             /\ Handled(j)' = Handled(f[j]) /\ Data(j)' = Data(f[j])
             /\ net'[j].arg = net[f[j]].arg /\ net'[j].op = net[f[j]].op
             /\ net'[j].status = net[f[j]].status
             /\ net[f[j]].late => net'[j].late
  <2>1. f[j] \in DOMAIN net \ {i}
    BY <1>2 DEF Moves
  <2>2. QED
    BY <1>2, <2>1 DEF Moves, Same, Loading, Changing, Handled, Data
<1>4. ASSUME NEW k \in DOMAIN net \ {i}
      PROVE  \E j \in DOMAIN net' : f[j] = k
  BY <1>2 DEF Moves
<1>5. (\A k \in DOMAIN net : k \in Int) /\ \A k \in DOMAIN net' : k \in Int
  BY ONLY <1>0, <1>2, NetPlaces
<1>6. There' = There
  BY <1>1 DEF There
<1>7. KnownContests'
  <2>1. \A j \in DOMAIN net' : net'[j].op = "contests" /\ Handled(j)' => Data(j)' \subseteq DOMAIN attached
    <3>1. ASSUME NEW j \in DOMAIN net', net'[j].op = "contests", Handled(j)'
          PROVE  Data(j)' \subseteq DOMAIN attached
      <4>1. /\ f[j] \in DOMAIN net /\ net[f[j]].op = "contests" /\ Handled(f[j])
            /\ Data(j)' = Data(f[j])
        BY <1>3, <3>1
      <4>2. Data(f[j]) \subseteq DOMAIN attached
        BY <1>0, <4>1 DEF KnownContests
      <4>3. QED
        BY <4>1, <4>2
    <3>2. QED
      BY <3>1
  <2>2. \A j \in DOMAIN net' : Loading(j)' => /\ net'[j].arg \in DOMAIN attached
                                              /\ net'[j].status \in {"sent", "ok", "error"}
    BY <1>0, <1>3 DEF KnownContests
  <2>3. \A j \in DOMAIN net' : Changing(j)' => net'[j].arg[1] \in DOMAIN attached
    BY <1>0, <1>3 DEF KnownContests
  <2>4. QED
    BY <1>0, <1>1, <2>1, <2>2, <2>3 DEF KnownContests
<1>8. ASSUME NEW c, Touched(c)
      PROVE  Touched(c)'
  <2>1. PICK k \in DOMAIN net : Changing(k) /\ Handled(k) /\ net[k].arg[1] = c
    BY <1>8 DEF Touched
  <2>2. k # i
    BY <1>1, <2>1 DEF Loading, Changing
  <2>3. PICK j \in DOMAIN net' : f[j] = k
    BY <1>4, <2>2
  <2>4. Changing(j)' /\ Handled(j)' /\ net'[j].arg[1] = c
    BY <1>3, <2>1, <2>3
  <2>5. QED
    BY <2>4 DEF Touched
<1>9. ASSUME NEW k \in DOMAIN net, k # i, Loading(k)
      PROVE  \E j \in DOMAIN net' : Loading(j)' /\ f[j] = k
  BY <1>3, <1>4, <1>9
<1>10. ASSUME NEW j \in DOMAIN net', Loading(j)', Stale(j)'
       PROVE  Touched(net[j].arg)' \/ \E k \in DOMAIN net' : Loading(k)' /\ k > j
  <2>1. /\ f[j] \in DOMAIN net \ {i} /\ Loading(f[j]) /\ Stale(f[j])
        /\ net'[j].arg = net[f[j]].arg
    BY <1>1, <1>3, <1>6, <1>10 DEF Stale
  <2>2. f[j] > i
    <3>1. ~(f[j] < i)
      BY <1>1, <1>2, <1>3, <1>10 DEF Loading, Stale
    <3>2. f[j] \in Int /\ i \in Int /\ f[j] # i
      BY <1>5, <2>1
    <3>3. QED
      BY ONLY <3>1, <3>2
  <2>3. PICK c : c = net'[j].arg
    OBVIOUS
  <2>4. Touched(c) \/ \E k \in DOMAIN net : Loading(k) /\ k > f[j]
    BY <1>0, <2>1, <2>3 DEF PanelFollows
  <2>5. CASE Touched(c)
    <3>1. Touched(c)' => Touched(net[j].arg)'
      BY <2>3 DEF Touched
    <3>2. QED
      BY <1>8, <2>5, <3>1
  <2>6. CASE \E k \in DOMAIN net : Loading(k) /\ k > f[j]
    <3>1. PICK k \in DOMAIN net : Loading(k) /\ k > f[j]
      BY <2>6
    <3>2. k \in Int /\ f[j] \in Int /\ i \in Int
      BY <1>5, <2>1
    <3>3. k # i
      BY ONLY <2>2, <3>1, <3>2
    <3>4. PICK u \in DOMAIN net' : Loading(u)' /\ f[u] = k
      BY <1>9, <3>1, <3>3
    <3>5. u \in Int /\ j \in Int
      BY <1>5
    <3>6. (u = j => f[u] = f[j]) /\ (u < j => f[u] < f[j])
      BY <1>2 DEF Moves
    <3>7. u > j
      BY ONLY <3>1, <3>2, <3>4, <3>5, <3>6
    <3>8. QED
      BY <3>4, <3>7
  <2>7. QED
    BY <2>4, <2>5, <2>6
<1>11. ASSUME managing \in There, ~untold', panel' # attached[managing]
       PROVE  Touched(managing)' \/ \E k \in DOMAIN net' : Loading(k)'
  <2>1. ~Failed(i) /\ ~net[i].late /\ net[i].arg = managing
    BY <1>1, <1>11
  <2>2. Handled(i)
    BY <1>0, <1>1, <2>1 DEF KnownContests, Waiting, Failed, Handled
  <2>3. Stale(i)
    BY <1>1, <1>11, <2>1, <2>2 DEF Stale
  <2>4. PICK c : c = managing
    OBVIOUS
  <2>5. Touched(c) \/ \E k \in DOMAIN net : Loading(k) /\ k > i
    BY <1>0, <1>1, <2>1, <2>3, <2>4 DEF PanelFollows
  <2>6. Touched(c)' => Touched(managing)'
    BY <1>1, <2>4 DEF Touched
  <2>7. CASE Touched(c)
    BY <1>8, <2>6, <2>7
  <2>8. CASE \E k \in DOMAIN net : Loading(k) /\ k > i
    <3>1. PICK k \in DOMAIN net : Loading(k) /\ k > i
      BY <2>8
    <3>2. k \in Int /\ i \in Int
      BY <1>5
    <3>3. k # i
      BY ONLY <3>1, <3>2
    <3>4. QED
      BY <1>9, <3>1, <3>3
  <2>9. QED
    BY <2>5, <2>7, <2>8
<1>12. PanelFollows'
  BY <1>1, <1>6, <1>10, <1>11 DEF PanelFollows
<1>13. QED
  BY <1>0, <1>1, <1>2, <1>7, <1>12 DEF PanelInv

(* A click that sends a request.                                           *)
LEMMA PanelSends ==
    ASSUME PanelInv, open = "contest console", open' = open,
           NEW q, IsRequest(q), Send(q), q.status = "sent",
           q.op = "problems" => q.arg \in DOMAIN attached,
           q.op \in {"add", "remove"} => q.arg[1] \in DOMAIN attached,
           UNCHANGED <<attached, gone, contests, panel, untold>>,
           \/ managing' = managing
           \/ q.op = "problems" /\ managing' \in DOMAIN attached
    PROVE  PanelInv'
<1> DEFINE R == {q}
<1>0. IsNet(net) /\ KnownContests
  BY DEF PanelInv
<1>1. PICK f : IsNet(net') /\ Moves(net, net', DOMAIN net, R, f)
  <2>1. IsRequest(q) /\ Send(q)
    OBVIOUS
  <2>2. QED
    BY ONLY <1>0, <2>1, SendMoves
<1>2. /\ R # {}
      /\ \A x \in R : /\ x.status = "sent"
                      /\ x.op = "problems" => x.arg \in DOMAIN attached
                      /\ x.op \in {"add", "remove"} => x.arg[1] \in DOMAIN attached
      /\ q.op = "problems" => \A x \in R : x.op = "problems"
  OBVIOUS
<1> HIDE DEF R
<1>3. /\ gone \subseteq gone' /\ contests' \subseteq DOMAIN attached
      /\ managing' \in {0} \cup DOMAIN attached
      /\ managing' \notin {0, managing} => q.op = "problems"
  BY <1>0 DEF KnownContests
<1> DEFINE A == DOMAIN net
<1>4. \A k \in DOMAIN net \ A : FALSE
  OBVIOUS
<1>5. Moves(net, net', A, R, f)
  BY <1>1
<1> HIDE DEF A
<1>6. QED
  BY <1>1, <1>2, <1>3, <1>4, <1>5, PanelMoves

(* The continuation of a request, other than a load of the problems.       *)
LEMMA PanelReturns ==
    ASSUME PanelInv, open = "contest console", open' = open,
           NEW i \in DOMAIN net, ~Loading(i),
           NEW q, q.status = "sent", q.op \notin {"add", "remove"},
           q.op = "problems" => q.arg \in DOMAIN attached,
           UNCHANGED <<attached, gone, managing, panel, untold>>,
           contests' \subseteq DOMAIN attached,
           NEW R, NEW f, IsNet(net'), R \subseteq {q},
           Moves(net, net', DOMAIN net \ {i}, R, f),
           Changing(i) /\ Handled(i) => R = {q} /\ q.op = "problems"
    PROVE  PanelInv'
<1>1. \A x \in R : /\ x.status = "sent"
                   /\ x.op = "problems" => x.arg \in DOMAIN attached
                   /\ x.op \in {"add", "remove"} => x.arg[1] \in DOMAIN attached
  OBVIOUS
<1> DEFINE A == DOMAIN net \ {i}
<1>2. \A k \in DOMAIN net \ A : k = i
  OBVIOUS
<1>3. Moves(net, net', A, R, f)
  OBVIOUS
<1> HIDE DEF A
<1>4. gone \subseteq gone' /\ managing' \in {0, managing} /\ managing' \in {0} \cup DOMAIN attached
  BY DEF PanelInv, KnownContests
<1>5. R = {q} /\ q.op = "problems" => R # {} /\ \A x \in R : x.op = "problems"
  OBVIOUS
<1>6. QED
  BY <1>1, <1>2, <1>3, <1>4, <1>5, PanelMoves

LEMMA PanelClicks ==
    ASSUME PanelInv, open = "contest console", open' = open,
           \/ SaveContest
           \/ \E c \in ContestIds : DeleteContest(c) \/ OpenPanel(c)
           \/ \E p \in Problems : AddProblem(p) \/ RemoveProblem(p) \/ Rejudge(p)
    PROVE  PanelInv'
<1>0. KnownContests
  BY DEF PanelInv
<1>1. \A op, arg : /\ IsRequest(Request(op, arg)) /\ Request(op, arg).status = "sent"
                   /\ Request(op, arg).op = op /\ Request(op, arg).arg = arg
  BY NewRequest DEF Request
<1>2. CASE SaveContest
  <2>1. /\ Send(Request("saveContest", form))
        /\ UNCHANGED <<attached, gone, contests, managing, panel, untold>>
    BY <1>2 DEF SaveContest, Act, rowsOfServer, offers, panelState
  <2>2. PICK q : q = Request("saveContest", form)
    OBVIOUS
  <2>3. IsRequest(q) /\ Send(q) /\ q.status = "sent" /\ q.op = "saveContest"
    BY ONLY <1>1, <2>1, <2>2
  <2>4. QED
    BY <2>1, <2>3, PanelSends
<1>3. ASSUME NEW c \in ContestIds, DeleteContest(c) PROVE PanelInv'
  <2>1. /\ Send(Request("deleteContest", c))
        /\ UNCHANGED <<attached, gone, contests, managing, panel, untold>>
    BY <1>3 DEF DeleteContest, Act, rowsOfServer, offers, panelState
  <2>2. PICK q : q = Request("deleteContest", c)
    OBVIOUS
  <2>3. IsRequest(q) /\ Send(q) /\ q.status = "sent" /\ q.op = "deleteContest"
    BY ONLY <1>1, <2>1, <2>2
  <2>4. QED
    BY <2>1, <2>3, PanelSends
<1>4. ASSUME NEW c \in ContestIds, OpenPanel(c) PROVE PanelInv'
  <2>1. /\ Send(Request("problems", c)) /\ c \in contests /\ managing' = c
        /\ UNCHANGED <<attached, gone, contests, panel, untold>>
    BY <1>4 DEF OpenPanel, Offered, Act, rowsOfServer, offers, panelState
  <2>2. PICK q : IsRequest(q) /\ Send(q) /\ q.status = "sent" /\ q.op = "problems" /\ q.arg = c
                 /\ c \in DOMAIN attached
    BY <1>0, <1>1, <2>1 DEF KnownContests
  <2>3. QED
    BY <2>1, <2>2, PanelSends
<1>5. ASSUME NEW x \in Problems, AddProblem(x) \/ RemoveProblem(x) PROVE PanelInv'
  <2>1. /\ managing # 0 /\ UNCHANGED <<attached, gone, contests, managing, panel, untold>>
        /\ \E op \in {"add", "remove"} : Send(Request(op, <<managing, x>>))
    BY <1>5 DEF AddProblem, RemoveProblem, Act, rowsOfServer, offers, panelState
  <2>2. PICK op \in {"add", "remove"} : Send(Request(op, <<managing, x>>))
    BY <2>1
  <2>3. PICK q : q = Request(op, <<managing, x>>)
    OBVIOUS
  <2>4. /\ IsRequest(q) /\ Send(q) /\ q.status = "sent" /\ q.op \in {"add", "remove"}
        /\ q.arg = <<managing, x>>
    BY ONLY <1>1, <2>2, <2>3
  <2>5. q.arg[1] = managing /\ managing \in DOMAIN attached
    <3>1. q.arg[1] = managing
      BY ONLY <2>4
    <3>2. managing \in {0} \cup DOMAIN attached
      BY <1>0 DEF KnownContests
    <3>3. QED
      BY <2>1, <3>1, <3>2
  <2>6. QED
    BY <2>1, <2>4, <2>5, PanelSends
<1>6. ASSUME NEW x \in Problems, Rejudge(x) PROVE PanelInv'
  <2>1. /\ Send(Request("rejudge", <<managing, x>>))
        /\ UNCHANGED <<attached, gone, contests, managing, panel, untold>>
    BY <1>6 DEF Rejudge, Act, rowsOfServer, offers, panelState
  <2>2. PICK q : q = Request("rejudge", <<managing, x>>)
    OBVIOUS
  <2>3. IsRequest(q) /\ Send(q) /\ q.status = "sent" /\ q.op = "rejudge"
    BY ONLY <1>1, <2>1, <2>2
  <2>4. QED
    BY <2>1, <2>3, PanelSends
<1>7. QED
  BY <1>2, <1>3, <1>4, <1>5, <1>6

LEMMA PanelAnswers ==
    ASSUME PanelInv, open = "contest console", open' = open, NEW i \in DOMAIN net,
           \/ ContestsLoaded(i) \/ ChoicesLoaded(i) \/ ContestSaved(i)
           \/ ContestDeleted(i) \/ PanelChanged(i) \/ RejudgeAnswered(i)
    PROVE  PanelInv'
<1>0. IsNet(net) /\ KnownContests
  BY DEF PanelInv
<1>1. \A op, arg : /\ IsRequest(Request(op, arg)) /\ Request(op, arg).status = "sent"
                   /\ Request(op, arg).op = op /\ Request(op, arg).arg = arg
  BY NewRequest DEF Request
<1>2. CASE ContestsLoaded(i) \/ ChoicesLoaded(i)
  <2>1. /\ UNCHANGED <<attached, gone, managing, panel, untold>>
        /\ ReturnLoad(i, <<>>) /\ ~Loading(i) /\ ~Changing(i)
    BY <1>2 DEF ContestsLoaded, ChoicesLoaded, rowsOfServer, offers, panelState, Loading, Changing
  <2>2. contests' \subseteq DOMAIN attached
    BY <1>0, <1>2 DEF ContestsLoaded, ChoicesLoaded, KnownContests
  <2>3. PICK R, f : R = {} /\ IsNet(net') /\ Moves(net, net', DOMAIN net \ {i}, R, f)
    BY <1>0, <2>1, ReturnLoadMoves
  <2>4. PICK q : IsRequest(q) /\ q.status = "sent" /\ q.op = "choices"
    BY <1>1
  <2>5. R \subseteq {q}
    BY <2>3
  <2>6. QED
    BY <2>1, <2>2, <2>3, <2>4, <2>5, PanelReturns
<1>3. CASE ContestSaved(i) \/ ContestDeleted(i) \/ RejudgeAnswered(i)
  <2>10. PICK q : q = Request("contests", 0)
    OBVIOUS
  <2>11. Return(i, <<>>) \/ Return(i, <<q>>)
    BY <1>3, <2>10 DEF ContestSaved, ContestDeleted, RejudgeAnswered
  <2>1. IsRequest(q) /\ q.status = "sent" /\ q.op = "contests"
        /\ (Return(i, <<>>) \/ Return(i, <<q>>))
    BY ONLY <1>1, <2>10, <2>11
  <2>2. /\ UNCHANGED <<attached, gone, managing, panel, untold>> /\ ~Loading(i) /\ ~Changing(i)
        /\ contests' \subseteq contests
    BY <1>3 DEF ContestSaved, ContestDeleted, RejudgeAnswered, consolePage, rowsOfServer,
       offers, panelState, Loading, Changing
  <2>3. contests' \subseteq DOMAIN attached
    BY <1>0, <2>2 DEF KnownContests
  <2>4. IsNet(net') /\ \E R, f : R \subseteq {q} /\ Moves(net, net', DOMAIN net \ {i}, R, f)
    BY <1>0, <2>1, ReturnMaySend
  <2>5. PICK R, f : R \subseteq {q} /\ Moves(net, net', DOMAIN net \ {i}, R, f)
    BY <2>4
  <2>6. QED
    BY <2>1, <2>2, <2>3, <2>4, <2>5, PanelReturns
<1>4. CASE PanelChanged(i)
  <2>1. /\ Changing(i) /\ ~Loading(i)
        /\ UNCHANGED <<attached, gone, contests, managing, panel, untold>>
        /\ Return(i, IF Handled(i) THEN <<Request("problems", net[i].arg[1])>> ELSE <<>>)
    BY <1>4 DEF PanelChanged, rowsOfServer, offers, panelState, Loading, Changing
  <2>2. PICK q : /\ IsRequest(q) /\ q.status = "sent" /\ q.op = "problems"
                 /\ q.arg = net[i].arg[1]
                 /\ Return(i, IF Handled(i) THEN <<q>> ELSE <<>>)
    BY <1>1, <2>1
  <2>3. q.arg \in DOMAIN attached /\ contests' \subseteq DOMAIN attached
    BY <1>0, <2>1, <2>2 DEF KnownContests
  <2>4. CASE Handled(i)
    <3>1. PICK R, f : R = {q} /\ IsNet(net') /\ Moves(net, net', DOMAIN net \ {i}, R, f)
      BY <1>0, <2>2, <2>4, ReturnSendMoves
    <3>2. R \subseteq {q}
      BY <3>1
    <3>3. QED
      BY <2>1, <2>2, <2>3, <3>1, <3>2, PanelReturns
  <2>5. CASE ~Handled(i)
    <3>1. PICK R, f : R = {} /\ IsNet(net') /\ Moves(net, net', DOMAIN net \ {i}, R, f)
      BY <1>0, <2>2, <2>5, ReturnMoves
    <3>2. R \subseteq {q}
      BY <3>1
    <3>3. QED
      BY <2>1, <2>2, <2>3, <2>5, <3>1, <3>2, PanelReturns
  <2>6. QED
    BY <2>4, <2>5
<1>5. QED
  BY <1>2, <1>3, <1>4

(* The server answers, or the request fails.                               *)
LEMMA PanelHandled ==
    ASSUME PanelInv, open = "contest console", open' = open, NEW i \in DOMAIN net,
           ConsoleRead(i) \/ StoreContest(i) \/ DropContest(i) \/ StartRejudge(i) \/ ConsoleFails(i)
    PROVE  PanelInv'
<1>0. IsNet(net) /\ KnownContests
  BY DEF PanelInv
<1>1. PICK S : attached \in Seq(S)
  BY DEF PanelInv
<1>2. CASE ConsoleRead(i)
  <2>1. PICK d : /\ Answer(i, d) /\ UNCHANGED consolePage /\ Waiting(i)
                 /\ net[i].op = "contests" => d = There
                 /\ net[i].op = "problems" /\ net[i].arg \in There => d = attached[net[i].arg]
    BY <1>2 DEF ConsoleRead, Content
  <2>2. /\ IsNet(net') /\ Served(net, net', i)
        /\ net'[i].status = "ok" /\ net'[i].data[1] = d
    BY <1>0, <2>1, AnswerServes
  <2>3. There \subseteq DOMAIN attached
    BY DEF There
  <2>4. Data(i)' = d
    BY <2>2 DEF Data
  <2>5. RowsKept /\ UNCHANGED <<attached, contests, managing, panel, untold>>
    BY <2>1 DEF RowsKept, consolePage, rowsOfServer, offers, panelState
  <2>6. QED
    BY <1>1, <2>1, <2>2, <2>3, <2>4, <2>5, PanelServed
<1>3. ASSUME StoreContest(i) \/ DropContest(i) \/ StartRejudge(i) \/ ConsoleFails(i)
      PROVE  PanelInv'
  <2> DEFINE grown == Append(attached, {})
  <2>1. /\ Waiting(i) /\ (Answer(i, 0) \/ Fail(i))
        /\ UNCHANGED <<contests, managing, panel, untold>>
        /\ attached' = attached \/ attached' = grown
        /\ gone \subseteq gone'
        /\ net[i].op \in {"contests", "problems"} => Fail(i)
    BY <1>3 DEF StoreContest, DropContest, StartRejudge, ConsoleFails, consolePage, rowsOfServer,
       offers, panelState
  <2> HIDE DEF grown
  <2>2. /\ IsNet(net') /\ Served(net, net', i) /\ net'[i].status \in {"ok", "error"}
        /\ Fail(i) => net'[i].status = "error"
    BY <1>0, <2>1, AnswerServes, FailServes
  <2>3. Handled(i)' => net[i].op \notin {"contests", "problems"}
    BY <2>1, <2>2 DEF Handled
  <2>4. RowsKept /\ \E T : attached' \in Seq(T)
    <3>1. CASE attached' = attached
      BY <1>1, <2>1, <3>1 DEF RowsKept
    <3>2. CASE attached' = grown
      <4>1. \A s \in Seq(S) : /\ Append(s, {}) \in Seq(S \cup {{}})
                              /\ DOMAIN Append(s, {}) = 1..(Len(s) + 1) /\ DOMAIN s = 1..Len(s)
                              /\ Len(s) \in Nat
                              /\ \A k \in DOMAIN s : Append(s, {})[k] = s[k]
        <5>1. \A s \in Seq(S) : Len(s) \in Nat /\ DOMAIN s = 1..Len(s)
          BY ONLY <1>1
        <5>2. \A s \in Seq(S) : /\ Append(s, {}) \in Seq(S \cup {{}})
                                /\ DOMAIN Append(s, {}) = 1..(Len(s) + 1)
                                /\ \A k \in DOMAIN s : Append(s, {})[k] = s[k]
          BY ONLY StoreGrows
        <5>3. QED
          BY ONLY <5>1, <5>2
      <4>2. DOMAIN attached \subseteq DOMAIN attached'
        BY ONLY <1>1, <3>2, <4>1 DEF grown
      <4>3. \A k \in DOMAIN attached : attached'[k] = attached[k]
        BY ONLY <1>1, <3>2, <4>1 DEF grown
      <4>4. attached' \in Seq(S \cup {{}})
        BY ONLY <1>1, <3>2, <4>1 DEF grown
      <4>5. QED
        BY <2>1, <4>2, <4>3, <4>4 DEF RowsKept
    <3>3. QED
      BY <2>1, <3>1, <3>2
  <2>5. Handled(i)' => /\ net[i].op = "contests" => Data(i)' \subseteq DOMAIN attached
                       /\ net[i].op = "problems" /\ net[i].arg \in There
                          => Data(i)' = attached[net[i].arg]
    BY <2>3
  <2>6. QED
    BY <2>1, <2>2, <2>4, <2>5, PanelServed
<1>4. QED
  BY <1>2, <1>3

LEMMA PanelStepKeeps ==
    ASSUME PanelInv, open = "contest console", open' = open, ConsoleNext
    PROVE  PanelInv'
<1>1. CASE CancelContest \/ ClosePanel \/ \E c \in ContestIds : EditContest(c)
  BY <1>1, PanelStays DEF CancelContest, ClosePanel, EditContest, rowsOfServer, offers, panelState
<1>2. QED
  BY <1>1, PanelClicks, PanelAnswers, PanelShown, PanelHandled, PanelTouched DEF ConsoleNext

(* When nothing is on its way, the open panel lists the problems of the    *)
(* contest its heading names, unless a load that failed, was for another   *)
(* contest or came in after a later one was shown last, or the answer to a *)
(* change of that contest was lost.                                        *)
THEOREM PanelShowsTheContest == Spec => []PanelIsTrue
<1>1. Init => PanelInv
  <2> SUFFICES ASSUME Init PROVE PanelInv
    OBVIOUS
  <2>1. managing = 0 /\ attached = <<{}, {}>> /\ contests = {}
    BY DEF Init, ConsoleInit
  <2>2. attached \in Seq({{}}) /\ 0 \notin DOMAIN attached
    BY <2>1
  <2>3. CASE open = "contest console"
    <3> DEFINE q == Request("contests", 0)
               x == Request("choices", 0)
               T == {q, x}
    <3>1. net = <<q, x>>
      BY <2>3 DEF Init, ConsoleMounted
    <3>2. /\ IsRequest(q) /\ q.op = "contests" /\ q.status = "sent"
          /\ IsRequest(x) /\ x.op = "choices" /\ x.status = "sent"
      BY NewRequest DEF Request
    <3> HIDE DEF q, x
    <3>3. \A r \in T : IsRequest(r) /\ r.op \in {"contests", "choices"} /\ r.status = "sent"
      BY <3>2
    <3>4. net \in Seq(T) /\ \A k \in DOMAIN net : net[k] \in T
      BY <3>1
    <3> HIDE DEF T
    <3>5. IsNet(net)
      BY <3>3, <3>4 DEF IsNet
    <3>6. KnownContests
      BY <2>1, <3>3, <3>4 DEF KnownContests, Loading, Changing, Handled
    <3>7. PanelFollows
      BY <2>1, <2>2, <3>3, <3>4 DEF PanelFollows, Loading, There
    <3>8. QED
      BY <2>2, <2>3, <3>5, <3>6, <3>7 DEF PanelInv
  <2>4. CASE open # "contest console"
    BY <2>1, <2>2, <2>4 DEF PanelInv
  <2>5. QED
    BY <2>3, <2>4
<1>2. PanelInv /\ [Next]_vars => PanelInv'
  <2> SUFFICES ASSUME PanelInv, [Next]_vars PROVE PanelInv'
    OBVIOUS
  <2>1. CASE ConsoleStep
    BY <2>1, PanelStepKeeps DEF ConsoleStep
  <2>2. CASE SubmissionsStep \/ ApprovalStep \/ ContestStep \/ ProblemsStep \/ DeskStep
    <3>1. open # "contest console" /\ UNCHANGED <<open, managing, attached>>
      BY <2>2 DEF SubmissionsStep, ApprovalStep, ContestStep, ProblemsStep, DeskStep,
         consolePage, panelState, rowsOfServer
    <3>2. QED
      BY <3>1 DEF PanelInv
  <2>3. CASE UNCHANGED vars
    BY <2>3, PanelStays DEF vars, consolePage, panelState, rowsOfServer, offers
  <2>4. QED
    BY <2>1, <2>2, <2>3 DEF Next
<1>3. PanelInv => PanelIsTrue
  <2> SUFFICES ASSUME PanelInv, managing \in There, ~untold,
                      InFlight({"problems", "add", "remove"}) = {}
               PROVE  panel = attached[managing]
    BY DEF PanelIsTrue
  <2>1. CASE open = "contest console"
    <3>1. \A j \in DOMAIN net : ~Loading(j) /\ ~Changing(j)
      BY DEF InFlight, Loading, Changing
    <3>2. QED
      BY <2>1, <3>1 DEF PanelInv, PanelFollows, Touched
  <2>2. CASE open # "contest console"
    <3>1. managing = 0 /\ 0 \notin DOMAIN attached
      BY <2>2, RowsIndexed DEF PanelInv
    <3>2. QED
      BY <3>1 DEF There
  <2>3. QED
    BY <2>1, <2>2
<1>4. QED
  BY <1>1, <1>2, <1>3, PTL DEF Spec

(***************************************************************************)
(* The roles of the table of users.                                        *)
(***************************************************************************)

IsRow(row) == row = [role |-> row.role, bio |-> row.bio]

Writing == {"role", "save profile", "avatar"}

(* What the two pages send, and what the server has read for it.           *)
DeskRequest(r) ==
    /\ r.op = "role" => r.arg.user \in Users
    /\ r.op = "save profile" => r.arg = [user |-> Owner, mine |-> r.arg.mine, bio |-> r.arg.bio]
    /\ r.op = "avatar" => r.arg = [user |-> Owner, mine |-> r.arg.mine]
    /\ r.status = "read" => r.op \in Writing /\ IsRow(r.data[1])

Listing(i)     == net[i].op = "users"
Assigning(i)   == net[i].op = "role"
Assignee(i)    == net[i].arg.user
Profiling(i)   == net[i].op = "profile"

ProfileOnce ==
    /\ \A i, j \in DOMAIN net : Profiling(i) /\ Profiling(j) => i = j
    /\ ~editor.open => \A i \in DOMAIN net : ~Profiling(i)

(* The table is empty until the users are loaded, so no role is assigned   *)
(* before; what the server answers holds as long as the row is not written *)
(* by a profile that was read earlier.                                     *)
RolesLoaded ==
    /\ \A i, j \in DOMAIN net : Listing(i) /\ Listing(j) => i = j
    /\ \A i \in DOMAIN net : Listing(i) => /\ \A u \in Users : table[u] = "none"
                                           /\ \A j \in DOMAIN net : ~Assigning(j)
    /\ \A i \in DOMAIN net :
          Listing(i) /\ Handled(i) =>
             /\ Data(i) = [u \in Users |-> Data(i)[u]]
             /\ \A u \in Users \ undone : Data(i)[u] = users[u].role

RolesAssigned ==
    /\ \A i, j \in DOMAIN net :
          Assigning(i) /\ Assigning(j) /\ Assignee(i) = Assignee(j) /\ Assignee(i) \notin crossed
          => i = j
    /\ \A i \in DOMAIN net :
          Assigning(i) /\ Handled(i) /\ Assignee(i) \notin crossed \cup undone
          => Data(i).role = users[Assignee(i)].role

RolesShown ==
    \A u \in Users :
       /\ table[u] # "none" /\ ~failed /\ u \notin crossed \cup undone
       /\ \A i \in DOMAIN net : ~(Assigning(i) /\ Assignee(i) = u)
       => table[u] = users[u].role

DeskRows == /\ users = [u \in Users |-> users[u]]
            /\ \A u \in Users : IsRow(users[u])
            /\ table = [u \in Users |-> table[u]]

RoleInv ==
    /\ DeskRows
    /\ open # "users" => \A u \in Users : table[u] = "none"
    /\ open = "users" => /\ IsNet(net) /\ \A i \in DOMAIN net : DeskRequest(net[i])
                         /\ ProfileOnce /\ RolesLoaded /\ RolesAssigned /\ RolesShown

LEMMA SameDeskRequest ==
    ASSUME NEW r, NEW q, Same(r, q), DeskRequest(q)
    PROVE  DeskRequest(r)
BY DEF Same, DeskRequest

(* Requests other than assignments and the list come and go.               *)
LEMMA RolesUntouched ==
    ASSUME RoleInv, open = "users", open' = open,
           UNCHANGED <<users, table, failed, crossed, undone>>,
           IsNet(net'), \A j \in DOMAIN net' : DeskRequest(net'[j]), ProfileOnce',
           NEW f, \A j, k \in DOMAIN net' : f[j] = f[k] => j = k,
           \A j \in DOMAIN net' :
              net'[j].op \in {"users", "role"} => f[j] \in DOMAIN net /\ Same(net'[j], net[f[j]]),
           \A k \in DOMAIN net : Assigning(k) => \E j \in DOMAIN net' : f[j] = k /\ Same(net'[j], net[k])
    PROVE  RoleInv'
<1>0. RolesLoaded /\ RolesAssigned /\ RolesShown /\ DeskRows
  BY DEF RoleInv
<1>1. ASSUME NEW j \in DOMAIN net', Listing(j)' \/ Assigning(j)'
      PROVE  /\ f[j] \in DOMAIN net
             /\ Listing(j)' = Listing(f[j]) /\ Assigning(j)' = Assigning(f[j])
             /\ Assignee(j)' = Assignee(f[j])
             /\ Handled(j)' = Handled(f[j]) /\ Data(j)' = Data(f[j])
  <2>1. f[j] \in DOMAIN net /\ Same(net'[j], net[f[j]])
    BY <1>1 DEF Listing, Assigning
  <2>2. QED
    BY <2>1 DEF Same, Listing, Assigning, Assignee, Handled, Data
<1>2. ASSUME NEW k \in DOMAIN net, Assigning(k)
      PROVE  \E j \in DOMAIN net' : Assigning(j)' /\ Assignee(j)' = Assignee(k)
  <2>1. PICK j \in DOMAIN net' : f[j] = k /\ Same(net'[j], net[k])
    BY <1>2
  <2>2. Assigning(j)' /\ Assignee(j)' = Assignee(k)
    BY <1>2, <2>1 DEF Same, Assigning, Assignee
  <2>3. QED
    BY <2>2
<1>3. RolesLoaded'
  <2>1. \A i, j \in DOMAIN net' : Listing(i)' /\ Listing(j)' => i = j
    BY <1>0, <1>1 DEF RolesLoaded
  <2>2. \A i \in DOMAIN net' : Listing(i)' => /\ \A u \in Users : table[u] = "none"
                                              /\ \A j \in DOMAIN net' : ~Assigning(j)'
    BY <1>0, <1>1 DEF RolesLoaded
  <2>3. ASSUME NEW i \in DOMAIN net', Listing(i)', Handled(i)'
        PROVE  /\ Data(i)' = [u \in Users |-> Data(i)'[u]]
               /\ \A u \in Users \ undone : Data(i)'[u] = users[u].role
    <3>1. f[i] \in DOMAIN net /\ Listing(f[i]) /\ Handled(f[i]) /\ Data(i)' = Data(f[i])
      BY <1>1, <2>3
    <3>2. /\ Data(f[i]) = [u \in Users |-> Data(f[i])[u]]
          /\ \A u \in Users \ undone : Data(f[i])[u] = users[u].role
      BY <1>0, <3>1 DEF RolesLoaded
    <3>3. QED
      BY <3>1, <3>2
  <2>4. QED
    BY <2>1, <2>2, <2>3 DEF RolesLoaded
<1>4. RolesAssigned'
  <2>1. ASSUME NEW i \in DOMAIN net', NEW j \in DOMAIN net', Assigning(i)', Assigning(j)',
               Assignee(i)' = Assignee(j)', Assignee(i)' \notin crossed
        PROVE  i = j
    <3>1. f[i] = f[j]
      BY <1>0, <1>1, <2>1 DEF RolesAssigned
    <3>2. QED
      BY <3>1
  <2>2. ASSUME NEW i \in DOMAIN net', Assigning(i)', Handled(i)', Assignee(i)' \notin crossed \cup undone
        PROVE  Data(i)'.role = users[Assignee(i)'].role
    <3>1. /\ f[i] \in DOMAIN net /\ Assigning(f[i]) /\ Handled(f[i])
          /\ Data(i)' = Data(f[i]) /\ Assignee(i)' = Assignee(f[i])
      BY <1>1, <2>2
    <3>2. QED
      BY <1>0, <2>2, <3>1 DEF RolesAssigned
  <2>3. QED
    BY <2>1, <2>2 DEF RolesAssigned
<1>5. RolesShown'
  BY <1>0, <1>2 DEF RolesShown
<1>6. DeskRows'
  BY <1>0 DEF DeskRows
<1>7. QED
  BY <1>3, <1>4, <1>5, <1>6 DEF RoleInv

(* The same when one request may have returned and one may have been sent. *)
LEMMA RolesMove ==
    ASSUME RoleInv, open = "users", open' = open,
           UNCHANGED <<users, table, failed, crossed, undone>>,
           IsNet(net'), NEW A, NEW R, NEW f, Moves(net, net', A, R, f),
           \A q \in R : DeskRequest(q) /\ q.op \notin {"users", "role"},
           \A k \in DOMAIN net \ A : ~Assigning(k),
           ProfileOnce'
    PROVE  RoleInv'
<1>1. \A i \in DOMAIN net : DeskRequest(net[i])
  BY DEF RoleInv
<1>2. ASSUME NEW j \in DOMAIN net'
      PROVE  \/ f[j] \in A /\ f[j] \in DOMAIN net /\ Same(net'[j], net[f[j]])
             \/ net'[j] \in R
  BY DEF Moves
<1>3. \A j \in DOMAIN net' : DeskRequest(net'[j])
  BY <1>1, <1>2, SameDeskRequest
<1>4. \A j \in DOMAIN net' :
         net'[j].op \in {"users", "role"} => f[j] \in DOMAIN net /\ Same(net'[j], net[f[j]])
  BY <1>2
<1>5. ASSUME NEW k \in DOMAIN net, Assigning(k)
      PROVE  \E j \in DOMAIN net' : f[j] = k /\ Same(net'[j], net[k])
  <2>1. k \in A
    BY <1>5
  <2>2. PICK j \in DOMAIN net' : f[j] = k
    BY <2>1 DEF Moves
  <2>3. Same(net'[j], net[f[j]])
    BY <2>1, <2>2 DEF Moves
  <2>4. QED
    BY <2>2, <2>3
<1>6. \A j, k \in DOMAIN net' : f[j] = f[k] => j = k
  BY DEF Moves
<1>7. QED
  BY <1>3, <1>4, <1>5, <1>6, RolesUntouched

(* A request is read or answered; the rows stay.                           *)
LEMMA RolesServed ==
    ASSUME RoleInv, open = "users", open' = open, UNCHANGED deskPage,
           NEW i \in DOMAIN net, IsNet(net'), Served(net, net', i), DeskRequest(net'[i]),
           Handled(i)' => /\ ~Assigning(i)
                          /\ Listing(i) => Data(i)' = [u \in Users |-> users[u].role]
    PROVE  RoleInv'
<1>0. RolesLoaded /\ RolesAssigned /\ RolesShown /\ DeskRows /\ ProfileOnce
      /\ \A j \in DOMAIN net : DeskRequest(net[j])
  BY DEF RoleInv
<1>1. UNCHANGED <<users, table, failed, crossed, undone, editor>>
  BY DEF deskPage
<1>2. DOMAIN net' = DOMAIN net
  BY DEF Served
<1>3. ASSUME NEW j \in DOMAIN net
      PROVE  /\ Listing(j)' = Listing(j) /\ Assigning(j)' = Assigning(j)
             /\ Assignee(j)' = Assignee(j) /\ Profiling(j)' = Profiling(j)
             /\ j # i => Handled(j)' = Handled(j) /\ Data(j)' = Data(j) /\ net'[j] = net[j]
  BY DEF Served, Listing, Assigning, Assignee, Profiling, Handled, Data
<1>4. ProfileOnce'
  BY <1>0, <1>1, <1>2, <1>3 DEF ProfileOnce
<1>5. \A j \in DOMAIN net' : DeskRequest(net'[j])
  BY <1>0, <1>2, <1>3
<1>6. RolesLoaded'
  <2>1. \A k, j \in DOMAIN net' : Listing(k)' /\ Listing(j)' => k = j
    BY <1>0, <1>2, <1>3 DEF RolesLoaded
  <2>2. \A k \in DOMAIN net' : Listing(k)' => /\ \A u \in Users : table'[u] = "none"
                                              /\ \A j \in DOMAIN net' : ~Assigning(j)'
    BY <1>0, <1>1, <1>2, <1>3 DEF RolesLoaded
  <2>3. ASSUME NEW k \in DOMAIN net, Listing(k), Handled(k)'
        PROVE  /\ Data(k)' = [u \in Users |-> Data(k)'[u]]
               /\ \A u \in Users \ undone : Data(k)'[u] = users[u].role
    <3>1. CASE k = i
      <4>1. Data(k)' = [u \in Users |-> users[u].role]
        BY <2>3, <3>1
      <4>2. PICK t : t = Data(k)'
        OBVIOUS
      <4>3. t = [u \in Users |-> t[u]] /\ \A u \in Users : t[u] = users[u].role
        BY ONLY <4>1, <4>2
      <4>4. QED
        BY <4>2, <4>3
    <3>2. CASE k # i
      <4>1. Handled(k) /\ Data(k)' = Data(k)
        BY <1>3, <2>3, <3>2
      <4>2. QED
        BY <1>0, <2>3, <4>1 DEF RolesLoaded
    <3>3. QED
      BY <3>1, <3>2
  <2>4. QED
    BY <1>1, <1>2, <1>3, <2>1, <2>2, <2>3 DEF RolesLoaded
<1>7. RolesAssigned'
  <2>1. ASSUME NEW k \in DOMAIN net, NEW j \in DOMAIN net, Assigning(k), Assigning(j),
               Assignee(k) = Assignee(j), Assignee(k) \notin crossed
        PROVE  k = j
    BY <1>0, <2>1 DEF RolesAssigned
  <2>2. ASSUME NEW k \in DOMAIN net, Assigning(k), Handled(k)', Assignee(k) \notin crossed \cup undone
        PROVE  Data(k)'.role = users[Assignee(k)].role
    <3>1. k # i
      BY <2>2
    <3>2. Handled(k) /\ Data(k)' = Data(k)
      BY <1>3, <2>2, <3>1
    <3>3. QED
      BY <1>0, <2>2, <3>2 DEF RolesAssigned
  <2>3. QED
    BY <1>1, <1>2, <1>3, <2>1, <2>2 DEF RolesAssigned
<1>8. RolesShown'
  BY <1>0, <1>1, <1>2, <1>3 DEF RolesShown
<1>9. DeskRows'
  BY <1>0, <1>1 DEF DeskRows
<1>10. QED
  BY <1>4, <1>5, <1>6, <1>7, <1>8, <1>9 DEF RoleInv

(* The row the server writes.                                              *)
LEMMA ChangedRow ==
    ASSUME NEW r, r.op \in Writing, NEW row, IsRow(row)
    PROVE  IsRow(Changed(r, row)) /\ (r.op # "role" => Changed(r, row).role = row.role)
<1>1. CASE r.op = "role"
  <2>1. Changed(r, row) = [row EXCEPT !.role = r.arg.role]
    BY <1>1 DEF Changed
  <2>2. [row EXCEPT !.role = r.arg.role] = [role |-> r.arg.role, bio |-> row.bio]
    BY DEF IsRow
  <2>3. QED
    BY ONLY <1>1, <2>1, <2>2 DEF IsRow
<1>2. CASE r.op = "save profile"
  <2>1. Changed(r, row) = [row EXCEPT !.bio = r.arg.bio]
    BY <1>2 DEF Changed
  <2>2. [row EXCEPT !.bio = r.arg.bio] = [role |-> row.role, bio |-> r.arg.bio]
    BY DEF IsRow
  <2>3. QED
    BY ONLY <2>1, <2>2 DEF IsRow
<1>3. CASE r.op = "avatar"
  BY <1>3 DEF Changed
<1>4. QED
  BY <1>1, <1>2, <1>3 DEF Writing

(* A row is written.                                                       *)
LEMMA RolesWritten ==
    ASSUME RoleInv, open = "users", open' = open, NEW i \in DOMAIN net, WriteRow(i)
    PROVE  RoleInv'
<1>0. /\ IsNet(net) /\ \A j \in DOMAIN net : DeskRequest(net[j])
      /\ RolesLoaded /\ RolesAssigned /\ RolesShown /\ DeskRows /\ ProfileOnce
  BY DEF RoleInv
<1>1. PICK u, row :
         /\ u = Assignee(i) /\ row = Changed(net[i], Data(i)) /\ Midway(i)
         /\ users' = [users EXCEPT ![u] = row]
         /\ undone' = IF Assigning(i) THEN undone \ {u}
                      ELSE IF Data(i).role # users[u].role THEN undone \cup {u} ELSE undone
         /\ Answer(i, users'[u]) \/ Fail(i)
         /\ UNCHANGED <<table, failed, editor, crossed>>
  BY DEF WriteRow, Assignee, Assigning
<1>2. net[i].op \in Writing /\ IsRow(Data(i)) /\ (Assigning(i) => u \in Users)
  BY <1>0, <1>1 DEF DeskRequest, Midway, Data, Assigning, Assignee
<1>3. IsRow(row) /\ (~Assigning(i) => row.role = Data(i).role)
  BY <1>1, <1>2, ChangedRow DEF Assigning
<1>4. /\ users' = [v \in Users |-> users'[v]]
      /\ \A v \in Users : users'[v] = IF v = u THEN row ELSE users[v]
  BY <1>0, <1>1 DEF DeskRows
<1>5. DeskRows'
  BY <1>0, <1>1, <1>3, <1>4 DEF DeskRows
<1>6. /\ IsNet(net') /\ Served(net, net', i) /\ net'[i].status \in {"ok", "error"}
      /\ net'[i].status = "ok" => net'[i].data[1] = users'[u]
  <2>1. PICK d : d = users'[u]
    OBVIOUS
  <2>2. Answer(i, d) \/ Fail(i)
    BY <1>1, <2>1
  <2>3. QED
    BY <1>0, <2>1, <2>2, AnswerServes, FailServes
<1>7. DOMAIN net' = DOMAIN net
  BY <1>6 DEF Served
<1>8. ASSUME NEW j \in DOMAIN net
      PROVE  /\ Listing(j)' = Listing(j) /\ Assigning(j)' = Assigning(j)
             /\ Assignee(j)' = Assignee(j) /\ Profiling(j)' = Profiling(j)
             /\ j # i => Handled(j)' = Handled(j) /\ Data(j)' = Data(j) /\ net'[j] = net[j]
  BY <1>6 DEF Served, Listing, Assigning, Assignee, Profiling, Handled, Data
<1>9. ProfileOnce'
  BY <1>0, <1>1, <1>7, <1>8 DEF ProfileOnce
<1>10. \A j \in DOMAIN net' : DeskRequest(net'[j])
  <2>1. DeskRequest(net[i])
    BY <1>0
  <2>2. net'[i].op = net[i].op /\ net'[i].arg = net[i].arg /\ net'[i].status # "read"
    BY <1>6 DEF Served
  <2>3. DeskRequest(net'[i])
    BY <2>1, <2>2 DEF DeskRequest
  <2>4. QED
    BY <1>0, <1>7, <1>8, <2>3
<1>11. ~Listing(i)
  BY <1>2 DEF Listing, Writing
(* The role of a row that is not put back changes with an assignment only. *)
<1>12. ASSUME NEW v \in Users, v \notin undone'
       PROVE  \/ v \notin undone /\ users'[v].role = users[v].role
              \/ Assigning(i) /\ v = u
  <2>1. CASE v # u
    BY <1>1, <1>4, <1>12, <2>1
  <2>2. CASE v = u /\ ~Assigning(i)
    BY <1>1, <1>3, <1>4, <1>12, <2>2
  <2>3. QED
    BY <2>1, <2>2
<1>13. RolesLoaded'
  <2>1. \A k, j \in DOMAIN net' : Listing(k)' /\ Listing(j)' => k = j
    BY <1>0, <1>7, <1>8 DEF RolesLoaded
  <2>2. \A k \in DOMAIN net' : Listing(k)' => /\ \A v \in Users : table'[v] = "none"
                                              /\ \A j \in DOMAIN net' : ~Assigning(j)'
    BY <1>0, <1>1, <1>7, <1>8 DEF RolesLoaded
  <2>3. ASSUME NEW k \in DOMAIN net, Listing(k), Handled(k)'
        PROVE  /\ Data(k)' = [v \in Users |-> Data(k)'[v]]
               /\ \A v \in Users \ undone' : Data(k)'[v] = users'[v].role
    <3>1. k # i /\ ~Assigning(i)
      BY <1>0, <1>11, <2>3 DEF RolesLoaded
    <3>2. Handled(k) /\ Data(k)' = Data(k)
      BY <1>8, <2>3, <3>1
    <3>3. /\ Data(k) = [v \in Users |-> Data(k)[v]]
          /\ \A v \in Users \ undone : Data(k)[v] = users[v].role
      BY <1>0, <2>3, <3>2 DEF RolesLoaded
    <3>4. QED
      BY <1>12, <3>1, <3>2, <3>3
  <2>4. QED
    BY <1>7, <1>8, <2>1, <2>2, <2>3 DEF RolesLoaded
<1>14. RolesAssigned'
  <2>1. ASSUME NEW k \in DOMAIN net, NEW j \in DOMAIN net, Assigning(k), Assigning(j),
               Assignee(k) = Assignee(j), Assignee(k) \notin crossed
        PROVE  k = j
    BY <1>0, <2>1 DEF RolesAssigned
  <2>2. ASSUME NEW k \in DOMAIN net, Assigning(k), Handled(k)', Assignee(k) \notin crossed \cup undone'
        PROVE  Data(k)'.role = users'[Assignee(k)].role
    <3>1. CASE k = i
      <4>1. Data(i)' = users'[u]
        BY <1>6, <2>2, <3>1 DEF Handled, Data
      <4>2. QED
        BY <1>1, <3>1, <4>1
    <3>2. CASE k # i
      <4>1. PICK v : v = Assignee(k)
        OBVIOUS
      <4>2. v \in Users
        BY <1>0, <2>2, <4>1 DEF DeskRequest, Assigning, Assignee
      <4>3. ~(Assigning(i) /\ v = u)
        BY <1>1, <2>1, <2>2, <3>2, <4>1
      <4>4. v \notin undone /\ users'[v].role = users[v].role
        BY <1>12, <2>2, <4>1, <4>2, <4>3
      <4>5. Handled(k) /\ Data(k)' = Data(k)
        BY <1>8, <2>2, <3>2
      <4>6. Data(k).role = users[v].role
        BY <1>0, <2>2, <4>1, <4>4, <4>5 DEF RolesAssigned
      <4>7. QED
        BY <4>1, <4>4, <4>5, <4>6
    <3>3. QED
      BY <3>1, <3>2
  <2>3. QED
    BY <1>1, <1>7, <1>8, <2>1, <2>2 DEF RolesAssigned
<1>15. RolesShown'
  <2>1. ASSUME NEW v \in Users, table[v] # "none", ~failed, v \notin crossed \cup undone',
               \A k \in DOMAIN net : ~(Assigning(k) /\ Assignee(k) = v)
        PROVE  table[v] = users'[v].role
    <3>1. ~(Assigning(i) /\ v = u)
      BY <1>1, <2>1
    <3>2. v \notin undone /\ users'[v].role = users[v].role
      BY <1>12, <2>1, <3>1
    <3>3. QED
      BY <1>0, <2>1, <3>2 DEF RolesShown
  <2>2. QED
    BY <1>1, <1>7, <1>8, <2>1 DEF RolesShown
<1>16. QED
  BY <1>5, <1>6, <1>9, <1>10, <1>13, <1>14, <1>15 DEF RoleInv

(* What is left when a request has returned.                               *)
LEMMA DeskLeft ==
    ASSUME NEW i \in DOMAIN net, NEW f, Moves(net, net', DOMAIN net \ {i}, {}, f)
    PROVE  /\ \A j \in DOMAIN net' :
                 /\ f[j] \in DOMAIN net \ {i} /\ Same(net'[j], net[f[j]])
                 /\ Listing(j)' = Listing(f[j]) /\ Assigning(j)' = Assigning(f[j])
                 /\ Assignee(j)' = Assignee(f[j]) /\ Profiling(j)' = Profiling(f[j])
                 /\ Handled(j)' = Handled(f[j]) /\ Data(j)' = Data(f[j])
           /\ \A k \in DOMAIN net \ {i} : \E j \in DOMAIN net' : f[j] = k
           /\ \A j, k \in DOMAIN net' : f[j] = f[k] => j = k
<1>1. ASSUME NEW j \in DOMAIN net'
      PROVE  f[j] \in DOMAIN net \ {i} /\ Same(net'[j], net[f[j]])
  BY DEF Moves
<1>2. \A j \in DOMAIN net' :
                 /\ Listing(j)' = Listing(f[j]) /\ Assigning(j)' = Assigning(f[j])
                 /\ Assignee(j)' = Assignee(f[j]) /\ Profiling(j)' = Profiling(f[j])
                 /\ Handled(j)' = Handled(f[j]) /\ Data(j)' = Data(f[j])
  BY <1>1 DEF Same, Listing, Assigning, Assignee, Profiling, Handled, Data
<1>3. QED
  BY <1>1, <1>2 DEF Moves

(* The list of the users comes in.                                         *)
LEMMA RolesListed ==
    ASSUME RoleInv, open = "users", open' = open, NEW i \in DOMAIN net, UsersLoaded(i)
    PROVE  RoleInv'
<1>0. /\ IsNet(net) /\ \A j \in DOMAIN net : DeskRequest(net[j])
      /\ RolesLoaded /\ RolesAssigned /\ RolesShown /\ DeskRows /\ ProfileOnce
  BY DEF RoleInv
<1>1. /\ Listing(i) /\ ReturnLoad(i, <<>>)
      /\ table' = IF Handled(i) THEN Data(i) ELSE table
      /\ UNCHANGED <<users, editor, crossed, undone>>
  BY DEF UsersLoaded, Listing
<1>2. PICK f : IsNet(net') /\ Moves(net, net', DOMAIN net \ {i}, {}, f)
  BY <1>0, <1>1, ReturnLoadMoves
<1>3. ASSUME NEW j \in DOMAIN net'
      PROVE  /\ f[j] \in DOMAIN net \ {i} /\ Same(net'[j], net[f[j]])
             /\ Listing(j)' = Listing(f[j]) /\ Assigning(j)' = Assigning(f[j])
             /\ Profiling(j)' = Profiling(f[j])
  BY <1>2, DeskLeft
<1>4. \A j, k \in DOMAIN net' : f[j] = f[k] => j = k
  BY <1>2 DEF Moves
<1>5. \A j \in DOMAIN net' : DeskRequest(net'[j])
  BY <1>0, <1>3, SameDeskRequest
<1>6. ProfileOnce'
  BY <1>0, <1>1, <1>3, <1>4 DEF ProfileOnce
<1>7. \A j \in DOMAIN net' : ~Listing(j)' /\ ~Assigning(j)'
  BY <1>0, <1>1, <1>3 DEF RolesLoaded
<1>8. RolesLoaded' /\ RolesAssigned'
  BY <1>7 DEF RolesLoaded, RolesAssigned
<1>9. /\ table' = [u \in Users |-> table'[u]]
      /\ \A u \in Users \ undone : table'[u] # "none" => table'[u] = users[u].role
  <2>1. CASE Handled(i)
    BY <1>0, <1>1, <2>1 DEF RolesLoaded
  <2>2. CASE ~Handled(i)
    BY <1>0, <1>1, <2>2 DEF RolesLoaded, DeskRows
  <2>3. QED
    BY <2>1, <2>2
<1>10. RolesShown' /\ DeskRows'
  BY <1>0, <1>1, <1>9 DEF RolesShown, DeskRows
<1>11. QED
  BY <1>2, <1>5, <1>6, <1>8, <1>10 DEF RoleInv

(* The answer to an assignment is shown.                                   *)
LEMMA RolesAnswered ==
    ASSUME RoleInv, open = "users", open' = open, NEW i \in DOMAIN net, RoleAnswered(i)
    PROVE  RoleInv'
<1>0. /\ IsNet(net) /\ \A j \in DOMAIN net : DeskRequest(net[j])
      /\ RolesLoaded /\ RolesAssigned /\ RolesShown /\ DeskRows /\ ProfileOnce
  BY DEF RoleInv
<1>1. /\ Assigning(i) /\ Return(i, <<>>) /\ (Handled(i) \/ Failed(i))
      /\ table' = IF Handled(i) THEN [table EXCEPT ![Assignee(i)] = Data(i).role] ELSE table
      /\ failed' = (failed \/ Failed(i))
      /\ UNCHANGED <<users, editor, crossed, undone>>
  BY DEF RoleAnswered, Assigning, Assignee
<1>2. PICK f : IsNet(net') /\ Moves(net, net', DOMAIN net \ {i}, {}, f)
  BY <1>0, <1>1, ReturnMoves
<1>3. ASSUME NEW j \in DOMAIN net'
      PROVE  /\ f[j] \in DOMAIN net \ {i} /\ Same(net'[j], net[f[j]])
             /\ Listing(j)' = Listing(f[j]) /\ Assigning(j)' = Assigning(f[j])
             /\ Assignee(j)' = Assignee(f[j]) /\ Profiling(j)' = Profiling(f[j])
             /\ Handled(j)' = Handled(f[j]) /\ Data(j)' = Data(f[j])
  BY <1>2, DeskLeft
<1>4. /\ \A j, k \in DOMAIN net' : f[j] = f[k] => j = k
      /\ \A k \in DOMAIN net \ {i} : \E j \in DOMAIN net' : f[j] = k
  BY <1>2, DeskLeft
<1>5. \A j \in DOMAIN net' : DeskRequest(net'[j])
  BY <1>0, <1>3, SameDeskRequest
<1>6. ProfileOnce'
  BY <1>0, <1>1, <1>3, <1>4 DEF ProfileOnce
<1>7. RolesLoaded'
  <2>1. \A j \in DOMAIN net' : ~Listing(j)'
    BY <1>0, <1>1, <1>3 DEF RolesLoaded
  <2>2. QED
    BY <2>1 DEF RolesLoaded
<1>8. RolesAssigned'
  <2>1. ASSUME NEW k \in DOMAIN net', NEW j \in DOMAIN net', Assigning(k)', Assigning(j)',
               Assignee(k)' = Assignee(j)', Assignee(k)' \notin crossed
        PROVE  k = j
    <3>1. f[k] = f[j]
      BY <1>0, <1>3, <2>1 DEF RolesAssigned
    <3>2. QED
      BY <1>4, <3>1
  <2>2. ASSUME NEW k \in DOMAIN net', Assigning(k)', Handled(k)', Assignee(k)' \notin crossed \cup undone
        PROVE  Data(k)'.role = users[Assignee(k)'].role
    <3>1. /\ f[k] \in DOMAIN net /\ Assigning(f[k]) /\ Handled(f[k])
          /\ Data(k)' = Data(f[k]) /\ Assignee(k)' = Assignee(f[k])
      BY <1>3, <2>2
    <3>2. QED
      BY <1>0, <2>2, <3>1 DEF RolesAssigned
  <2>3. QED
    BY <1>1, <2>1, <2>2 DEF RolesAssigned
<1>9. table' = [u \in Users |-> table'[u]]
  BY <1>0, <1>1 DEF DeskRows
<1>10. ASSUME NEW u \in Users, table'[u] # "none", ~failed', u \notin crossed \cup undone,
              \A j \in DOMAIN net' : ~(Assigning(j)' /\ Assignee(j)' = u)
       PROVE  table'[u] = users[u].role
  <2>1. Handled(i) /\ table' = [table EXCEPT ![Assignee(i)] = Data(i).role] /\ ~failed
    BY <1>1, <1>10
  <2>2. CASE u = Assignee(i)
    <3>1. table'[u] = Data(i).role
      BY <1>0, <2>1, <2>2 DEF DeskRows
    <3>2. QED
      BY <1>0, <1>1, <1>10, <2>1, <2>2, <3>1 DEF RolesAssigned
  <2>3. CASE u # Assignee(i)
    <3>1. table'[u] = table[u]
      BY <1>0, <2>1, <2>3 DEF DeskRows
    <3>2. \A k \in DOMAIN net : ~(Assigning(k) /\ Assignee(k) = u)
      BY <1>3, <1>4, <1>10, <2>3
    <3>3. QED
      BY <1>0, <1>10, <2>1, <3>1, <3>2 DEF RolesShown
  <2>4. QED
    BY <2>2, <2>3
<1>11. RolesShown' /\ DeskRows'
  BY <1>0, <1>1, <1>9, <1>10 DEF RolesShown, DeskRows
<1>12. QED
  BY <1>2, <1>5, <1>6, <1>7, <1>8, <1>11 DEF RoleInv

(* A request of a form that is no longer mounted.                          *)
Unheard(q) == IF q.op \in {"save profile", "avatar"} THEN [q EXCEPT !.arg.mine = FALSE] ELSE q

LEMMA SavedUnheard ==
    ASSUME NEW a, NEW v, a = [user |-> a.user, mine |-> a.mine, bio |-> a.bio]
    PROVE  [a EXCEPT !.mine = v] = [user |-> a.user, mine |-> v, bio |-> a.bio]
OBVIOUS

LEMMA AvatarUnheard ==
    ASSUME NEW a, NEW v, a = [user |-> a.user, mine |-> a.mine]
    PROVE  [a EXCEPT !.mine = v] = [user |-> a.user, mine |-> v]
OBVIOUS

LEMMA ArgReplaced ==
    ASSUME NEW q, NEW b, q = [op |-> q.op, arg |-> q.arg, status |-> q.status, data |-> q.data, late |-> q.late]
    PROVE  [q EXCEPT !.arg = b] = [op |-> q.op, arg |-> b, status |-> q.status, data |-> q.data, late |-> q.late]
OBVIOUS

LEMMA UnheardRequest ==
    ASSUME NEW q, IsRequest(q), DeskRequest(q)
    PROVE  /\ IsRequest(Unheard(q)) /\ DeskRequest(Unheard(q)) /\ Unheard(q).op = q.op
           /\ Unheard(q).status = q.status /\ Unheard(q).data = q.data
           /\ q.op = "save profile" => Unheard(q).arg.bio = q.arg.bio
           /\ q.op \notin {"save profile", "avatar"} => Unheard(q) = q
<1>1. CASE q.op \in {"save profile", "avatar"}
  <2>1. PICK v : v = FALSE
    OBVIOUS
  <2>2. PICK a : a = q.arg
    OBVIOUS
  <2>3. PICK b : b = [a EXCEPT !.mine = v]
    OBVIOUS
  <2>4. Unheard(q) = [q EXCEPT !.arg = b]
    <3>1. Unheard(q) = [q EXCEPT !.arg.mine = FALSE]
      BY <1>1 DEF Unheard
    <3>2. [q EXCEPT !.arg.mine = FALSE] = [q EXCEPT !.arg = [q.arg EXCEPT !.mine = FALSE]]
      BY Zenon
    <3>3. QED
      BY ONLY <2>1, <2>2, <2>3, <3>1, <3>2, Zenon
  <2>5. q = [op |-> q.op, arg |-> q.arg, status |-> q.status, data |-> q.data, late |-> q.late]
    BY DEF IsRequest
  <2>6. Unheard(q) = [op |-> q.op, arg |-> b, status |-> q.status, data |-> q.data, late |-> q.late]
    BY ONLY <2>4, <2>5, ArgReplaced
  <2>9. /\ Unheard(q).op = q.op /\ Unheard(q).arg = b
        /\ Unheard(q).status = q.status /\ Unheard(q).data = q.data
        /\ IsRequest(Unheard(q))
    BY <2>6 DEF IsRequest
  <2>7. CASE q.op = "save profile"
    <3>1. a = [user |-> Owner, mine |-> a.mine, bio |-> a.bio]
      BY <2>2, <2>7 DEF DeskRequest
    <3>2. b = [user |-> Owner, mine |-> v, bio |-> a.bio]
      BY ONLY <2>3, <3>1, SavedUnheard
    <3>3. b = [user |-> Owner, mine |-> b.mine, bio |-> b.bio] /\ b.bio = a.bio
      BY ONLY <3>2
    <3>4. QED
      BY <1>1, <2>2, <2>9, <2>7, <3>3 DEF DeskRequest
  <2>8. CASE q.op = "avatar"
    <3>1. a = [user |-> Owner, mine |-> a.mine]
      BY <2>2, <2>8 DEF DeskRequest
    <3>2. b = [user |-> Owner, mine |-> v]
      BY ONLY <2>3, <3>1, AvatarUnheard
    <3>3. b = [user |-> Owner, mine |-> b.mine]
      BY ONLY <3>2
    <3>4. QED
      BY <1>1, <2>9, <2>8, <3>3 DEF DeskRequest
  <2>10. QED
    BY <1>1, <2>7, <2>8
<1>2. CASE q.op \notin {"save profile", "avatar"}
  BY <1>2 DEF Unheard
<1>3. QED
  BY <1>1, <1>2

(* The form is left: the load of the profile goes, assignments stay.       *)
LEMMA UnmountedNet ==
    ASSUME NEW n, IsNet(n), \A i \in DOMAIN n : DeskRequest(n[i]),
           \A i, j \in DOMAIN n : n[i].op = "profile" /\ n[j].op = "profile" => i = j
    PROVE  /\ IsNet(Unmounted(n))
           /\ \A j \in DOMAIN Unmounted(n) :
                 DeskRequest(Unmounted(n)[j]) /\ Unmounted(n)[j].op # "profile"
           /\ \E f : /\ \A j, k \in DOMAIN Unmounted(n) : f[j] = f[k] => j = k
                     /\ \A j \in DOMAIN Unmounted(n) :
                           Unmounted(n)[j].op \in {"users", "role"} =>
                              f[j] \in DOMAIN n /\ Same(Unmounted(n)[j], n[f[j]])
                     /\ \A k \in DOMAIN n : n[k].op = "role" =>
                           \E j \in DOMAIN Unmounted(n) : f[j] = k /\ Same(Unmounted(n)[j], n[k])
                     /\ \A j \in DOMAIN Unmounted(n) : f[j] \in DOMAIN n
<1> DEFINE kept == Without(n, "profile")
           m == [i \in DOMAIN kept |-> Unheard(kept[i])]
           A == {k \in DOMAIN n : n[k].op # "profile"}
<1>1. PICK f : IsNet(kept) /\ Moves(n, kept, A, {}, f)
  BY WithoutMoves
<1>2. Unmounted(n) = m
  BY DEF Unmounted, Unheard
<1>3. \A i \in DOMAIN kept : f[i] \in A /\ Same(kept[i], n[f[i]])
  BY <1>1 DEF Moves
<1> HIDE DEF kept
<1>4. \A i \in DOMAIN kept : IsRequest(kept[i]) /\ DeskRequest(kept[i])
  BY <1>1, <1>3, NetElements, SameDeskRequest
<1>5. ASSUME NEW i \in DOMAIN kept
      PROVE  /\ IsRequest(Unheard(kept[i])) /\ DeskRequest(Unheard(kept[i]))
             /\ Unheard(kept[i]).op = n[f[i]].op /\ Unheard(kept[i]).op # "profile"
             /\ Unheard(kept[i]).op \in {"users", "role"} => Unheard(kept[i]) = kept[i]
  <2>1. kept[i].op = n[f[i]].op /\ kept[i].op # "profile"
    BY <1>3 DEF Same
  <2>2. QED
    BY <1>4, <2>1, UnheardRequest
<1>6. Len(kept) \in Nat /\ DOMAIN kept = 1..Len(kept)
  BY <1>1, NetPlaces
<1> DEFINE S == {Unheard(kept[i]) : i \in DOMAIN kept}
<1>7. m \in Seq(S) /\ \A r \in S : IsRequest(r)
  <2> HIDE DEF Unheard
  <2>1. m \in [1..Len(kept) -> S]
    BY <1>6
  <2>2. m \in Seq(S)
    BY <1>6, <2>1
  <2>3. QED
    BY <1>5, <2>2
<1>8. DOMAIN m = DOMAIN kept /\ \A i \in DOMAIN kept : m[i] = Unheard(kept[i])
  OBVIOUS
<1> HIDE DEF m, S
<1>9. IsNet(m)
  BY <1>7 DEF IsNet
<1>10. \A j \in DOMAIN m : DeskRequest(m[j]) /\ m[j].op # "profile"
  BY <1>5, <1>8
<1>11. \A j, k \in DOMAIN m : f[j] = f[k] => j = k
  BY <1>1, <1>8 DEF Moves
<1>12. \A j \in DOMAIN m : m[j].op \in {"users", "role"} => f[j] \in DOMAIN n /\ Same(m[j], n[f[j]])
  BY <1>3, <1>5, <1>8
<1>13. ASSUME NEW k \in DOMAIN n, n[k].op = "role"
       PROVE  \E j \in DOMAIN m : f[j] = k /\ Same(m[j], n[k])
  <2>1. PICK j \in DOMAIN kept : f[j] = k
    <3>1. k \in A
      BY <1>13
    <3>2. QED
      BY <1>1, <3>1 DEF Moves
  <2>2. m[j].op = "role"
    BY <1>5, <1>8, <1>13, <2>1
  <2>3. QED
    BY <1>8, <1>12, <2>1, <2>2
<1>14. \A j \in DOMAIN m : f[j] \in DOMAIN n
  BY <1>3, <1>8
<1>15. QED
  BY <1>2, <1>9, <1>10, <1>11, <1>12, <1>13, <1>14

(* A role is assigned: nobody else's select is touched, and the list is in. *)
LEMMA RolesChanged ==
    ASSUME RoleInv, open = "users", open' = open, NEW u \in Users, NEW role, ChangeRole(u, role)
    PROVE  RoleInv'
<1>0. /\ IsNet(net) /\ \A j \in DOMAIN net : DeskRequest(net[j])
      /\ RolesLoaded /\ RolesAssigned /\ RolesShown /\ DeskRows /\ ProfileOnce
  BY DEF RoleInv
<1>1. PICK q : /\ IsRequest(q) /\ q.op = "role" /\ q.arg.user = u /\ q.status = "sent" /\ Send(q)
  <2>1. PICK q : q = Request("role", [user |-> u, role |-> role])
    OBVIOUS
  <2>2. IsRequest(q) /\ q.op = "role" /\ q.arg.user = u /\ q.status = "sent"
    BY <2>1, NewRequest DEF Request
  <2>3. Send(q)
    BY <2>1 DEF ChangeRole, Change
  <2>4. QED
    BY <2>2, <2>3
<1>2. /\ table[u] # "none" /\ UNCHANGED <<users, table, failed, editor, undone>>
      /\ RoleRequests(u) = {} => crossed' = crossed \ {u}
      /\ RoleRequests(u) # {} => crossed' = crossed \cup {u}
  BY DEF ChangeRole
<1>3. DeskRequest(q)
  BY <1>1 DEF DeskRequest
<1>4. PICK R, f : R = {q} /\ IsNet(net') /\ Moves(net, net', DOMAIN net, R, f)
  BY <1>0, <1>1, SendMoves
<1>5. \A k \in DOMAIN net : ~Listing(k)
  BY <1>0, <1>2 DEF RolesLoaded
<1>6. ASSUME NEW j \in DOMAIN net'
      PROVE  \/ /\ f[j] \in DOMAIN net /\ Same(net'[j], net[f[j]])
                /\ Listing(j)' = Listing(f[j]) /\ Assigning(j)' = Assigning(f[j])
                /\ Assignee(j)' = Assignee(f[j]) /\ Profiling(j)' = Profiling(f[j])
                /\ Handled(j)' = Handled(f[j]) /\ Data(j)' = Data(f[j])
             \/ /\ f[j] \notin DOMAIN net /\ f[j] = Len(net) + 1 /\ net'[j] = q
                /\ Assigning(j)' /\ Assignee(j)' = u /\ ~Listing(j)' /\ ~Profiling(j)' /\ ~Handled(j)'
  <2>1. CASE f[j] \in DOMAIN net
    <3>1. Same(net'[j], net[f[j]])
      BY <1>4, <2>1 DEF Moves
    <3>2. QED
      BY <2>1, <3>1 DEF Same, Listing, Assigning, Assignee, Profiling, Handled, Data
  <2>2. CASE f[j] \notin DOMAIN net
    <3>1. net'[j] = q /\ f[j] = Len(net) + 1
      BY <1>4, <2>2 DEF Moves
    <3>2. QED
      BY <1>1, <2>2, <3>1 DEF Listing, Assigning, Assignee, Profiling, Handled
  <2>3. QED
    BY <2>1, <2>2
<1>7. /\ \A j, k \in DOMAIN net' : f[j] = f[k] => j = k
      /\ \A k \in DOMAIN net : \E j \in DOMAIN net' : f[j] = k
      /\ \E j \in DOMAIN net' : f[j] \notin DOMAIN net
  BY <1>4 DEF Moves
<1>8. RoleRequests(u) = {} => \A k \in DOMAIN net : ~(Assigning(k) /\ Assignee(k) = u)
  BY DEF RoleRequests, InFlight, Assigning, Assignee
<1>9. u \notin crossed' => \A k \in DOMAIN net : ~(Assigning(k) /\ Assignee(k) = u)
  BY <1>2, <1>8
<1>10. \A v : v # u => (v \in crossed' <=> v \in crossed)
  BY <1>2
<1>11. \A j \in DOMAIN net' : DeskRequest(net'[j])
  BY <1>0, <1>3, <1>6, SameDeskRequest
<1>12. ProfileOnce'
  BY <1>0, <1>2, <1>6, <1>7 DEF ProfileOnce
<1>13. RolesLoaded'
  <2>1. \A j \in DOMAIN net' : ~Listing(j)'
    BY <1>5, <1>6
  <2>2. QED
    BY <2>1 DEF RolesLoaded
<1>14. RolesAssigned'
  <2>1. ASSUME NEW k \in DOMAIN net', NEW j \in DOMAIN net', Assigning(k)', Assigning(j)',
               Assignee(k)' = Assignee(j)', Assignee(k)' \notin crossed'
        PROVE  k = j
    <3>1. CASE Assignee(k)' = u
      <4>1. f[k] = Len(net) + 1 /\ f[j] = Len(net) + 1
        BY <1>6, <1>9, <2>1, <3>1
      <4>2. QED
        BY <1>7, <4>1
    <3>2. CASE Assignee(k)' # u
      <4>1. /\ f[k] \in DOMAIN net /\ Assigning(f[k]) /\ Assignee(f[k]) \notin crossed
            /\ f[j] \in DOMAIN net /\ Assigning(f[j]) /\ Assignee(f[k]) = Assignee(f[j])
        BY <1>6, <1>10, <2>1, <3>2
      <4>2. QED
        BY <1>0, <1>7, <4>1 DEF RolesAssigned
    <3>3. QED
      BY <3>1, <3>2
  <2>2. ASSUME NEW k \in DOMAIN net', Assigning(k)', Handled(k)', Assignee(k)' \notin crossed' \cup undone
        PROVE  Data(k)'.role = users[Assignee(k)'].role
    <3>1. /\ f[k] \in DOMAIN net /\ Assigning(f[k]) /\ Handled(f[k])
          /\ Data(k)' = Data(f[k]) /\ Assignee(k)' = Assignee(f[k])
      BY <1>6, <2>2
    <3>2. Assignee(f[k]) # u
      BY <1>9, <2>2, <3>1
    <3>3. Assignee(f[k]) \notin crossed \cup undone
      BY <1>10, <2>2, <3>1, <3>2
    <3>4. QED
      BY <1>0, <3>1, <3>3 DEF RolesAssigned
  <2>3. QED
    BY <1>2, <2>1, <2>2 DEF RolesAssigned
<1>15. RolesShown'
  <2>1. ASSUME NEW v \in Users, table[v] # "none", ~failed, v \notin crossed' \cup undone,
               \A j \in DOMAIN net' : ~(Assigning(j)' /\ Assignee(j)' = v)
        PROVE  table[v] = users[v].role
    <3>1. v # u
      BY <1>6, <1>7, <2>1
    <3>2. v \notin crossed
      BY <1>10, <2>1, <3>1
    <3>3. \A k \in DOMAIN net : ~(Assigning(k) /\ Assignee(k) = v)
      BY <1>6, <1>7, <2>1
    <3>4. QED
      BY <1>0, <2>1, <3>2, <3>3 DEF RolesShown
  <2>2. QED
    BY <1>2, <2>1 DEF RolesShown
<1>16. DeskRows'
  BY <1>0, <1>2 DEF DeskRows
<1>17. QED
  BY <1>4, <1>11, <1>12, <1>13, <1>14, <1>15, <1>16 DEF RoleInv

LEMMA SavedFields ==
    ASSUME NEW a, NEW u, NEW v, NEW b, a = [user |-> u, mine |-> v, bio |-> b]
    PROVE  a = [user |-> u, mine |-> a.mine, bio |-> a.bio]
OBVIOUS

(* The profile page asks for the profile, saves it or sends an avatar.     *)
LEMMA ProfileAsked ==
    ASSUME RoleInv, open = "users", open' = open, SaveProfile \/ ChooseAvatar \/ ReopenProfile
    PROVE  RoleInv'
<1>0. IsNet(net) /\ ProfileOnce
  BY DEF RoleInv
<1>1. UNCHANGED <<users, table, failed, crossed, undone>>
  BY DEF SaveProfile, ChooseAvatar, ReopenProfile
<1>2. PICK q : /\ IsRequest(q) /\ DeskRequest(q) /\ q.op \notin {"users", "role"} /\ Send(q)
               /\ \/ q.op # "profile" /\ editor'.open = editor.open
                  \/ ~editor.open /\ editor'.open
  <2>1. CASE SaveProfile
    <3>1. PICK v, b : v = TRUE /\ b = editor.form
      OBVIOUS
    <3>2. PICK q : q = Request("save profile", [user |-> Owner, mine |-> v, bio |-> b])
      OBVIOUS
    <3>3. IsRequest(q) /\ q.op = "save profile" /\ q.status = "sent"
          /\ q.arg = [user |-> Owner, mine |-> v, bio |-> b]
      BY <3>2, NewRequest DEF Request
    <3>4. q.arg = [user |-> Owner, mine |-> q.arg.mine, bio |-> q.arg.bio]
      BY ONLY <3>3, SavedFields
    <3>5. Send(q)
      BY <2>1, <3>1, <3>2 DEF SaveProfile, Change
    <3>9. editor' = [editor EXCEPT !.saving = TRUE]
      BY <2>1 DEF SaveProfile
    <3>6. editor'.open = editor.open
      BY ONLY <3>9
    <3>7. DeskRequest(q)
      BY <3>3, <3>4 DEF DeskRequest
    <3>8. QED
      BY <3>3, <3>5, <3>6, <3>7
  <2>2. CASE ChooseAvatar
    <3>1. PICK q : q = Request("avatar", [user |-> Owner, mine |-> TRUE])
      OBVIOUS
    <3>2. IsRequest(q) /\ q.op = "avatar" /\ q.status = "sent"
          /\ q.arg = [user |-> Owner, mine |-> TRUE]
      BY <3>1, NewRequest DEF Request
    <3>3. q.arg = [user |-> Owner, mine |-> q.arg.mine]
      BY ONLY <3>2
    <3>4. Send(q) /\ editor' = [editor EXCEPT !.uploading = TRUE]
      BY <2>2, <3>1 DEF ChooseAvatar, Change
    <3>5. DeskRequest(q)
      BY <3>2, <3>3 DEF DeskRequest
    <3>6. QED
      BY <3>2, <3>4, <3>5
  <2>3. CASE ReopenProfile
    <3>1. PICK q : q = Request("profile", Owner)
      OBVIOUS
    <3>2. IsRequest(q) /\ q.op = "profile" /\ q.status = "sent"
      BY <3>1, NewRequest DEF Request
    <3>3. Send(q) /\ ~editor.open /\ editor'.open
      BY <2>3, <3>1 DEF ReopenProfile, Change, Mounted
    <3>4. QED
      BY <3>2, <3>3 DEF DeskRequest
  <2>4. QED
    BY <2>1, <2>2, <2>3
<1>3. PICK R, f : R = {q} /\ IsNet(net') /\ Moves(net, net', DOMAIN net, R, f)
  BY <1>0, <1>2, SendMoves
<1>4. ASSUME NEW j \in DOMAIN net', Profiling(j)'
      PROVE  \/ f[j] \in DOMAIN net /\ Profiling(f[j])
             \/ f[j] = Len(net) + 1 /\ q.op = "profile"
  BY <1>3, <1>4 DEF Moves, Same, Profiling
<1>5. ProfileOnce'
  <2>1. \A j, k \in DOMAIN net' : f[j] = f[k] => j = k
    BY <1>3 DEF Moves
  <2>2. q.op = "profile" => \A k \in DOMAIN net : ~Profiling(k)
    BY <1>0, <1>2 DEF ProfileOnce
  <2>3. \A j, k \in DOMAIN net' : Profiling(j)' /\ Profiling(k)' => j = k
    BY <1>0, <1>4, <2>1, <2>2 DEF ProfileOnce
  <2>4. ~editor'.open => \A j \in DOMAIN net' : ~Profiling(j)'
    BY <1>0, <1>2, <1>4 DEF ProfileOnce
  <2>5. QED
    BY <2>3, <2>4 DEF ProfileOnce
<1>6. \A k \in DOMAIN net \ DOMAIN net : ~Assigning(k)
  OBVIOUS
<1>7. QED
  BY <1>1, <1>2, <1>3, <1>5, <1>6, RolesMove

(* The answer to a request of the profile page, which stays as it is.      *)
LEMMA ProfileReturned ==
    ASSUME RoleInv, open = "users", open' = open, UNCHANGED <<users, table, failed, crossed, undone>>,
           NEW i \in DOMAIN net, ~Assigning(i), editor'.open = editor.open,
           Return(i, <<>>) \/ ReturnLoad(i, <<>>)
    PROVE  RoleInv'
<1>0. IsNet(net) /\ ProfileOnce
  BY DEF RoleInv
<1>1. PICK R, f : R = {} /\ IsNet(net') /\ Moves(net, net', DOMAIN net \ {i}, R, f)
  BY <1>0, ReturnMoves, ReturnLoadMoves
<1>2. ASSUME NEW j \in DOMAIN net', Profiling(j)'
      PROVE  f[j] \in DOMAIN net /\ Profiling(f[j])
  BY <1>1, <1>2 DEF Moves, Same, Profiling
<1>3. \A j, k \in DOMAIN net' : f[j] = f[k] => j = k
  BY <1>1 DEF Moves
<1>4. ProfileOnce'
  BY <1>0, <1>2, <1>3 DEF ProfileOnce
<1>5. \A k \in DOMAIN net \ (DOMAIN net \ {i}) : ~Assigning(k)
  OBVIOUS
<1>6. \A q \in R : DeskRequest(q) /\ q.op \notin {"users", "role"}
  BY <1>1
<1>7. QED
  BY <1>1, <1>4, <1>5, <1>6, RolesMove

(* The profile page is left; n is what was on its way then.                *)
LEMMA ProfileLeft ==
    ASSUME RoleInv, open = "users", open' = open, UNCHANGED <<users, table, failed, crossed, undone>>,
           NEW n, IsNet(n), NEW A, A \subseteq DOMAIN net, NEW g, Moves(net, n, A, {}, g),
           \A k \in DOMAIN net \ A : ~Assigning(k),
           net' = Unmounted(n)
    PROVE  RoleInv'
<1>0. IsNet(net) /\ ProfileOnce /\ \A k \in DOMAIN net : DeskRequest(net[k])
  BY DEF RoleInv
<1>1. \A j \in DOMAIN n : g[j] \in A /\ Same(n[j], net[g[j]])
  BY DEF Moves
<1>2. \A j, k \in DOMAIN n : g[j] = g[k] => j = k
  BY DEF Moves
<1>3. \A j \in DOMAIN n : DeskRequest(n[j])
  BY <1>0, <1>1, SameDeskRequest
<1>4. \A j, k \in DOMAIN n : n[j].op = "profile" /\ n[k].op = "profile" => j = k
  BY <1>0, <1>1, <1>2 DEF ProfileOnce, Profiling, Same
<1>5. PICK f : /\ \A j, k \in DOMAIN net' : f[j] = f[k] => j = k
               /\ \A j \in DOMAIN net' :
                     net'[j].op \in {"users", "role"} =>
                        f[j] \in DOMAIN n /\ Same(net'[j], n[f[j]])
               /\ \A k \in DOMAIN n : n[k].op = "role" =>
                     \E j \in DOMAIN net' : f[j] = k /\ Same(net'[j], n[k])
               /\ \A j \in DOMAIN net' : f[j] \in DOMAIN n
  BY <1>3, <1>4, UnmountedNet
<1>6. /\ IsNet(net')
      /\ \A j \in DOMAIN net' : DeskRequest(net'[j]) /\ net'[j].op # "profile"
  BY <1>3, <1>4, UnmountedNet
<1>7. ProfileOnce'
  BY <1>6 DEF ProfileOnce, Profiling
<1> DEFINE h == [j \in DOMAIN net' |-> g[f[j]]]
<1>8. \A j \in DOMAIN net' : h[j] = g[f[j]]
  OBVIOUS
<1> HIDE DEF h
<1>9. \A j, k \in DOMAIN net' : h[j] = h[k] => j = k
  BY <1>2, <1>5, <1>8
<1>10. ASSUME NEW j \in DOMAIN net', net'[j].op \in {"users", "role"}
       PROVE  h[j] \in DOMAIN net /\ Same(net'[j], net[h[j]])
  <2>1. f[j] \in DOMAIN n /\ Same(net'[j], n[f[j]])
    BY <1>5, <1>10
  <2>2. g[f[j]] \in DOMAIN net /\ Same(n[f[j]], net[g[f[j]]])
    BY <1>1, <2>1
  <2>3. QED
    BY <1>8, <2>1, <2>2 DEF Same
<1>11. ASSUME NEW k \in DOMAIN net, Assigning(k)
       PROVE  \E j \in DOMAIN net' : h[j] = k /\ Same(net'[j], net[k])
  <2>1. k \in A
    BY <1>11
  <2>2. PICK l \in DOMAIN n : g[l] = k
    BY <2>1 DEF Moves
  <2>3. Same(n[l], net[k])
    BY <1>1, <2>2
  <2>4. n[l].op = "role"
    BY <1>11, <2>3 DEF Same, Assigning
  <2>5. PICK j \in DOMAIN net' : f[j] = l /\ Same(net'[j], n[l])
    BY <1>5, <2>4
  <2>6. h[j] = k /\ Same(net'[j], net[k])
    BY <1>8, <2>2, <2>3, <2>5 DEF Same
  <2>7. QED
    BY <2>6
<1>12. QED
  BY <1>6, <1>7, <1>9, <1>10, <1>11, RolesUntouched

LEMMA DeskAnswers ==
    ASSUME RoleInv, open = "users", open' = open, NEW i \in DOMAIN net,
           ProfileLoaded(i) \/ ProfileSaved(i) \/ AvatarAnswered(i)
    PROVE  RoleInv'
<1>0. IsNet(net)
  BY DEF RoleInv
<1>1. UNCHANGED <<users, table, failed, crossed, undone>> /\ ~Assigning(i)
  BY DEF ProfileLoaded, ProfileSaved, AvatarAnswered, Assigning
<1>2. CASE ProfileLoaded(i) \/ AvatarAnswered(i) \/ (ProfileSaved(i) /\ ~Handled(i))
  <2>1. Return(i, <<>>) \/ ReturnLoad(i, <<>>)
    BY <1>2 DEF ProfileLoaded, ProfileSaved, AvatarAnswered
  <2>2. editor'.open = editor.open
    <3>1. CASE ProfileLoaded(i)
      <4>1. editor' = [editor EXCEPT !.loading = FALSE, !.form = IF Handled(i) THEN Data(i) ELSE @]
        BY <3>1 DEF ProfileLoaded
      <4>2. QED
        BY ONLY <4>1
    <3>2. CASE ProfileSaved(i) /\ ~Handled(i)
      <4>1. editor' = [editor EXCEPT !.saving = @ /\ ~net[i].arg.mine]
        BY <3>2 DEF ProfileSaved
      <4>2. QED
        BY ONLY <4>1
    <3>3. CASE AvatarAnswered(i)
      <4>1. editor' = [editor EXCEPT !.uploading = @ /\ ~net[i].arg.mine]
        BY <3>3 DEF AvatarAnswered
      <4>2. QED
        BY ONLY <4>1
    <3>4. QED
      BY <1>2, <3>1, <3>2, <3>3
  <2>3. QED
    BY <1>1, <2>1, <2>2, ProfileReturned
<1>3. CASE ProfileSaved(i) /\ Handled(i)
  <2> DEFINE n == RemoveAt(net, i)
  <2>1. net' = Unmounted(n)
    BY <1>3 DEF ProfileSaved
  <2>2. n \o <<>> = n
    <3>1. net \in Seq(Range(net))
      BY <1>0, NetElements
    <3>2. n \in Seq(Range(net))
      BY <3>1, PlacesLeft
    <3>3. QED
      BY <3>2, ConcatEmptySeq
  <2>3. PICK R, g : R = {} /\ IsNet(n) /\ Moves(net, n, DOMAIN net \ {i}, R, g)
    <3>1. /\ IsNet(n \o <<>>)
          /\ \E g : Moves(net, n \o <<>>, DOMAIN net \ {i}, {}, g)
      BY <1>0, RestMoves
    <3>2. QED
      BY <2>2, <3>1
  <2>4. \A k \in DOMAIN net \ (DOMAIN net \ {i}) : ~Assigning(k)
    BY <1>1
  <2>5. DOMAIN net \ {i} \subseteq DOMAIN net
    OBVIOUS
  <2> HIDE DEF n
  <2>6. QED
    BY <1>1, <2>1, <2>3, <2>4, <2>5, ProfileLeft
<1>4. QED
  BY <1>2, <1>3

LEMMA DeskHandles ==
    ASSUME RoleInv, open = "users", open' = open, NEW i \in DOMAIN net,
           DeskRead(i) \/ ReadRow(i) \/ DeskFails(i)
    PROVE  RoleInv'
<1>0. IsNet(net) /\ DeskRows /\ DeskRequest(net[i])
  BY DEF RoleInv
<1>1. UNCHANGED deskPage
  BY DEF DeskRead, ReadRow, DeskFails
<1>2. CASE DeskRead(i)
  <2>1. PICK d : /\ Answer(i, d) /\ net[i].op \in {"users", "profile"}
                 /\ net[i].op = "users" => d = [u \in Users |-> users[u].role]
    BY <1>2 DEF DeskRead
  <2>2. /\ IsNet(net') /\ Served(net, net', i)
        /\ net'[i].status = "ok" /\ net'[i].data[1] = d
    BY <1>0, <2>1, AnswerServes
  <2>3. ~Assigning(i) /\ (Listing(i) => Data(i)' = [u \in Users |-> users[u].role])
    BY <2>1, <2>2 DEF Assigning, Listing, Data
  <2>4. DeskRequest(net'[i])
    BY <2>1, <2>2 DEF DeskRequest, Served
  <2>5. QED
    BY <1>1, <2>2, <2>3, <2>4, RolesServed
<1>3. CASE ReadRow(i)
  <2>1. PICK d : /\ Read(i, d) /\ d = users[net[i].arg.user] /\ net[i].op \in Writing
    BY <1>3 DEF ReadRow, Writing
  <2>2. /\ IsNet(net') /\ Served(net, net', i)
        /\ net'[i].status = "read" /\ net'[i].data[1] = d
    BY <1>0, <2>1, ReadServes
  <2>3. net[i].arg.user \in Users
    <3>1. CASE net[i].op = "role"
      BY <1>0, <3>1 DEF DeskRequest
    <3>2. CASE net[i].op = "save profile"
      <4>1. net[i].arg = [user |-> Owner, mine |-> net[i].arg.mine, bio |-> net[i].arg.bio]
        BY <1>0, <3>2 DEF DeskRequest
      <4>2. net[i].arg.user = Owner
        BY <4>1
      <4>3. QED
        BY <4>2, UserDeskAssumption
    <3>3. CASE net[i].op = "avatar"
      <4>1. net[i].arg = [user |-> Owner, mine |-> net[i].arg.mine]
        BY <1>0, <3>3 DEF DeskRequest
      <4>2. net[i].arg.user = Owner
        BY <4>1
      <4>3. QED
        BY <4>2, UserDeskAssumption
    <3>4. QED
      BY <2>1, <3>1, <3>2, <3>3 DEF Writing
  <2>4. IsRow(d)
    BY <1>0, <2>1, <2>3 DEF DeskRows
  <2>5. DeskRequest(net'[i])
    BY <1>0, <2>1, <2>2, <2>4 DEF DeskRequest, Served
  <2>6. ~Handled(i)'
    BY <2>2 DEF Handled
  <2>7. QED
    BY <1>1, <2>2, <2>5, <2>6, RolesServed
<1>4. CASE DeskFails(i)
  <2>1. /\ IsNet(net') /\ Served(net, net', i) /\ net'[i].status = "error"
    BY <1>0, <1>4, FailServes DEF DeskFails
  <2>2. DeskRequest(net'[i])
    BY <1>0, <2>1 DEF DeskRequest, Served
  <2>3. ~Handled(i)'
    BY <2>1 DEF Handled
  <2>4. QED
    BY <1>1, <2>1, <2>2, <2>3, RolesServed
<1>5. QED
  BY <1>2, <1>3, <1>4

LEMMA RolesStay ==
    ASSUME RoleInv, UNCHANGED <<open, net, users, table, failed, crossed, undone>>,
           editor'.open = editor.open
    PROVE  RoleInv'
<1>1. DeskRows' <=> DeskRows
  BY DEF DeskRows
<1>2. /\ RolesLoaded' <=> RolesLoaded
      /\ RolesAssigned' <=> RolesAssigned
      /\ RolesShown' <=> RolesShown
      /\ ProfileOnce' <=> ProfileOnce
  BY DEF RolesLoaded, RolesAssigned, RolesShown, ProfileOnce, Listing, Assigning, Assignee,
     Profiling, Handled, Data
<1>3. QED
  BY <1>1, <1>2 DEF RoleInv

LEMMA RoleStepKeeps ==
    ASSUME RoleInv, open = "users", open' = open, DeskNext
    PROVE  RoleInv'
<1>1. CASE TypeBio
  BY <1>1, RolesStay DEF TypeBio
<1>2. CASE LeaveProfile
  <2>1. net' = Unmounted(net) /\ UNCHANGED <<users, table, failed, crossed, undone>> /\ IsNet(net)
    BY <1>2 DEF LeaveProfile, RoleInv
  <2>2. PICK R, g : R = {} /\ Moves(net, net, DOMAIN net, R, g)
    <3> DEFINE h == [j \in DOMAIN net |-> j]
    <3>1. h \in [DOMAIN net -> DOMAIN net \cup {Len(net) + 1}] /\ \A j \in DOMAIN net : h[j] = j
      OBVIOUS
    <3> HIDE DEF h
    <3>2. Moves(net, net, DOMAIN net, {}, h)
      BY <3>1 DEF Moves, Same
    <3>3. QED
      BY <3>2
  <2>3. DOMAIN net \subseteq DOMAIN net /\ \A k \in DOMAIN net \ DOMAIN net : ~Assigning(k)
    OBVIOUS
  <2>4. QED
    BY <2>1, <2>2, <2>3, ProfileLeft
<1>3. QED
  BY <1>1, <1>2, ProfileAsked, RolesChanged, RolesListed, RolesAnswered, DeskAnswers, DeskHandles,
     RolesWritten DEF DeskNext

LEMMA RolesInductive == Spec => []RoleInv
<1>1. Init => RoleInv
  <2> SUFFICES ASSUME Init PROVE RoleInv
    OBVIOUS
  <2>1. /\ users = [u \in Users |-> [role |-> "user", bio |-> "old"]]
        /\ table = [u \in Users |-> "none"] /\ editor.open
    BY DEF Init, DeskInit, Mounted
  <2>2. DeskRows /\ \A u \in Users : table[u] = "none"
    BY <2>1 DEF DeskRows, IsRow
  <2>3. CASE open = "users"
    <3> DEFINE q == Request("users", nobody)
               x == Request("profile", Owner)
               T == {q, x}
    <3>1. net = <<q, x>>
      BY <2>3 DEF Init, DeskMounted
    <3>2. /\ IsRequest(q) /\ q.op = "users" /\ q.status = "sent"
          /\ IsRequest(x) /\ x.op = "profile" /\ x.status = "sent"
      BY NewRequest DEF Request
    <3> HIDE DEF q, x
    <3>3. \A r \in T : IsRequest(r) /\ r.op \in {"users", "profile"} /\ r.status = "sent"
      BY <3>2
    <3>4. /\ net \in Seq(T) /\ DOMAIN net = {1, 2} /\ net[1] = q /\ net[2] = x
          /\ \A k \in DOMAIN net : net[k] \in T
      BY <3>1
    <3> HIDE DEF T
    <3>5. IsNet(net)
      BY <3>3, <3>4 DEF IsNet
    <3>6. \A k \in DOMAIN net : DeskRequest(net[k]) /\ ~Assigning(k) /\ ~Handled(k)
      BY <3>3, <3>4 DEF DeskRequest, Assigning, Handled
    <3>7. /\ \A k \in DOMAIN net : Listing(k) => k = 1
          /\ \A k \in DOMAIN net : Profiling(k) => k = 2
      BY <3>2, <3>4 DEF Listing, Profiling
    <3>8. ProfileOnce /\ RolesLoaded /\ RolesAssigned /\ RolesShown
      BY <2>1, <2>2, <3>6, <3>7 DEF ProfileOnce, RolesLoaded, RolesAssigned, RolesShown
    <3>9. QED
      BY <2>2, <3>5, <3>6, <3>8 DEF RoleInv
  <2>4. CASE open # "users"
    BY <2>2, <2>4 DEF RoleInv
  <2>5. QED
    BY <2>3, <2>4
<1>2. RoleInv /\ [Next]_vars => RoleInv'
  <2> SUFFICES ASSUME RoleInv, [Next]_vars PROVE RoleInv'
    OBVIOUS
  <2>1. CASE DeskStep
    BY <2>1, RoleStepKeeps DEF DeskStep
  <2>2. CASE SubmissionsStep \/ ApprovalStep \/ ContestStep \/ ProblemsStep \/ ConsoleStep
    <3>1. open # "users" /\ UNCHANGED <<open, users, table>>
      BY <2>2 DEF SubmissionsStep, ApprovalStep, ContestStep, ProblemsStep, ConsoleStep, deskPage
    <3>2. DeskRows'
      BY <3>1 DEF RoleInv, DeskRows
    <3>3. QED
      BY <3>1, <3>2 DEF RoleInv
  <2>3. CASE UNCHANGED vars
    BY <2>3, RolesStay DEF vars, deskPage
  <2>4. QED
    BY <2>1, <2>2, <2>3 DEF Next
<1>3. QED
  BY <1>1, <1>2, PTL DEF Spec

(* The table shows of everyone the role the user has, unless an assignment *)
(* to that user is on its way, two were at once, or a profile that was     *)
(* read before the assignment has put the old role back.                   *)
THEOREM TableShowsTheRoles == Spec => []RoleTableIsTrue
<1>1. RoleInv => RoleTableIsTrue
  <2> SUFFICES ASSUME RoleInv, NEW u \in Users, table[u] # "none", ~failed,
                      RoleRequests(u) = {}, u \notin crossed \cup undone
               PROVE  table[u] = users[u].role
    BY DEF RoleTableIsTrue
  <2>1. \A i \in DOMAIN net : ~(Assigning(i) /\ Assignee(i) = u)
    BY DEF RoleRequests, InFlight, Assigning, Assignee
  <2>2. open = "users"
    BY DEF RoleInv
  <2>3. QED
    BY <2>1, <2>2 DEF RoleInv, RolesShown
<1>2. QED
  BY RolesInductive, <1>1, PTL

(***************************************************************************)
(* How many requests are in flight.                                        *)
(***************************************************************************)

LEMMA SameInterval ==
    ASSUME NEW a \in Nat, NEW b \in Nat, 1..a = 1..b
    PROVE  a = b
<1>1. CASE a < b
  <2>1. b \in 1..b /\ b \notin 1..a
    BY <1>1
  <2>2. QED
    BY <2>1
<1>2. CASE b < a
  <2>1. a \in 1..a /\ a \notin 1..b
    BY <1>2
  <2>2. QED
    BY <2>1
<1>3. QED
  BY <1>1, <1>2

LEMMA ServedLength ==
    ASSUME IsNet(net), IsNet(net'), DOMAIN net' = DOMAIN net
    PROVE  Len(net') = Len(net)
<1>1. /\ Len(net) \in Nat /\ DOMAIN net = 1..Len(net)
      /\ Len(net') \in Nat /\ DOMAIN net' = 1..Len(net')
  BY NetPlaces
<1>2. DOMAIN net' = DOMAIN net
  OBVIOUS
<1>3. QED
  BY <1>1, <1>2, SameInterval

LEMMA RemovedLength ==
    ASSUME NEW n, IsNet(n), NEW i \in DOMAIN n, NEW r, NEW rs, rs = <<>> \/ rs = <<r>>
    PROVE  /\ Len(n) \in Nat \ {0} /\ Len(RemoveAt(n, i)) = Len(n) - 1
           /\ Len(RemoveAt(n, i) \o rs) = Len(n) - 1 + (IF rs = <<>> THEN 0 ELSE 1)
<1>1. PICK S : n \in Seq(S)
  BY DEF IsNet
<1> DEFINE T == S \cup {r}
<1>2. n \in Seq(T) /\ r \in T
  BY <1>1
<1> HIDE DEF T
<1>3. rs \in Seq(T) /\ Len(rs) = IF rs = <<>> THEN 0 ELSE 1
  <2>1. <<r>> \in Seq(T) /\ <<>> \in Seq(T)
    BY <1>2, RangeSmall
  <2>2. Len(<<r>>) = 1 /\ Len(<<>>) = 0
    OBVIOUS
  <2>3. CASE rs = <<>>
    BY <2>1, <2>2, <2>3
  <2>4. CASE rs = <<r>> /\ rs # <<>>
    <3>1. Len(rs) = 1 /\ rs \in Seq(T)
      BY <2>1, <2>2, <2>4
    <3>2. QED
      BY <2>4, <3>1
  <2>5. QED
    BY <2>3, <2>4
<1>4. Len(n) \in Nat \ {0}
  BY <1>1
<1>5. RemoveAt(n, i) \in Seq(T) /\ Len(RemoveAt(n, i)) = Len(n) - 1
  BY <1>2, PlacesLeft
<1>6. Len(RemoveAt(n, i) \o rs) = Len(n) - 1 + Len(rs)
  BY ONLY <1>3, <1>5, ConcatPlaces
<1>7. QED
  BY <1>3, <1>4, <1>5, <1>6

LEMMA ReturnLength ==
    ASSUME IsNet(net), NEW i \in DOMAIN net, NEW r, Return(i, <<>>) \/ Return(i, <<r>>)
    PROVE  /\ Len(net) \in Nat /\ Len(net') \in Nat /\ Len(net') <= Len(net)
           /\ Return(i, <<>>) => Len(net') = Len(net) - 1
<1>1. PICK rs : (rs = <<>> \/ rs = <<r>>) /\ Return(i, rs) /\ (Return(i, <<>>) => rs = <<>>)
  <2>1. CASE Return(i, <<>>)
    BY <2>1
  <2>2. CASE ~Return(i, <<>>)
    BY <2>2
  <2>3. QED
    BY <2>1, <2>2
<1>2. net' = RemoveAt(net, i) \o rs
  BY <1>1 DEF Return
<1>3. /\ Len(net) \in Nat \ {0}
      /\ Len(RemoveAt(net, i) \o rs) = Len(net) - 1 + (IF rs = <<>> THEN 0 ELSE 1)
  <2>1. rs = <<>> \/ rs = <<r>>
    BY ONLY <1>1
  <2>2. QED
    BY ONLY <2>1, IsNet(net), i \in DOMAIN net, RemovedLength
<1>4. QED
  BY <1>1, <1>2, <1>3

LEMMA ReturnLoadLength ==
    ASSUME IsNet(net), NEW i \in DOMAIN net, ReturnLoad(i, <<>>)
    PROVE  Len(net) \in Nat /\ Len(net') = Len(net) - 1
<1>1. Len(net) \in Nat /\ DOMAIN net = 1..Len(net)
  BY NetPlaces
<1> DEFINE Marked(k) == IF k < i /\ net[k].op = net[i].op
                        THEN [net[k] EXCEPT !.late = TRUE] ELSE net[k]
           n == [k \in DOMAIN net |-> Marked(k)]
           S == {Marked(k) : k \in DOMAIN net}
<1>2. net' = RemoveAt(n, i) \o <<>>
  BY DEF ReturnLoad
<1> HIDE DEF Marked
<1>3. n \in [1..Len(net) -> S] /\ DOMAIN n = DOMAIN net
  BY <1>1
<1> HIDE DEF n, S
<1>4. n \in Seq(S) /\ Len(n) = Len(net)
  BY <1>1, <1>3
<1>5. RemoveAt(n, i) \in Seq(S) /\ Len(RemoveAt(n, i)) = Len(n) - 1
  BY <1>3, <1>4, PlacesLeft, Zenon
<1>6. RemoveAt(n, i) \o <<>> = RemoveAt(n, i)
  BY <1>5, ConcatEmptySeq
<1>7. QED
  BY Zenon, <1>1, <1>2, <1>4, <1>5, <1>6

LEMMA SendLength ==
    ASSUME IsNet(net), NEW r, Send(r)
    PROVE  Len(net') \in Nat /\ Len(net') <= MaxInFlight
<1>1. PICK S : net \in Seq(S)
  BY DEF IsNet
<1> DEFINE T == S \cup {r}
<1>3. net \in Seq(T) /\ r \in T
  BY <1>1
<1> HIDE DEF T
<1>4. Len(net) \in Nat /\ Len(Append(net, r)) = Len(net) + 1
  BY ONLY <1>3
<1>5. net' = Append(net, r) /\ Len(net) + 1 <= MaxInFlight
  BY DEF Send, Room
<1>6. QED
  BY <1>4, <1>5

LEMMA WithoutLength ==
    ASSUME NEW n, IsNet(n), NEW op,
           \A i, j \in DOMAIN n : n[i].op = op /\ n[j].op = op => i = j
    PROVE  /\ Len(n) \in Nat /\ Len(Without(n, op)) \in Nat
           /\ Len(Without(n, op)) <= Len(n)
           /\ (\E i \in DOMAIN n : n[i].op = op) => Len(Without(n, op)) = Len(n) - 1
<1> DEFINE T(r) == r.op = op
<1>1. Len(n) \in Nat /\ DOMAIN n = 1..Len(n)
  BY NetPlaces
<1>2. CASE \E i \in 1..Len(n) : T(n[i])
  <2>1. PICK i \in DOMAIN n : n[i].op = op
    BY <1>1, <1>2
  <2>2. {k \in 1..Len(n) : T(n[k])} = {i}
    BY <1>1, <2>1
  <2>3. SelectInSeq(n, T) = i
    <3>1. \A x \in {i} : Min({i}) = x
      BY <1>1 DEF Min
    <3>2. QED
      BY <2>2, <3>1 DEF SelectInSeq
  <2>4. Without(n, op) = RemoveAt(n, i)
    BY <1>2, <2>3 DEF Without, RemoveFirstMatch
  <2>5. Len(n) \in Nat \ {0} /\ Len(RemoveAt(n, i)) = Len(n) - 1
    <3>1. PICK r, rs : r = i /\ rs = <<>>
      OBVIOUS
    <3>2. QED
      BY <3>1, RemovedLength
  <2>6. QED
    BY <1>1, <2>4, <2>5
<1>3. CASE ~\E i \in 1..Len(n) : T(n[i])
  <2>1. Without(n, op) = n
    BY <1>3 DEF Without, RemoveFirstMatch
  <2>2. ~\E i \in DOMAIN n : n[i].op = op
    BY <1>1, <1>3
  <2>3. Len(Without(n, op)) = Len(n)
    BY <2>1
  <2>4. Len(n) <= Len(n)
    BY <1>1
  <2>5. QED
    BY Zenon, <1>1, <2>2, <2>3, <2>4
<1>4. QED
  BY <1>2, <1>3

(* The places of some of the elements of a sequence, in some order.        *)
LEMMA Places ==
    ASSUME NEW m \in Nat, NEW I \in SUBSET (1..m)
    PROVE  /\ Cardinality(I) \in Nat /\ Cardinality(I) <= m
           /\ SetToSeq(I) \in [1..Cardinality(I) -> I]
<1>1. IsFiniteSet(1..m) /\ Cardinality(1..m) = m
  BY FS_Interval
<1>2. IsFiniteSet(I) /\ Cardinality(I) \in Nat /\ Cardinality(I) <= m
  BY <1>1, FS_Subset, FS_CardinalityType
<1>3. PICK h : h \in Bijection(1..Cardinality(I), I)
  BY <1>2, FS_CardinalityType DEF ExistsBijection
<1>4. h \in [1..Cardinality(I) -> I] /\ IsInjective(h)
  <2>1. h \in [1..Cardinality(I) -> I] /\ \A a, b \in 1..Cardinality(I) : h[a] = h[b] => a = b
    BY <1>3 DEF Bijection, Injection, IsInjective
  <2>2. QED
    BY <2>1 DEF IsInjective
<1>5. QED
  BY <1>2, <1>4 DEF SetToSeq

(***************************************************************************)
(* Types of the submission pages.                                          *)
(***************************************************************************)

(* A request of these pages, when the store holds the rows of ids.         *)
SubRequest(r, ids) ==
    /\ r.op \in {"submit", "load", "poll"}
    /\ r.status = "ok" => IF r.op = "submit" THEN r.data[1] \in ids
                                             ELSE r.data[1] \in Seq(Verdicts)

SubNet == /\ IsNet(net) /\ Len(net) <= MaxInFlight + 1
          /\ \A k \in DOMAIN net : SubRequest(net[k], DOMAIN rows)

SubTypes == SubTypeOK /\ (open = "submissions" => SubNet)

LEMMA SubServed ==
    ASSUME SubNet, DOMAIN rows \subseteq DOMAIN rows', IsNet(net'),
           NEW i \in DOMAIN net, Served(net, net', i), SubRequest(net'[i], DOMAIN rows')
    PROVE  SubNet'
<1>1. DOMAIN net' = DOMAIN net /\ \A k \in DOMAIN net \ {i} : net'[k] = net[k]
  BY DEF Served
<1>2. Len(net') <= MaxInFlight + 1
  BY <1>1, ServedLength DEF SubNet
<1>3. ASSUME NEW k \in DOMAIN net' PROVE SubRequest(net'[k], DOMAIN rows')
  <2>1. CASE k = i
    BY <2>1
  <2>2. CASE k # i
    <3>1. net'[k] = net[k] /\ SubRequest(net[k], DOMAIN rows)
      BY <1>1, <1>3, <2>2 DEF SubNet
    <3>2. QED
      BY <3>1 DEF SubRequest
  <2>3. QED
    BY <2>1, <2>2
<1>4. QED
  BY <1>2, <1>3 DEF SubNet

LEMMA SubMoved ==
    ASSUME SubNet, rows' = rows, IsNet(net'), Len(net') <= MaxInFlight + 1,
           NEW A, NEW R, NEW f, Moves(net, net', A, R, f),
           \A r \in R : SubRequest(r, DOMAIN rows)
    PROVE  SubNet'
<1>1. ASSUME NEW k \in DOMAIN net' PROVE SubRequest(net'[k], DOMAIN rows)
  <2>1. CASE f[k] \in A
    <3>1. Same(net'[k], net[f[k]]) /\ f[k] \in DOMAIN net
      BY <2>1 DEF Moves
    <3>2. SubRequest(net[f[k]], DOMAIN rows)
      BY <3>1 DEF SubNet
    <3>3. QED
      BY <3>1, <3>2 DEF SubRequest, Same
  <2>2. CASE f[k] \notin A
    BY <2>2 DEF Moves
  <2>3. QED
    BY <2>1, <2>2
<1>2. QED
  BY <1>1 DEF SubNet

(* The POSTs that outlive the page.                                        *)
LEMMA PostsNet ==
    ASSUME SubNet
    PROVE  /\ IsNet(Posts) /\ Len(Posts) \in Nat /\ Len(Posts) <= MaxInFlight + 1
           /\ \A k \in DOMAIN Posts : SubRequest(Posts[k], DOMAIN rows)
<1> DEFINE I == InFlight({"submit"})
           places == SetToSeq(I)
           m == Cardinality(I)
<1>1. Len(net) \in Nat /\ DOMAIN net = 1..Len(net) /\ Len(net) <= MaxInFlight + 1
  BY NetPlaces DEF SubNet
<1>2. I \in SUBSET (1..Len(net))
  BY <1>1 DEF InFlight
<1>3. m \in Nat /\ m <= Len(net) /\ places \in [1..m -> I]
  BY <1>1, <1>2, Places
<1>4. Posts = [k \in DOMAIN places |-> net[places[k]]]
  BY DEF Posts
<1> HIDE DEF places, m
<1>5. \A k \in 1..m : places[k] \in DOMAIN net
  BY <1>1, <1>2, <1>3
<1> DEFINE S == Range(net)
<1>6. \A r \in S : IsRequest(r)
  BY NetElements DEF SubNet
<1>7. \A k \in DOMAIN net : net[k] \in S
  BY DEF Range
<1> HIDE DEF S, I
<1>8. DOMAIN places = 1..m
  BY <1>3
<1>9. Posts \in [1..m -> S]
  BY <1>4, <1>5, <1>7, <1>8
<1>10. Posts \in Seq(S) /\ Len(Posts) = m
  BY <1>3, <1>9
<1>11. IsNet(Posts)
  BY <1>6, <1>10 DEF IsNet
<1>12. ASSUME NEW k \in DOMAIN Posts PROVE SubRequest(Posts[k], DOMAIN rows)
  <2>1. k \in 1..m /\ Posts[k] = net[places[k]]
    BY <1>4, <1>8, <1>12
  <2>2. QED
    BY <1>5, <2>1 DEF SubNet
<1>13. m <= MaxInFlight + 1
  BY <1>1, <1>3, ApiAssumption
<1>14. QED
  BY <1>3, <1>10, <1>11, <1>12, <1>13

LEMMA PostsLeft ==
    ASSUME SubNet, rows' = rows, net' = Posts
    PROVE  SubNet'
<1>1. /\ IsNet(net') /\ Len(net') <= MaxInFlight + 1
      /\ \A k \in DOMAIN net' : SubRequest(net'[k], DOMAIN rows')
  <2>1. PICK n : n = Posts
    OBVIOUS
  <2>2. /\ IsNet(n) /\ Len(n) <= MaxInFlight + 1
        /\ \A k \in DOMAIN n : SubRequest(n[k], DOMAIN rows)
    BY <2>1, PostsNet
  <2>3. net' = n /\ rows' = rows
    BY <2>1
  <2>4. QED
    BY ONLY <2>2, <2>3
<1>2. QED
  BY <1>1 DEF SubNet

(* The list page is mounted: behind the POSTs goes its load.               *)
LEMMA LoadAsked ==
    ASSUME SubNet, rows' = rows, Len(Posts) < MaxInFlight,
           net' = Append(Posts, Request("load", <<>>))
    PROVE  SubNet'
<1> DEFINE r == Request("load", <<>>)
<1>1. IsRequest(r) /\ SubRequest(r, DOMAIN rows)
  BY NewRequest DEF Request, SubRequest
<1>2. PICK n : n = Posts
  OBVIOUS
<1>3. /\ IsNet(n) /\ Len(n) \in Nat /\ Len(n) < MaxInFlight
      /\ \A k \in DOMAIN n : SubRequest(n[k], DOMAIN rows)
  BY <1>2, PostsNet
<1>4. net' = Append(n, r)
  BY <1>2
<1> HIDE DEF r
<1> DEFINE S == Range(n) \cup {r}
<1>5. n \in Seq(S) /\ r \in S /\ \A q \in S : IsRequest(q)
  BY <1>1, <1>3, NetElements
<1> HIDE DEF S
<1>6. /\ net' \in Seq(S) /\ Len(net') = Len(n) + 1
      /\ DOMAIN n = 1..Len(n) /\ DOMAIN net' = 1..(Len(n) + 1)
      /\ \A k \in 1..Len(n) : net'[k] = n[k]
      /\ net'[Len(n) + 1] = r
  BY ONLY <1>4, <1>5
<1>7. IsNet(net')
  BY <1>5, <1>6 DEF IsNet
<1>8. Len(net') <= MaxInFlight + 1
  BY <1>3, <1>6, ApiAssumption
<1>9. ASSUME NEW k \in DOMAIN net' PROVE SubRequest(net'[k], DOMAIN rows')
  <2>1. k \in 1..Len(n) \/ k = Len(n) + 1
    BY <1>3, <1>6, <1>9
  <2>2. QED
    BY <1>1, <1>3, <1>6, <2>1
<1>10. QED
  BY <1>7, <1>8, <1>9 DEF SubNet

(* A page sends a request, or a call returns.                              *)
LEMMA SubSent ==
    ASSUME SubNet, rows' = rows, NEW op \in {"submit", "load", "poll"}, NEW arg,
           Send(Request(op, arg))
    PROVE  SubNet'
<1>1. PICK r : r = Request(op, arg)
  OBVIOUS
<1>2. IsRequest(r) /\ SubRequest(r, DOMAIN rows) /\ Send(r)
  BY <1>1, NewRequest DEF Request, SubRequest
<1>3. PICK f : IsNet(net') /\ Moves(net, net', DOMAIN net, {r}, f)
  BY <1>2, SendMoves DEF SubNet
<1>4. Len(net') <= MaxInFlight + 1
  BY <1>2, SendLength, ApiAssumption DEF SubNet
<1>5. \A q \in {r} : SubRequest(q, DOMAIN rows)
  BY <1>2
<1>6. QED
  BY <1>3, <1>4, <1>5, SubMoved

LEMMA SubReturned ==
    ASSUME SubNet, rows' = rows, NEW i \in DOMAIN net, Return(i, <<>>)
    PROVE  SubNet'
<1>1. PICK f : IsNet(net') /\ Moves(net, net', DOMAIN net \ {i}, {}, f)
  BY ReturnMoves DEF SubNet
<1>2. Len(net') <= MaxInFlight + 1
  <2>1. PICK r : r = i
    OBVIOUS
  <2>2. Len(net) \in Nat /\ Len(net') \in Nat /\ Len(net') <= Len(net) /\ Len(net) <= MaxInFlight + 1
    BY ReturnLength DEF SubNet
  <2>3. QED
    BY ONLY <2>2, ApiAssumption
<1>3. QED
  BY <1>1, <1>2, SubMoved

(* The server answers, or the request fails.                               *)
LEMMA SubHandled ==
    ASSUME SubTypeOK, SubNet, NEW i \in DOMAIN net,
           StoreSubmission(i) \/ ReadSubmissions(i) \/ SubFails(i)
    PROVE  SubNet'
<1>0. IsNet(net) /\ SubRequest(net[i], DOMAIN rows)
  BY DEF SubNet
<1>1. DOMAIN rows \subseteq DOMAIN rows' /\ DOMAIN rows = 1..Len(rows) /\ Len(rows) \in Nat
  <2>1. rows \in Seq(Verdicts)
    BY DEF SubTypeOK
  <2>2. rows' = rows \/ rows' = Append(rows, "PENDING")
    BY DEF StoreSubmission, ReadSubmissions, SubFails
  <2>3. "PENDING" \in Verdicts
    BY DEF Verdicts
  <2>4. DOMAIN Append(rows, "PENDING") = 1..(Len(rows) + 1) /\ DOMAIN rows = 1..Len(rows) /\ Len(rows) \in Nat
    BY <2>1, <2>3, AppendFacts
  <2>5. QED
    BY <2>2, <2>4
<1>2. ASSUME Fail(i) PROVE SubNet'
  <2>1. IsNet(net') /\ Served(net, net', i) /\ net'[i].status = "error"
    BY <1>0, <1>2, FailServes
  <2>2. SubRequest(net'[i], DOMAIN rows')
    BY <1>0, <2>1 DEF SubRequest, Served
  <2>3. QED
    BY <1>1, <2>1, <2>2, SubServed
<1>3. ASSUME NEW d, Answer(i, d),
             IF net[i].op = "submit" THEN d \in DOMAIN rows' ELSE d \in Seq(Verdicts)
      PROVE  SubNet'
  <2>1. IsNet(net') /\ Served(net, net', i) /\ net'[i].status = "ok" /\ net'[i].data[1] = d
    BY <1>0, <1>3, AnswerServes
  <2>2. SubRequest(net'[i], DOMAIN rows')
    BY <1>0, <1>3, <2>1 DEF SubRequest, Served
  <2>3. QED
    BY <1>1, <2>1, <2>2, SubServed
<1>4. CASE StoreSubmission(i)
  <2>1. /\ net[i].op = "submit" /\ rows' = Append(rows, "PENDING")
        /\ Answer(i, Len(rows) + 1) \/ Fail(i)
    BY <1>4 DEF StoreSubmission
  <2>2. Len(rows) + 1 \in DOMAIN rows'
    <3>1. rows \in Seq(Verdicts) /\ "PENDING" \in Verdicts
      BY DEF SubTypeOK, Verdicts
    <3>2. DOMAIN Append(rows, "PENDING") = 1..(Len(rows) + 1)
      BY <3>1, AppendFacts
    <3>3. QED
      BY <1>1, <2>1, <3>2
  <2>3. QED
    BY <1>2, <1>3, <2>1, <2>2
<1>5. CASE ReadSubmissions(i)
  <2>1. /\ net[i].op \in {"load", "poll"}
        /\ Answer(i, IF place = "detail" THEN <<rows[shownId]>> ELSE rows)
    BY <1>5 DEF ReadSubmissions
  <2>2. (IF place = "detail" THEN <<rows[shownId]>> ELSE rows) \in Seq(Verdicts)
    <3>1. CASE place = "detail"
      <4>1. rows \in Seq(Verdicts) /\ shownId \in DOMAIN rows
        BY <1>1, <3>1 DEF SubTypeOK
      <4>2. rows[shownId] \in Verdicts
        BY <4>1
      <4>3. QED
        BY <3>1, <4>2, RangeSmall
    <3>2. CASE place # "detail"
      BY <3>2 DEF SubTypeOK
    <3>3. QED
      BY <3>1, <3>2
  <2>3. QED
    BY <1>3, <2>1, <2>2
<1>6. CASE SubFails(i)
  BY <1>2, <1>6 DEF SubFails
<1>7. QED
  BY <1>4, <1>5, <1>6

LEMMA SubNetKept ==
    ASSUME SubTypeOK, SubNet, SubNext
    PROVE  SubNet'
<1>1. ASSUME UNCHANGED net, DOMAIN rows' = DOMAIN rows
      PROVE  SubNet'
  BY <1>1 DEF SubNet
<1>2. ASSUME NEW n \in DOMAIN rows, Judge(n)
      PROVE  SubNet'
  <2>1. DOMAIN rows' = DOMAIN rows /\ net' = net
    BY <1>2 DEF Judge
  <2>2. QED
    BY <1>1, <2>1
<1>3. CASE OpenForm \/ \E id : OpenDetail(id)
  <2>1. net' = Posts /\ rows' = rows
    BY <1>3 DEF OpenForm, OpenDetail
  <2>2. QED
    BY <2>1, PostsLeft
<1>4. CASE Arrive \/ \E n \in DOMAIN rows : ViewRow(n)
  BY <1>3, <1>4 DEF Arrive, ViewRow
<1>5. CASE OpenMine
  <2>1. /\ rows' = rows /\ Len(Posts) < MaxInFlight
        /\ net' = Posts \/ net' = Append(Posts, Request("load", <<>>))
    BY <1>5 DEF OpenMine
  <2>2. QED
    BY <2>1, PostsLeft, LoadAsked
<1>6. CASE SubSignOut
  BY <1>1, <1>6 DEF SubSignOut
<1>7. CASE SubmitCode \/ DetailTick \/ MineTick
  <2>1. rows' = rows /\ \E op \in {"submit", "load", "poll"} : \E arg : Send(Request(op, arg))
    BY <1>7 DEF SubmitCode, DetailTick, MineTick
  <2>2. QED
    BY <2>1, SubSent
<1>8. ASSUME NEW i \in DOMAIN net,
             \/ SubmitAnswered(i) \/ DetailPolled(i) \/ MineAnswered(i)
             \/ MineLoadFailed(i) \/ PollFailed(i)
      PROVE  SubNet'
  <2>1. rows' = rows /\ Return(i, <<>>)
    BY <1>8 DEF SubmitAnswered, DetailPolled, MineAnswered, MineLoadFailed, PollFailed
  <2>2. QED
    BY <2>1, SubReturned
<1>9. QED
  BY <1>2, <1>3, <1>4, <1>5, <1>6, <1>7, <1>8, SubHandled
     DEF SubNext, Ticks, Reads, Polled, Posted, Errors, Losses

(* What the polling effect leaves behind is a number of intervals.         *)
LEMMA EffectTypes ==
    ASSUME PollingMatchesScreen, NEW l, PollEffect(l)
    PROVE  intervals' \in Nat /\ pollRef' \in BOOLEAN
<1>1. Remaining = 0
  BY DEF PollingMatchesScreen, Remaining
<1>2. HasPending(l) \in BOOLEAN
  BY DEF HasPending
<1>3. QED
  BY <1>1, <1>2 DEF PollEffect

(* A page is mounted that shows l.                                         *)
LEMMA MountTypes ==
    ASSUME SubTypeOK, PollingMatchesScreen, rows' = rows, signedIn' \in BOOLEAN,
           loading' \in BOOLEAN, notice' \in {"none", "signin", "failed"},
           NEW p \in {"form", "detail", "mine"}, NEW id \in {0} \cup DOMAIN rows,
           p = "detail" => id # 0,
           NEW l \in Seq(Verdicts), Mount(p, id, l)
    PROVE  SubTypeOK'
<1>1. rows \in Seq(Verdicts) /\ Len(rows) \in Nat /\ DOMAIN rows = 1..Len(rows)
  BY DEF SubTypeOK
<1>2. intervals' \in Nat /\ pollRef' \in BOOLEAN
  BY EffectTypes DEF Mount
<1>3. place' = p /\ shownId' = id /\ going' = 0 /\ sending' = FALSE /\ list' = l
  BY DEF Mount
<1>4. shownId' \in 0..Len(rows) /\ going' \in 0..Len(rows)
  BY <1>1, <1>3
<1>5. QED
  BY <1>1, <1>2, <1>3, <1>4 DEF SubTypeOK

LEMMA SubTypesKept ==
    ASSUME SubTypeOK, SubNet, PollingMatchesScreen, SubNext
    PROVE  SubTypeOK'
<1>1. rows \in Seq(Verdicts) /\ Len(rows) \in Nat /\ DOMAIN rows = 1..Len(rows)
  BY DEF SubTypeOK
<1>2. \A k \in DOMAIN net : SubRequest(net[k], DOMAIN rows)
  BY DEF SubNet
<1>3. <<>> \in Seq(Verdicts)
  OBVIOUS
<1>4. ASSUME NEW n \in DOMAIN rows, Judge(n)
      PROVE  SubTypeOK'
  <2>1. rows' = [rows EXCEPT ![n] = IF @ = "PENDING" THEN "JUDGING" ELSE "AC"]
    BY <1>4 DEF Judge
  <2>2. rows' \in Seq(Verdicts) /\ Len(rows') = Len(rows)
    BY <1>1, <2>1 DEF Verdicts
  <2>3. UNCHANGED <<signedIn, place, shownId, going, sending, list, loading, notice, intervals, pollRef>>
    BY <1>4 DEF Judge, nav, screen, poll
  <2>4. QED
    BY <2>2, <2>3 DEF SubTypeOK
<1>5. ASSUME NEW i \in DOMAIN net, StoreSubmission(i)
      PROVE  SubTypeOK'
  <2>1. rows' = Append(rows, "PENDING") /\ "PENDING" \in Verdicts
    BY <1>5 DEF StoreSubmission, Verdicts
  <2>2. rows' \in Seq(Verdicts) /\ Len(rows') = Len(rows) + 1
    BY <1>1, <2>1
  <2>3. UNCHANGED <<signedIn, place, shownId, going, sending, list, loading, notice, intervals, pollRef>>
    BY <1>5 DEF StoreSubmission, nav, screen, poll
  <2>4. \A x \in 0..Len(rows) : x \in 0..Len(rows')
    BY <1>1, <2>2
  <2>5. QED
    BY <2>2, <2>3, <2>4 DEF SubTypeOK
<1>6. CASE OpenForm
  <2>1. /\ Mount("form", 0, <<>>) /\ rows' = rows /\ signedIn' = TRUE
        /\ loading' = FALSE /\ notice' = "none"
    BY <1>6 DEF OpenForm
  <2>2. QED
    BY <1>3, <2>1, MountTypes
<1>7. ASSUME NEW id \in DOMAIN rows, OpenDetail(id)
      PROVE  SubTypeOK'
  <2>1. /\ Mount("detail", id, <<rows[id]>>) /\ rows' = rows /\ signedIn' = signedIn
        /\ loading' = FALSE /\ notice' = "none"
    BY <1>7 DEF OpenDetail
  <2>2. rows[id] \in Verdicts /\ id # 0
    BY <1>1
  <2>3. <<rows[id]>> \in Seq(Verdicts)
    BY <2>2, RangeSmall
  <2>4. signedIn' \in BOOLEAN
    BY <2>1 DEF SubTypeOK
  <2>5. QED
    BY <2>1, <2>2, <2>3, <2>4, MountTypes
<1>8. CASE Arrive \/ \E n \in DOMAIN rows : ViewRow(n)
  <2>1. CASE Arrive
    <3>1. going \in DOMAIN rows /\ OpenDetail(going)
      BY <1>1, <2>1 DEF Arrive, SubTypeOK
    <3>2. QED
      BY <1>7, <3>1
  <2>2. QED
    BY <1>7, <1>8, <2>1 DEF ViewRow
<1>9. CASE OpenMine
  <2>1. /\ Mount("mine", 0, <<>>) /\ rows' = rows /\ signedIn' = signedIn /\ loading' = signedIn
        /\ notice' = IF signedIn THEN "none" ELSE "signin"
    BY <1>9 DEF OpenMine
  <2>2. signedIn' \in BOOLEAN /\ loading' \in BOOLEAN /\ notice' \in {"none", "signin", "failed"}
    BY <2>1 DEF SubTypeOK
  <2>3. QED
    BY <1>3, <2>1, <2>2, MountTypes
<1>10. CASE SubSignOut
  <2>1. /\ signedIn' = FALSE
        /\ \/ loading' = FALSE /\ notice' = "signin" /\ PollEffect(list)
           \/ UNCHANGED <<loading, notice, intervals, pollRef>>
        /\ UNCHANGED <<rows, place, shownId, going, sending, list>>
    BY <1>10 DEF SubSignOut, nav, poll
  <2>2. intervals' \in Nat /\ pollRef' \in BOOLEAN /\ loading' \in BOOLEAN
        /\ notice' \in {"none", "signin", "failed"}
    BY <2>1, EffectTypes DEF SubTypeOK
  <2>3. QED
    BY <2>1, <2>2 DEF SubTypeOK
<1>11. CASE SubmitCode
  BY <1>11 DEF SubmitCode, SubTypeOK, nav, screen, poll
<1>12. CASE DetailTick \/ MineTick
  BY <1>12 DEF DetailTick, MineTick, SubTypeOK, nav, screen, poll
<1>13. ASSUME NEW i \in DOMAIN net, ReadSubmissions(i) \/ SubFails(i) \/ PollFailed(i)
       PROVE  SubTypeOK'
  BY <1>13 DEF ReadSubmissions, SubFails, PollFailed, SubTypeOK, nav, screen, poll
<1>14. ASSUME NEW i \in DOMAIN net, SubmitAnswered(i)
       PROVE  SubTypeOK'
  <2>1. /\ net[i].op = "submit"
        /\ going' = IF Handled(i) THEN Data(i) ELSE going
        /\ sending' = FALSE
        /\ UNCHANGED <<rows, signedIn, place, shownId, list, loading, notice, intervals, pollRef>>
    BY <1>14 DEF SubmitAnswered, screen, poll
  <2>2. Handled(i) => Data(i) \in DOMAIN rows
    BY <1>2, <2>1 DEF SubRequest, Handled, Data
  <2>3. going' \in 0..Len(rows)
    BY <1>1, <2>1, <2>2 DEF SubTypeOK
  <2>4. QED
    BY <2>1, <2>3 DEF SubTypeOK
<1>15. ASSUME NEW i \in DOMAIN net, DetailPolled(i) \/ MineAnswered(i)
       PROVE  SubTypeOK'
  <2>1. /\ net[i].op \in {"load", "poll"} /\ Handled(i) /\ list' = Data(i)
        /\ PollEffect(list') \/ UNCHANGED <<intervals, pollRef>>
        /\ notice' \in {"none", notice}
        /\ loading' = (loading /\ net[i].op = "poll") \/ loading' = loading
        /\ UNCHANGED <<rows, signedIn, place, shownId, going, sending>>
    BY <1>15 DEF DetailPolled, MineAnswered, nav, poll
  <2>2. list' \in Seq(Verdicts)
    BY <1>2, <2>1 DEF SubRequest, Handled, Data
  <2>3. intervals' \in Nat /\ pollRef' \in BOOLEAN
    <3>1. PICK l : l = list'
      OBVIOUS
    <3>2. PollEffect(l) \/ UNCHANGED <<intervals, pollRef>>
      BY <2>1, <3>1
    <3>3. QED
      BY <3>2, EffectTypes DEF SubTypeOK
  <2>4. loading' \in BOOLEAN /\ notice' \in {"none", "signin", "failed"}
    BY <2>1 DEF SubTypeOK
  <2>5. QED
    BY <2>1, <2>2, <2>3, <2>4 DEF SubTypeOK
<1>16. ASSUME NEW i \in DOMAIN net, MineLoadFailed(i)
       PROVE  SubTypeOK'
  BY <1>16 DEF MineLoadFailed, SubTypeOK, nav, poll
<1>17. QED
  BY <1>4, <1>5, <1>6, <1>7, <1>8, <1>9, <1>10, <1>11, <1>12, <1>13, <1>14, <1>15, <1>16
     DEF SubNext, Ticks, Reads, Polled, Posted, Errors, Losses

(***************************************************************************)
(* Types of the contest page.                                              *)
(***************************************************************************)

(* What the server answers to the button and to the form.                  *)
ContestAnswer(r) ==
    r.status = "ok" =>
        /\ r.op = "check" => r.data[1] \in {"yes", "no"}
        /\ r.op = "entry" => r.data[1] \in {"not registered", "not active", "accepted"}

(* Only a check, which is sent without a click, may exceed the bound.      *)
CheckFits(n) ==
    \/ Len(n) <= MaxInFlight
    \/ Len(n) = MaxInFlight + 1 /\ \E k \in DOMAIN n : n[k].op = "check"

ContestNet == CheckFits(net) /\ \A k \in DOMAIN net : ContestAnswer(net[k])

ContestTypes == ContestTypeOK /\ (open = "contest" => ContestNet)

(* The check goes, and with it the place it took.                          *)
LEMMA WithoutCheck ==
    ASSUME NEW n, IsNet(n), CheckFits(n), \A k \in DOMAIN n : ContestAnswer(n[k]),
           \A i, j \in DOMAIN n : n[i].op = "check" /\ n[j].op = "check" => i = j
    PROVE  LET m == Without(n, "check")
           IN  /\ IsNet(m) /\ Len(m) \in Nat /\ Len(m) <= MaxInFlight
               /\ \A k \in DOMAIN m : ContestAnswer(m[k])
<1> DEFINE m == Without(n, "check")
           A == {k \in DOMAIN n : n[k].op # "check"}
<1>1. PICK f : IsNet(m) /\ Moves(n, m, A, {}, f)
  BY WithoutMoves
<1>2. /\ Len(n) \in Nat /\ Len(m) \in Nat /\ Len(m) <= Len(n)
      /\ (\E k \in DOMAIN n : n[k].op = "check") => Len(m) = Len(n) - 1
  BY WithoutLength
<1> HIDE DEF m
<1>3. Len(m) <= MaxInFlight
  <2>1. CASE Len(n) <= MaxInFlight
    BY <1>2, <2>1, ApiAssumption
  <2>2. CASE Len(n) = MaxInFlight + 1 /\ \E k \in DOMAIN n : n[k].op = "check"
    BY <1>2, <2>2, ApiAssumption
  <2>3. QED
    BY <2>1, <2>2 DEF CheckFits
<1>4. ASSUME NEW k \in DOMAIN m PROVE ContestAnswer(m[k])
  <2>1. f[k] \in DOMAIN n /\ Same(m[k], n[f[k]])
    BY <1>1 DEF Moves
  <2>2. ContestAnswer(n[f[k]])
    BY <2>1
  <2>3. QED
    BY <2>1, <2>2 DEF ContestAnswer, Same
<1>5. QED
  BY <1>1, <1>2, <1>3, <1>4 DEF m

LEMMA OrphansFit ==
    ASSUME NEW n, IsNet(n), CheckFits(n), \A k \in DOMAIN n : ContestAnswer(n[k]),
           \A i, j \in DOMAIN n : n[i].op = "check" /\ n[j].op = "check" => i = j
    PROVE  LET m == Orphans(n)
           IN  /\ \E S : m \in Seq(S)
               /\ Len(m) \in Nat /\ Len(m) <= MaxInFlight
               /\ \A k \in DOMAIN m : ContestAnswer(m[k])
<1> DEFINE kept == Without(n, "check")
           Orphan(k) == [kept[k] EXCEPT !.arg = "orphan"]
           m == [k \in DOMAIN kept |-> Orphan(k)]
           S == {Orphan(k) : k \in DOMAIN kept}
<1>1. /\ IsNet(kept) /\ Len(kept) \in Nat /\ Len(kept) <= MaxInFlight
      /\ \A k \in DOMAIN kept : ContestAnswer(kept[k])
  BY WithoutCheck
<1>2. DOMAIN kept = 1..Len(kept) /\ \A k \in DOMAIN kept : IsRequest(kept[k])
  BY <1>1, NetElements
<1>3. Orphans(n) = m
  BY DEF Orphans
<1> HIDE DEF kept
<1>4. ASSUME NEW k \in DOMAIN kept PROVE ContestAnswer(Orphan(k))
  <2> DEFINE q == kept[k]
             u == [op |-> q.op, arg |-> "orphan", status |-> q.status, data |-> q.data, late |-> q.late]
  <2>1. q = [op |-> q.op, arg |-> q.arg, status |-> q.status, data |-> q.data, late |-> q.late]
    BY <1>2 DEF IsRequest
  <2>2. ContestAnswer(q)
    BY <1>1
  <2> HIDE DEF q
  <2>3. [q EXCEPT !.arg = "orphan"] = u
    BY <2>1, ArgReplaced
  <2>4. ContestAnswer(u)
    BY <2>2 DEF ContestAnswer
  <2>5. QED
    BY <2>3, <2>4 DEF q
<1> HIDE DEF Orphan
<1>5. m \in [1..Len(kept) -> S]
  BY <1>2
<1>6. m \in Seq(S) /\ Len(m) = Len(kept)
  BY <1>1, <1>5
<1>7. ASSUME NEW k \in DOMAIN m PROVE ContestAnswer(m[k])
  BY <1>4, <1>7
<1> HIDE DEF m, S
<1>8. QED
  BY <1>1, <1>3, <1>6, <1>7

(* A component is mounted, with or without its check.                      *)
LEMMA ContestMounted ==
    ASSUME NEW n, IsNet(n), CheckFits(n), \A k \in DOMAIN n : ContestAnswer(n[k]),
           \A i, j \in DOMAIN n : n[i].op = "check" /\ n[j].op = "check" => i = j,
           \/ net' = Orphans(n)
           \/ net' = Append(Orphans(n), Request("check", "mine"))
    PROVE  ContestNet'
<1> DEFINE r == Request("check", "mine")
           m == Orphans(n)
<1>1. PICK S : m \in Seq(S)
  BY OrphansFit
<1>2. /\ Len(m) \in Nat /\ Len(m) <= MaxInFlight
      /\ \A k \in DOMAIN m : ContestAnswer(m[k])
  BY OrphansFit
<1>3. ContestAnswer(r) /\ r.op = "check"
  BY DEF Request, ContestAnswer
<1>4. net' = m \/ net' = Append(m, r)
  OBVIOUS
<1> HIDE DEF m, r
<1>5. CASE net' = m
  BY <1>2, <1>5 DEF ContestNet, CheckFits
<1>6. CASE net' = Append(m, r)
  <2> DEFINE T == S \cup {r}
  <2>1. m \in Seq(T) /\ r \in T
    BY <1>1
  <2> HIDE DEF T
  <2>2. /\ Len(net') = Len(m) + 1
        /\ DOMAIN m = 1..Len(m) /\ DOMAIN net' = 1..(Len(m) + 1)
        /\ \A k \in 1..Len(m) : net'[k] = m[k]
        /\ net'[Len(m) + 1] = r
    BY ONLY <1>6, <2>1
  <2>3. ASSUME NEW k \in DOMAIN net' PROVE ContestAnswer(net'[k])
    <3>1. k \in 1..Len(m) \/ k = Len(m) + 1
      BY <1>2, <2>2, <2>3
    <3>2. QED
      BY <1>2, <1>3, <2>2, <3>1
  <2>4. Len(m) + 1 \in DOMAIN net'
    BY <1>2, <2>2
  <2>5. CheckFits(net')
    <3>1. net'[Len(m) + 1].op = "check"
      BY <1>3, <2>2
    <3>2. Len(net') <= MaxInFlight \/ Len(net') = MaxInFlight + 1
      BY <1>2, <2>2, ApiAssumption
    <3>3. QED
      BY <2>4, <3>1, <3>2 DEF CheckFits
  <2>6. QED
    BY <2>3, <2>5 DEF ContestNet
<1>7. QED
  BY <1>4, <1>5, <1>6

(* Requests that are replaced, taken out or sent by a click.               *)
LEMMA ContestServed ==
    ASSUME ContestNet, IsNet(net), IsNet(net'),
           NEW i \in DOMAIN net, Served(net, net', i), ContestAnswer(net'[i])
    PROVE  ContestNet'
<1>1. /\ DOMAIN net' = DOMAIN net /\ \A k \in DOMAIN net \ {i} : net'[k] = net[k]
      /\ net'[i].op = net[i].op
  BY DEF Served
<1>2. Len(net') = Len(net)
  BY <1>1, ServedLength
<1>3. \A k \in DOMAIN net : net'[k].op = net[k].op
  BY <1>1
<1>4. CheckFits(net')
  BY <1>1, <1>2, <1>3 DEF ContestNet, CheckFits
<1>5. \A k \in DOMAIN net' : ContestAnswer(net'[k])
  BY <1>1 DEF ContestNet
<1>6. QED
  BY <1>4, <1>5 DEF ContestNet

LEMMA ContestMoved ==
    ASSUME ContestNet, Len(net') <= MaxInFlight, NEW A, NEW R, NEW f,
           Moves(net, net', A, R, f), \A r \in R : ContestAnswer(r)
    PROVE  ContestNet'
<1>1. ASSUME NEW k \in DOMAIN net' PROVE ContestAnswer(net'[k])
  <2>1. CASE f[k] \in A
    <3>1. Same(net'[k], net[f[k]]) /\ f[k] \in DOMAIN net
      BY <2>1 DEF Moves
    <3>2. ContestAnswer(net[f[k]])
      BY <3>1 DEF ContestNet
    <3>3. QED
      BY <3>1, <3>2 DEF ContestAnswer, Same
  <2>2. CASE f[k] \notin A
    BY <2>2 DEF Moves
  <2>3. QED
    BY <2>1, <2>2
<1>2. QED
  BY <1>1 DEF ContestNet, CheckFits

LEMMA ContestNetKept ==
    ASSUME ButtonInv, open = "contest", ContestNet, ContestNext
    PROVE  ContestNet'
<1>1. /\ IsNet(net) /\ \A k \in DOMAIN net : ContestRequest(net[k])
      /\ \A i, j \in DOMAIN net : net[i].op = "check" /\ net[j].op = "check" => i = j
      /\ CheckFits(net) /\ \A k \in DOMAIN net : ContestAnswer(net[k])
  BY DEF ButtonInv, OneAtATime, Checking, ContestNet
<1>2. ASSUME UNCHANGED net PROVE ContestNet'
  BY <1>2 DEF ContestNet, CheckFits
<1>3. CASE Passes
  BY <1>2, <1>3 DEF Passes
<1>4. CASE ClockTick \/ OpenContest \/ OpenProblem \/ SignInAgain
  <2>1. \/ net' = Orphans(net) \/ net' = net
        \/ net' = Append(Orphans(net), Request("check", "mine"))
    BY <1>4 DEF ClockTick, OpenContest, OpenProblem, SignInAgain, MountButton, Leave
  <2>2. QED
    BY <1>1, <1>2, <2>1, ContestMounted
<1>5. CASE TokenGone
  <2> DEFINE m == Without(net, "check")
  <2>1. net' = m
    BY <1>5 DEF TokenGone
  <2>2. /\ Len(m) \in Nat /\ Len(m) <= MaxInFlight
        /\ \A k \in DOMAIN m : ContestAnswer(m[k])
    BY <1>1, WithoutCheck
  <2> HIDE DEF m
  <2>3. QED
    BY <2>1, <2>2 DEF ContestNet, CheckFits
<1>6. CASE Register \/ Unregister \/ SubmitEntry
  <2>1. PICK op, arg : Send(Request(op, arg))
    BY <1>6 DEF Register, Unregister, Toggle, SubmitEntry
  <2>2. PICK r : r = Request(op, arg)
    OBVIOUS
  <2>3. IsRequest(r) /\ Send(r) /\ ContestAnswer(r)
    BY <2>1, <2>2, NewRequest DEF Request, ContestAnswer
  <2>4. PICK f : Moves(net, net', DOMAIN net, {r}, f)
    BY <1>1, <2>3, SendMoves
  <2>5. Len(net') <= MaxInFlight
    BY <1>1, <2>3, SendLength
  <2>6. \A q \in {r} : ContestAnswer(q)
    BY <2>3
  <2>7. QED
    BY <2>4, <2>5, <2>6, ContestMoved
<1>7. ASSUME NEW i \in DOMAIN net, CheckAnswered(i) \/ ToggleAnswered(i) \/ EntryRefused(i)
      PROVE  ContestNet'
  <2>1. Return(i, <<>>)
    BY <1>7 DEF CheckAnswered, ToggleAnswered, EntryRefused
  <2>2. PICK f : Moves(net, net', DOMAIN net \ {i}, {}, f)
    BY <1>1, <2>1, ReturnMoves
  <2>3. PICK r : r = i
    OBVIOUS
  <2>4. Len(net) \in Nat /\ Len(net') = Len(net) - 1
    BY <1>1, <2>1, ReturnLength
  <2>5. Len(net') <= MaxInFlight
    BY <1>1, <2>4, ApiAssumption DEF CheckFits
  <2>6. QED
    BY <2>2, <2>5, ContestMoved
<1>8. ASSUME NEW i \in DOMAIN net, EntryAccepted(i)
      PROVE  ContestNet'
  <2> DEFINE n == RemoveAt(net, i)
  <2>1. net' = Orphans(n)
    BY <1>8, Zenon DEF EntryAccepted, Leave
  <2>2. /\ n \in Seq(Range(net)) /\ Len(n) = Len(net) - 1
        /\ \A j \in 1..(Len(net) - 1) : n[j] = net[IF j < i THEN j ELSE j + 1]
        /\ Len(net) \in Nat /\ DOMAIN net = 1..Len(net) /\ i \in 1..Len(net)
        /\ \A r \in Range(net) : IsRequest(r)
    <3>1. net \in Seq(Range(net)) /\ \A r \in Range(net) : IsRequest(r)
      BY <1>1, NetElements
    <3>2. Len(net) \in Nat /\ DOMAIN net = 1..Len(net) /\ i \in 1..Len(net)
      BY <3>1
    <3>3. QED
      BY <3>1, <3>2, PlacesLeft, Zenon
  <2> HIDE DEF n
  <2>3. IsNet(n) /\ DOMAIN n = 1..(Len(net) - 1)
    BY <2>2 DEF IsNet
  <2>4. \A j \in DOMAIN n : (IF j < i THEN j ELSE j + 1) \in DOMAIN net
    BY <2>2, <2>3
  <2>5. \A j \in DOMAIN n : ContestAnswer(n[j])
    BY <1>1, <2>2, <2>3, <2>4
  <2>6. ASSUME NEW j \in DOMAIN n, NEW k \in DOMAIN n, n[j].op = "check", n[k].op = "check"
        PROVE  j = k
    <3>1. (IF j < i THEN j ELSE j + 1) = (IF k < i THEN k ELSE k + 1)
      BY <1>1, <2>2, <2>3, <2>4, <2>6
    <3>2. j \in Int /\ k \in Int /\ i \in Int
      BY <2>2, <2>3
    <3>3. QED
      BY ONLY <3>1, <3>2
  <2>7. CheckFits(n)
    BY <1>1, <2>2, ApiAssumption DEF CheckFits
  <2>8. QED
    BY <2>1, <2>3, <2>5, <2>6, <2>7, ContestMounted
<1>9. ASSUME NEW i \in DOMAIN net, Fail(i) PROVE ContestNet'
  <2>1. IsNet(net') /\ Served(net, net', i) /\ net'[i].status = "error"
    BY <1>1, <1>9, FailServes
  <2>2. ContestAnswer(net'[i])
    BY <2>1 DEF ContestAnswer
  <2>3. QED
    BY <1>1, <2>1, <2>2, ContestServed
<1>10. ASSUME NEW i \in DOMAIN net, NEW d, Answer(i, d),
              net[i].op = "check" => d \in {"yes", "no"},
              net[i].op = "entry" => d \in {"not registered", "not active", "accepted"}
       PROVE  ContestNet'
  <2>1. IsNet(net') /\ Served(net, net', i) /\ net'[i].data[1] = d
    BY <1>1, <1>10, AnswerServes
  <2>2. ContestAnswer(net'[i])
    BY <1>10, <2>1 DEF ContestAnswer, Served
  <2>3. QED
    BY <1>1, <2>1, <2>2, ContestServed
<1>11. ASSUME NEW i \in DOMAIN net, HandleCheck(i)
       PROVE  ContestNet'
  <2>1. net[i].op = "check" /\ Answer(i, IF member THEN "yes" ELSE "no")
    BY <1>11 DEF HandleCheck
  <2>2. QED
    BY <1>10, <2>1
<1>12. ASSUME NEW i \in DOMAIN net, HandleToggle(i)
       PROVE  ContestNet'
  <2>1. net[i].op \in {"register", "unregister"} /\ (Answer(i, net[i].arg) \/ Fail(i))
    BY <1>12 DEF HandleToggle
  <2>2. QED
    BY <1>9, <1>10, <2>1
<1>13. ASSUME NEW i \in DOMAIN net, HandleEntry(i)
       PROVE  ContestNet'
  <2>1. /\ net[i].op = "entry"
        /\ Answer(i, IF ~member THEN "not registered"
                     ELSE IF ~InWindow(time) THEN "not active" ELSE "accepted")
    BY <1>13 DEF HandleEntry
  <2>2. QED
    BY <1>10, <2>1
<1>14. ASSUME NEW i \in DOMAIN net, ContestFails(i)
       PROVE  ContestNet'
  BY <1>9, <1>14 DEF ContestFails
<1>15. QED
  BY <1>3, <1>4, <1>5, <1>6, <1>7, <1>8, <1>11, <1>12, <1>13, <1>14 DEF ContestNext

LEMMA ContestTypesKept ==
    ASSUME ContestTypeOK, ContestNet, ContestNext
    PROVE  ContestTypeOK'
<1>1. \A k \in DOMAIN net : ContestAnswer(net[k])
  BY DEF ContestNet
<1>2. time + skew \in Int
  <2>1. time \in 0..LastTime /\ skew \in Skews
    BY DEF ContestTypeOK
  <2>2. time \in Int /\ skew \in Int
    BY <2>1, ContestPageAssumption
  <2>3. QED
    BY <2>2
<1>3. CASE Passes
  <2>1. time' = time + 1 /\ time < LastTime /\ time \in 0..LastTime
    BY <1>3 DEF Passes, ContestTypeOK
  <2>2. time' \in 0..LastTime
    BY <2>1, ContestPageAssumption
  <2>3. QED
    BY <1>3, <2>2 DEF Passes, ContestTypeOK
<1>4. CASE ClockTick \/ OpenContest \/ OpenProblem \/ SignInAgain
  <2>1. /\ seen' = seen \/ seen' = time + skew
        /\ on' \in {on, "contest", "problem"}
        /\ token' = token \/ token' = TRUE
        /\ \/ registered' = "unknown" /\ busy' = FALSE /\ message' = "none"
           \/ UNCHANGED <<registered, busy, message>>
        /\ UNCHANGED <<time, skew, member, toggles, doubt>>
    BY <1>4, Zenon DEF ClockTick, OpenContest, OpenProblem, SignInAgain, MountButton, Leave
  <2>2. seen' \in Int /\ token' \in BOOLEAN /\ on' \in {"contest", "problem", "submission"}
    BY <1>2, <2>1 DEF ContestTypeOK
  <2>3. /\ registered' \in {"unknown", "yes", "no"} /\ busy' \in BOOLEAN
        /\ message' \in {"none", "failed", "not registered", "not active"}
    BY <2>1 DEF ContestTypeOK
  <2>4. QED
    BY <2>1, <2>2, <2>3 DEF ContestTypeOK
<1>5. CASE TokenGone
  BY <1>5 DEF TokenGone, ContestTypeOK
<1>6. CASE Register \/ Unregister \/ SubmitEntry
  <2>1. /\ busy' = TRUE /\ message' = "none" /\ toggles < MaxToggles /\ toggles' = toggles + 1
        /\ UNCHANGED <<time, skew, seen, on, token, member, registered, doubt>>
    BY <1>6 DEF Register, Unregister, Toggle, SubmitEntry
  <2>2. toggles \in 0..MaxToggles
    BY DEF ContestTypeOK
  <2>4. toggles' \in 0..MaxToggles
    BY <2>1, <2>2, ContestPageAssumption
  <2>3. QED
    BY <2>1, <2>4 DEF ContestTypeOK
<1>7. ASSUME NEW i \in DOMAIN net, CheckAnswered(i)
      PROVE  ContestTypeOK'
  <2>1. /\ net[i].op = "check"
        /\ registered' = IF Handled(i) THEN Data(i) ELSE "no"
        /\ doubt' = (doubt \/ Failed(i))
        /\ UNCHANGED <<time, skew, seen, on, token, member, busy, message, toggles>>
    BY <1>7 DEF CheckAnswered
  <2>2. registered' \in {"unknown", "yes", "no"}
    BY <1>1, <2>1 DEF ContestAnswer, Handled, Data
  <2>3. doubt' \in BOOLEAN
    BY <2>1
  <2>4. QED
    BY <2>1, <2>2, <2>3 DEF ContestTypeOK
<1>8. ASSUME NEW i \in DOMAIN net, ToggleAnswered(i)
      PROVE  ContestTypeOK'
  <2>1. /\ busy' \in {busy, FALSE} /\ registered' \in {registered, "yes", "no"}
        /\ message' \in {message, "failed"}
        /\ UNCHANGED <<time, skew, seen, on, token, member, toggles, doubt>>
    BY <1>8 DEF ToggleAnswered
  <2>2. QED
    BY <2>1 DEF ContestTypeOK
<1>9. ASSUME NEW i \in DOMAIN net, EntryAccepted(i)
      PROVE  ContestTypeOK'
  BY <1>9 DEF EntryAccepted, Leave, ContestTypeOK
<1>10. ASSUME NEW i \in DOMAIN net, EntryRefused(i)
       PROVE  ContestTypeOK'
  <2>1. /\ net[i].op = "entry" /\ (Handled(i) => Data(i) # "accepted")
        /\ busy' \in {busy, FALSE}
        /\ message' = message \/ message' = IF Handled(i) THEN Data(i) ELSE "failed"
        /\ UNCHANGED <<time, skew, seen, on, token, member, registered, toggles, doubt>>
    BY <1>10 DEF EntryRefused
  <2>2. Handled(i) => Data(i) \in {"not registered", "not active"}
    BY <1>1, <2>1 DEF ContestAnswer, Handled, Data
  <2>3. message' \in {"none", "failed", "not registered", "not active"} /\ busy' \in BOOLEAN
    BY <2>1, <2>2 DEF ContestTypeOK
  <2>4. QED
    BY <2>1, <2>3 DEF ContestTypeOK
<1>11. ASSUME NEW i \in DOMAIN net, HandleCheck(i) \/ HandleEntry(i) \/ ContestFails(i)
       PROVE  ContestTypeOK'
  <2>1. /\ doubt' \in {doubt, FALSE}
        /\ UNCHANGED <<time, skew, seen, on, token, member, registered, busy, message, toggles>>
    BY <1>11 DEF HandleCheck, HandleEntry, ContestFails
  <2>2. QED
    BY <2>1 DEF ContestTypeOK
<1>12. ASSUME NEW i \in DOMAIN net, HandleToggle(i)
       PROVE  ContestTypeOK'
  <2>1. /\ member' = (net[i].op = "register")
        /\ doubt' = (doubt \/ net[i].arg = "orphan") \/ doubt' = TRUE
        /\ UNCHANGED <<time, skew, seen, on, token, registered, busy, message, toggles>>
    BY <1>12 DEF HandleToggle
  <2>2. member' \in BOOLEAN /\ doubt' \in BOOLEAN
    BY <2>1
  <2>3. QED
    BY <2>1, <2>2 DEF ContestTypeOK
<1>13. QED
  BY <1>3, <1>4, <1>5, <1>6, <1>7, <1>8, <1>9, <1>10, <1>11, <1>12 DEF ContestNext

(***************************************************************************)
(* Types of the problem console.                                           *)
(***************************************************************************)

(* What this page asks for, and what it is told.                           *)
ProblemRequest(r) ==
    /\ r.op = "save" => r.arg \in Sent
    /\ r.status = "ok" => /\ r.op = "list"   => r.data[1] \subseteq Ids
                          /\ r.op = "detail" => r.data[1] \in [of : Ids, text : Edits]
                          /\ r.op = "save"   => r.data[1] \in Ids

ProblemsNet == /\ IsNet(net) /\ Len(net) <= MaxInFlight + 1
               /\ \A k \in DOMAIN net : ProblemRequest(net[k])

ProblemsTypes == ProblemsTypeOK /\ (open = "problem console" => ProblemsNet)

LEMMA ProblemsServed ==
    ASSUME ProblemsNet, IsNet(net'), NEW i \in DOMAIN net,
           Served(net, net', i), ProblemRequest(net'[i])
    PROVE  ProblemsNet'
<1>1. DOMAIN net' = DOMAIN net /\ \A k \in DOMAIN net \ {i} : net'[k] = net[k]
  BY DEF Served
<1>2. Len(net') <= MaxInFlight + 1
  BY <1>1, ServedLength DEF ProblemsNet
<1>3. \A k \in DOMAIN net' : ProblemRequest(net'[k])
  BY <1>1 DEF ProblemsNet
<1>4. QED
  BY <1>2, <1>3 DEF ProblemsNet

LEMMA ProblemsMoved ==
    ASSUME ProblemsNet, IsNet(net'), Len(net') <= MaxInFlight + 1,
           NEW A, NEW R, NEW f, Moves(net, net', A, R, f), \A r \in R : ProblemRequest(r)
    PROVE  ProblemsNet'
<1>1. ASSUME NEW k \in DOMAIN net' PROVE ProblemRequest(net'[k])
  <2>1. CASE f[k] \in A
    <3>1. Same(net'[k], net[f[k]]) /\ f[k] \in DOMAIN net
      BY <2>1 DEF Moves
    <3>2. ProblemRequest(net[f[k]])
      BY <3>1 DEF ProblemsNet
    <3>3. QED
      BY <3>1, <3>2 DEF ProblemRequest, Same
  <2>2. CASE f[k] \notin A
    BY <2>2 DEF Moves
  <2>3. QED
    BY <2>1, <2>2
<1>2. QED
  BY <1>1 DEF ProblemsNet

(* What the server holds has ids of the page.                              *)
LEMMA ExistingIds ==
    ASSUME ProblemsTypeOK
    PROVE  /\ Len(stored) \in Nat /\ DOMAIN stored = 1..Len(stored)
           /\ DOMAIN stored \subseteq Ids /\ Exist \subseteq Ids
           /\ \A p \in DOMAIN stored : stored[p] \in Problem
<1>0. stored \in Seq(Problem) /\ Len(stored) <= MaxProblems
  BY DEF ProblemsTypeOK
<1>1. /\ Len(stored) \in Nat /\ DOMAIN stored = 1..Len(stored) /\ Len(stored) <= MaxProblems
      /\ \A p \in DOMAIN stored : stored[p] \in Problem
  <2>1. PICK s, E : s = stored /\ E = Problem
    OBVIOUS
  <2>2. s \in Seq(E) /\ Len(s) <= MaxProblems
    BY <1>0, <2>1
  <2>3. /\ Len(s) \in Nat /\ DOMAIN s = 1..Len(s) /\ \A p \in DOMAIN s : s[p] \in E
    BY ONLY <2>2
  <2>4. QED
    BY <2>1, <2>2, <2>3
<1>2. 1..Len(stored) \subseteq 1..MaxProblems
  BY <1>1, ProblemConsoleAssumption
<1>3. QED
  BY <1>1, <1>2 DEF Exist, Ids

LEMMA ProblemsSent ==
    ASSUME ProblemsNet, NEW op, NEW arg,
           op = "save" => arg \in Sent,
           Send(Request(op, arg))
    PROVE  ProblemsNet'
<1>1. PICK r : r = Request(op, arg)
  OBVIOUS
<1>2. IsRequest(r) /\ ProblemRequest(r) /\ Send(r)
  BY <1>1, NewRequest DEF Request, ProblemRequest
<1>3. PICK f : IsNet(net') /\ Moves(net, net', DOMAIN net, {r}, f)
  BY <1>2, SendMoves DEF ProblemsNet
<1>4. Len(net') <= MaxInFlight + 1
  BY <1>2, SendLength, ApiAssumption DEF ProblemsNet
<1>5. \A q \in {r} : ProblemRequest(q)
  BY <1>2
<1>6. QED
  BY <1>3, <1>4, <1>5, ProblemsMoved

LEMMA ProblemsNetKept ==
    ASSUME ProblemsTypeOK, ProblemsNet, ProblemsNext
    PROVE  ProblemsNet'
<1>0. IsNet(net) /\ Len(net) <= MaxInFlight + 1 /\ \A k \in DOMAIN net : ProblemRequest(net[k])
  BY DEF ProblemsNet
<1>1. CASE CancelEdit \/ TypeInForm \/ ChooseZip \/ SwitchMode \/ RefuseSubmit
  <2>1. net' = net
    BY <1>1 DEF CancelEdit, TypeInForm, ChooseZip, SwitchMode, RefuseSubmit
  <2>2. QED
    BY <2>1 DEF ProblemsNet
<1>2. CASE SubmitProblem
  <2>1. PICK a : /\ a = [id |-> editing, text |-> fields.text,
                         groups |-> fields.groups, upload |-> Upload]
                 /\ Send(Request("save", a))
    BY <1>2 DEF SubmitProblem, Click
  <2>2. fields.text \in Edits /\ fields.groups \in Edits /\ editing \in {0} \cup Ids
    BY DEF ProblemsTypeOK, Fields
  <2>3. Upload \in Edits
    BY <2>2, ProblemConsoleAssumption DEF Upload, Edits, ProblemsTypeOK
  <2>4. a \in Sent
    BY ONLY <2>1, <2>2, <2>3 DEF Sent
  <2>5. QED
    BY <2>1, <2>4, ProblemsSent
<1>3. CASE \E p \in Ids : EditProblem(p) \/ DeleteProblem(p)
  <2>1. PICK op, arg : op \in {"detail", "delete"} /\ Send(Request(op, arg))
    BY <1>3 DEF EditProblem, DeleteProblem, Click
  <2>2. QED
    BY <2>1, ProblemsSent
<1>4. ASSUME NEW i \in DOMAIN net, DetailAnswered(i) \/ ProblemsLoaded(i)
      PROVE  ProblemsNet'
  <2>1. ReturnLoad(i, <<>>)
    BY <1>4 DEF DetailAnswered, ProblemsLoaded
  <2>2. PICK f : IsNet(net') /\ Moves(net, net', DOMAIN net \ {i}, {}, f)
    BY <1>0, <2>1, ReturnLoadMoves
  <2>3. Len(net) \in Nat /\ Len(net') = Len(net) - 1
    BY <1>0, <2>1, ReturnLoadLength
  <2>4. Len(net') <= MaxInFlight + 1
    BY <1>0, <2>3, ApiAssumption
  <2>5. QED
    BY <2>2, <2>4, ProblemsMoved
<1>5. ASSUME NEW i \in DOMAIN net, SaveAnswered(i) \/ DeleteAnswered(i)
      PROVE  ProblemsNet'
  <2>1. PICK r : r = Request("list", 0)
    OBVIOUS
  <2>2. Return(i, <<>>) \/ Return(i, <<r>>)
    BY <1>5, <2>1 DEF SaveAnswered, DeleteAnswered
  <2>3. IsRequest(r) /\ ProblemRequest(r)
    BY <2>1, NewRequest DEF Request, ProblemRequest
  <2>4. PICK R, f : IsNet(net') /\ R \subseteq {r} /\ Moves(net, net', DOMAIN net \ {i}, R, f)
    <3>1. IsNet(net') /\ \E R, f : R \subseteq {r} /\ Moves(net, net', DOMAIN net \ {i}, R, f)
      BY <1>0, <2>2, <2>3, ReturnMaySend
    <3>2. QED
      BY <3>1
  <2>5. Len(net) \in Nat /\ Len(net') \in Nat /\ Len(net') <= Len(net)
    BY <1>0, <2>2, ReturnLength
  <2>6. Len(net') <= MaxInFlight + 1
    BY <1>0, <2>5, ApiAssumption
  <2>7. \A q \in R : ProblemRequest(q)
    BY <2>3, <2>4
  <2>8. QED
    BY <2>4, <2>6, <2>7, ProblemsMoved
<1>6. ASSUME NEW i \in DOMAIN net, Fail(i) PROVE ProblemsNet'
  <2>1. IsNet(net') /\ Served(net, net', i) /\ net'[i].status = "error"
    BY <1>0, <1>6, FailServes
  <2>2. ProblemRequest(net'[i])
    BY <1>0, <2>1 DEF ProblemRequest, Served
  <2>3. QED
    BY <2>1, <2>2, ProblemsServed
<1>7. ASSUME NEW i \in DOMAIN net, NEW d, Answer(i, d),
             net[i].op = "list" => d \subseteq Ids,
             net[i].op = "detail" => d \in [of : Ids, text : Edits],
             net[i].op = "save" => d \in Ids
      PROVE  ProblemsNet'
  <2>1. IsNet(net') /\ Served(net, net', i) /\ net'[i].data[1] = d
    BY <1>0, <1>7, AnswerServes
  <2>2. ProblemRequest(net'[i])
    BY <1>0, <1>7, <2>1 DEF ProblemRequest, Served
  <2>3. QED
    BY <2>1, <2>2, ProblemsServed
<1>8. ASSUME NEW i \in DOMAIN net, NEW d, Read(i, d)
       PROVE  ProblemsNet'
  <2>1. IsNet(net') /\ Served(net, net', i) /\ net'[i].status = "read"
    BY <1>0, <1>8, ReadServes
  <2>2. ProblemRequest(net'[i])
    BY <1>0, <2>1 DEF ProblemRequest, Served
  <2>3. QED
    BY <2>1, <2>2, ProblemsServed
<1>9. ASSUME NEW i \in DOMAIN net, HandleRead(i)
      PROVE  ProblemsNet'
  <2> DEFINE d == [of |-> net[i].arg, text |-> stored[net[i].arg].text]
  <2>1. \/ net[i].op = "list" /\ Answer(i, Exist)
        \/ net[i].op = "detail" /\ net[i].arg \in Exist /\ Answer(i, d)
    BY <1>9 DEF HandleRead
  <2>2. net[i].arg \in Exist => d \in [of : Ids, text : Edits]
    <3>1. net[i].arg \in Exist => net[i].arg \in Ids /\ stored[net[i].arg] \in Problem
      BY ExistingIds DEF Exist
    <3>2. QED
      BY <3>1 DEF Problem
  <2>3. Exist \subseteq Ids
    BY ExistingIds
  <2> HIDE DEF d
  <2>4. QED
    BY <1>7, <2>1, <2>2, <2>3
<1>10. ASSUME NEW i \in DOMAIN net, InsertRow(i) \/ StoreTestcases(i) \/ UpdateRow(i)
      PROVE  ProblemsNet'
  <2>1. CASE InsertRow(i)
    BY <1>6, <1>8, <2>1 DEF InsertRow
  <2>2. CASE StoreTestcases(i)
    <3>1. /\ net[i].op = "save" /\ Target(i) \in Exist
          /\ Fail(i) \/ Answer(i, Target(i)) \/ Read(i, Target(i))
      BY <2>2 DEF StoreTestcases
    <3>2. Target(i) \in Ids
      BY <3>1, ExistingIds
    <3>3. QED
      BY <1>6, <1>7, <1>8, <3>1, <3>2
  <2>3. CASE UpdateRow(i)
    <3>1. net[i].op = "save" /\ net[i].arg.id \in Exist /\ (Fail(i) \/ Answer(i, net[i].arg.id))
      BY <2>3 DEF UpdateRow
    <3>2. net[i].arg.id \in Ids
      BY <3>1, ExistingIds
    <3>3. QED
      BY <1>6, <1>7, <3>1, <3>2
  <2>4. QED
    BY <1>10, <2>1, <2>2, <2>3
<1>11. ASSUME NEW i \in DOMAIN net, HandleDelete(i) \/ ProblemRequestFails(i)
       PROVE  ProblemsNet'
  <2>1. Fail(i) \/ (net[i].op = "delete" /\ Answer(i, 0))
    BY <1>11 DEF HandleDelete, ProblemRequestFails
  <2>2. QED
    BY <1>6, <1>7, <2>1
<1>12. QED
  BY <1>1, <1>2, <1>3, <1>4, <1>5, <1>9, <1>10, <1>11 DEF ProblemsNext

LEMMA ProblemsTypesKept ==
    ASSUME ProblemsTypeOK, ProblemsNet, ProblemsNext
    PROVE  ProblemsTypeOK'
<1>0. \A k \in DOMAIN net : ProblemRequest(net[k])
  BY DEF ProblemsNet
<1>1. Blank \in Fields /\ 0 \in Edits /\ \A of \in Ids, text \in Edits : Loaded(of, text) \in Fields
  BY ProblemConsoleAssumption DEF Blank, Loaded, Fields, Edits
<1> USE DEF uploadVars
<1>2. CASE CancelEdit
  <2>1. /\ editing' = 0 /\ fields' = Blank /\ status' = "none" /\ upset' = FALSE
        /\ uploadMode' = "individual" /\ zipFile' = 0
        /\ UNCHANGED <<stored, erased, listed, edits, clicks, saved, raced>>
    BY <1>2 DEF CancelEdit, ResetForm
  <2>2. QED
    BY <1>1, <2>1 DEF ProblemsTypeOK
<1>3. CountEdit => edits' \in Edits /\ edits' = edits + 1
  BY ProblemConsoleAssumption DEF CountEdit, Edits, ProblemsTypeOK
<1>4. CASE TypeInForm
  <2>1. /\ edits' \in Edits
        /\ \/ fields' = [fields EXCEPT !.text = edits']
           \/ \E chosen \in BOOLEAN : fields' = [fields EXCEPT !.groups = edits', !.files = chosen]
        /\ UNCHANGED <<stored, erased, listed, editing, uploadMode, zipFile, status, clicks, saved,
                       raced, upset>>
    BY <1>4, <1>3 DEF TypeInForm
  <2>2. fields' \in Fields
    <3>1. fields \in Fields
      BY DEF ProblemsTypeOK
    <3>2. QED
      BY ONLY <2>1, <3>1 DEF Fields
  <2>3. QED
    BY <2>1, <2>2 DEF ProblemsTypeOK
<1>5. CASE ChooseZip
  <2>1. /\ edits' \in Edits /\ zipFile' \in {edits', 0}
        /\ UNCHANGED <<stored, erased, listed, editing, fields, uploadMode, status, clicks, saved,
                       raced, upset>>
    BY <1>3, <1>5 DEF ChooseZip
  <2>2. QED
    BY <1>1, <2>1 DEF ProblemsTypeOK
<1>6. CountClick => clicks' \in 0..MaxClicks
  BY ProblemConsoleAssumption DEF CountClick, ProblemsTypeOK
<1>7. ASSUME NEW r, Click(r) PROVE clicks' \in 0..MaxClicks
  BY <1>7, <1>6 DEF Click
<1>8. CASE SwitchMode
  <2>1. /\ clicks' \in 0..MaxClicks /\ uploadMode' \in {"individual", "zip"}
        /\ UNCHANGED <<stored, erased, listed, editing, fields, zipFile, edits, status, saved,
                       raced, upset>>
    BY <1>6, <1>8 DEF SwitchMode
  <2>2. QED
    BY <2>1 DEF ProblemsTypeOK
<1>9. CASE RefuseSubmit
  <2>1. /\ status' = "none"
        /\ UNCHANGED <<stored, erased, listed, editing, fields, uploadMode, zipFile, edits, clicks,
                       saved, raced, upset>>
    BY <1>9 DEF RefuseSubmit
  <2>2. QED
    BY <2>1 DEF ProblemsTypeOK
<1>10. CASE SubmitProblem
  <2>1. /\ clicks' \in 0..MaxClicks
        /\ status' = "saving" /\ raced' = (InFlight({"save"}) # {})
        /\ UNCHANGED <<stored, erased, listed, editing, fields, uploadMode, zipFile, edits, saved,
                       upset>>
    BY <1>7, <1>10 DEF SubmitProblem
  <2>2. raced' \in BOOLEAN
    BY <2>1
  <2>3. QED
    BY <2>1, <2>2 DEF ProblemsTypeOK
<1>11. ASSUME NEW p \in Ids, EditProblem(p) \/ DeleteProblem(p)
      PROVE  ProblemsTypeOK'
  <2>1. /\ clicks' \in 0..MaxClicks /\ editing' \in {editing, p}
        /\ UNCHANGED <<stored, erased, listed, fields, uploadMode, zipFile, edits, status, saved,
                       raced, upset>>
    BY <1>7, <1>11 DEF EditProblem, DeleteProblem
  <2>2. QED
    BY <2>1 DEF ProblemsTypeOK
<1>12. ASSUME NEW i \in DOMAIN net, DetailAnswered(i)
      PROVE  ProblemsTypeOK'
  <2>1. /\ net[i].op = "detail"
        /\ fields' = IF Handled(i) THEN Loaded(Data(i).of, Data(i).text) ELSE fields
        /\ upset' = (Failed(i) \/ net[i].late \/ net[i].arg # editing)
        /\ UNCHANGED <<stored, erased, listed, editing, uploadMode, zipFile, edits, status, clicks,
                       saved, raced>>
    BY <1>12 DEF DetailAnswered
  <2>2. fields' \in Fields
    <3>1. Handled(i) => Data(i) \in [of : Ids, text : Edits]
      BY <1>0, <2>1 DEF ProblemRequest, Handled, Data
    <3>2. Handled(i) => Data(i).of \in Ids /\ Data(i).text \in Edits
      BY ONLY <3>1
    <3>3. QED
      BY <1>1, <2>1, <3>2 DEF ProblemsTypeOK
  <2>3. upset' \in BOOLEAN
    BY <2>1
  <2>4. QED
    BY <2>1, <2>2, <2>3 DEF ProblemsTypeOK
<1>13. ASSUME NEW i \in DOMAIN net, SaveAnswered(i)
      PROVE  ProblemsTypeOK'
  <2>1. /\ net[i].op = "save"
        /\ status' \in {"saved", "failed"}
        /\ \/ Handled(i) /\ saved' = [net[i].arg EXCEPT !.id = Data(i)]
           \/ saved' = saved
        /\ UNCHANGED <<stored, erased, listed, editing, fields, uploadMode, zipFile, edits, clicks,
                       raced, upset>>
    BY <1>13 DEF SaveAnswered
  <2>2. net[i].arg \in Sent /\ (Handled(i) => Data(i) \in Ids)
    BY <1>0, <2>1 DEF ProblemRequest, Handled, Data
  <2>3. saved' \in Sent
    <3>1. ASSUME NEW a \in Sent, NEW n \in Ids PROVE [a EXCEPT !.id = n] \in Sent
      BY DEF Sent
    <3>2. QED
      BY <2>1, <2>2, <3>1 DEF ProblemsTypeOK
  <2>4. QED
    BY <2>1, <2>3 DEF ProblemsTypeOK
<1>14. ASSUME NEW i \in DOMAIN net, ProblemsLoaded(i)
      PROVE  ProblemsTypeOK'
  <2>1. /\ net[i].op = "list"
        /\ listed' = IF Handled(i) THEN Data(i) ELSE listed
        /\ UNCHANGED <<stored, erased, editing, fields, uploadMode, zipFile, edits, status, clicks,
                       saved, raced, upset>>
    BY <1>14 DEF ProblemsLoaded
  <2>2. listed' \subseteq Ids
    BY <1>0, <2>1 DEF ProblemRequest, Handled, Data, ProblemsTypeOK
  <2>3. QED
    BY <2>1, <2>2 DEF ProblemsTypeOK
<1>15. ASSUME NEW i \in DOMAIN net, DeleteAnswered(i)
       PROVE  ProblemsTypeOK'
  <2>1. /\ \/ /\ editing' = 0 /\ fields' = Blank /\ status' = "none" /\ upset' = FALSE
              /\ uploadMode' = "individual" /\ zipFile' = 0
           \/ UNCHANGED <<editing, fields, uploadMode, zipFile, status, upset>>
        /\ UNCHANGED <<stored, erased, listed, edits, clicks, saved, raced>>
    BY <1>15 DEF DeleteAnswered, ResetForm
  <2>2. editing' \in {0} \cup Ids /\ fields' \in Fields /\ upset' \in BOOLEAN
        /\ uploadMode' \in {"individual", "zip"} /\ zipFile' \in Edits
        /\ status' \in {"none", "saving", "saved", "failed"}
    BY <1>1, <2>1 DEF ProblemsTypeOK
  <2>3. QED
    BY <2>1, <2>2 DEF ProblemsTypeOK
<1>16. ASSUME NEW i \in DOMAIN net, InsertRow(i) \/ StoreTestcases(i) \/ UpdateRow(i)
       PROVE  ProblemsTypeOK'
  <2>1. PICK a : a = net[i].arg
    OBVIOUS
  <2>2. /\ net[i].op = "save"
        /\ UNCHANGED <<erased, listed, editing, fields, uploadMode, zipFile, edits, status, clicks,
                       saved, raced, upset>>
    BY <1>16 DEF InsertRow, StoreTestcases, UpdateRow
  <2>3. a \in Sent
    BY <1>0, <2>1, <2>2 DEF ProblemRequest
  <2>4. stored \in Seq(Problem) /\ Len(stored) \in Nat /\ Len(stored) <= MaxProblems
    BY DEF ProblemsTypeOK
  <2>5. ASSUME NEW p, NEW e, p \in Exist, e \in Problem, stored' = [stored EXCEPT ![p] = e]
        PROVE  ProblemsTypeOK'
    <3>1. p \in DOMAIN stored
      BY <2>5 DEF Exist
    <3>2. stored' \in Seq(Problem) /\ Len(stored') = Len(stored)
      BY ONLY <2>4, <2>5, <3>1
    <3>3. QED
      BY <2>2, <2>4, <3>2 DEF ProblemsTypeOK
  <2>6. CASE InsertRow(i)
    <3>1. PICK e : e = New(a.text)
      OBVIOUS
    <3>2. Len(stored) < MaxProblems /\ stored' = Append(stored, e)
      BY <2>1, <2>6, <3>1 DEF InsertRow
    <3>3. e \in Problem
      BY <2>3, <3>1 DEF New, Sent, Problem
    <3>4. stored' \in Seq(Problem) /\ Len(stored') = Len(stored) + 1
      BY ONLY <2>4, <3>2, <3>3, AppendProperties
    <3>5. Len(stored') <= MaxProblems
      BY <2>4, <3>2, <3>4, ProblemConsoleAssumption
    <3>6. QED
      BY <2>2, <3>4, <3>5 DEF ProblemsTypeOK
  <2>7. CASE StoreTestcases(i)
    <3>1. PICK p : p = Target(i)
      OBVIOUS
    <3>2. /\ p \in Exist
          /\ \/ stored' = [stored EXCEPT ![p].files = a.upload]
             \/ stored' = [[stored EXCEPT ![p].files = a.upload] EXCEPT ![p].groups = a.groups]
      BY <2>1, <2>7, <3>1 DEF StoreTestcases
    <3>3. PICK x \in Problem : x = stored[p]
      BY <3>2, ExistingIds DEF Exist
    <3>4. /\ [x EXCEPT !.files = a.upload] \in Problem
          /\ [[x EXCEPT !.files = a.upload] EXCEPT !.groups = a.groups] \in Problem
      BY <2>3 DEF Problem, Sent
    <3>5. p \in DOMAIN stored
      BY <3>2 DEF Exist
    <3>6. \/ stored' = [stored EXCEPT ![p] = [x EXCEPT !.files = a.upload]]
          \/ stored' = [stored EXCEPT ![p] = [[x EXCEPT !.files = a.upload] EXCEPT !.groups = a.groups]]
      BY ONLY <2>4, <3>2, <3>3, <3>5
    <3>7. QED
      BY <2>5, <3>2, <3>4, <3>6
  <2>8. CASE UpdateRow(i)
    <3>1. PICK p : p = a.id
      OBVIOUS
    <3>2. p \in Exist /\ stored' = [stored EXCEPT ![p].text = a.text]
      BY <2>1, <2>8, <3>1 DEF UpdateRow
    <3>3. PICK x \in Problem : x = stored[p]
      BY <3>2, ExistingIds DEF Exist
    <3>4. [x EXCEPT !.text = a.text] \in Problem
      BY <2>3 DEF Problem, Sent
    <3>5. p \in DOMAIN stored
      BY <3>2 DEF Exist
    <3>6. stored' = [stored EXCEPT ![p] = [x EXCEPT !.text = a.text]]
      BY ONLY <2>4, <3>2, <3>3, <3>5
    <3>7. QED
      BY <2>5, <3>2, <3>4, <3>6
  <2>9. QED
    BY <1>16, <2>6, <2>7, <2>8
<1>17. ASSUME NEW i \in DOMAIN net, HandleDelete(i)
       PROVE  ProblemsTypeOK'
  <2>1. /\ erased' = erased \cup {net[i].arg.id} /\ net[i].arg.id \in Exist
        /\ UNCHANGED <<stored, listed, editing, fields, uploadMode, zipFile, edits, status, clicks,
                       saved, raced, upset>>
    BY <1>17 DEF HandleDelete
  <2>2. erased' \subseteq Ids
    BY <2>1, ExistingIds DEF ProblemsTypeOK
  <2>3. QED
    BY <2>1, <2>2 DEF ProblemsTypeOK
<1>18. ASSUME NEW i \in DOMAIN net, HandleRead(i) \/ ProblemRequestFails(i)
       PROVE  ProblemsTypeOK'
  BY <1>18 DEF HandleRead, ProblemRequestFails, problemPage, ProblemsTypeOK
<1>19. QED
  BY <1>2, <1>4, <1>10, <1>11, <1>12, <1>13, <1>14, <1>15, <1>16, <1>17, <1>18, <1>5, <1>8, <1>9
     DEF ProblemsNext

(***************************************************************************)
(* Types of the contest console.                                           *)
(***************************************************************************)

(* What this page asks for, and what it is told.                           *)
ConsoleRequest(r) ==
    /\ r.op \in {"add", "remove"} => r.arg[2] \in Problems
    /\ r.status = "ok" => /\ r.op = "contests" => r.data[1] \subseteq ContestIds
                          /\ r.op \in {"choices", "problems"} => r.data[1] \subseteq Problems

ConsoleNet == /\ IsNet(net) /\ Len(net) <= MaxInFlight + 1
              /\ \A k \in DOMAIN net : ConsoleRequest(net[k])

ConsoleTypes == ConsoleTypeOK /\ (open = "contest console" => ConsoleNet)

LEMMA ConsoleServed ==
    ASSUME ConsoleNet, IsNet(net'), NEW i \in DOMAIN net,
           DOMAIN net' = DOMAIN net, \A k \in DOMAIN net \ {i} : Same(net'[k], net[k]),
           ConsoleRequest(net'[i])
    PROVE  ConsoleNet'
<1>1. DOMAIN net' = DOMAIN net /\ \A k \in DOMAIN net \ {i} : Same(net'[k], net[k])
  OBVIOUS
<1>2. Len(net') <= MaxInFlight + 1
  BY <1>1, ServedLength DEF ConsoleNet
<1>3. ASSUME NEW k \in DOMAIN net' PROVE ConsoleRequest(net'[k])
  <2>1. CASE k # i
    <3>1. Same(net'[k], net[k]) /\ ConsoleRequest(net[k])
      BY <1>1, <2>1 DEF ConsoleNet
    <3>2. QED
      BY <3>1 DEF ConsoleRequest, Same
  <2>2. QED
    BY <2>1
<1>4. QED
  BY <1>2, <1>3 DEF ConsoleNet

LEMMA ConsoleMoved ==
    ASSUME ConsoleNet, IsNet(net'), Len(net') <= MaxInFlight + 1,
           NEW A, NEW R, NEW f, Moves(net, net', A, R, f), \A r \in R : ConsoleRequest(r)
    PROVE  ConsoleNet'
<1>1. ASSUME NEW k \in DOMAIN net' PROVE ConsoleRequest(net'[k])
  <2>1. CASE f[k] \in A
    <3>1. Same(net'[k], net[f[k]]) /\ f[k] \in DOMAIN net
      BY <2>1 DEF Moves
    <3>2. ConsoleRequest(net[f[k]])
      BY <3>1 DEF ConsoleNet
    <3>3. QED
      BY <3>1, <3>2 DEF ConsoleRequest, Same
  <2>2. CASE f[k] \notin A
    BY <2>2 DEF Moves
  <2>3. QED
    BY <2>1, <2>2
<1>2. QED
  BY <1>1 DEF ConsoleNet

(* What the server holds has ids of the page.                              *)
LEMMA AttachedIds ==
    ASSUME ConsoleTypeOK
    PROVE  /\ Len(attached) \in Nat /\ DOMAIN attached = 1..Len(attached)
           /\ DOMAIN attached \subseteq ContestIds /\ There \subseteq ContestIds
           /\ \A c \in DOMAIN attached : attached[c] \subseteq Problems
<1>1. PICK s, E : s = attached /\ E = SUBSET Problems
  OBVIOUS
<1>2. s \in Seq(E) /\ Len(s) <= MaxContests
  BY <1>1 DEF ConsoleTypeOK
<1>3. Len(s) \in Nat /\ DOMAIN s = 1..Len(s) /\ \A c \in DOMAIN s : s[c] \in E
  BY ONLY <1>2
<1>4. 1..Len(s) \subseteq 1..MaxContests
  BY <1>2, <1>3, ContestConsoleAssumption
<1>5. QED
  BY <1>1, <1>3, <1>4 DEF There, ContestIds

LEMMA ConsoleSent ==
    ASSUME ConsoleNet, NEW op, NEW arg,
           op \in {"add", "remove"} => arg[2] \in Problems,
           Send(Request(op, arg))
    PROVE  ConsoleNet'
<1>1. PICK r : r = Request(op, arg)
  OBVIOUS
<1>2. IsRequest(r) /\ ConsoleRequest(r) /\ Send(r)
  BY <1>1, NewRequest DEF Request, ConsoleRequest
<1>3. PICK f : IsNet(net') /\ Moves(net, net', DOMAIN net, {r}, f)
  BY <1>2, SendMoves DEF ConsoleNet
<1>4. Len(net') <= MaxInFlight + 1
  BY <1>2, SendLength, ApiAssumption DEF ConsoleNet
<1>5. \A q \in {r} : ConsoleRequest(q)
  BY <1>2
<1>6. QED
  BY <1>3, <1>4, <1>5, ConsoleMoved

LEMMA ConsoleReturned ==
    ASSUME ConsoleNet, NEW i \in DOMAIN net, NEW op, NEW arg, op \notin {"add", "remove"},
           Return(i, <<>>) \/ Return(i, <<Request(op, arg)>>)
    PROVE  ConsoleNet'
<1>1. PICK r : r = Request(op, arg)
  OBVIOUS
<1>2. Return(i, <<>>) \/ Return(i, <<r>>)
  BY <1>1
<1>3. IsRequest(r) /\ ConsoleRequest(r)
  BY <1>1, NewRequest DEF Request, ConsoleRequest
<1>4. PICK R, f : IsNet(net') /\ R \subseteq {r} /\ Moves(net, net', DOMAIN net \ {i}, R, f)
  <2>1. IsNet(net') /\ \E R, f : R \subseteq {r} /\ Moves(net, net', DOMAIN net \ {i}, R, f)
    BY <1>2, <1>3, ReturnMaySend DEF ConsoleNet
  <2>2. QED
    BY <2>1
<1>5. Len(net) \in Nat /\ Len(net') \in Nat /\ Len(net') <= Len(net)
  BY <1>2, ReturnLength DEF ConsoleNet
<1>6. Len(net') <= MaxInFlight + 1
  BY <1>5, ApiAssumption DEF ConsoleNet
<1>7. \A q \in R : ConsoleRequest(q)
  BY <1>3, <1>4
<1>8. QED
  BY <1>4, <1>6, <1>7, ConsoleMoved

LEMMA ConsoleNetKept ==
    ASSUME ConsoleTypeOK, ConsoleNet, ConsoleNext
    PROVE  ConsoleNet'
<1>0. IsNet(net) /\ Len(net) <= MaxInFlight + 1 /\ \A k \in DOMAIN net : ConsoleRequest(net[k])
  BY DEF ConsoleNet
<1>1. CASE CancelContest \/ ClosePanel \/ \E c \in ContestIds : EditContest(c)
  <2>1. net' = net
    BY <1>1 DEF CancelContest, ClosePanel, EditContest
  <2>2. QED
    BY <2>1 DEF ConsoleNet
<1>2. CASE SaveContest \/ \E c \in ContestIds : DeleteContest(c) \/ OpenPanel(c)
  <2>1. PICK op, arg : op \notin {"add", "remove"} /\ Send(Request(op, arg))
    BY <1>2 DEF SaveContest, DeleteContest, OpenPanel, Act
  <2>2. QED
    BY <2>1, ConsoleSent
<1>3. ASSUME NEW p \in Problems, AddProblem(p) \/ RemoveProblem(p) \/ Rejudge(p)
      PROVE  ConsoleNet'
  <2>1. PICK op, arg : arg = <<managing, p>> /\ Send(Request(op, arg))
    BY <1>3 DEF AddProblem, RemoveProblem, Rejudge, Act
  <2>2. arg[2] = p
    BY <2>1
  <2>3. QED
    BY <2>1, <2>2, ConsoleSent
<1>4. ASSUME NEW i \in DOMAIN net, ContestsLoaded(i) \/ ChoicesLoaded(i) \/ PanelLoaded(i)
      PROVE  ConsoleNet'
  <2>1. ReturnLoad(i, <<>>)
    BY <1>4 DEF ContestsLoaded, ChoicesLoaded, PanelLoaded
  <2>2. PICK f : IsNet(net') /\ Moves(net, net', DOMAIN net \ {i}, {}, f)
    BY <1>0, <2>1, ReturnLoadMoves
  <2>3. Len(net) \in Nat /\ Len(net') = Len(net) - 1
    BY <1>0, <2>1, ReturnLoadLength
  <2>4. Len(net') <= MaxInFlight + 1
    BY <1>0, <2>3, ApiAssumption
  <2>5. QED
    BY <2>2, <2>4, ConsoleMoved
<1>5. ASSUME NEW i \in DOMAIN net,
             ContestSaved(i) \/ ContestDeleted(i) \/ PanelChanged(i) \/ RejudgeAnswered(i)
      PROVE  ConsoleNet'
  <2>1. \/ Return(i, <<>>) \/ Return(i, <<Request("contests", 0)>>)
        \/ Return(i, <<Request("problems", net[i].arg[1])>>)
    BY <1>5 DEF ContestSaved, ContestDeleted, PanelChanged, RejudgeAnswered
  <2>2. QED
    BY <2>1, ConsoleReturned
<1>6. ASSUME NEW i \in DOMAIN net, Fail(i) PROVE ConsoleNet'
  <2>1. IsNet(net') /\ Served(net, net', i) /\ net'[i].status = "error"
    BY <1>0, <1>6, FailServes
  <2>2. ConsoleRequest(net'[i])
    BY <1>0, <2>1 DEF ConsoleRequest, Served
  <2>3. DOMAIN net' = DOMAIN net /\ \A k \in DOMAIN net \ {i} : Same(net'[k], net[k])
    BY <2>1 DEF Served, Same
  <2>4. QED
    BY <2>1, <2>2, <2>3, ConsoleServed
<1>7. ASSUME NEW i \in DOMAIN net, NEW d, Answer(i, d),
             net[i].op = "contests" => d \subseteq ContestIds,
             net[i].op \in {"choices", "problems"} => d \subseteq Problems
      PROVE  ConsoleNet'
  <2>1. IsNet(net') /\ Served(net, net', i) /\ net'[i].data[1] = d
    BY <1>0, <1>7, AnswerServes
  <2>2. ConsoleRequest(net'[i])
    BY <1>0, <1>7, <2>1 DEF ConsoleRequest, Served
  <2>3. DOMAIN net' = DOMAIN net /\ \A k \in DOMAIN net \ {i} : Same(net'[k], net[k])
    BY <2>1 DEF Served, Same
  <2>4. QED
    BY <2>1, <2>2, <2>3, ConsoleServed
<1>8. ASSUME NEW i \in DOMAIN net, ConsoleRead(i)
      PROVE  ConsoleNet'
  <2>1. net[i].op = "contests" => Content(i) = There
    BY DEF Content
  <2>2. net[i].op = "choices" => Content(i) = Problems
    BY DEF Content
  <2>3. net[i].op = "problems" => Content(i) \subseteq Problems
    <3>1. net[i].op = "problems"
          => Content(i) = IF net[i].arg \in There THEN attached[net[i].arg] ELSE {}
      BY DEF Content
    <3>2. net[i].arg \in There => attached[net[i].arg] \subseteq Problems
      BY AttachedIds DEF There
    <3>3. QED
      BY <3>1, <3>2
  <2>4. Answer(i, Content(i))
    BY <1>8 DEF ConsoleRead
  <2>5. There \subseteq ContestIds
    BY AttachedIds
  <2>6. QED
    BY <1>7, <2>1, <2>2, <2>3, <2>4, <2>5
<1>9. ASSUME NEW i \in DOMAIN net,
             StoreContest(i) \/ DropContest(i) \/ StartRejudge(i) \/ ConsoleFails(i)
      PROVE  ConsoleNet'
  <2>1. \/ Fail(i)
        \/ net[i].op \in {"saveContest", "deleteContest", "rejudge"} /\ Answer(i, 0)
    BY <1>9 DEF StoreContest, DropContest, StartRejudge, ConsoleFails
  <2>2. QED
    BY <1>6, <1>7, <2>1
<1>10. ASSUME NEW i \in DOMAIN net, StoreChange(i)
       PROVE  ConsoleNet'
  <2>1. net[i].op \in {"add", "remove"} /\ (Answer(i, 0) \/ LoseAnswer(i, "problems"))
    BY <1>10 DEF StoreChange
  <2>2. CASE Answer(i, 0)
    BY <1>7, <2>1, <2>2
  <2>3. CASE LoseAnswer(i, "problems")
    <3>1. PICK op : op = "problems" /\ LoseAnswer(i, op)
      BY <2>3
    <3>2. /\ IsNet(net') /\ DOMAIN net' = DOMAIN net
          /\ \A k \in DOMAIN net \ {i} : Same(net'[k], net[k])
          /\ net'[i].op = net[i].op /\ net'[i].arg = net[i].arg /\ net'[i].status = "error"
      BY <1>0, <3>1, LoseAnswerServes
    <3>3. ConsoleRequest(net'[i])
      BY <1>0, <3>2 DEF ConsoleRequest
    <3>4. QED
      BY <3>2, <3>3, ConsoleServed
  <2>4. QED
    BY <2>1, <2>2, <2>3
<1>11. QED
  BY <1>1, <1>2, <1>3, <1>4, <1>5, <1>8, <1>9, <1>10 DEF ConsoleNext

LEMMA ConsoleTypesKept ==
    ASSUME ConsoleTypeOK, ConsoleNet, ConsoleNext
    PROVE  ConsoleTypeOK'
<1>0. \A k \in DOMAIN net : ConsoleRequest(net[k])
  BY DEF ConsoleNet
<1>1. ASSUME NEW r, Act(r) PROVE acts' \in 0..MaxActs
  <2>1. acts \in 0..MaxActs /\ MaxActs \in Nat /\ acts < MaxActs /\ acts' = acts + 1
    BY <1>1, ContestConsoleAssumption DEF Act, ConsoleTypeOK
  <2>2. QED
    BY ONLY <2>1
<1>2. CASE CancelContest \/ ClosePanel
  BY <1>2, Zenon DEF CancelContest, ClosePanel, ConsoleTypeOK, rowsOfServer, offers, panelState
<1>3. ASSUME NEW c \in ContestIds, EditContest(c) \/ DeleteContest(c) \/ OpenPanel(c)
      PROVE  ConsoleTypeOK'
  <2>1. /\ acts' \in {acts} \cup 0..MaxActs /\ form' \in {form, c} /\ managing' \in {managing, c}
        /\ UNCHANGED <<attached, gone, contests, fetching, choices, panel, untold>>
    BY <1>1, <1>3 DEF EditContest, DeleteContest, OpenPanel, rowsOfServer, offers, panelState
  <2>2. QED
    BY <2>1 DEF ConsoleTypeOK
<1>4. ASSUME NEW p \in Problems, AddProblem(p) \/ RemoveProblem(p) \/ Rejudge(p)
      PROVE  ConsoleTypeOK'
  <2>1. /\ acts' \in 0..MaxActs
        /\ UNCHANGED <<attached, gone, contests, fetching, choices, form, managing, panel, untold>>
    BY <1>1, <1>4 DEF AddProblem, RemoveProblem, Rejudge, rowsOfServer, offers, panelState
  <2>2. QED
    BY <2>1 DEF ConsoleTypeOK
<1>5. CASE SaveContest
  <2>1. /\ acts' \in 0..MaxActs
        /\ UNCHANGED <<attached, gone, contests, fetching, choices, form, managing, panel, untold>>
    BY <1>1, <1>5 DEF SaveContest, rowsOfServer, offers, panelState
  <2>2. QED
    BY <2>1 DEF ConsoleTypeOK
<1>6. ASSUME NEW i \in DOMAIN net, ContestsLoaded(i)
      PROVE  ConsoleTypeOK'
  <2>1. /\ net[i].op = "contests" /\ contests' = IF Handled(i) THEN Data(i) ELSE contests
        /\ fetching' = FALSE
        /\ UNCHANGED <<attached, gone, choices, form, managing, panel, untold, acts>>
    BY <1>6 DEF ContestsLoaded, rowsOfServer, panelState
  <2>2. contests' \subseteq ContestIds
    BY <1>0, <2>1 DEF ConsoleRequest, Handled, Data, ConsoleTypeOK
  <2>3. QED
    BY <2>1, <2>2 DEF ConsoleTypeOK
<1>7. ASSUME NEW i \in DOMAIN net, ChoicesLoaded(i)
      PROVE  ConsoleTypeOK'
  <2>1. /\ net[i].op = "choices" /\ choices' = IF Handled(i) THEN Data(i) ELSE choices
        /\ UNCHANGED <<attached, gone, contests, fetching, form, managing, panel, untold, acts>>
    BY <1>7 DEF ChoicesLoaded, rowsOfServer, panelState
  <2>2. choices' \subseteq Problems
    BY <1>0, <2>1 DEF ConsoleRequest, Handled, Data, ConsoleTypeOK
  <2>3. QED
    BY <2>1, <2>2 DEF ConsoleTypeOK
<1>8. ASSUME NEW i \in DOMAIN net, ContestSaved(i) \/ ContestDeleted(i)
      PROVE  ConsoleTypeOK'
  <2>1. /\ form' \in {form, 0} /\ fetching' \in {fetching, TRUE}
        /\ contests' = contests \/ contests' = contests \ {net[i].arg}
        /\ UNCHANGED <<attached, gone, choices, managing, panel, untold, acts>>
    BY <1>8 DEF ContestSaved, ContestDeleted, rowsOfServer, panelState
  <2>2. QED
    BY <2>1 DEF ConsoleTypeOK
<1>9. ASSUME NEW i \in DOMAIN net, PanelLoaded(i)
      PROVE  ConsoleTypeOK'
  <2>1. /\ net[i].op = "problems" /\ panel' = IF Handled(i) THEN Data(i) ELSE {}
        /\ untold' = (Failed(i) \/ net[i].late \/ net[i].arg # managing)
        /\ UNCHANGED <<attached, gone, contests, fetching, choices, form, managing, acts>>
    BY <1>9 DEF PanelLoaded, rowsOfServer, offers
  <2>2. panel' \subseteq Problems /\ untold' \in BOOLEAN
    BY <1>0, <2>1 DEF ConsoleRequest, Handled, Data, ConsoleTypeOK
  <2>3. QED
    BY <2>1, <2>2 DEF ConsoleTypeOK
<1>10. ASSUME NEW i \in DOMAIN net,
              PanelChanged(i) \/ RejudgeAnswered(i) \/ ConsoleRead(i) \/ StartRejudge(i) \/ ConsoleFails(i)
       PROVE  ConsoleTypeOK'
  <2>1. UNCHANGED <<attached, gone, contests, fetching, choices, form, managing, panel, untold, acts>>
    BY <1>10 DEF PanelChanged, RejudgeAnswered, ConsoleRead, StartRejudge, ConsoleFails,
                 consolePage, rowsOfServer, offers, panelState
  <2>2. QED
    BY <2>1 DEF ConsoleTypeOK
<1>11. PICK s, E : s = attached /\ E = SUBSET Problems
  OBVIOUS
<1>12. /\ s \in Seq(E) /\ Len(s) \in Nat /\ Len(s) <= MaxContests /\ {} \in E
       /\ MaxContests \in Nat /\ DOMAIN s \subseteq ContestIds
  BY <1>11, AttachedIds, ContestConsoleAssumption DEF ConsoleTypeOK
<1>13. ASSUME NEW i \in DOMAIN net, StoreContest(i)
       PROVE  ConsoleTypeOK'
  <2>1. /\ attached' = s \/ (Len(s) < MaxContests /\ attached' = Append(s, {}))
        /\ UNCHANGED <<gone, contests, fetching, choices, form, managing, panel, untold, acts>>
    BY <1>11, <1>13 DEF StoreContest, offers, panelState
  <2>2. Append(s, {}) \in Seq(E) /\ Len(Append(s, {})) = Len(s) + 1
    BY ONLY <1>12, AppendProperties
  <2>3. Len(s) < MaxContests => Len(s) + 1 <= MaxContests
    BY ONLY <1>12
  <2>4. attached' \in Seq(E) /\ Len(attached') <= MaxContests
    BY ONLY <1>12, <2>1, <2>2, <2>3
  <2>5. QED
    BY <1>11, <2>1, <2>4 DEF ConsoleTypeOK
<1>14. ASSUME NEW i \in DOMAIN net, DropContest(i)
       PROVE  ConsoleTypeOK'
  <2>1. /\ net[i].arg \in ContestIds /\ gone' = gone \cup {net[i].arg}
        /\ UNCHANGED <<attached, contests, fetching, choices, form, managing, panel, untold, acts>>
    BY <1>14, AttachedIds DEF DropContest, offers, panelState
  <2>2. QED
    BY <2>1 DEF ConsoleTypeOK
<1>15. ASSUME NEW i \in DOMAIN net, StoreChange(i)
       PROVE  ConsoleTypeOK'
  <2>1. PICK c, p, q : /\ c = net[i].arg[1] /\ p = net[i].arg[2]
                       /\ q = IF net[i].op = "add" THEN attached[c] \cup {p} ELSE attached[c] \ {p}
    OBVIOUS
  <2>2. /\ net[i].op \in {"add", "remove"} /\ c \in DOMAIN s
        /\ attached' = [s EXCEPT ![c] = q]
        /\ untold' = untold \/ untold' = (untold \/ c = managing)
        /\ UNCHANGED <<gone, contests, fetching, choices, form, managing, panel, acts>>
    BY <1>11, <1>15, <2>1 DEF StoreChange, There, offers
  <2>3. q \in E
    <3>1. p \in Problems
      BY <1>0, <2>1, <2>2 DEF ConsoleRequest
    <3>2. attached[c] \subseteq Problems
      BY <1>11, <2>2, AttachedIds
    <3>3. QED
      BY <1>11, <2>1, <3>1, <3>2
  <2>4. [s EXCEPT ![c] = q] \in Seq(E) /\ Len([s EXCEPT ![c] = q]) = Len(s)
    BY ONLY <1>12, <2>2, <2>3
  <2>5. attached' \in Seq(E) /\ Len(attached') <= MaxContests
    BY ONLY <1>12, <2>2, <2>4
  <2>6. untold' \in BOOLEAN
    BY <2>2 DEF ConsoleTypeOK
  <2>7. QED
    BY <1>11, <2>2, <2>5, <2>6 DEF ConsoleTypeOK
<1>16. QED
  BY <1>2, <1>3, <1>4, <1>5, <1>6, <1>7, <1>8, <1>9, <1>10, <1>13, <1>14, <1>15 DEF ConsoleNext

(***************************************************************************)
(* Types of the users' table and of the profile page.                      *)
(***************************************************************************)

Rows == [role : Roles, bio : Bios]

(* What the two pages ask for, what the server has read for it, and what   *)
(* they are told.                                                          *)
DeskFit(r) ==
    /\ r.op = "role" => r.arg.role \in Roles
    /\ r.op = "save profile" => r.arg.bio \in Bios
    /\ r.status = "read" => r.data[1] \in Rows
    /\ r.status = "ok" => /\ r.op = "users"   => r.data[1] \in [Users -> Roles]
                          /\ r.op = "profile" => r.data[1] \in Bios
                          /\ r.op = "role"    => r.data[1] \in Rows

DeskNet == /\ IsNet(net) /\ Len(net) <= MaxInFlight + 1
           /\ \A k \in DOMAIN net : DeskFit(net[k])

DeskTypes == DeskTypeOK /\ (open = "users" => DeskNet)

LEMMA DeskServed ==
    ASSUME DeskNet, IsNet(net'), NEW i \in DOMAIN net,
           Served(net, net', i), DeskFit(net'[i])
    PROVE  DeskNet'
<1>1. DOMAIN net' = DOMAIN net /\ \A k \in DOMAIN net \ {i} : net'[k] = net[k]
  BY DEF Served
<1>2. Len(net') <= MaxInFlight + 1
  BY <1>1, ServedLength DEF DeskNet
<1>3. \A k \in DOMAIN net' : DeskFit(net'[k])
  BY <1>1 DEF DeskNet
<1>4. QED
  BY <1>2, <1>3 DEF DeskNet

LEMMA DeskMoved ==
    ASSUME DeskNet, IsNet(net'), Len(net') <= MaxInFlight + 1,
           NEW A, NEW R, NEW f, Moves(net, net', A, R, f), \A r \in R : DeskFit(r)
    PROVE  DeskNet'
<1>1. ASSUME NEW k \in DOMAIN net' PROVE DeskFit(net'[k])
  <2>1. CASE f[k] \in A
    <3>1. Same(net'[k], net[f[k]]) /\ f[k] \in DOMAIN net
      BY <2>1 DEF Moves
    <3>2. DeskFit(net[f[k]])
      BY <3>1 DEF DeskNet
    <3>3. QED
      BY <3>1, <3>2 DEF DeskFit, Same
  <2>2. CASE f[k] \notin A
    BY <2>2 DEF Moves
  <2>3. QED
    BY <2>1, <2>2
<1>2. QED
  BY <1>1 DEF DeskNet

LEMMA DeskSent ==
    ASSUME DeskNet, NEW op, NEW arg,
           op = "role" => arg.role \in Roles, op = "save profile" => arg.bio \in Bios,
           Send(Request(op, arg))
    PROVE  DeskNet'
<1>1. PICK r : r = Request(op, arg)
  OBVIOUS
<1>2. IsRequest(r) /\ DeskFit(r) /\ Send(r)
  BY <1>1, NewRequest DEF Request, DeskFit
<1>3. PICK f : IsNet(net') /\ Moves(net, net', DOMAIN net, {r}, f)
  BY <1>2, SendMoves DEF DeskNet
<1>4. Len(net') \in Nat /\ Len(net') <= MaxInFlight
  BY <1>2, SendLength DEF DeskNet
<1>5. Len(net') <= MaxInFlight + 1
  BY ONLY <1>4, ApiAssumption
<1>6. \A q \in {r} : DeskFit(q)
  BY <1>2
<1>7. IsNet(net') /\ Moves(net, net', DOMAIN net, {r}, f)
  BY <1>3
<1>8. QED
  BY ONLY DeskNet, <1>5, <1>6, <1>7, DeskMoved

LEMMA DeskReturned ==
    ASSUME DeskNet, NEW i \in DOMAIN net, Return(i, <<>>) \/ ReturnLoad(i, <<>>)
    PROVE  DeskNet'
<1>1. PICK f : IsNet(net') /\ Moves(net, net', DOMAIN net \ {i}, {}, f)
  BY ReturnMoves, ReturnLoadMoves DEF DeskNet
<1>2. Len(net) \in Nat /\ Len(net') <= Len(net)
  <2>1. PICK r : r = i
    OBVIOUS
  <2>2. CASE Return(i, <<>>)
    BY <2>1, <2>2, ReturnLength DEF DeskNet
  <2>3. CASE ReturnLoad(i, <<>>)
    BY <2>3, ReturnLoadLength DEF DeskNet
  <2>4. QED
    BY <2>2, <2>3
<1>3. IsNet(net') /\ Len(net') \in Nat
  BY <1>1, NetPlaces
<1>4. Len(net') <= MaxInFlight + 1
  BY <1>2, <1>3, ApiAssumption DEF DeskNet
<1>5. QED
  BY <1>1, <1>4, DeskMoved

(* The form is left: its requests are still what they were.                *)
LEMMA UnmountedFits ==
    ASSUME NEW n, IsNet(n), Len(n) <= MaxInFlight + 1,
           \A k \in DOMAIN n : DeskRequest(n[k]) /\ DeskFit(n[k]),
           \A i, j \in DOMAIN n : n[i].op = "profile" /\ n[j].op = "profile" => i = j,
           net' = Unmounted(n)
    PROVE  DeskNet'
<1> DEFINE kept == Without(n, "profile")
           m == [i \in DOMAIN kept |-> Unheard(kept[i])]
           A == {k \in DOMAIN n : n[k].op # "profile"}
           S == {Unheard(kept[i]) : i \in DOMAIN kept}
<1>1. PICK f : IsNet(kept) /\ Moves(n, kept, A, {}, f)
  BY WithoutMoves
<1>2. net' = m
  BY DEF Unmounted, Unheard
<1>3. Len(n) \in Nat /\ Len(kept) \in Nat /\ Len(kept) <= Len(n)
  BY WithoutLength
<1> HIDE DEF kept
<1>4. \A i \in DOMAIN kept : f[i] \in DOMAIN n /\ Same(kept[i], n[f[i]])
  BY <1>1 DEF Moves
<1>5. ASSUME NEW i \in DOMAIN kept
      PROVE  IsRequest(kept[i]) /\ DeskRequest(kept[i]) /\ DeskFit(kept[i])
  <2>1. IsRequest(kept[i]) /\ Same(kept[i], n[f[i]]) /\ DeskRequest(n[f[i]]) /\ DeskFit(n[f[i]])
    BY <1>1, <1>4, NetElements
  <2>2. DeskFit(kept[i])
    BY <2>1 DEF DeskFit, Same
  <2>3. QED
    BY <2>1, <2>2, SameDeskRequest
<1>6. ASSUME NEW i \in DOMAIN kept
      PROVE  IsRequest(Unheard(kept[i])) /\ DeskFit(Unheard(kept[i]))
  <2>1. PICK q, u : q = kept[i] /\ u = Unheard(q)
    OBVIOUS
  <2>2. /\ IsRequest(u) /\ u.op = q.op /\ u.status = q.status /\ u.data = q.data
        /\ q.op = "save profile" => u.arg.bio = q.arg.bio
        /\ q.op \notin {"save profile", "avatar"} => u = q
    BY <1>5, <2>1, UnheardRequest
  <2>3. DeskFit(q)
    BY <1>5, <2>1
  <2>4. DeskFit(u)
    BY <2>2, <2>3 DEF DeskFit
  <2>5. QED
    BY <2>1, <2>2, <2>4
<1>7. Len(kept) \in Nat /\ DOMAIN kept = 1..Len(kept)
  BY <1>1, NetPlaces
<1>8. m \in Seq(S) /\ Len(m) = Len(kept) /\ \A r \in S : IsRequest(r)
  <2> HIDE DEF Unheard
  <2>1. m \in [1..Len(kept) -> S]
    BY <1>7
  <2>2. m \in Seq(S) /\ Len(m) = Len(kept)
    BY <1>7, <2>1
  <2>3. QED
    BY <1>6, <2>2
<1>9. DOMAIN m = DOMAIN kept /\ \A i \in DOMAIN kept : m[i] = Unheard(kept[i])
  OBVIOUS
<1> HIDE DEF m, S
<1>10. IsNet(m)
  BY <1>8 DEF IsNet
<1>11. Len(m) <= MaxInFlight + 1
  BY <1>3, <1>8, ApiAssumption
<1>12. QED
  BY <1>2, <1>6, <1>9, <1>10, <1>11 DEF DeskNet

LEMMA ChangedFits ==
    ASSUME NEW r, r.op \in Writing, DeskFit(r), NEW row \in Rows
    PROVE  Changed(r, row) \in Rows
<1>1. row = [role |-> row.role, bio |-> row.bio] /\ row.role \in Roles /\ row.bio \in Bios
  BY DEF Rows
<1>2. CASE r.op = "role"
  <2>1. Changed(r, row) = [row EXCEPT !.role = r.arg.role]
    BY <1>2 DEF Changed
  <2>2. r.arg.role \in Roles
    BY <1>2 DEF DeskFit
  <2>3. QED
    BY <2>1, <2>2 DEF Rows
<1>3. CASE r.op = "save profile"
  <2>1. Changed(r, row) = [row EXCEPT !.bio = r.arg.bio]
    BY <1>3 DEF Changed
  <2>2. r.arg.bio \in Bios
    BY <1>3 DEF DeskFit
  <2>3. QED
    BY <2>1, <2>2 DEF Rows
<1>4. CASE r.op = "avatar"
  BY <1>4 DEF Changed
<1>5. QED
  BY <1>2, <1>3, <1>4 DEF Writing

(* Whose row a request is about.                                           *)
LEMMA RowAsked ==
    ASSUME NEW r, r.op \in Writing, DeskRequest(r)
    PROVE  r.arg.user \in Users
<1>1. CASE r.op = "role"
  BY <1>1 DEF DeskRequest
<1>2. CASE r.op = "save profile"
  <2>1. PICK v, b : r.arg = [user |-> Owner, mine |-> v, bio |-> b]
    BY <1>2 DEF DeskRequest
  <2>2. r.arg.user = Owner
    BY ONLY <2>1
  <2>3. QED
    BY <2>2, UserDeskAssumption
<1>3. CASE r.op = "avatar"
  <2>1. PICK v : r.arg = [user |-> Owner, mine |-> v]
    BY <1>3 DEF DeskRequest
  <2>2. r.arg.user = Owner
    BY ONLY <2>1
  <2>3. QED
    BY <2>2, UserDeskAssumption
<1>4. QED
  BY <1>1, <1>2, <1>3 DEF Writing

(* What is written.                                                        *)
LEMMA RowWritten ==
    ASSUME DeskTypeOK, DeskNet, NEW i \in DOMAIN net, DeskRequest(net[i]), WriteRow(i)
    PROVE  /\ users' \in [Users -> Rows] /\ net[i].op \in Writing
           /\ net[i].arg.user \in Users /\ users'[net[i].arg.user] \in Rows
<1>1. net[i].status = "read" /\ users' = [users EXCEPT ![net[i].arg.user] = Changed(net[i], Data(i))]
  BY DEF WriteRow, Midway
<1>2. DeskFit(net[i])
  BY DEF DeskNet
<1>3. net[i].op \in Writing /\ Data(i) \in Rows
  BY <1>1, <1>2 DEF DeskFit, DeskRequest, Data
<1>4. Changed(net[i], Data(i)) \in Rows
  BY <1>2, <1>3, ChangedFits
<1>5. net[i].arg.user \in Users
  BY <1>3, RowAsked
<1>6. users \in [Users -> Rows]
  BY DEF DeskTypeOK, Rows
<1>7. users' \in [Users -> Rows]
  BY <1>1, <1>4, <1>5, <1>6
<1>8. QED
  BY <1>3, <1>5, <1>7

LEMMA DeskNetKept ==
    ASSUME DeskTypeOK, DeskNet, RoleInv, open = "users", DeskNext
    PROVE  DeskNet'
<1>0. /\ IsNet(net) /\ Len(net) <= MaxInFlight + 1 /\ \A k \in DOMAIN net : DeskFit(net[k])
      /\ \A k \in DOMAIN net : DeskRequest(net[k])
      /\ \A i, j \in DOMAIN net : net[i].op = "profile" /\ net[j].op = "profile" => i = j
  BY DEF DeskNet, RoleInv, ProfileOnce, Profiling
<1>1. CASE TypeBio
  <2>1. net' = net
    BY <1>1 DEF TypeBio
  <2>2. QED
    BY <2>1 DEF DeskNet
<1>2. CASE SaveProfile
  <2>1. PICK arg : arg = [user |-> Owner, mine |-> TRUE, bio |-> editor.form]
    OBVIOUS
  <2>2. Send(Request("save profile", arg))
    BY <1>2, <2>1 DEF SaveProfile, Change
  <2>3. arg.bio \in Bios
    BY <2>1 DEF DeskTypeOK
  <2>4. QED
    BY <2>2, <2>3, DeskSent
<1>3. CASE ChooseAvatar \/ ReopenProfile
  <2>1. PICK op, arg : op \in {"avatar", "profile"} /\ Send(Request(op, arg))
    BY <1>3 DEF ChooseAvatar, ReopenProfile, Change
  <2>2. QED
    BY <2>1, DeskSent
<1>4. ASSUME NEW u \in Users, NEW role \in Roles, ChangeRole(u, role)
      PROVE  DeskNet'
  <2>1. PICK arg : arg = [user |-> u, role |-> role]
    OBVIOUS
  <2>2. Send(Request("role", arg))
    BY <1>4, <2>1 DEF ChangeRole, Change
  <2>3. QED
    BY <2>1, <2>2, DeskSent
<1>5. CASE LeaveProfile
  BY <1>0, <1>5, UnmountedFits DEF LeaveProfile
<1>6. ASSUME NEW i \in DOMAIN net,
             UsersLoaded(i) \/ RoleAnswered(i) \/ ProfileLoaded(i) \/ AvatarAnswered(i)
      PROVE  DeskNet'
  <2>1. Return(i, <<>>) \/ ReturnLoad(i, <<>>)
    BY <1>6 DEF UsersLoaded, RoleAnswered, ProfileLoaded, AvatarAnswered
  <2>2. QED
    BY <2>1, DeskReturned
<1>7. ASSUME NEW i \in DOMAIN net, ProfileSaved(i)
      PROVE  DeskNet'
  <2>1. CASE Return(i, <<>>)
    BY <2>1, DeskReturned
  <2>2. CASE net' = Unmounted(RemoveAt(net, i))
    <3> DEFINE n == RemoveAt(net, i)
    <3>1. PICK f : IsNet(n) /\ Moves(net, n, DOMAIN net \ {i}, {}, f)
      <4>1. PICK S : net \in Seq(S)
        BY <1>0 DEF IsNet
      <4>2. n \in Seq(S) /\ n \o <<>> = n
        BY <4>1, PlacesLeft, ConcatEmptySeq
      <4>3. PICK R, rs : R = {} /\ rs = <<>>
        OBVIOUS
      <4>4. IsNet(n \o rs) /\ \E f : Moves(net, n \o rs, DOMAIN net \ {i}, R, f)
        BY <1>0, <4>3, RestMoves
      <4>5. n \o rs = n
        BY <4>2, <4>3
      <4>6. QED
        BY <4>3, <4>4, <4>5
    <3>2. Len(net) \in Nat \ {0} /\ Len(n) = Len(net) - 1
      <4>1. PICK r, rs : rs = <<>> \/ rs = <<r>>
        OBVIOUS
      <4>2. QED
        BY <1>0, <4>1, RemovedLength
    <3> HIDE DEF n
    <3>3. \A j \in DOMAIN n : f[j] \in DOMAIN net /\ Same(n[j], net[f[j]])
      BY <3>1 DEF Moves
    <3>4. \A j \in DOMAIN n : DeskRequest(n[j]) /\ DeskFit(n[j])
      <4>1. ASSUME NEW j \in DOMAIN n PROVE DeskRequest(n[j]) /\ DeskFit(n[j])
        <5>1. Same(n[j], net[f[j]]) /\ DeskRequest(net[f[j]]) /\ DeskFit(net[f[j]])
          BY <1>0, <3>3
        <5>2. DeskFit(n[j])
          BY <5>1 DEF DeskFit, Same
        <5>3. QED
          BY <5>1, <5>2, SameDeskRequest
      <4>2. QED
        BY <4>1
    <3>5. \A j, k \in DOMAIN n : f[j] = f[k] => j = k
      BY <3>1 DEF Moves
    <3>6. \A j, k \in DOMAIN n : n[j].op = "profile" /\ n[k].op = "profile" => j = k
      BY <1>0, <3>3, <3>5 DEF Same
    <3>7. Len(n) <= MaxInFlight + 1
      BY <1>0, <3>2, ApiAssumption
    <3>8. net' = Unmounted(n)
      BY <2>2 DEF n
    <3>9. QED
      BY <3>1, <3>4, <3>6, <3>7, <3>8, UnmountedFits
  <2>3. QED
    BY <1>7, <2>1, <2>2 DEF ProfileSaved
<1>8. ASSUME NEW i \in DOMAIN net, Fail(i) PROVE DeskNet'
  <2>1. IsNet(net') /\ Served(net, net', i) /\ net'[i].status = "error"
    BY <1>0, <1>8, FailServes
  <2>2. DeskFit(net'[i])
    BY <1>0, <2>1 DEF DeskFit, Served
  <2>3. QED
    BY <2>1, <2>2, DeskServed
<1>9. ASSUME NEW i \in DOMAIN net, NEW d, Answer(i, d),
             net[i].op = "users" => d \in [Users -> Roles],
             net[i].op = "profile" => d \in Bios,
             net[i].op = "role" => d \in Rows
      PROVE  DeskNet'
  <2>1. IsNet(net') /\ Served(net, net', i) /\ net'[i].status = "ok" /\ net'[i].data[1] = d
    BY <1>0, <1>9, AnswerServes
  <2>2. DeskFit(net'[i])
    BY <1>0, <1>9, <2>1 DEF DeskFit, Served
  <2>3. QED
    BY <2>1, <2>2, DeskServed
<1>10. users \in [Users -> Rows]
  BY DEF DeskTypeOK, Rows
<1>11. ASSUME NEW i \in DOMAIN net, DeskRead(i)
       PROVE  DeskNet'
  <2>1. [u \in Users |-> users[u].role] \in [Users -> Roles]
    BY <1>10 DEF Rows
  <2>2. users[Owner].bio \in Bios
    BY <1>10, UserDeskAssumption DEF Rows
  <2>3. CASE net[i].op = "users" /\ Answer(i, [u \in Users |-> users[u].role])
    BY <1>9, <2>1, <2>3
  <2>4. CASE net[i].op = "profile" /\ Answer(i, users[Owner].bio)
    BY <1>9, <2>2, <2>4
  <2>5. QED
    BY <1>11, <2>3, <2>4 DEF DeskRead
<1>12. ASSUME NEW i \in DOMAIN net, ReadRow(i)
       PROVE  DeskNet'
  <2>1. net[i].op \in Writing /\ Read(i, users[net[i].arg.user])
    BY <1>12 DEF ReadRow, Writing
  <2>2. users[net[i].arg.user] \in Rows
    BY <1>0, <1>10, <2>1, RowAsked
  <2>3. PICK d : d = users[net[i].arg.user]
    OBVIOUS
  <2>4. IsNet(net') /\ Served(net, net', i) /\ net'[i].status = "read" /\ net'[i].data[1] = d
    BY <1>0, <2>1, <2>3, ReadServes
  <2>5. DeskFit(net'[i])
    BY <1>0, <2>2, <2>3, <2>4 DEF DeskFit, Served
  <2>6. QED
    BY <2>4, <2>5, DeskServed
<1>13. ASSUME NEW i \in DOMAIN net, WriteRow(i)
       PROVE  DeskNet'
  <2>1. net[i].op \in Writing /\ users'[net[i].arg.user] \in Rows
    BY <1>0, <1>13, RowWritten
  <2>2. Answer(i, users'[net[i].arg.user]) \/ Fail(i)
    BY <1>13 DEF WriteRow
  <2>3. QED
    BY <1>8, <1>9, <2>1, <2>2 DEF Writing
<1>14. ASSUME NEW i \in DOMAIN net, DeskFails(i)
       PROVE  DeskNet'
  BY <1>8, <1>14 DEF DeskFails
<1>15. QED
  BY <1>1, <1>2, <1>3, <1>4, <1>5, <1>6, <1>7, <1>11, <1>12, <1>13, <1>14 DEF DeskNext

LEMMA DeskTypesKept ==
    ASSUME DeskTypeOK, DeskNet, RoleInv, open = "users", DeskNext
    PROVE  DeskTypeOK'
<1> DEFINE Editors == [form : Bios, loading : BOOLEAN, saving : BOOLEAN,
                       uploading : BOOLEAN, open : BOOLEAN]
<1>0. /\ \A k \in DOMAIN net : DeskFit(net[k]) /\ DeskRequest(net[k])
      /\ users \in [Users -> Rows] /\ editor \in Editors
  BY DEF DeskNet, RoleInv, DeskTypeOK, Rows
<1>1. ASSUME NEW r, Change(r) PROVE changes' \in 0..MaxChanges
  <2>1. changes \in 0..MaxChanges /\ MaxChanges \in Nat /\ changes < MaxChanges /\ changes' = changes + 1
    BY <1>1, UserDeskAssumption DEF Change, DeskTypeOK
  <2>2. QED
    BY ONLY <2>1
<1>2. Mounted \in Editors /\ Closed \in Editors
  BY DEF Mounted, Closed, Bios
<1>3. ASSUME changes' \in {changes} \cup 0..MaxChanges, editor' \in Editors,
             UNCHANGED <<users, table, failed, updating, crossed, undone>>
      PROVE  DeskTypeOK'
  BY <1>3 DEF DeskTypeOK
<1>4. CASE TypeBio
  <2>1. /\ editor' = [editor EXCEPT !.form = "new"] /\ changes' = changes
        /\ UNCHANGED <<users, table, failed, updating, crossed, undone>>
    BY <1>4 DEF TypeBio
  <2>2. editor' \in Editors
    BY <1>0, <2>1 DEF Bios
  <2>3. QED
    BY <1>3, <2>1, <2>2
<1>5. CASE SaveProfile \/ ChooseAvatar
  <2>1. /\ changes' \in 0..MaxChanges
        /\ \/ editor' = [editor EXCEPT !.saving = TRUE]
           \/ editor' = [editor EXCEPT !.uploading = TRUE]
        /\ UNCHANGED <<users, table, failed, updating, crossed, undone>>
    BY <1>1, <1>5 DEF SaveProfile, ChooseAvatar
  <2>2. editor' \in Editors
    BY <1>0, <2>1
  <2>3. QED
    BY <1>3, <2>1, <2>2
<1>6. CASE LeaveProfile \/ ReopenProfile
  <2>1. /\ changes' \in {changes} \cup 0..MaxChanges /\ editor' \in {Closed, Mounted}
        /\ UNCHANGED <<users, table, failed, updating, crossed, undone>>
    BY <1>1, <1>6 DEF LeaveProfile, ReopenProfile
  <2>2. QED
    BY <1>2, <1>3, <2>1
<1>7. ASSUME NEW u \in Users, NEW role \in Roles, ChangeRole(u, role)
      PROVE  DeskTypeOK'
  <2>1. /\ changes' \in 0..MaxChanges /\ updating' = u
        /\ crossed' = crossed \ {u} \/ crossed' = crossed \cup {u}
        /\ UNCHANGED <<users, table, failed, editor, undone>>
    BY <1>1, <1>7 DEF ChangeRole
  <2>2. QED
    BY <2>1 DEF DeskTypeOK
<1>8. ASSUME NEW i \in DOMAIN net, UsersLoaded(i)
      PROVE  DeskTypeOK'
  <2>1. /\ net[i].op = "users" /\ table' = IF Handled(i) THEN Data(i) ELSE table
        /\ failed' = (failed \/ Failed(i))
        /\ UNCHANGED <<users, updating, editor, changes, crossed, undone>>
    BY <1>8 DEF UsersLoaded
  <2>2. table' \in [Users -> Roles \cup {"none"}]
    <3>1. Handled(i) => Data(i) \in [Users -> Roles]
      BY <1>0, <2>1 DEF DeskFit, Handled, Data
    <3>2. QED
      BY <2>1, <3>1 DEF DeskTypeOK
  <2>3. failed' \in BOOLEAN
    BY <2>1
  <2>4. QED
    BY <2>1, <2>2, <2>3 DEF DeskTypeOK
<1>9. ASSUME NEW i \in DOMAIN net, RoleAnswered(i)
      PROVE  DeskTypeOK'
  <2>1. /\ net[i].op = "role"
        /\ table' = IF Handled(i) THEN [table EXCEPT ![net[i].arg.user] = Data(i).role] ELSE table
        /\ failed' = (failed \/ Failed(i)) /\ updating' = nobody
        /\ UNCHANGED <<users, editor, changes, crossed, undone>>
    BY <1>9 DEF RoleAnswered
  <2>2. table' \in [Users -> Roles \cup {"none"}]
    <3>1. Handled(i) => Data(i).role \in Roles
      BY <1>0, <2>1 DEF DeskFit, Handled, Data, Rows
    <3>2. QED
      BY <2>1, <3>1 DEF DeskTypeOK
  <2>3. failed' \in BOOLEAN
    BY <2>1
  <2>4. QED
    BY <2>1, <2>2, <2>3 DEF DeskTypeOK
<1>10. ASSUME NEW i \in DOMAIN net, ProfileLoaded(i)
       PROVE  DeskTypeOK'
  <2>1. PICK b : b = IF Handled(i) THEN Data(i) ELSE editor.form
    OBVIOUS
  <2>2. /\ net[i].op = "profile" /\ editor' = [editor EXCEPT !.loading = FALSE, !.form = b]
        /\ UNCHANGED <<users, table, failed, updating, changes, crossed, undone>>
    BY <1>10, <2>1 DEF ProfileLoaded
  <2>3. b \in Bios
    BY <1>0, <2>1, <2>2 DEF DeskFit, Handled, Data
  <2>4. editor' \in Editors
    BY <1>0, <2>2, <2>3
  <2>5. QED
    BY <1>3, <2>2, <2>4
<1>11. ASSUME NEW i \in DOMAIN net, ProfileSaved(i) \/ AvatarAnswered(i)
       PROVE  DeskTypeOK'
  <2>1. PICK a, b : a = (editor.saving /\ ~net[i].arg.mine) /\ b = (editor.uploading /\ ~net[i].arg.mine)
    OBVIOUS
  <2>2. /\ \/ editor' = Closed \/ editor' = [editor EXCEPT !.saving = a]
           \/ editor' = [editor EXCEPT !.uploading = b]
        /\ UNCHANGED <<users, table, failed, updating, changes, crossed, undone>>
    BY <1>11, <2>1 DEF ProfileSaved, AvatarAnswered
  <2>3. a \in BOOLEAN /\ b \in BOOLEAN
    BY <2>1
  <2>4. editor' \in Editors
    BY <1>0, <1>2, <2>2, <2>3
  <2>5. QED
    BY <1>3, <2>2, <2>4
<1>12. ASSUME NEW i \in DOMAIN net, DeskRead(i) \/ ReadRow(i) \/ DeskFails(i)
       PROVE  DeskTypeOK'
  <2>1. UNCHANGED <<users, table, failed, updating, editor, changes, crossed, undone>>
    BY <1>12 DEF DeskRead, ReadRow, DeskFails, deskPage
  <2>2. QED
    BY <1>0, <1>3, <2>1
<1>13. ASSUME NEW i \in DOMAIN net, WriteRow(i)
       PROVE  DeskTypeOK'
  <2>1. users' \in [Users -> Rows] /\ net[i].arg.user \in Users
    BY <1>0, <1>13, RowWritten
  <2>2. /\ undone' \in {undone, undone \ {net[i].arg.user}, undone \cup {net[i].arg.user}}
        /\ UNCHANGED <<table, failed, updating, editor, changes, crossed>>
    BY <1>13 DEF WriteRow
  <2>3. undone' \subseteq Users
    BY <2>1, <2>2 DEF DeskTypeOK
  <2>4. QED
    BY <2>1, <2>2, <2>3 DEF DeskTypeOK, Rows
<1>14. QED
  BY <1>4, <1>5, <1>6, <1>7, <1>8, <1>9, <1>10, <1>11, <1>12, <1>13 DEF DeskNext

(***************************************************************************)
(* Types of the approvals and of what a manager edits.                     *)
(***************************************************************************)

Found == [kind : Kinds, pending : SUBSET Kinds]

(* What the two pages ask for, what the server has read for it, and what   *)
(* they are told.                                                          *)
ApprovalFit(r) ==
    /\ r.op = "decide" => r.arg \in [kind : Kinds, decision : Decision]
    /\ r.op = "update" => r.arg \in Kinds
    /\ r.op = "update" /\ r.status = "read" => r.data[1] \in Statuses
    /\ r.op = "pending" /\ r.status \in {"read", "ok"} => r.data[1] \in Found
    /\ r.op = "contest" /\ r.status = "ok" => r.data[1] \in Statuses

ApprovalNet == /\ IsNet(net) /\ Len(net) <= MaxInFlight + 1
               /\ \A k \in DOMAIN net : ApprovalFit(net[k])

ApprovalTypes == ApprovalTypeOK /\ (open = "approvals" => ApprovalNet)

LEMMA ApprovalServed ==
    ASSUME ApprovalNet, IsNet(net'), NEW i \in DOMAIN net,
           Served(net, net', i), ApprovalFit(net'[i])
    PROVE  ApprovalNet'
<1>1. DOMAIN net' = DOMAIN net /\ \A k \in DOMAIN net \ {i} : net'[k] = net[k]
  BY DEF Served
<1>2. Len(net') <= MaxInFlight + 1
  BY <1>1, ServedLength DEF ApprovalNet
<1>3. \A k \in DOMAIN net' : ApprovalFit(net'[k])
  BY <1>1 DEF ApprovalNet
<1>4. QED
  BY <1>2, <1>3 DEF ApprovalNet

LEMMA ApprovalMoved ==
    ASSUME ApprovalNet, IsNet(net'), Len(net') <= MaxInFlight + 1,
           NEW A, NEW R, NEW f, Moves(net, net', A, R, f), \A r \in R : ApprovalFit(r)
    PROVE  ApprovalNet'
<1>1. ASSUME NEW k \in DOMAIN net' PROVE ApprovalFit(net'[k])
  <2>1. CASE f[k] \in A
    <3>1. Same(net'[k], net[f[k]]) /\ f[k] \in DOMAIN net
      BY <2>1 DEF Moves
    <3>2. ApprovalFit(net[f[k]])
      BY <3>1 DEF ApprovalNet
    <3>3. QED
      BY <3>1, <3>2 DEF ApprovalFit, Same
  <2>2. CASE f[k] \notin A
    BY <2>2 DEF Moves
  <2>3. QED
    BY <2>1, <2>2
<1>2. QED
  BY <1>1 DEF ApprovalNet

LEMMA ApprovalSent ==
    ASSUME ApprovalNet, NEW op, NEW arg,
           op = "decide" => arg \in [kind : Kinds, decision : Decision],
           op = "update" => arg \in Kinds,
           Send(Request(op, arg))
    PROVE  ApprovalNet'
<1>1. PICK r : r = Request(op, arg)
  OBVIOUS
<1>2. IsRequest(r) /\ ApprovalFit(r) /\ Send(r)
  BY <1>1, NewRequest DEF Request, ApprovalFit
<1>3. PICK f : IsNet(net') /\ Moves(net, net', DOMAIN net, {r}, f)
  BY <1>2, SendMoves DEF ApprovalNet
<1>4. Len(net') \in Nat /\ Len(net') <= MaxInFlight
  BY <1>2, SendLength DEF ApprovalNet
<1>5. Len(net') <= MaxInFlight + 1
  BY ONLY <1>4, ApiAssumption
<1>6. \A q \in {r} : ApprovalFit(q)
  BY <1>2
<1>7. IsNet(net') /\ Moves(net, net', DOMAIN net, {r}, f)
  BY <1>3
<1>8. QED
  BY ONLY ApprovalNet, <1>5, <1>6, <1>7, ApprovalMoved

LEMMA ApprovalReturned ==
    ASSUME ApprovalNet, NEW i \in DOMAIN net, NEW op, NEW arg, op \notin {"decide", "update"},
           Return(i, <<>>) \/ Return(i, <<Request(op, arg)>>)
    PROVE  ApprovalNet'
<1>1. PICK r : r = Request(op, arg)
  OBVIOUS
<1>2. Return(i, <<>>) \/ Return(i, <<r>>)
  BY <1>1
<1>3. IsRequest(r) /\ ApprovalFit(r)
  BY <1>1, NewRequest DEF Request, ApprovalFit
<1>4. PICK R, f : IsNet(net') /\ R \subseteq {r} /\ Moves(net, net', DOMAIN net \ {i}, R, f)
  <2>1. IsNet(net') /\ \E R, f : R \subseteq {r} /\ Moves(net, net', DOMAIN net \ {i}, R, f)
    BY <1>2, <1>3, ReturnMaySend DEF ApprovalNet
  <2>2. QED
    BY <2>1
<1>5. Len(net) \in Nat /\ Len(net') \in Nat /\ Len(net') <= Len(net)
  BY <1>2, ReturnLength DEF ApprovalNet
<1>6. Len(net') <= MaxInFlight + 1
  BY <1>5, ApiAssumption DEF ApprovalNet
<1>7. \A q \in R : ApprovalFit(q)
  BY <1>3, <1>4
<1>8. QED
  BY <1>4, <1>6, <1>7, ApprovalMoved

LEMMA ApprovalNetKept ==
    ASSUME ApprovalTypeOK, ApprovalNet, ApprovalNext
    PROVE  ApprovalNet'
<1>0. IsNet(net) /\ Len(net) <= MaxInFlight + 1 /\ \A k \in DOMAIN net : ApprovalFit(net[k])
  BY DEF ApprovalNet
<1>1. CASE ToggleEditing
  <2>1. net' = net
    BY <1>1 DEF ToggleEditing
  <2>2. QED
    BY <2>1 DEF ApprovalNet
<1>2. CASE UpdateContest \/ UpdateProblem
  <2>1. PICK k \in Kinds : Send(Request("update", k))
    BY <1>2 DEF UpdateContest, UpdateProblem, Decide, Kinds
  <2>2. QED
    BY <2>1, ApprovalSent
<1>3. ASSUME NEW k \in Kinds, NEW d \in Decision, DecideOn(k, d)
      PROVE  ApprovalNet'
  <2>1. PICK arg : arg = [kind |-> k, decision |-> d]
    OBVIOUS
  <2>2. Send(Request("decide", arg))
    BY <1>3, <2>1 DEF DecideOn, Decide
  <2>3. arg \in [kind : Kinds, decision : Decision]
    BY <2>1
  <2>4. QED
    BY <2>2, <2>3, ApprovalSent
<1>4. ASSUME NEW i \in DOMAIN net, PendingLoaded(i) \/ ContestLoaded(i)
      PROVE  ApprovalNet'
  <2>1. ReturnLoad(i, <<>>)
    BY <1>4 DEF PendingLoaded, ContestLoaded
  <2>2. PICK f : IsNet(net') /\ Moves(net, net', DOMAIN net \ {i}, {}, f)
    BY <1>0, <2>1, ReturnLoadMoves
  <2>3. Len(net) \in Nat /\ Len(net') = Len(net) - 1
    BY <1>0, <2>1, ReturnLoadLength
  <2>4. Len(net') <= MaxInFlight + 1
    BY <1>0, <2>3, ApiAssumption
  <2>5. QED
    BY <2>2, <2>4, ApprovalMoved
<1>5. ASSUME NEW i \in DOMAIN net,
             DecisionAnswered(i) \/ ContestUpdated(i) \/ ProblemUpdated(i)
      PROVE  ApprovalNet'
  <2>1. \/ Return(i, <<>>) \/ Return(i, <<Request("pending", "both")>>)
        \/ Return(i, <<Request("contest", "contest")>>)
    BY <1>5 DEF DecisionAnswered, ContestUpdated, ProblemUpdated
  <2>2. QED
    BY <2>1, ApprovalReturned
<1>6. ASSUME NEW i \in DOMAIN net, Fail(i) PROVE ApprovalNet'
  <2>1. IsNet(net') /\ Served(net, net', i) /\ net'[i].status = "error"
    BY <1>0, <1>6, FailServes
  <2>2. ApprovalFit(net'[i])
    BY <1>0, <2>1 DEF ApprovalFit, Served
  <2>3. QED
    BY <2>1, <2>2, ApprovalServed
<1>7. ASSUME NEW i \in DOMAIN net, NEW d, Answer(i, d),
             net[i].op = "pending" => d \in Found,
             net[i].op = "contest" => d \in Statuses
      PROVE  ApprovalNet'
  <2>1. IsNet(net') /\ Served(net, net', i) /\ net'[i].status = "ok" /\ net'[i].data[1] = d
    BY <1>0, <1>7, AnswerServes
  <2>2. ApprovalFit(net'[i])
    BY <1>0, <1>7, <2>1 DEF ApprovalFit, Served
  <2>3. QED
    BY <2>1, <2>2, ApprovalServed
<1>8. ASSUME NEW i \in DOMAIN net, NEW d, Read(i, d),
             net[i].op = "pending" => d \in Found,
             net[i].op = "update" => d \in Statuses
      PROVE  ApprovalNet'
  <2>1. IsNet(net') /\ Served(net, net', i) /\ net'[i].status = "read" /\ net'[i].data[1] = d
    BY <1>0, <1>8, ReadServes
  <2>2. ApprovalFit(net'[i])
    BY <1>0, <1>8, <2>1 DEF ApprovalFit, Served
  <2>3. QED
    BY <2>1, <2>2, ApprovalServed
<1>9. "contest" \in Kinds /\ \A k \in Kinds : approval[k] \in Statuses
  BY DEF ApprovalTypeOK, Kinds
<1>10. ASSUME NEW i \in DOMAIN net, NEW k \in Kinds, ReadPending(i, k)
       PROVE  ApprovalNet'
  <2>1. PICK found : found = IF approval[k] = "pending" THEN {k} ELSE {}
    OBVIOUS
  <2>2. found \subseteq Kinds
    BY <2>1
  <2>3. CASE net[i].op = "pending" /\ Read(i, [kind |-> k, pending |-> found])
    <3>1. [kind |-> k, pending |-> found] \in Found
      BY <2>2 DEF Found
    <3>2. QED
      BY <1>8, <2>3, <3>1
  <2>4. CASE /\ net[i].op = "pending" /\ Midway(i)
             /\ Answer(i, [kind |-> k, pending |-> Data(i).pending \cup found])
    <3>1. Data(i) \in Found
      BY <1>0, <2>4 DEF ApprovalFit, Midway, Data
    <3>2. PICK p : p = Data(i).pending \cup found
      OBVIOUS
    <3>3. p \subseteq Kinds
      BY <2>2, <3>1, <3>2 DEF Found
    <3>4. [kind |-> k, pending |-> p] \in Found
      BY <3>3 DEF Found
    <3>5. QED
      BY <1>7, <2>4, <3>2, <3>4
  <2>5. QED
    BY <1>10, <2>1, <2>3, <2>4 DEF ReadPending
<1>11. ASSUME NEW i \in DOMAIN net, ReadContest(i)
       PROVE  ApprovalNet'
  BY <1>7, <1>9, <1>11 DEF ReadContest
<1>12. ASSUME NEW i \in DOMAIN net, ReadExisting(i)
       PROVE  ApprovalNet'
  <2>1. net[i].op = "update" /\ Read(i, approval[net[i].arg])
    BY <1>12 DEF ReadExisting
  <2>2. net[i].arg \in Kinds
    BY <1>0, <2>1 DEF ApprovalFit
  <2>3. QED
    BY <1>8, <1>9, <2>1, <2>2
<1>13. ASSUME NEW i \in DOMAIN net, StoreDecision(i) \/ WriteExisting(i) \/ ApprovalFails(i)
       PROVE  ApprovalNet'
  <2>1. Fail(i) \/ (net[i].op \in {"decide", "update"} /\ Answer(i, 0))
    BY <1>13 DEF StoreDecision, WriteExisting, ApprovalFails
  <2>2. QED
    BY <1>6, <1>7, <2>1
<1>14. QED
  BY <1>1, <1>2, <1>3, <1>4, <1>5, <1>10, <1>11, <1>12, <1>13 DEF ApprovalNext

LEMMA ApprovalTypesKept ==
    ASSUME ApprovalTypeOK, ApprovalNet, ApprovalNext
    PROVE  ApprovalTypeOK'
<1> DEFINE Desks == [loading : BOOLEAN, error : BOOLEAN, editing : BOOLEAN,
                     badge : Statuses \cup {"none"}]
<1>0. (\A k \in DOMAIN net : ApprovalFit(net[k])) /\ desk \in Desks
  BY DEF ApprovalNet, ApprovalTypeOK
<1>1. ASSUME NEW r, Decide(r) PROVE decisions' \in 0..MaxDecisions
  <2>1. /\ decisions \in 0..MaxDecisions /\ MaxDecisions \in Nat
        /\ decisions < MaxDecisions /\ decisions' = decisions + 1
    BY <1>1, ApprovalDeskAssumption DEF Decide, ApprovalTypeOK
  <2>2. QED
    BY ONLY <2>1
<1>2. ASSUME desk' \in Desks,
             UNCHANGED <<approval, pending, refreshing, report, decisions, doubled, overtaken>>
      PROVE  ApprovalTypeOK'
  BY <1>2 DEF ApprovalTypeOK
<1>3. CASE ToggleEditing
  <2>1. PICK b : b = ~desk.editing
    OBVIOUS
  <2>2. /\ desk' = [desk EXCEPT !.editing = b] /\ b \in BOOLEAN
        /\ UNCHANGED <<approval, pending, refreshing, report, decisions, doubled, overtaken>>
    BY <1>3, <2>1 DEF ToggleEditing
  <2>3. desk' \in Desks
    BY <1>0, <2>2
  <2>4. QED
    BY <1>2, <2>2, <2>3
<1>4. CASE UpdateContest \/ UpdateProblem
  <2>1. /\ decisions' \in 0..MaxDecisions
        /\ UNCHANGED <<approval, pending, refreshing, report, desk, doubled, overtaken>>
    BY <1>1, <1>4 DEF UpdateContest, UpdateProblem
  <2>2. QED
    BY <2>1 DEF ApprovalTypeOK
<1>5. ASSUME NEW k \in Kinds, NEW d \in Decision, DecideOn(k, d)
      PROVE  ApprovalTypeOK'
  <2>1. /\ decisions' \in 0..MaxDecisions /\ report' = none
        /\ doubled' = doubled \ {k} \/ doubled' = doubled \cup {k}
        /\ UNCHANGED <<approval, pending, refreshing, desk, overtaken>>
    BY <1>1, <1>5 DEF DecideOn
  <2>2. QED
    BY <2>1 DEF ApprovalTypeOK
<1>6. ASSUME NEW i \in DOMAIN net, PendingLoaded(i)
      PROVE  ApprovalTypeOK'
  <2>1. /\ net[i].op = "pending" /\ refreshing' = FALSE
        /\ pending' = IF Handled(i) THEN Data(i).pending ELSE pending
        /\ UNCHANGED <<approval, report, desk, decisions, doubled, overtaken>>
    BY <1>6 DEF PendingLoaded
  <2>2. pending' \subseteq Kinds
    <3>1. Handled(i) => Data(i) \in Found
      BY <1>0, <2>1 DEF ApprovalFit, Handled, Data
    <3>2. QED
      BY <2>1, <3>1 DEF Found, ApprovalTypeOK
  <2>3. QED
    BY <2>1, <2>2 DEF ApprovalTypeOK
<1>7. ASSUME NEW i \in DOMAIN net, DecisionAnswered(i)
      PROVE  ApprovalTypeOK'
  <2>1. /\ net[i].op = "decide" /\ report' \in {report, net[i].arg}
        /\ refreshing' \in {refreshing, TRUE}
        /\ UNCHANGED <<approval, pending, desk, decisions, doubled, overtaken>>
    BY <1>7 DEF DecisionAnswered
  <2>2. net[i].arg \in [kind : Kinds, decision : Decision]
    BY <1>0, <2>1 DEF ApprovalFit
  <2>3. QED
    BY <2>1, <2>2 DEF ApprovalTypeOK
<1>8. ASSUME NEW i \in DOMAIN net, ContestLoaded(i)
      PROVE  ApprovalTypeOK'
  <2>1. PICK e, b : e = (desk.error \/ Failed(i)) /\ b = IF Handled(i) THEN Data(i) ELSE desk.badge
    OBVIOUS
  <2>2. /\ net[i].op = "contest"
        /\ desk' = [desk EXCEPT !.loading = FALSE, !.error = e, !.badge = b]
        /\ UNCHANGED <<approval, pending, refreshing, report, decisions, doubled, overtaken>>
    BY <1>8, <2>1 DEF ContestLoaded
  <2>3. e \in BOOLEAN /\ b \in Statuses \cup {"none"}
    <3>1. Handled(i) => Data(i) \in Statuses
      BY <1>0, <2>2 DEF ApprovalFit, Handled, Data
    <3>2. QED
      BY <1>0, <2>1, <3>1
  <2>4. desk' \in Desks
    BY <1>0, <2>2, <2>3
  <2>5. QED
    BY <1>2, <2>2, <2>4
<1>9. ASSUME NEW i \in DOMAIN net, ContestUpdated(i)
      PROVE  ApprovalTypeOK'
  <2>1. /\ \/ desk' = [desk EXCEPT !.editing = FALSE, !.loading = TRUE, !.error = FALSE]
           \/ desk' = [desk EXCEPT !.error = TRUE]
        /\ UNCHANGED <<approval, pending, refreshing, report, decisions, doubled, overtaken>>
    BY <1>9 DEF ContestUpdated
  <2>2. desk' \in Desks
    BY <1>0, <2>1
  <2>3. QED
    BY <1>2, <2>1, <2>2
<1>10. ASSUME NEW i \in DOMAIN net,
              \/ \E k \in Kinds : ReadPending(i, k)
              \/ ReadContest(i) \/ ReadExisting(i) \/ ApprovalFails(i) \/ ProblemUpdated(i)
       PROVE  ApprovalTypeOK'
  <2>1. UNCHANGED <<approval, pending, refreshing, report, desk, decisions, doubled, overtaken>>
    BY <1>10 DEF ReadPending, ReadContest, ReadExisting, ApprovalFails, ProblemUpdated,
       approvalPage
  <2>2. QED
    BY <1>0, <1>2, <2>1
<1>11. ASSUME NEW i \in DOMAIN net, StoreDecision(i)
       PROVE  ApprovalTypeOK'
  <2>1. /\ net[i].op = "decide"
        /\ approval' = [approval EXCEPT ![net[i].arg.kind] = net[i].arg.decision]
        /\ overtaken' = overtaken \ {net[i].arg.kind}
        /\ UNCHANGED <<pending, refreshing, report, desk, decisions, doubled>>
    BY <1>11 DEF StoreDecision
  <2>2. net[i].arg.kind \in Kinds /\ net[i].arg.decision \in Statuses
    BY <1>0, <2>1 DEF ApprovalFit, Statuses
  <2>3. approval' \in [Kinds -> Statuses]
    BY <2>1, <2>2 DEF ApprovalTypeOK
  <2>4. QED
    BY <2>1, <2>3 DEF ApprovalTypeOK
<1>12. ASSUME NEW i \in DOMAIN net, WriteExisting(i)
       PROVE  ApprovalTypeOK'
  <2>1. /\ net[i].op = "update" /\ Midway(i)
        /\ approval' = [approval EXCEPT ![net[i].arg] = Data(i)]
        /\ overtaken' \in {overtaken, overtaken \cup {net[i].arg}}
        /\ UNCHANGED <<pending, refreshing, report, desk, decisions, doubled>>
    BY <1>12 DEF WriteExisting
  <2>2. Data(i) \in Statuses /\ net[i].arg \in Kinds
    BY <1>0, <2>1 DEF ApprovalFit, Midway, Data
  <2>3. approval' \in [Kinds -> Statuses]
    BY <2>1, <2>2 DEF ApprovalTypeOK
  <2>4. overtaken' \subseteq Kinds
    BY <2>1, <2>2 DEF ApprovalTypeOK
  <2>5. QED
    BY <2>1, <2>3, <2>4 DEF ApprovalTypeOK
<1>13. QED
  BY <1>3, <1>4, <1>5, <1>6, <1>7, <1>8, <1>9, <1>10, <1>11, <1>12 DEF ApprovalNext

(***************************************************************************)
(* All pages.                                                              *)
(***************************************************************************)

PagesInv == /\ open \in Pages
            /\ SubTypes /\ ContestTypes /\ ProblemsTypes /\ ConsoleTypes
            /\ DeskTypes /\ ApprovalTypes

(* What a page that is mounted sends.                                      *)
LEMMA OneSent ==
    ASSUME NEW a, NEW b, net = <<Request(a, b)>>
    PROVE  /\ IsNet(net) /\ Len(net) <= MaxInFlight + 1
           /\ \A k \in DOMAIN net : net[k].status = "sent" /\ net[k].op = a
<1>1. PICK r : r = Request(a, b)
  OBVIOUS
<1>2. IsRequest(r) /\ r.op = a /\ r.status = "sent" /\ net = <<r>>
  BY <1>1, NewRequest DEF Request
<1>3. net \in Seq({r}) /\ Len(net) = 1 /\ DOMAIN net = {1} /\ net[1] = r
  BY ONLY <1>2
<1>4. IsNet(net)
  <2> DEFINE T == {r}
  <2>1. net \in Seq(T) /\ \A x \in T : IsRequest(x)
    BY <1>2, <1>3
  <2> HIDE DEF T
  <2>2. QED
    BY <2>1 DEF IsNet
<1>5. QED
  BY <1>2, <1>3, <1>4, ApiAssumption

LEMMA TwoSent ==
    ASSUME NEW a, NEW b, NEW c, NEW d, net = <<Request(a, b), Request(c, d)>>
    PROVE  /\ IsNet(net) /\ Len(net) <= MaxInFlight + 1
           /\ \A k \in DOMAIN net : net[k].status = "sent" /\ net[k].op \in {a, c}
<1>1. PICK r, q : r = Request(a, b) /\ q = Request(c, d)
  OBVIOUS
<1>2. /\ IsRequest(r) /\ r.op = a /\ r.status = "sent"
      /\ IsRequest(q) /\ q.op = c /\ q.status = "sent" /\ net = <<r, q>>
  BY <1>1, NewRequest DEF Request
<1>3. IsNet(net) /\ \A k \in DOMAIN net : net[k] \in {r, q}
  BY <1>2, MountedNet
<1>4. Len(net) = 2
  BY ONLY <1>2
<1>5. QED
  BY <1>2, <1>3, <1>4, ApiAssumption

LEMMA PagesOpened == Init => PagesInv
<1> SUFFICES ASSUME Init PROVE PagesInv
  OBVIOUS
<1>1. open \in Pages
  BY DEF Init, Pages
<1>2. SubTypes
  <2>1. SubTypeOK
    <3>1. rows = <<>> /\ list = <<>> /\ shownId = 0 /\ going = 0 /\ intervals = 0
      BY DEF Init, SubInit
    <3>2. rows \in Seq(Verdicts) /\ list \in Seq(Verdicts) /\ Len(rows) = 0
      BY <3>1
    <3>3. shownId \in 0..Len(rows) /\ going \in 0..Len(rows) /\ intervals \in Nat
      BY <3>1, <3>2
    <3>4. QED
      BY <3>2, <3>3 DEF Init, SubInit, SubTypeOK
  <2>2. open = "submissions" => SubNet
    <3>1. open = "submissions" => net = <<>>
      BY DEF Init
    <3>2. net = <<>> => Len(net) = 0 /\ DOMAIN net = {} /\ IsNet(net)
      BY EmptyNet
    <3>3. QED
      BY <3>1, <3>2, ApiAssumption DEF SubNet
  <2>3. QED
    BY <2>1, <2>2 DEF SubTypes
<1>3. ContestTypes
  <2>1. ContestTypeOK
    <3>1. skew \in Int /\ seen = skew /\ time = 0 /\ toggles = 0
      BY ContestPageAssumption DEF Init, ContestInit
    <3>2. 0 \in 0..LastTime /\ 0 \in 0..MaxToggles
      BY ContestPageAssumption
    <3>3. QED
      BY <3>1, <3>2 DEF Init, ContestInit, ContestTypeOK
  <2>2. open = "contest" => ContestNet
    <3>1. open = "contest" => net = <<>>
      BY DEF Init
    <3>2. net = <<>> => Len(net) = 0 /\ DOMAIN net = {}
      OBVIOUS
    <3>3. QED
      BY <3>1, <3>2, ApiAssumption DEF ContestNet, CheckFits
  <2>3. QED
    BY <2>1, <2>2 DEF ContestTypes
<1>4. ProblemsTypes
  <2>0. 0 \in Edits /\ 0 \in 0..MaxClicks
    BY ProblemConsoleAssumption DEF Edits
  <2>1. /\ Blank \in Fields /\ edits \in Edits /\ zipFile \in Edits /\ clicks \in 0..MaxClicks
        /\ saved \in Sent
    BY <2>0 DEF Init, ProblemsInit, Blank, Loaded, Fields, Sent
  <2>2. stored \in Seq(Problem) /\ Len(stored) <= MaxProblems
    <3>1. PICK e : e = New(0)
      OBVIOUS
    <3>2. e \in Problem
      BY <2>0, <3>1 DEF New, Problem
    <3>3. stored = <<e, e>>
      BY <3>1 DEF Init, ProblemsInit
    <3>4. stored \in Seq(Problem) /\ Len(stored) = 2
      BY ONLY <3>2, <3>3
    <3>5. QED
      BY <3>4, ProblemConsoleAssumption
  <2>3. ProblemsTypeOK
    BY <2>1, <2>2 DEF Init, ProblemsInit, ProblemsTypeOK
  <2>4. open = "problem console" => ProblemsNet
    <3>1. open = "problem console" => net = <<Request("list", 0)>>
      BY DEF Init, ProblemsMounted
    <3>2. open = "problem console"
          => /\ IsNet(net) /\ Len(net) <= MaxInFlight + 1
             /\ \A k \in DOMAIN net : net[k].status = "sent" /\ net[k].op = "list"
      BY <3>1, OneSent
    <3>3. \A x : x.status = "sent" /\ x.op = "list" => ProblemRequest(x)
      BY DEF ProblemRequest
    <3>4. QED
      BY <3>2, <3>3 DEF ProblemsNet
  <2>5. QED
    BY <2>3, <2>4 DEF ProblemsTypes
<1>5. ConsoleTypes
  <2>1. attached \in Seq(SUBSET Problems) /\ Len(attached) <= MaxContests
    <3>1. attached = <<{}, {}>> /\ 2 <= MaxContests
      BY ContestConsoleAssumption DEF Init, ConsoleInit
    <3>2. QED
      BY <3>1
  <2>2. acts \in 0..MaxActs
    <3>1. acts = 0
      BY DEF Init, ConsoleInit
    <3>2. QED
      BY <3>1, ContestConsoleAssumption
  <2>3. ConsoleTypeOK
    BY <2>1, <2>2 DEF Init, ConsoleInit, ConsoleTypeOK
  <2>4. open = "contest console" => ConsoleNet
    <3>1. open = "contest console" => net = <<Request("contests", 0), Request("choices", 0)>>
      BY DEF Init, ConsoleMounted
    <3>2. open = "contest console"
          => /\ IsNet(net) /\ Len(net) <= MaxInFlight + 1
             /\ \A k \in DOMAIN net : net[k].status = "sent" /\ net[k].op \in {"contests", "choices"}
      <4>1. ASSUME open = "contest console"
            PROVE  /\ IsNet(net) /\ Len(net) <= MaxInFlight + 1
                   /\ \A k \in DOMAIN net : net[k].status = "sent" /\ net[k].op \in {"contests", "choices"}
        <5>1. PICK a, b, c, d : a = "contests" /\ b = 0 /\ c = "choices" /\ d = 0
          OBVIOUS
        <5>2. net = <<Request(a, b), Request(c, d)>>
          BY <3>1, <4>1, <5>1
        <5>3. /\ IsNet(net) /\ Len(net) <= MaxInFlight + 1
              /\ \A k \in DOMAIN net : net[k].status = "sent" /\ net[k].op \in {a, c}
          BY ONLY <5>2, TwoSent
        <5>4. QED
          BY <5>1, <5>3
      <4>2. QED
        BY <4>1
    <3>3. \A x : x.status = "sent" /\ x.op \in {"contests", "choices"} => ConsoleRequest(x)
      BY DEF ConsoleRequest
    <3>4. QED
      BY <3>2, <3>3 DEF ConsoleNet
  <2>5. QED
    BY <2>3, <2>4 DEF ConsoleTypes
<1>6. DeskTypes
  <2>1. users \in [Users -> [role : Roles, bio : Bios]] /\ table \in [Users -> Roles \cup {"none"}]
    BY DEF Init, DeskInit, Roles, Bios
  <2>2. editor \in [form : Bios, loading : BOOLEAN, saving : BOOLEAN,
                    uploading : BOOLEAN, open : BOOLEAN]
    BY DEF Init, DeskInit, Mounted, Bios
  <2>3. changes \in 0..MaxChanges
    <3>1. changes = 0
      BY DEF Init, DeskInit
    <3>2. QED
      BY <3>1, UserDeskAssumption
  <2>4. DeskTypeOK
    BY <2>1, <2>2, <2>3 DEF Init, DeskInit, DeskTypeOK
  <2>5. open = "users" => DeskNet
    <3>0. PICK b, d : b = nobody /\ d = Owner
      OBVIOUS
    <3>1. open = "users" => net = <<Request("users", b), Request("profile", d)>>
      BY <3>0 DEF Init, DeskMounted
    <3>2. open = "users"
          => /\ IsNet(net) /\ Len(net) <= MaxInFlight + 1
             /\ \A k \in DOMAIN net : net[k].status = "sent" /\ net[k].op \in {"users", "profile"}
      BY <3>1, TwoSent
    <3>3. \A x : x.status = "sent" /\ x.op \in {"users", "profile"} => DeskFit(x)
      BY DEF DeskFit
    <3>4. QED
      BY <3>2, <3>3 DEF DeskNet
  <2>6. QED
    BY <2>4, <2>5 DEF DeskTypes
<1>7. ApprovalTypes
  <2>1. approval \in [Kinds -> Statuses]
    BY DEF Init, ApprovalInit, Statuses
  <2>2. desk \in [loading : BOOLEAN, error : BOOLEAN, editing : BOOLEAN, badge : Statuses \cup {"none"}]
    BY DEF Init, ApprovalInit
  <2>3. decisions \in 0..MaxDecisions
    <3>1. decisions = 0
      BY DEF Init, ApprovalInit
    <3>2. QED
      BY <3>1, ApprovalDeskAssumption
  <2>4. ApprovalTypeOK
    BY <2>1, <2>2, <2>3 DEF Init, ApprovalInit, ApprovalTypeOK
  <2>5. open = "approvals" => ApprovalNet
    <3>1. open = "approvals" => net = <<Request("pending", "both"), Request("contest", "contest")>>
      BY DEF Init, ApprovalMounted
    <3>2. QED
      BY <3>1, TwoSent DEF ApprovalNet, ApprovalFit
  <2>6. QED
    BY <2>4, <2>5 DEF ApprovalTypes
<1>8. QED
  BY <1>1, <1>2, <1>3, <1>4, <1>5, <1>6, <1>7 DEF PagesInv

(* A page that is closed stays as it is, whatever is on its way.           *)
LEMMA ClosedPages ==
    ASSUME PagesInv, open' = open
    PROVE  /\ open # "submissions" /\ UNCHANGED subPage => SubTypes'
           /\ open # "contest" /\ UNCHANGED contestPage => ContestTypes'
           /\ open # "problem console" /\ UNCHANGED problemPage => ProblemsTypes'
           /\ open # "contest console" /\ UNCHANGED consolePage => ConsoleTypes'
           /\ open # "users" /\ UNCHANGED deskPage => DeskTypes'
           /\ open # "approvals" /\ UNCHANGED approvalPage => ApprovalTypes'
<1>1. /\ SubTypeOK /\ ContestTypeOK /\ ProblemsTypeOK /\ ConsoleTypeOK
      /\ DeskTypeOK /\ ApprovalTypeOK
  BY DEF PagesInv, SubTypes, ContestTypes, ProblemsTypes, ConsoleTypes, DeskTypes, ApprovalTypes
<1>2. open # "submissions" /\ UNCHANGED subPage => SubTypes'
  BY <1>1 DEF SubTypes, SubTypeOK, subPage, nav, screen, poll
<1>3. open # "contest" /\ UNCHANGED contestPage => ContestTypes'
  BY <1>1 DEF ContestTypes, ContestTypeOK, contestPage
<1>4. open # "problem console" /\ UNCHANGED problemPage => ProblemsTypes'
  BY <1>1 DEF ProblemsTypes, ProblemsTypeOK, problemPage, uploadVars
<1>5. open # "contest console" /\ UNCHANGED consolePage => ConsoleTypes'
  BY <1>1 DEF ConsoleTypes, ConsoleTypeOK, consolePage, rowsOfServer, offers, panelState
<1>6. open # "users" /\ UNCHANGED deskPage => DeskTypes'
  BY <1>1 DEF DeskTypes, DeskTypeOK, deskPage
<1>7. open # "approvals" /\ UNCHANGED approvalPage => ApprovalTypes'
  BY <1>1 DEF ApprovalTypes, ApprovalTypeOK, approvalPage
<1>8. QED
  BY <1>2, <1>3, <1>4, <1>5, <1>6, <1>7

LEMMA PagesKept ==
    ASSUME PagesInv, PollingMatchesScreen, ButtonInv, RoleInv, Next
    PROVE  PagesInv'
<1>1. open' = open
  BY DEF Next, SubmissionsStep, ContestStep, ProblemsStep, ConsoleStep, DeskStep, ApprovalStep
<1>2. open' \in Pages
  BY <1>1 DEF PagesInv
<1>3. CASE SubmissionsStep
  <2>1. /\ open = "submissions" /\ SubNext
        /\ UNCHANGED <<contestPage, problemPage, consolePage, deskPage, approvalPage>>
    BY <1>3 DEF SubmissionsStep
  <2>2. SubTypeOK /\ SubNet
    BY <2>1 DEF PagesInv, SubTypes
  <2>3. SubTypes'
    BY <2>1, <2>2, SubNetKept, SubTypesKept DEF SubTypes
  <2>4. QED
    BY <1>1, <1>2, <2>1, <2>3, ClosedPages DEF PagesInv
<1>4. CASE ContestStep
  <2>1. /\ open = "contest" /\ ContestNext
        /\ UNCHANGED <<subPage, problemPage, consolePage, deskPage, approvalPage>>
    BY <1>4 DEF ContestStep
  <2>2. ContestTypeOK /\ ContestNet
    BY <2>1 DEF PagesInv, ContestTypes
  <2>3. ContestTypes'
    BY <2>1, <2>2, ContestNetKept, ContestTypesKept DEF ContestTypes
  <2>4. QED
    BY <1>1, <1>2, <2>1, <2>3, ClosedPages DEF PagesInv
<1>5. CASE ProblemsStep
  <2>1. /\ open = "problem console" /\ ProblemsNext
        /\ UNCHANGED <<subPage, contestPage, consolePage, deskPage, approvalPage>>
    BY <1>5 DEF ProblemsStep
  <2>2. ProblemsTypeOK /\ ProblemsNet
    BY <2>1 DEF PagesInv, ProblemsTypes
  <2>3. ProblemsTypes'
    BY <2>1, <2>2, ProblemsNetKept, ProblemsTypesKept DEF ProblemsTypes
  <2>4. QED
    BY <1>1, <1>2, <2>1, <2>3, ClosedPages DEF PagesInv
<1>6. CASE ConsoleStep
  <2>1. /\ open = "contest console" /\ ConsoleNext
        /\ UNCHANGED <<subPage, contestPage, problemPage, deskPage, approvalPage>>
    BY <1>6 DEF ConsoleStep
  <2>2. ConsoleTypeOK /\ ConsoleNet
    BY <2>1 DEF PagesInv, ConsoleTypes
  <2>3. ConsoleTypes'
    BY <2>1, <2>2, ConsoleNetKept, ConsoleTypesKept DEF ConsoleTypes
  <2>4. QED
    BY <1>1, <1>2, <2>1, <2>3, ClosedPages DEF PagesInv
<1>7. CASE DeskStep
  <2>1. /\ open = "users" /\ DeskNext
        /\ UNCHANGED <<subPage, contestPage, problemPage, consolePage, approvalPage>>
    BY <1>7 DEF DeskStep
  <2>2. DeskTypeOK /\ DeskNet
    BY <2>1 DEF PagesInv, DeskTypes
  <2>3. DeskTypes'
    BY <2>1, <2>2, DeskNetKept, DeskTypesKept DEF DeskTypes
  <2>4. QED
    BY <1>1, <1>2, <2>1, <2>3, ClosedPages DEF PagesInv
<1>8. CASE ApprovalStep
  <2>1. /\ open = "approvals" /\ ApprovalNext
        /\ UNCHANGED <<subPage, contestPage, problemPage, consolePage, deskPage>>
    BY <1>8 DEF ApprovalStep
  <2>2. ApprovalTypeOK /\ ApprovalNet
    BY <2>1 DEF PagesInv, ApprovalTypes
  <2>3. ApprovalTypes'
    BY <2>1, <2>2, ApprovalNetKept, ApprovalTypesKept DEF ApprovalTypes
  <2>4. QED
    BY <1>1, <1>2, <2>1, <2>3, ClosedPages DEF PagesInv
<1>9. QED
  BY <1>3, <1>4, <1>5, <1>6, <1>7, <1>8 DEF Next

LEMMA PagesStay ==
    ASSUME PagesInv, UNCHANGED vars
    PROVE  PagesInv'
<1>1. /\ open' = open /\ net' = net
      /\ UNCHANGED <<subPage, contestPage, problemPage, consolePage, deskPage, approvalPage>>
  BY DEF vars
<1>2. /\ SubTypeOK /\ ContestTypeOK /\ ProblemsTypeOK /\ ConsoleTypeOK
      /\ DeskTypeOK /\ ApprovalTypeOK
  BY DEF PagesInv, SubTypes, ContestTypes, ProblemsTypes, ConsoleTypes, DeskTypes, ApprovalTypes
<1>3. SubTypes'
  <2>1. UNCHANGED <<rows, signedIn, place, shownId, going, sending, list, loading, notice, intervals, pollRef>>
    BY <1>1 DEF subPage, nav, screen, poll
  <2>2. SubTypeOK' /\ (SubNet => SubNet')
    BY <1>1, <1>2, <2>1 DEF SubTypeOK, SubNet
  <2>3. QED
    BY <1>1, <2>2 DEF PagesInv, SubTypes
<1>4. ContestTypes'
  <2>1. ContestTypeOK' /\ (ContestNet => ContestNet')
    BY <1>1, <1>2 DEF contestPage, ContestTypeOK, ContestNet, CheckFits
  <2>2. QED
    BY <1>1, <2>1 DEF PagesInv, ContestTypes
<1>5. ProblemsTypes'
  <2>1. ProblemsTypeOK' /\ (ProblemsNet => ProblemsNet')
    BY <1>1, <1>2 DEF problemPage, uploadVars, ProblemsTypeOK, ProblemsNet
  <2>2. QED
    BY <1>1, <2>1 DEF PagesInv, ProblemsTypes
<1>6. ConsoleTypes'
  <2>1. ConsoleTypeOK' /\ (ConsoleNet => ConsoleNet')
    BY <1>1, <1>2 DEF consolePage, rowsOfServer, offers, panelState, ConsoleTypeOK, ConsoleNet
  <2>2. QED
    BY <1>1, <2>1 DEF PagesInv, ConsoleTypes
<1>7. DeskTypes'
  <2>1. DeskTypeOK' /\ (DeskNet => DeskNet')
    BY <1>1, <1>2 DEF deskPage, DeskTypeOK, DeskNet
  <2>2. QED
    BY <1>1, <2>1 DEF PagesInv, DeskTypes
<1>8. ApprovalTypes'
  <2>1. ApprovalTypeOK' /\ (ApprovalNet => ApprovalNet')
    BY <1>1, <1>2 DEF approvalPage, ApprovalTypeOK, ApprovalNet
  <2>2. QED
    BY <1>1, <2>1 DEF PagesInv, ApprovalTypes
<1>9. QED
  BY <1>1, <1>3, <1>4, <1>5, <1>6, <1>7, <1>8 DEF PagesInv

(* What the pages show, what is on its way to them and what the server     *)
(* holds for them have their types, whatever is answered in which order;   *)
(* and no page ever waits for more than one request beyond the bound on    *)
(* the clicks that send one.                                               *)
THEOREM PageTypes == Spec => []TypeOK
<1>1. PagesInv /\ PollingMatchesScreen /\ ButtonInv /\ RoleInv /\ [Next]_vars => PagesInv'
  BY PagesKept, PagesStay
<1>2. PagesInv /\ ButtonInv => TypeOK
  <2> SUFFICES ASSUME PagesInv, ButtonInv PROVE TypeOK
    OBVIOUS
  <2>1. /\ SubTypeOK /\ ContestTypeOK /\ ProblemsTypeOK /\ ConsoleTypeOK
        /\ DeskTypeOK /\ ApprovalTypeOK
    BY DEF PagesInv, SubTypes, ContestTypes, ProblemsTypes, ConsoleTypes, DeskTypes, ApprovalTypes
  <2>2. open = "contest" => Len(net) <= MaxInFlight \/ Len(net) = MaxInFlight + 1
    BY DEF PagesInv, ContestTypes, ContestNet, CheckFits
  <2>3. open = "contest" => Len(net) <= MaxInFlight + 1
    <3>1. open = "contest" => Len(net) \in Nat
      BY NetPlaces DEF ButtonInv
    <3>2. QED
      BY ONLY <2>2, <3>1, ApiAssumption
  <2>4. Len(net) <= MaxInFlight + 1
    BY <2>3
       DEF PagesInv, Pages, SubTypes, SubNet, ProblemsTypes, ProblemsNet, ConsoleTypes, ConsoleNet,
           DeskTypes, DeskNet, ApprovalTypes, ApprovalNet
  <2>5. QED
    BY <2>1, <2>4 DEF PagesInv, TypeOK
<1>3. QED
  BY PagesOpened, <1>1, <1>2, PollingNeverLeaks, ButtonInductive, RolesInductive, PTL DEF Spec

=============================================================================
