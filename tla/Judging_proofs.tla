----------------------------- MODULE Judging_proofs -----------------------------
(***************************************************************************)
(* The verdict and the score of a job, for every problem, every report of  *)
(* the sandbox and every fault: the totals of the loop are, at every step, *)
(* those of the testcases before it in the order of the ordinals.          *)
(*                                                                         *)
(* The order is the one Order chooses, so the first part shows that there  *)
(* is one; the score is a sum over a set, so it shows too what FoldSet     *)
(* computes.  The invariant, JudgeInv, says which totals the loop has when *)
(* it is at a step; the last part reads verdict and score off it.          *)
(***************************************************************************)
EXTENDS Judging, FiniteSetTheorems, WellFoundedInduction, TLAPS

(***************************************************************************)
(* Induction, and what a sum over a set computes.                          *)
(***************************************************************************)

(* A set of numbers has a least one.                                       *)
LEMMA LeastNumber ==
    ASSUME NEW T, T \subseteq Nat, T # {}
    PROVE  \E m \in T : \A n \in T : m <= n
<1>1. PICK m \in T : \A n \in T : ~(<<n, m>> \in OpToRel(<, Nat))
  BY NatLessThanWellFounded, WFMin
<1>2. \A n \in T : n \in Nat /\ m \in Nat /\ ~(n < m)
  BY <1>1 DEF OpToRel
<1>3. \A n \in T : m <= n
  BY <1>2
<1>4. QED
  BY <1>3

(* Induction, for a set instead of a predicate.                            *)
LEMMA SetInduction ==
    ASSUME NEW T, 0 \in T, \A n \in Nat : n \in T => n + 1 \in T
    PROVE  \A n \in Nat : n \in T
<1>1. SUFFICES ASSUME Nat \ T # {} PROVE FALSE
  OBVIOUS
<1>2. PICK m \in Nat \ T : \A n \in Nat \ T : m <= n
  BY <1>1, LeastNumber
<1>3. m # 0 /\ m - 1 \in Nat /\ m - 1 \in T
  BY <1>2
<1>4. QED
  BY <1>2, <1>3

Some(s) == CHOOSE x \in s : TRUE

(* One step of the recursion of FoldSet.                                   *)
Unfolded(p, h, s) == IF s = {} THEN 0 ELSE p[Some(s)].points + h[s \ {Some(s)}]

Sums(p, h, S) == h = [s \in SUBSET S |-> Unfolded(p, h, s)]

(* Taking out the chosen element makes a finite set smaller.               *)
LEMMA SomeOf ==
    ASSUME NEW s, IsFiniteSet(s), s # {}
    PROVE  /\ Some(s) \in s /\ IsFiniteSet(s \ {Some(s)})
           /\ Cardinality(s) \in Nat \ {0}
           /\ Cardinality(s \ {Some(s)}) = Cardinality(s) - 1
<1>1. Some(s) \in s
  BY DEF Some
<1>2. Cardinality(s) \in Nat /\ Cardinality(s) # 0
  BY FS_CardinalityType, FS_EmptySet
<1>3. QED
  BY <1>1, <1>2, FS_RemoveElement

(* The recursion of FoldSet has a solution on the subsets of a finite set. *)
LEMMA SumsExist ==
    ASSUME NEW p, NEW S, IsFiniteSet(S)
    PROVE  \E h : Sums(p, h, S)
<1> DEFINE Upto(h, n) == /\ h = [s \in SUBSET S |-> h[s]]
                         /\ \A s \in SUBSET S : Cardinality(s) <= n => h[s] = Unfolded(p, h, s)
           T == {n \in Nat : \E h : Upto(h, n)}
<1>1. \A s \in SUBSET S : IsFiniteSet(s) /\ Cardinality(s) \in Nat /\ Cardinality(s) <= Cardinality(S)
  BY FS_Subset, FS_CardinalityType
<1>2. 0 \in T
  <2> DEFINE h == [s \in SUBSET S |-> 0]
  <2>1. h = [s \in SUBSET S |-> h[s]]
    OBVIOUS
  <2>2. ASSUME NEW s \in SUBSET S, Cardinality(s) <= 0
        PROVE  h[s] = Unfolded(p, h, s)
    <3>1. s = {}
      BY <1>1, <2>2, FS_EmptySet
    <3>2. QED
      BY <3>1 DEF Unfolded
  <2>3. Upto(h, 0)
    BY <2>1, <2>2
  <2>4. QED
    BY <2>3
<1>3. ASSUME NEW n \in Nat, n \in T
      PROVE  n + 1 \in T
  <2>1. PICK h : Upto(h, n)
    BY <1>3
  <2> DEFINE g == [s \in SUBSET S |-> IF Cardinality(s) <= n THEN h[s] ELSE Unfolded(p, h, s)]
  <2>2. g = [s \in SUBSET S |-> g[s]]
    OBVIOUS
  <2>3. ASSUME NEW s \in SUBSET S, Cardinality(s) <= n + 1
        PROVE  g[s] = Unfolded(p, g, s)
    <3>1. g[s] = Unfolded(p, h, s)
      BY <2>1
    <3>2. CASE s = {}
      BY <3>1, <3>2 DEF Unfolded
    <3>3. CASE s # {}
      <4>1. /\ s \ {Some(s)} \in SUBSET S
            /\ Cardinality(s \ {Some(s)}) <= n
        BY <1>1, <2>3, <3>3, SomeOf
      <4>2. g[s \ {Some(s)}] = h[s \ {Some(s)}]
        BY <4>1
      <4>3. QED
        BY <3>1, <3>3, <4>2 DEF Unfolded
    <3>4. QED
      BY <3>2, <3>3
  <2> HIDE DEF g
  <2>4. \A s \in SUBSET S : Cardinality(s) <= n + 1 => g[s] = Unfolded(p, g, s)
    BY ONLY <2>3
  <2>5. Upto(g, n + 1)
    BY ONLY <2>2, <2>4
  <2>6. n + 1 \in Nat
    OBVIOUS
  <2> HIDE DEF Upto
  <2>7. QED
    BY <2>5, <2>6
<1> HIDE DEF T
<1>4. Cardinality(S) \in T
  <2>1. \A n \in Nat : n \in T
    BY <1>2, <1>3, SetInduction
  <2>2. QED
    BY <2>1, FS_CardinalityType
<1>5. PICK h : Upto(h, Cardinality(S))
  BY <1>4 DEF T
<1>6. \A s \in SUBSET S : h[s] = Unfolded(p, h, s)
  BY <1>1, <1>5
<1>7. Sums(p, h, S)
  <2>1. h = [s \in SUBSET S |-> h[s]]
    BY <1>5
  <2>2. [s \in SUBSET S |-> h[s]] = [s \in SUBSET S |-> Unfolded(p, h, s)]
    BY ONLY <1>6
  <2>3. QED
    BY ONLY <2>1, <2>2 DEF Sums
<1>8. QED
  BY <1>7

(* Points is that solution, at the set itself.                             *)
LEMMA PointsBySums ==
    ASSUME NEW p, NEW S, IsFiniteSet(S)
    PROVE  \E h : Sums(p, h, S) /\ Points(p, S) = h[S]
<1>1. PICK h : h = CHOOSE g : Sums(p, g, S)
  OBVIOUS
<1>2. Sums(p, h, S)
  BY <1>1, SumsExist
<1>3. Points(p, S) = h[S]
  BY <1>1 DEF Points, FoldSet, MapThenFoldSet, Sums, Unfolded, Some
<1>4. QED
  BY <1>2, <1>3

(* The solution satisfies the equation at every subset.                    *)
LEMMA SumsAt ==
    ASSUME NEW p, NEW S, NEW h, Sums(p, h, S), NEW s \in SUBSET S
    PROVE  h[s] = Unfolded(p, h, s)
<1>1. \A g : g = [t \in SUBSET S |-> Unfolded(p, h, t)] => g[s] = Unfolded(p, h, s)
  OBVIOUS
<1>2. QED
  BY ONLY <1>1, Sums(p, h, S) DEF Sums

(* A sum over a part of a set is the same, computed within the set.        *)
LEMMA PointsWithin ==
    ASSUME NEW p, NEW S, IsFiniteSet(S), NEW h, Sums(p, h, S), NEW P \in SUBSET S
    PROVE  Points(p, P) = h[P]
<1>1. PICK k : Sums(p, k, P) /\ Points(p, P) = k[P]
  BY FS_Subset, PointsBySums
<1> DEFINE T == {n \in Nat : \A s \in SUBSET P : Cardinality(s) <= n => k[s] = h[s]}
<1>2. \A s \in SUBSET P : /\ IsFiniteSet(s) /\ Cardinality(s) \in Nat /\ s \in SUBSET S
                          /\ k[s] = Unfolded(p, k, s) /\ h[s] = Unfolded(p, h, s)
  BY <1>1, FS_Subset, FS_CardinalityType, SumsAt
<1>3. 0 \in T
  <2>1. ASSUME NEW s \in SUBSET P, Cardinality(s) <= 0
        PROVE  k[s] = h[s]
    <3>1. s = {}
      BY <1>2, <2>1, FS_EmptySet
    <3>2. QED
      BY <1>2, <3>1 DEF Unfolded
  <2>2. QED
    BY <2>1
<1>4. ASSUME NEW n \in Nat, n \in T
      PROVE  n + 1 \in T
  <2>1. ASSUME NEW s \in SUBSET P, Cardinality(s) <= n + 1
        PROVE  k[s] = h[s]
    <3>1. CASE s = {}
      BY <1>2, <3>1 DEF Unfolded
    <3>2. CASE s # {}
      <4>1. s \ {Some(s)} \in SUBSET P /\ Cardinality(s \ {Some(s)}) <= n
        BY <1>2, <2>1, <3>2, SomeOf
      <4>2. k[s \ {Some(s)}] = h[s \ {Some(s)}]
        BY <1>4, <4>1
      <4>3. QED
        BY <1>2, <3>2, <4>2 DEF Unfolded
    <3>3. QED
      BY <3>1, <3>2
  <2>2. QED
    BY <2>1
<1>5. \A n \in Nat : n \in T
  <2> HIDE DEF T
  <2>1. QED
    BY <1>3, <1>4, SetInduction
<1>6. Cardinality(P) \in T
  BY <1>2, <1>5
<1>7. QED
  BY <1>1, <1>2, <1>6

(* Points takes out the chosen element and adds the rest.                  *)
LEMMA PointsUnfold ==
    ASSUME NEW p, NEW S, IsFiniteSet(S)
    PROVE  Points(p, S) = IF S = {} THEN 0 ELSE p[Some(S)].points + Points(p, S \ {Some(S)})
<1>1. PICK h : Sums(p, h, S) /\ Points(p, S) = h[S]
  BY PointsBySums
<1>2. h[S] = Unfolded(p, h, S)
  BY <1>1, SumsAt
<1>3. Points(p, S \ {Some(S)}) = h[S \ {Some(S)}]
  BY <1>1, PointsWithin
<1>4. QED
  BY <1>1, <1>2, <1>3 DEF Unfolded

(* No groups, no points.                                                   *)
LEMMA PointsOfNone == \A p : Points(p, {}) = 0
BY FS_EmptySet, PointsUnfold

(* Points of groups with integer points is an integer.                     *)
LEMMA PointsInt ==
    ASSUME NEW p, NEW U, IsFiniteSet(U), \A u \in U : p[u].points \in Int
    PROVE  \A S \in SUBSET U : Points(p, S) \in Int
<1> DEFINE T == {n \in Nat : \A S \in SUBSET U : Cardinality(S) <= n => Points(p, S) \in Int}
<1>1. \A S \in SUBSET U : IsFiniteSet(S) /\ Cardinality(S) \in Nat
  BY FS_Subset, FS_CardinalityType
<1>2. 0 \in T
  <2>1. ASSUME NEW S \in SUBSET U, Cardinality(S) <= 0
        PROVE  Points(p, S) \in Int
    <3>1. S = {}
      BY <1>1, <2>1, FS_EmptySet
    <3>2. QED
      BY <3>1, PointsOfNone
  <2>2. QED
    BY <2>1
<1>3. ASSUME NEW n \in Nat, n \in T
      PROVE  n + 1 \in T
  <2>1. ASSUME NEW S \in SUBSET U, Cardinality(S) <= n + 1
        PROVE  Points(p, S) \in Int
    <3>1. CASE S = {}
      BY <3>1, PointsOfNone
    <3>2. CASE S # {}
      <4>1. /\ Some(S) \in U /\ S \ {Some(S)} \in SUBSET U
            /\ Cardinality(S \ {Some(S)}) <= n
        BY <1>1, <2>1, <3>2, SomeOf
      <4>2. Points(p, S \ {Some(S)}) \in Int /\ p[Some(S)].points \in Int
        BY <1>3, <4>1
      <4>3. Points(p, S) = p[Some(S)].points + Points(p, S \ {Some(S)})
        BY <1>1, <3>2, PointsUnfold
      <4>4. QED
        BY <4>2, <4>3
    <3>3. QED
      BY <3>1, <3>2
  <2>2. QED
    BY <2>1
<1>4. \A n \in Nat : n \in T
  <2> HIDE DEF T
  <2>1. QED
    BY <1>2, <1>3, SetInduction
<1>5. QED
  BY <1>1, <1>4

(* The order in which the elements are chosen does not matter.             *)
LEMMA PointsAdd ==
    ASSUME NEW p, NEW U, IsFiniteSet(U), \A u \in U : p[u].points \in Int
    PROVE  \A S \in SUBSET U, x \in U : x \notin S => Points(p, S \cup {x}) = p[x].points + Points(p, S)
<1> DEFINE T == {n \in Nat : \A S \in SUBSET U, x \in U :
                     Cardinality(S) <= n /\ x \notin S => Points(p, S \cup {x}) = p[x].points + Points(p, S)}
<1>1. \A S \in SUBSET U : IsFiniteSet(S) /\ Cardinality(S) \in Nat
  BY FS_Subset, FS_CardinalityType
<1>2. \A S \in SUBSET U : Points(p, S) \in Int
  BY PointsInt
<1>3. ASSUME NEW S \in SUBSET U, NEW x \in U, x \notin S, Some(S \cup {x}) = x
      PROVE  Points(p, S \cup {x}) = p[x].points + Points(p, S)
  <2>1. (S \cup {x}) \in SUBSET U /\ S \cup {x} # {} /\ (S \cup {x}) \ {x} = S
    BY <1>3
  <2>2. QED
    BY <1>1, <1>3, <2>1, PointsUnfold
<1>4. 0 \in T
  <2>1. ASSUME NEW S \in SUBSET U, NEW x \in U, Cardinality(S) <= 0, x \notin S
        PROVE  Points(p, S \cup {x}) = p[x].points + Points(p, S)
    <3>1. S = {}
      BY <1>1, <2>1, FS_EmptySet
    <3>2. Some(S \cup {x}) = x
      BY <3>1 DEF Some
    <3>3. QED
      BY <1>3, <2>1, <3>2
  <2>2. QED
    BY <2>1
<1>5. ASSUME NEW n \in Nat, n \in T
      PROVE  n + 1 \in T
  <2>1. ASSUME NEW S \in SUBSET U, NEW x \in U, Cardinality(S) <= n + 1, x \notin S
        PROVE  Points(p, S \cup {x}) = p[x].points + Points(p, S)
    <3>1. PICK y : y = Some(S \cup {x})
      OBVIOUS
    <3>2. CASE y = x
      BY <1>3, <2>1, <3>1, <3>2
    <3>3. CASE y # x
      <4>1. S \cup {x} \in SUBSET U /\ S \cup {x} # {}
        OBVIOUS
      <4>2. y \in S
        BY <1>1, <3>1, <3>3, <4>1, SomeOf
      <4> DEFINE R == S \ {y}
      <4>3. /\ R \in SUBSET U /\ y \notin R /\ x \notin R /\ R \cup {y} = S
            /\ (S \cup {x}) \ {y} = R \cup {x}
        BY <2>1, <3>3, <4>2
      <4>4. Cardinality(R) <= n
        BY <1>1, <2>1, <4>2, FS_RemoveElement
      <4>5. Points(p, S \cup {x}) = p[y].points + Points(p, R \cup {x})
        BY <1>1, <3>1, <4>1, <4>3, PointsUnfold
      <4>6. Points(p, R \cup {x}) = p[x].points + Points(p, R)
        BY <1>5, <4>3, <4>4
      <4>7. Points(p, S) = p[y].points + Points(p, R)
        BY <1>5, <4>2, <4>3, <4>4
      <4>8. Points(p, R) \in Int /\ p[x].points \in Int /\ p[y].points \in Int
        BY <1>2, <4>2, <4>3
      <4>9. QED
        BY <4>5, <4>6, <4>7, <4>8
    <3>4. QED
      BY <3>2, <3>3
  <2>2. QED
    BY <2>1
<1>6. \A n \in Nat : n \in T
  <2> HIDE DEF T
  <2>1. QED
    BY <1>4, <1>5, SetInduction
<1>7. QED
  BY <1>1, <1>6

(***************************************************************************)
(* Sorting by ordinal: there is an order, and Order is one.                *)
(***************************************************************************)

(* Sorts(h, s): h is a permutation of the places of s that puts them in    *)
(* order.                                                                  *)
Sorts(h, s) == /\ h \in Bijection(DOMAIN s, DOMAIN s)
               /\ \A k, l \in DOMAIN s : k < l => s[h[k]].ord <= s[h[l]].ord

(* A rank that increases with the ordinals, and differs from element to    *)
(* element, sorts: its inverse is an order.                                *)
LEMMA RankSorts ==
    ASSUME NEW s, NEW D, D = DOMAIN s, NEW n \in Nat, D = 1..n,
           \A i \in D : s[i].ord \in Int,
           NEW rank \in Bijection(D, D),
           \A i, k \in D : s[i].ord < s[k].ord => rank[i] < rank[k]
    PROVE  \E h : Sorts(h, s)
<1> DEFINE g == [k \in D |-> CHOOSE i \in D : rank[i] = k]
<1>1. /\ \A i \in D : rank[i] \in D
      /\ \A k \in D : \E i \in D : rank[i] = k
      /\ \A i, k \in D : rank[i] = rank[k] => i = k
  BY DEF Bijection, Injection, Surjection, IsInjective
<1>2. \A k \in D : g[k] \in D /\ rank[g[k]] = k
  BY <1>1
<1>3. \A i \in D : g[rank[i]] = i
  BY <1>1, <1>2
<1>4. g \in [D -> D]
  BY <1>2
<1> HIDE DEF g
<1>5. g \in Bijection(D, D)
  <2>1. \A k, l \in D : g[k] = g[l] => k = l
    BY <1>2
  <2>2. \A i \in D : \E k \in D : g[k] = i
    BY <1>1, <1>3
  <2>3. QED
    BY <1>4, <2>1, <2>2 DEF Bijection, Injection, Surjection, IsInjective
<1>6. ASSUME NEW k \in D, NEW l \in D, k < l
      PROVE  s[g[k]].ord <= s[g[l]].ord
  <2>1. g[k] \in D /\ g[l] \in D /\ rank[g[k]] = k /\ rank[g[l]] = l
    BY <1>2
  <2>2. k \in Int /\ l \in Int /\ s[g[k]].ord \in Int /\ s[g[l]].ord \in Int
    BY <2>1
  <2>3. s[g[l]].ord < s[g[k]].ord => l < k
    BY <2>1
  <2>4. QED
    BY ONLY <1>6, <2>2, <2>3
<1>7. Sorts(g, s)
  BY <1>5, <1>6 DEF Sorts
<1>8. QED
  BY <1>7

(* Every list has a rank by ordinal, ties by place: so Order chooses an order.*)
LEMMA OrderSorts ==
    ASSUME NEW S, \A x \in S : x.ord \in Int, NEW s \in Seq(S)
    PROVE  Sorts(Order(s), s)
<1> DEFINE Sooner(j, i) == s[j].ord < s[i].ord \/ (s[j].ord = s[i].ord /\ j <= i)
           L(i) == {j \in DOMAIN s : Sooner(j, i)}
           rank == [i \in DOMAIN s |-> Cardinality(L(i))]
<1>1. PICK n, D : /\ n \in Nat /\ n = Len(s) /\ D = DOMAIN s /\ D = 1..n
                   /\ \A i \in D : s[i] \in S /\ s[i].ord \in Int
  OBVIOUS
<1>2. IsFiniteSet(D) /\ Cardinality(D) = n
  <2>1. n \in Int /\ 1 \in Int
    BY <1>1
  <2>2. IsFiniteSet(1..n) /\ Cardinality(1..n) = IF 1 > n THEN 0 ELSE n - 1 + 1
    BY ONLY <2>1, FS_Interval
  <2>3. QED
    BY <1>1, <2>2
<1>3. \A i \in D : L(i) \in SUBSET D /\ i \in L(i)
  BY <1>1
<1>4. \A i, k \in D : i # k => Sooner(i, k) \/ Sooner(k, i)
  BY <1>1
<1>5. \A i, k \in D : i # k /\ Sooner(i, k) => L(i) \in SUBSET L(k) /\ k \notin L(i)
  BY <1>1
<1>6. \A i, k \in D : s[i].ord < s[k].ord => i # k /\ Sooner(i, k)
  BY <1>1
<1>7. \A i \in D : rank[i] = Cardinality(L(i))
  BY <1>1
<1>8. rank = [i \in D |-> rank[i]]
  BY <1>1
<1> HIDE DEF L, Sooner, rank
<1>9. ASSUME NEW i \in D
      PROVE  /\ IsFiniteSet(L(i)) /\ Cardinality(L(i)) \in Nat
             /\ Cardinality(L(i)) <= n /\ Cardinality(L(i)) # 0
  <2>1. PICK A : A = L(i)
    OBVIOUS
  <2>2. IsFiniteSet(A) /\ Cardinality(A) <= n
    BY ONLY <1>2, <1>3, <2>1, i \in D, FS_Subset
  <2>3. Cardinality(A) \in Nat
    BY ONLY <2>2, FS_CardinalityType
  <2>4. Cardinality(A) # 0
    BY ONLY <1>3, <2>1, <2>2, i \in D, FS_EmptySet
  <2>5. QED
    BY ONLY <2>1, <2>2, <2>3, <2>4
<1>10. ASSUME NEW i \in D, NEW k \in D, i # k, Sooner(i, k)
       PROVE  rank[i] < rank[k]
  <2>1. PICK A, B : A = L(i) /\ B = L(k)
    OBVIOUS
  <2>2. A \in SUBSET B /\ A # B
    BY ONLY <1>3, <1>5, <1>10, <2>1
  <2>3. IsFiniteSet(B) /\ Cardinality(B) \in Nat /\ Cardinality(A) \in Nat
    BY ONLY <1>9, <2>1, i \in D, k \in D
  <2>4. Cardinality(A) <= Cardinality(B) /\ (Cardinality(B) = Cardinality(A) => B = A)
    BY ONLY <2>2, <2>3, FS_Subset
  <2>5. Cardinality(A) < Cardinality(B)
    BY ONLY <2>2, <2>3, <2>4
  <2>6. QED
    BY ONLY <1>7, <2>1, <2>5, i \in D, k \in D
<1>11. rank \in [D -> D]
  <2>1. \A i \in D : Cardinality(L(i)) \in 1..n
    BY ONLY <1>1, <1>9
  <2>2. \A i \in D : rank[i] \in D
    BY ONLY <1>1, <1>7, <2>1
  <2>3. QED
    BY ONLY <1>8, <2>2
<1>12. rank \in Injection(D, D)
  <2>1. ASSUME NEW i \in D, NEW k \in D, rank[i] = rank[k] PROVE i = k
    <3>1. rank[i] \in Int /\ rank[k] \in Int
      BY ONLY <1>1, <1>11, i \in D, k \in D
    <3>2. i # k => rank[i] < rank[k] \/ rank[k] < rank[i]
      BY ONLY <1>4, <1>10, i \in D, k \in D
    <3>3. QED
      BY ONLY <2>1, <3>1, <3>2
  <2>2. QED
    BY ONLY <1>11, <2>1 DEF Injection, IsInjective
<1>13. rank \in Bijection(D, D)
  <2>1. rank \in Surjection(D, D)
    BY ONLY <1>2, <1>12, FS_Injection
  <2>2. QED
    BY ONLY <1>12, <2>1 DEF Bijection
<1>14. \A i, k \in D : s[i].ord < s[k].ord => rank[i] < rank[k]
  BY ONLY <1>6, <1>10
<1>15. \E h : Sorts(h, s)
  BY ONLY <1>1, <1>13, <1>14, RankSorts
<1>16. \A h : Sorts(h, s) <=> /\ h \in Bijection(DOMAIN s, DOMAIN s)
                              /\ \A k, l \in DOMAIN s : k < l => s[h[k]].ord <= s[h[l]].ord
  BY DEF Sorts
<1>17. QED
  BY ONLY <1>15, <1>16 DEF Order

(* What ByOrdinal gives: the elements of the list, once each, in order.    *)
LEMMA Sorted ==
    ASSUME NEW S, \A x \in S : x.ord \in Int, NEW s \in Seq(S)
    PROVE  /\ Len(s) \in Nat /\ DOMAIN s = 1..Len(s) /\ Len(ByOrdinal(s)) = Len(s)
           /\ \A k \in DOMAIN s : /\ Order(s)[k] \in DOMAIN s
                                  /\ ByOrdinal(s)[k] = s[Order(s)[k]]
           /\ \A k, l \in DOMAIN s : Order(s)[k] = Order(s)[l] => k = l
           /\ \A i \in DOMAIN s : \E k \in DOMAIN s : Order(s)[k] = i
           /\ \A k, l \in DOMAIN s : k < l => s[Order(s)[k]].ord <= s[Order(s)[l]].ord
<1>1. PICK h : h = Order(s)
  OBVIOUS
<1>2. Sorts(h, s)
  BY ONLY <1>1, OrderSorts, s \in Seq(S), \A x \in S : x.ord \in Int
<1>3. /\ \A k \in DOMAIN s : h[k] \in DOMAIN s
      /\ \A k, l \in DOMAIN s : h[k] = h[l] => k = l
      /\ \A i \in DOMAIN s : \E k \in DOMAIN s : h[k] = i
      /\ \A k, l \in DOMAIN s : k < l => s[h[k]].ord <= s[h[l]].ord
  BY ONLY <1>2 DEF Sorts, Bijection, Injection, Surjection, IsInjective
<1>4. Len(s) \in Nat /\ DOMAIN s = 1..Len(s) /\ \A k \in DOMAIN s : s[k] \in S
  OBVIOUS
<1>5. ByOrdinal(s) = [k \in DOMAIN s |-> s[h[k]]]
  BY <1>1 DEF ByOrdinal
<1>6. Len(ByOrdinal(s)) = Len(s)
  <2>1. PICK n, t : n \in Nat /\ n = Len(s) /\ t = ByOrdinal(s)
    BY <1>4
  <2>2. t = [k \in 1..n |-> s[h[k]]] /\ \A k \in 1..n : s[h[k]] \in S
    BY <1>3, <1>4, <1>5, <2>1
  <2>3. t \in Seq(S) /\ DOMAIN t = 1..n
    BY ONLY <2>1, <2>2
  <2>4. Len(t) \in Nat /\ DOMAIN t = 1..Len(t)
    BY ONLY <2>3
  <2>5. Len(t) = n
    BY ONLY <2>1, <2>3, <2>4
  <2>6. QED
    BY <2>1, <2>5
<1>7. \A k \in DOMAIN s : ByOrdinal(s)[k] = s[h[k]]
  BY <1>5
<1>8. QED
  BY ONLY <1>1, <1>3, <1>4, <1>6, <1>7

(***************************************************************************)
(* The places of the testcases of a problem, in the order of the loop.     *)
(***************************************************************************)

TestsOf(p, a) == p[Order(p)[a]].tests

PlaceAt(p, a, b) == <<Order(p)[a], Order(TestsOf(p, a))[b]>>

(* The groups of a problem, sorted.                                        *)
LEMMA SortedGroups ==
    ASSUME NEW p \in Problems
    PROVE  /\ Len(p) \in Nat /\ DOMAIN p = 1..Len(p) /\ Len(ByOrdinal(p)) = Len(p)
           /\ \A a \in DOMAIN p : /\ Order(p)[a] \in DOMAIN p
                                  /\ ByOrdinal(p)[a] = p[Order(p)[a]]
                                  /\ p[a] \in Group
           /\ \A a, c \in DOMAIN p : Order(p)[a] = Order(p)[c] => a = c
           /\ \A i \in DOMAIN p : \E a \in DOMAIN p : Order(p)[a] = i
           /\ \A a, c \in DOMAIN p : a < c => p[Order(p)[a]].ord <= p[Order(p)[c]].ord
<1>1. p \in Seq(Group)
  BY JudgingAssumption
<1>2. \A g \in Group : g.ord \in Int
  BY DEF Group
<1>3. \A a \in DOMAIN p : p[a] \in Group
  BY <1>1
<1>4. QED
  BY ONLY <1>1, <1>2, <1>3, Sorted

(* The testcases of its a-th group, sorted.                                *)
LEMMA SortedTests ==
    ASSUME NEW p \in Problems, NEW a \in DOMAIN p, NEW s, s = TestsOf(p, a)
    PROVE  /\ Len(s) \in Nat /\ DOMAIN s = 1..Len(s) /\ Len(ByOrdinal(s)) = Len(s)
           /\ \A b \in DOMAIN s : /\ Order(s)[b] \in DOMAIN s
                                  /\ ByOrdinal(s)[b] = s[Order(s)[b]]
                                  /\ s[b] \in Testcase
           /\ \A b, d \in DOMAIN s : Order(s)[b] = Order(s)[d] => b = d
           /\ \A j \in DOMAIN s : \E b \in DOMAIN s : Order(s)[b] = j
           /\ \A b, d \in DOMAIN s : b < d => s[Order(s)[b]].ord <= s[Order(s)[d]].ord
<1>1. p[Order(p)[a]] \in Group
  BY SortedGroups
<1>2. s \in Seq(Testcase)
  BY <1>1 DEF Group, TestsOf
<1>3. \A t \in Testcase : t.ord \in Int
  BY DEF Testcase
<1>4. \A b \in DOMAIN s : s[b] \in Testcase
  BY <1>2
<1>5. QED
  BY ONLY <1>2, <1>3, <1>4, Sorted

(* Places, with its members spelled out.                                   *)
LEMMA InPlaces ==
    ASSUME NEW p
    PROVE  \A x : x \in Places(p) <=> \E i \in DOMAIN p : \E j \in DOMAIN p[i].tests : x = <<i, j>>
BY DEF Places

(* The loop meets every place once.                                        *)
LEMMA EveryPlace ==
    ASSUME NEW p \in Problems
    PROVE  /\ \A a \in DOMAIN p : \A b \in DOMAIN TestsOf(p, a) : PlaceAt(p, a, b) \in Places(p)
           /\ \A x \in Places(p) : \E a \in DOMAIN p : \E b \in DOMAIN TestsOf(p, a) : x = PlaceAt(p, a, b)
           /\ \A a, c \in DOMAIN p : \A b \in DOMAIN TestsOf(p, a), d \in DOMAIN TestsOf(p, c) :
                 PlaceAt(p, a, b) = PlaceAt(p, c, d) => a = c /\ b = d
<1>1. ASSUME NEW a \in DOMAIN p, NEW b \in DOMAIN TestsOf(p, a)
      PROVE  PlaceAt(p, a, b) \in Places(p)
  <2>1. Order(p)[a] \in DOMAIN p
    BY SortedGroups
  <2>2. Order(TestsOf(p, a))[b] \in DOMAIN TestsOf(p, a)
    BY SortedTests
  <2>3. Order(TestsOf(p, a))[b] \in DOMAIN p[Order(p)[a]].tests
    BY ONLY <2>2 DEF TestsOf
  <2>4. QED
    BY ONLY <2>1, <2>3, InPlaces DEF PlaceAt
<1>2. ASSUME NEW x \in Places(p)
      PROVE  \E a \in DOMAIN p : \E b \in DOMAIN TestsOf(p, a) : x = PlaceAt(p, a, b)
  <2>1. PICK i, j : i \in DOMAIN p /\ j \in DOMAIN p[i].tests /\ x = <<i, j>>
    BY InPlaces
  <2>2. PICK a \in DOMAIN p : Order(p)[a] = i
    BY ONLY <2>1, SortedGroups, p \in Problems
  <2>3. TestsOf(p, a) = p[i].tests
    BY ONLY <2>2 DEF TestsOf
  <2>4. PICK b \in DOMAIN TestsOf(p, a) : Order(TestsOf(p, a))[b] = j
    <3>1. PICK s : s = TestsOf(p, a)
      OBVIOUS
    <3>2. j \in DOMAIN s
      BY ONLY <2>1, <2>3, <3>1
    <3>3. \E b \in DOMAIN s : Order(s)[b] = j
      BY ONLY <3>1, <3>2, SortedTests, p \in Problems, a \in DOMAIN p
    <3>4. QED
      BY ONLY <3>1, <3>3
  <2>5. x = PlaceAt(p, a, b)
    BY ONLY <2>1, <2>2, <2>4 DEF PlaceAt
  <2>6. QED
    BY <2>5
<1>3. ASSUME NEW a \in DOMAIN p, NEW c \in DOMAIN p,
             NEW b \in DOMAIN TestsOf(p, a), NEW d \in DOMAIN TestsOf(p, c),
             PlaceAt(p, a, b) = PlaceAt(p, c, d)
      PROVE  a = c /\ b = d
  <2>1. Order(p)[a] = Order(p)[c] /\ Order(TestsOf(p, a))[b] = Order(TestsOf(p, c))[d]
    BY ONLY <1>3 DEF PlaceAt
  <2>2. a = c
    BY <2>1, SortedGroups
  <2>3. b = d
    BY <2>1, <2>2, SortedTests
  <2>4. QED
    BY <2>2, <2>3
<1>4. QED
  BY ONLY <1>1, <1>2, <1>3

(* It does not meet a testcase after one that the ordinals put behind it.  *)
LEMMA LaterIsNotBefore ==
    ASSUME NEW p \in Problems, NEW a \in DOMAIN p, NEW c \in DOMAIN p,
           NEW b \in DOMAIN TestsOf(p, a), NEW d \in DOMAIN TestsOf(p, c),
           a < c \/ (a = c /\ b < d)
    PROVE  ~Before(p, PlaceAt(p, c, d), PlaceAt(p, a, b))
<1>1. PICK i, j, k, l : /\ i = Order(p)[a] /\ j = Order(TestsOf(p, a))[b]
                        /\ k = Order(p)[c] /\ l = Order(TestsOf(p, c))[d]
  OBVIOUS
<1>2. /\ i \in DOMAIN p /\ k \in DOMAIN p /\ p[i].ord \in Int /\ p[k].ord \in Int
      /\ (a < c \/ a = c) => p[i].ord <= p[k].ord
      /\ i = k => a = c
      /\ a \in Int /\ c \in Int
  <2>0. DOMAIN p \subseteq Int
    <3>1. Len(p) \in Nat /\ DOMAIN p = 1..Len(p)
      BY ONLY SortedGroups, p \in Problems
    <3>2. QED
      BY ONLY <3>1
  <2>1. i \in DOMAIN p /\ k \in DOMAIN p /\ (i = k => a = c) /\ a \in Int /\ c \in Int
    BY ONLY <1>1, <2>0, SortedGroups, p \in Problems, a \in DOMAIN p, c \in DOMAIN p
  <2>2. p[i].ord \in Int /\ p[k].ord \in Int
    BY <2>1, SortedGroups DEF Group
  <2>3. a < c => p[i].ord <= p[k].ord
    BY <1>1, SortedGroups
  <2>4. a = c => p[i].ord <= p[k].ord
    BY ONLY <1>1, <2>2
  <2>5. QED
    BY ONLY <2>1, <2>2, <2>3, <2>4
<1>3. a = c /\ b < d => ~(p[k].tests[l].ord < p[i].tests[j].ord)
  <2> SUFFICES ASSUME a = c, b < d
               PROVE  ~(p[k].tests[l].ord < p[i].tests[j].ord)
    OBVIOUS
  <2>1. PICK s : s = TestsOf(p, a)
    OBVIOUS
  <2>2. s = p[i].tests /\ s = p[k].tests /\ j = Order(s)[b] /\ l = Order(s)[d]
        /\ b \in DOMAIN s /\ d \in DOMAIN s
    BY <1>1, <2>1 DEF TestsOf
  <2>3. s[j].ord <= s[l].ord /\ s[j] \in Testcase /\ s[l] \in Testcase
    BY <2>1, <2>2, SortedTests
  <2>4. s[j].ord \in Int /\ s[l].ord \in Int
    BY ONLY <2>3 DEF Testcase
  <2>5. QED
    BY ONLY <2>2, <2>3, <2>4
<1>4. PICK x, y : x = <<k, l>> /\ y = <<i, j>>
  OBVIOUS
<1>5. x[1] = k /\ x[2] = l /\ y[1] = i /\ y[2] = j
  BY ONLY <1>4
<1>6. x = PlaceAt(p, c, d) /\ y = PlaceAt(p, a, b)
  BY ONLY <1>1, <1>4 DEF PlaceAt
<1>7. ~Before(p, x, y)
  <2>1. ~(p[k].ord < p[i].ord)
    BY ONLY <1>2, a < c \/ (a = c /\ b < d)
  <2>2. k = i => a = c /\ b < d
    BY ONLY <1>2, a < c \/ (a = c /\ b < d)
  <2>3. QED
    BY ONLY <1>3, <1>5, <2>1, <2>2 DEF Before, TestAt
<1>8. QED
  BY ONLY <1>6, <1>7

(* Places and ids.                                                         *)
LEMMA PlacesHaveIds ==
    ASSUME NEW p \in Problems
    PROVE  /\ \A x \in Places(p) : TestAt(p, x).id \in Nat
           /\ \A x, y \in Places(p) : TestAt(p, x).id = TestAt(p, y).id => x = y
<1>1. ASSUME NEW i \in DOMAIN p, NEW j \in DOMAIN p[i].tests
      PROVE  p[i].tests[j].id \in Nat
  <2>1. p[i] \in Group
    BY SortedGroups
  <2>2. p[i].tests \in Seq(Testcase)
    BY ONLY <2>1 DEF Group
  <2>3. p[i].tests[j] \in Testcase
    BY ONLY <2>2, j \in DOMAIN p[i].tests
  <2>4. QED
    BY ONLY <2>3 DEF Testcase
<1>2. \A x \in Places(p) : /\ x = <<x[1], x[2]>> /\ x[1] \in DOMAIN p
                           /\ x[2] \in DOMAIN p[x[1]].tests
  BY InPlaces
<1>3. \A x \in Places(p) : TestAt(p, x).id \in Nat
  BY ONLY <1>1, <1>2 DEF TestAt
<1>4. ASSUME NEW x \in Places(p), NEW y \in Places(p), TestAt(p, x).id = TestAt(p, y).id
      PROVE  x = y
  <2>1. x[1] = y[1] /\ x[2] = y[2]
    BY <1>2, <1>4, KeysAssumption DEF TestAt
  <2>2. QED
    BY ONLY <1>2, <2>1, x \in Places(p), y \in Places(p)
<1>5. QED
  BY ONLY <1>3, <1>4

(***************************************************************************)
(* The inductive invariant: what the totals of the loop are the totals of. *)
(***************************************************************************)

(* The testcases the loop has run when it is at s.                         *)
Reached(a, b, s) == a < s[1] \/ (a = s[1] /\ b < s[2])

Done(p, s) ==
    {x \in Places(p) :
        \E a \in DOMAIN p : \E b \in DOMAIN TestsOf(p, a) :
            x = PlaceAt(p, a, b) /\ Reached(a, b, s)}

(* o maps each testcase that was run to its verdict: the results are of    *)
(* these, once each, and so are the counts.                                *)
Counted(p, D, t, o) ==
    /\ IsFiniteSet(D) /\ D \subseteq Places(p)
    /\ o \in [D -> Verdict]
    /\ t.total = Cardinality(D) /\ Len(t.results) = t.total
    /\ t.passed = Cardinality({x \in D : o[x] = "AC"})
    /\ \A k \in DOMAIN t.results : \E x \in D : /\ t.results[k].id = TestAt(p, x).id
                                                /\ t.results[k].verdict = o[x]
    /\ \A x \in D : \E k \in DOMAIN t.results : t.results[k].id = TestAt(p, x).id

(* worst is the verdict of a first failure.                                *)
Earliest(p, D, worst, o) ==
    \/ worst = "AC" /\ \A x \in D : o[x] = "AC"
    \/ \E e \in D : /\ o[e] # "AC" /\ worst = o[e]
                    /\ \A d \in D : o[d] # "AC" => ~Before(p, d, e)

(* The groups that ended before s, all of whose testcases passed.          *)
Full(p, s, o) ==
    {i \in DOMAIN p : /\ \E a \in DOMAIN p : a < s[1] /\ Order(p)[a] = i
                      /\ \A j \in DOMAIN p[i].tests : o[<<i, j>>] = "AC"}

Scored(p, s, t, o) ==
    /\ t.score = Points(p, Full(p, s, o))
    /\ s[1] \in DOMAIN p =>
         (t.groupPassed <=> \A b \in DOMAIN TestsOf(p, s[1]) :
                                b < s[2] => o[PlaceAt(p, s[1], b)] = "AC")

Tallied(p, s, t) ==
    \E o \in [Done(p, s) -> Verdict] :
        /\ Counted(p, Done(p, s), t, o)
        /\ Earliest(p, Done(p, s), t.worst, o)
        /\ Scored(p, s, t, o)

JudgeInv ==
    /\ TypeOK
    /\ pc \in {"setup", "compiling", "running"} \/ SummedUp => job.problem \in Problems
    /\ pc \in {"setup", "compiling"} => at = <<1, 1>> /\ tally = NoTally
    /\ pc = "running" \/ SummedUp => Tallied(job.problem, at, tally)
    /\ SummedUp => /\ at[1] > Len(Groups)
                   /\ result.tally = tally
                   /\ result.verdict = IF tally.passed < tally.total THEN tally.worst ELSE "AC"
    /\ pc = "publishing" /\ ~result.full => result.tally = NoTally

(* The loop has run a testcase when it has passed its step.                *)
LEMMA DoneIffReached ==
    ASSUME NEW p \in Problems, NEW s
    PROVE  \A a \in DOMAIN p : \A b \in DOMAIN TestsOf(p, a) :
               PlaceAt(p, a, b) \in Done(p, s) <=> Reached(a, b, s)
<1>1. ASSUME NEW a \in DOMAIN p, NEW b \in DOMAIN TestsOf(p, a)
      PROVE  PlaceAt(p, a, b) \in Done(p, s) <=> Reached(a, b, s)
  <2>1. PlaceAt(p, a, b) \in Places(p)
    BY ONLY EveryPlace, <1>1, p \in Problems
  <2>2. Reached(a, b, s) => PlaceAt(p, a, b) \in Done(p, s)
    BY ONLY <1>1, <2>1 DEF Done
  <2>3. ASSUME PlaceAt(p, a, b) \in Done(p, s)
        PROVE  Reached(a, b, s)
    <3>1. PICK c \in DOMAIN p : \E d \in DOMAIN TestsOf(p, c) :
                  PlaceAt(p, a, b) = PlaceAt(p, c, d) /\ Reached(c, d, s)
      BY ONLY <2>3 DEF Done
    <3>2. PICK d \in DOMAIN TestsOf(p, c) :
                  PlaceAt(p, a, b) = PlaceAt(p, c, d) /\ Reached(c, d, s)
      BY ONLY <3>1
    <3>3. a = c /\ b = d
      BY ONLY <1>1, <3>2, EveryPlace, p \in Problems, c \in DOMAIN p
    <3>4. QED
      BY ONLY <3>2, <3>3
  <2>4. QED
    BY ONLY <2>2, <2>3
<1>2. QED
  BY ONLY <1>1

(* Lists are numbered from 1.                                              *)
LEMMA DomainsAreIndices ==
    ASSUME NEW p \in Problems
    PROVE  /\ Len(p) \in Nat /\ DOMAIN p = 1..Len(p)
           /\ \A a \in DOMAIN p : /\ Len(TestsOf(p, a)) \in Nat
                                  /\ DOMAIN TestsOf(p, a) = 1..Len(TestsOf(p, a))
<1>1. Len(p) \in Nat /\ DOMAIN p = 1..Len(p)
  BY ONLY SortedGroups, p \in Problems
<1>2. ASSUME NEW a \in DOMAIN p
      PROVE  Len(TestsOf(p, a)) \in Nat /\ DOMAIN TestsOf(p, a) = 1..Len(TestsOf(p, a))
  BY ONLY SortedTests, p \in Problems, a \in DOMAIN p
<1>3. QED
  BY ONLY <1>1, <1>2

(* Two sets of places are the same when the loop reaches the same.         *)
LEMMA SameDone ==
    ASSUME NEW p \in Problems, NEW s, NEW u,
           \A a \in DOMAIN p : \A b \in DOMAIN TestsOf(p, a) : Reached(a, b, s) <=> Reached(a, b, u)
    PROVE  Done(p, s) = Done(p, u)
BY ONLY \A a \in DOMAIN p : \A b \in DOMAIN TestsOf(p, a) : Reached(a, b, s) <=> Reached(a, b, u)
   DEF Done

(* At the first step nothing has been run.                                 *)
LEMMA DoneAtFirst == ASSUME NEW p \in Problems PROVE Done(p, <<1, 1>>) = {}
<1>1. ASSUME NEW a \in DOMAIN p, NEW b \in DOMAIN TestsOf(p, a)
      PROVE  ~Reached(a, b, <<1, 1>>)
  <2>1. a \in 1..Len(p) /\ Len(p) \in Nat /\ b \in 1..Len(TestsOf(p, a)) /\ Len(TestsOf(p, a)) \in Nat
    BY ONLY DomainsAreIndices, p \in Problems, <1>1
  <2>2. a \in Nat /\ b \in Nat /\ a >= 1 /\ b >= 1
    BY ONLY <2>1
  <2>3. QED
    BY ONLY <2>2 DEF Reached
<1>2. QED
  BY ONLY <1>1 DEF Done

(* A step adds one testcase, not run before and not behind one that was.   *)
LEMMA DoneNext ==
    ASSUME NEW p \in Problems, NEW a \in DOMAIN p, NEW b \in DOMAIN TestsOf(p, a)
    PROVE  LET x == PlaceAt(p, a, b)
               D == Done(p, <<a, b>>)
           IN  /\ x \in Places(p) /\ x \notin D
               /\ Done(p, <<a, b + 1>>) = D \cup {x}
               /\ \A e \in D : ~Before(p, x, e)
<1> DEFINE x == PlaceAt(p, a, b)
           D == Done(p, <<a, b>>)
<1>0. a \in Int /\ b \in Int
  <2>1. a \in 1..Len(p) /\ Len(p) \in Nat /\ b \in 1..Len(TestsOf(p, a)) /\ Len(TestsOf(p, a)) \in Nat
    BY ONLY DomainsAreIndices, p \in Problems, a \in DOMAIN p, b \in DOMAIN TestsOf(p, a)
  <2>2. QED
    BY ONLY <2>1
<1>1. x \in Places(p)
  BY ONLY EveryPlace, p \in Problems, a \in DOMAIN p, b \in DOMAIN TestsOf(p, a)
<1>2. x \notin D
  <2>1. ~Reached(a, b, <<a, b>>)
    BY ONLY <1>0 DEF Reached
  <2>2. QED
    BY ONLY <2>1, DoneIffReached, p \in Problems, a \in DOMAIN p, b \in DOMAIN TestsOf(p, a)
<1>3. ASSUME NEW c \in DOMAIN p, NEW d \in DOMAIN TestsOf(p, c)
      PROVE  /\ Reached(c, d, <<a, b + 1>>) <=> Reached(c, d, <<a, b>>) \/ (c = a /\ d = b)
             /\ Reached(c, d, <<a, b>>) => c < a \/ (c = a /\ d < b)
  <2>1. c \in 1..Len(p) /\ Len(p) \in Nat /\ d \in 1..Len(TestsOf(p, c)) /\ Len(TestsOf(p, c)) \in Nat
    BY ONLY DomainsAreIndices, p \in Problems, <1>3
  <2>2. c \in Int /\ d \in Int
    BY ONLY <2>1
  <2>3. QED
    BY ONLY <1>0, <2>2 DEF Reached
<1>4. Done(p, <<a, b + 1>>) = D \cup {x}
  <2>1. ASSUME NEW y \in Done(p, <<a, b + 1>>) PROVE y \in D \cup {x}
    <3>1. PICK c, d : /\ c \in DOMAIN p /\ d \in DOMAIN TestsOf(p, c)
                      /\ y = PlaceAt(p, c, d) /\ Reached(c, d, <<a, b + 1>>)
      BY ONLY <2>1 DEF Done
    <3>2. CASE c = a /\ d = b
      BY ONLY <3>1, <3>2
    <3>3. CASE Reached(c, d, <<a, b>>)
      BY ONLY <3>1, <3>3, DoneIffReached, p \in Problems
    <3>4. QED
      BY ONLY <1>3, <3>1, <3>2, <3>3
  <2>2. ASSUME NEW y \in D PROVE y \in Done(p, <<a, b + 1>>)
    <3>1. PICK c, d : /\ c \in DOMAIN p /\ d \in DOMAIN TestsOf(p, c)
                      /\ y = PlaceAt(p, c, d) /\ Reached(c, d, <<a, b>>)
      BY ONLY <2>2 DEF Done
    <3>2. Reached(c, d, <<a, b + 1>>)
      BY ONLY <1>3, <3>1
    <3>3. QED
      BY ONLY <3>1, <3>2, DoneIffReached, p \in Problems
  <2>3. x \in Done(p, <<a, b + 1>>)
    BY ONLY <1>3, DoneIffReached, p \in Problems, a \in DOMAIN p, b \in DOMAIN TestsOf(p, a)
  <2>4. QED
    BY ONLY <2>1, <2>2, <2>3
<1>5. ASSUME NEW e \in D PROVE ~Before(p, x, e)
  <2>1. PICK c, d : /\ c \in DOMAIN p /\ d \in DOMAIN TestsOf(p, c)
                    /\ e = PlaceAt(p, c, d) /\ Reached(c, d, <<a, b>>)
    BY ONLY <1>5 DEF Done
  <2>2. c < a \/ (c = a /\ d < b)
    BY ONLY <1>3, <2>1
  <2>3. QED
    BY ONLY <2>1, <2>2, LaterIsNotBefore, p \in Problems, a \in DOMAIN p, b \in DOMAIN TestsOf(p, a)
<1>6. QED
  BY ONLY <1>1, <1>2, <1>4, <1>5

(* The end of a group adds none.                                           *)
LEMMA DoneGroup ==
    ASSUME NEW p \in Problems, NEW a \in DOMAIN p, NEW b \in Nat, b > Len(TestsOf(p, a))
    PROVE  Done(p, <<a + 1, 1>>) = Done(p, <<a, b>>)
<1>1. ASSUME NEW c \in DOMAIN p, NEW d \in DOMAIN TestsOf(p, c)
      PROVE  Reached(c, d, <<a + 1, 1>>) <=> Reached(c, d, <<a, b>>)
  <2>1. /\ c \in 1..Len(p) /\ Len(p) \in Nat /\ a \in 1..Len(p)
        /\ d \in 1..Len(TestsOf(p, c)) /\ Len(TestsOf(p, c)) \in Nat
    BY ONLY DomainsAreIndices, p \in Problems, a \in DOMAIN p, <1>1
  <2>2. c \in Int /\ d \in Int /\ a \in Int /\ d >= 1 /\ d <= Len(TestsOf(p, c)) /\ Len(TestsOf(p, c)) \in Int
    BY ONLY <2>1
  <2>3. c = a => d < b
    <3>1. c = a => Len(TestsOf(p, c)) < b
      BY ONLY b > Len(TestsOf(p, a)), <2>2, b \in Nat
    <3>2. PICK n : n = Len(TestsOf(p, c))
      OBVIOUS
    <3>3. QED
      BY ONLY <2>2, <3>1, <3>2, b \in Nat
  <2>4. c < a + 1 <=> c < a \/ c = a
    BY ONLY <2>2
  <2>5. ~(d < 1)
    BY ONLY <2>2
  <2>6. QED
    BY ONLY <2>3, <2>4, <2>5 DEF Reached
<1>2. QED
  BY ONLY <1>1, SameDone, p \in Problems

(* Behind the last group, everything has been run.                         *)
LEMMA DoneAll ==
    ASSUME NEW p \in Problems, NEW a \in Nat, NEW b, a > Len(p)
    PROVE  Done(p, <<a, b>>) = Places(p)
<1>1. ASSUME NEW x \in Places(p) PROVE x \in Done(p, <<a, b>>)
  <2>1. PICK c, d : c \in DOMAIN p /\ d \in DOMAIN TestsOf(p, c) /\ x = PlaceAt(p, c, d)
    BY ONLY EveryPlace, p \in Problems, <1>1
  <2>2. c \in 1..Len(p) /\ Len(p) \in Nat
    BY ONLY DomainsAreIndices, p \in Problems, <2>1
  <2>3. c < a
    BY ONLY <2>2, a \in Nat, a > Len(p)
  <2>4. Reached(c, d, <<a, b>>)
    BY ONLY <2>3 DEF Reached
  <2>5. QED
    BY ONLY <2>1, <2>4, DoneIffReached, p \in Problems
<1>2. Done(p, <<a, b>>) \subseteq Places(p)
  BY ONLY TRUE DEF Done
<1>3. QED
  BY ONLY <1>1, <1>2

(***************************************************************************)
(* One more testcase, one more group.                                      *)
(***************************************************************************)

With(o, D, x, v) == [y \in D \cup {x} |-> IF y = x THEN v ELSE o[y]]

(* The counts and the results keep up with a testcase.                     *)
LEMMA CountedNext ==
    ASSUME NEW p, NEW D, NEW t \in Tally, NEW u, NEW o, NEW x \in Places(p), x \notin D,
           NEW v \in Verdict, NEW r, NEW q, q = With(o, D, x, v),
           Counted(p, D, t, o),
           r.id = TestAt(p, x).id, r.verdict = v,
           u.total = t.total + 1, u.passed = IF v = "AC" THEN t.passed + 1 ELSE t.passed,
           u.results = Append(t.results, r)
    PROVE  Counted(p, D \cup {x}, u, q)
<1>1. /\ IsFiniteSet(D) /\ D \subseteq Places(p)
      /\ o \in [D -> Verdict]
      /\ t.total = Cardinality(D) /\ Len(t.results) = t.total
      /\ t.passed = Cardinality({y \in D : o[y] = "AC"})
      /\ \A k \in DOMAIN t.results : \E y \in D : /\ t.results[k].id = TestAt(p, y).id
                                                  /\ t.results[k].verdict = o[y]
      /\ \A y \in D : \E k \in DOMAIN t.results : t.results[k].id = TestAt(p, y).id
  BY ONLY Counted(p, D, t, o) DEF Counted
<1>2. q \in [D \cup {x} -> Verdict] /\ q[x] = v /\ \A y \in D : q[y] = o[y]
  BY ONLY <1>1, x \notin D, v \in Verdict, q = With(o, D, x, v) DEF With
<1>3. IsFiniteSet(D \cup {x}) /\ Cardinality(D \cup {x}) = t.total + 1
  BY ONLY <1>1, FS_AddElement, x \notin D
<1>4. PICK s : s = t.results
  OBVIOUS
<1>5. PICK S : s \in Seq(S)
  <2>1. t.results \in Seq([id : Nat, verdict : Verdict, cpu : Nat])
    BY ONLY t \in Tally DEF Tally
  <2>2. QED
    BY ONLY <1>4, <2>1
<1>6. PICK w : w = Append(s, r)
  OBVIOUS
<1>7. /\ Len(w) = Len(s) + 1 /\ DOMAIN w = 1..(Len(s) + 1) /\ Len(s) \in Nat /\ DOMAIN s = 1..Len(s)
      /\ w[Len(s) + 1] = r /\ \A k \in DOMAIN s : w[k] = s[k]
  <2>1. PICK T : s \in Seq(T) /\ r \in T
    <3>1. s \in Seq(S \cup {r}) /\ r \in S \cup {r}
      BY ONLY <1>5
    <3>2. QED
      BY ONLY <3>1
  <2>2. QED
    BY ONLY <2>1, <1>6
<1>8. \A k \in DOMAIN w : k \in DOMAIN s \/ w[k] = r
  BY ONLY <1>7
<1>9. u.results = w
  BY ONLY <1>4, <1>6, u.results = Append(t.results, r)
<1>10. Len(u.results) = u.total /\ u.total = Cardinality(D \cup {x})
  BY ONLY <1>1, <1>3, <1>4, <1>7, <1>9, u.total = t.total + 1
<1>11. u.passed = Cardinality({y \in D \cup {x} : q[y] = "AC"})
  <2>1. PICK A, B : A = {y \in D : o[y] = "AC"} /\ B = {y \in D \cup {x} : q[y] = "AC"}
    OBVIOUS
  <2>2. IsFiniteSet(A)
    <3>1. A \in SUBSET D
      BY ONLY <2>1
    <3>2. QED
      BY ONLY <1>1, <3>1, FS_Subset
  <2>3. CASE v = "AC"
    <3>1. B = A \cup {x} /\ x \notin A
      BY ONLY <1>2, <2>1, <2>3, x \notin D
    <3>2. Cardinality(B) = Cardinality(A) + 1
      BY ONLY <2>2, <3>1, FS_AddElement
    <3>3. QED
      BY ONLY <1>1, <2>1, <2>3, <3>2, u.passed = IF v = "AC" THEN t.passed + 1 ELSE t.passed
  <2>4. CASE v # "AC"
    <3>1. B = A
      BY ONLY <1>2, <2>1, <2>4, x \notin D
    <3>2. QED
      BY ONLY <1>1, <2>1, <2>4, <3>1, u.passed = IF v = "AC" THEN t.passed + 1 ELSE t.passed
  <2>5. QED
    BY ONLY <2>3, <2>4
<1>12. ASSUME NEW k \in DOMAIN w
       PROVE  \E y \in D \cup {x} : w[k].id = TestAt(p, y).id /\ w[k].verdict = q[y]
  <2>1. CASE k \in DOMAIN s
    <3>1. PICK y \in D : s[k].id = TestAt(p, y).id /\ s[k].verdict = o[y]
      BY ONLY <1>1, <1>4, <2>1
    <3>2. QED
      BY ONLY <1>2, <1>7, <2>1, <3>1
  <2>2. CASE w[k] = r
    BY ONLY <1>2, <2>2, r.id = TestAt(p, x).id, r.verdict = v
  <2>3. QED
    BY ONLY <1>8, <1>12, <2>1, <2>2
<1>13. ASSUME NEW y \in D \cup {x}
       PROVE  \E k \in DOMAIN w : w[k].id = TestAt(p, y).id
  <2>1. CASE y \in D
    <3>1. PICK k \in DOMAIN s : s[k].id = TestAt(p, y).id
      BY ONLY <1>1, <1>4, <2>1
    <3>2. k \in DOMAIN w
      BY ONLY <1>7, k \in DOMAIN s
    <3>3. QED
      BY ONLY <1>7, <3>1, <3>2
  <2>2. CASE y = x
    <3>1. Len(s) + 1 \in DOMAIN w
      BY ONLY <1>7
    <3>2. QED
      BY ONLY <1>7, <2>2, <3>1, r.id = TestAt(p, x).id
  <2>3. QED
    BY ONLY <1>13, <2>1, <2>2
<1>14. D \cup {x} \subseteq Places(p)
  BY ONLY <1>1, x \in Places(p)
<1>15. QED
  BY ONLY <1>2, <1>3, <1>9, <1>10, <1>11, <1>12, <1>13, <1>14 DEF Counted

(* No testcase is before itself.                                           *)
LEMMA NotBeforeItself ==
    ASSUME NEW p \in Problems, NEW x \in Places(p) PROVE ~Before(p, x, x)
<1>1. PICK i, j : i \in DOMAIN p /\ j \in DOMAIN p[i].tests /\ x = <<i, j>>
  BY ONLY InPlaces, x \in Places(p)
<1>2. p[i] \in Group
  BY ONLY <1>1, SortedGroups, p \in Problems
<1>3. p[i].ord \in Int /\ p[i].tests \in Seq(Testcase)
  BY ONLY <1>2 DEF Group
<1>4. p[i].tests[j] \in Testcase
  BY ONLY <1>1, <1>3
<1>5. p[i].tests[j].ord \in Int
  BY ONLY <1>4 DEF Testcase
<1>6. x[1] = i /\ x[2] = j
  BY ONLY <1>1
<1>7. ~(p[i].ord < p[i].ord) /\ ~(p[i].tests[j].ord < p[i].tests[j].ord)
  <2>1. \A n \in Int : ~(n < n)
    OBVIOUS
  <2>2. QED
    BY ONLY <1>3, <1>5, <2>1
<1>8. QED
  BY ONLY <1>6, <1>7 DEF Before, TestAt

(* worst stays the verdict of a first failure.                             *)
LEMMA EarliestNext ==
    ASSUME NEW p \in Problems, NEW D, NEW w, NEW o \in [D -> Verdict], NEW x \in Places(p), x \notin D,
           NEW v \in Verdict, NEW q, q = With(o, D, x, v),
           Earliest(p, D, w, o), \A e \in D : ~Before(p, x, e)
    PROVE  Earliest(p, D \cup {x}, Worst(w, v), q)
<1>1. q[x] = v /\ \A y \in D : q[y] = o[y]
  BY ONLY x \notin D, q = With(o, D, x, v) DEF With
<1>2. ~Before(p, x, x)
  BY ONLY NotBeforeItself, p \in Problems, x \in Places(p)
<1>3. CASE w = "AC" /\ \A y \in D : o[y] = "AC"
  <2>1. Worst(w, v) = v
    BY ONLY <1>3 DEF Worst
  <2>2. \A d \in D \cup {x} : q[d] # "AC" => d = x
    BY ONLY <1>1, <1>3
  <2>3. CASE v = "AC"
    BY ONLY <1>1, <1>3, <2>1, <2>3 DEF Earliest
  <2>4. CASE v # "AC"
    BY ONLY <1>1, <1>2, <2>1, <2>2, <2>4 DEF Earliest
  <2>5. QED
    BY ONLY <2>3, <2>4
<1>4. ASSUME NEW e \in D, o[e] # "AC", w = o[e], \A d \in D : o[d] # "AC" => ~Before(p, d, e)
      PROVE  Earliest(p, D \cup {x}, Worst(w, v), q)
  <2>1. Worst(w, v) = w
    BY ONLY <1>4 DEF Worst
  <2>2. \A d \in D \cup {x} : q[d] # "AC" => ~Before(p, d, e)
    BY ONLY <1>1, <1>4, \A y \in D : ~Before(p, x, y)
  <2>3. QED
    BY ONLY <1>1, <1>4, <2>1, <2>2 DEF Earliest
<1>5. QED
  BY ONLY <1>3, <1>4, Earliest(p, D, w, o) DEF Earliest

(* The testcases of the groups that ended have been run.                   *)
LEMMA EndedGroupsAreDone ==
    ASSUME NEW p \in Problems, NEW c \in DOMAIN p, NEW a, NEW b, c < a, NEW i, i = Order(p)[c],
           NEW j \in DOMAIN p[i].tests
    PROVE  <<i, j>> \in Done(p, <<a, b>>)
<1>1. PICK s : s = TestsOf(p, c)
  OBVIOUS
<1>2. s = p[i].tests
  BY ONLY <1>1, i = Order(p)[c] DEF TestsOf
<1>3. PICK d \in DOMAIN s : Order(s)[d] = j
  <2>1. j \in DOMAIN s
    BY ONLY <1>2, j \in DOMAIN p[i].tests
  <2>2. QED
    BY ONLY <1>1, <2>1, SortedTests, p \in Problems, c \in DOMAIN p
<1>4. PlaceAt(p, c, d) = <<i, j>>
  BY ONLY <1>1, <1>3, i = Order(p)[c] DEF PlaceAt
<1>5. Reached(c, d, <<a, b>>)
  BY ONLY c < a DEF Reached
<1>6. QED
  BY ONLY <1>1, <1>3, <1>4, <1>5, DoneIffReached, p \in Problems, c \in DOMAIN p

(* A testcase changes groupPassed and leaves the score alone.              *)
LEMMA ScoredNext ==
    ASSUME NEW p \in Problems, NEW a \in DOMAIN p, NEW b \in DOMAIN TestsOf(p, a),
           NEW t, NEW u, NEW o \in [Done(p, <<a, b>>) -> Verdict], NEW v \in Verdict,
           NEW q, q = With(o, Done(p, <<a, b>>), PlaceAt(p, a, b), v),
           Scored(p, <<a, b>>, t, o), u.score = t.score, u.groupPassed <=> t.groupPassed /\ v = "AC"
    PROVE  Scored(p, <<a, b + 1>>, u, q)
<1>1. PICK D, x : D = Done(p, <<a, b>>) /\ x = PlaceAt(p, a, b)
  OBVIOUS
<1>2. x \notin D
  BY ONLY <1>1, DoneNext, p \in Problems, a \in DOMAIN p, b \in DOMAIN TestsOf(p, a)
<1>3. q[x] = v /\ \A y \in D : q[y] = o[y]
  <2>1. o \in [D -> Verdict] /\ q = With(o, D, x, v)
    BY ONLY <1>1, o \in [Done(p, <<a, b>>) -> Verdict], q = With(o, Done(p, <<a, b>>), PlaceAt(p, a, b), v)
  <2>2. QED
    BY ONLY <1>2, <2>1 DEF With
<1>4. ASSUME NEW c \in DOMAIN p, c < a, NEW i, i = Order(p)[c], NEW j \in DOMAIN p[i].tests
      PROVE  q[<<i, j>>] = o[<<i, j>>]
  <2>1. <<i, j>> \in D
    BY ONLY <1>1, <1>4, EndedGroupsAreDone, p \in Problems
  <2>2. QED
    BY ONLY <1>3, <2>1
<1>5. Full(p, <<a, b + 1>>, q) = Full(p, <<a, b>>, o)
  <2>1. ASSUME NEW i \in DOMAIN p, NEW c \in DOMAIN p, c < a, Order(p)[c] = i
        PROVE  (\A j \in DOMAIN p[i].tests : q[<<i, j>>] = "AC") <=>
               (\A j \in DOMAIN p[i].tests : o[<<i, j>>] = "AC")
    BY ONLY <1>4, <2>1
  <2>2. \A i : i \in Full(p, <<a, b + 1>>, q) <=> i \in Full(p, <<a, b>>, o)
    BY ONLY <2>1 DEF Full
  <2>3. QED
    BY ONLY <2>2
<1>6. t.score = Points(p, Full(p, <<a, b>>, o))
  BY ONLY Scored(p, <<a, b>>, t, o) DEF Scored
<1>7. t.groupPassed <=> \A d \in DOMAIN TestsOf(p, a) : d < b => o[PlaceAt(p, a, d)] = "AC"
  BY ONLY Scored(p, <<a, b>>, t, o), a \in DOMAIN p DEF Scored
<1>8. ASSUME NEW d \in DOMAIN TestsOf(p, a)
      PROVE  /\ d < b + 1 <=> d < b \/ d = b
             /\ d < b => q[PlaceAt(p, a, d)] = o[PlaceAt(p, a, d)]
             /\ d = b => q[PlaceAt(p, a, d)] = v
  <2>1. d \in 1..Len(TestsOf(p, a)) /\ Len(TestsOf(p, a)) \in Nat /\ b \in 1..Len(TestsOf(p, a))
    BY ONLY DomainsAreIndices, <1>8, p \in Problems, a \in DOMAIN p, b \in DOMAIN TestsOf(p, a)
  <2>2. d \in Int /\ b \in Int
    BY ONLY <2>1
  <2>3. d < b => q[PlaceAt(p, a, d)] = o[PlaceAt(p, a, d)]
    <3>1. d < b => Reached(a, d, <<a, b>>)
      BY ONLY TRUE DEF Reached
    <3>2. d < b => PlaceAt(p, a, d) \in D
      BY ONLY <1>1, <3>1, DoneIffReached, p \in Problems, a \in DOMAIN p, d \in DOMAIN TestsOf(p, a)
    <3>3. QED
      BY ONLY <1>3, <3>2
  <2>4. d = b => q[PlaceAt(p, a, d)] = v
    BY ONLY <1>1, <1>3
  <2>5. d < b + 1 <=> d < b \/ d = b
    BY ONLY <2>2
  <2>6. QED
    BY ONLY <2>3, <2>4, <2>5
<1>9. u.groupPassed <=> \A d \in DOMAIN TestsOf(p, a) : d < b + 1 => q[PlaceAt(p, a, d)] = "AC"
  <2>1. (\A d \in DOMAIN TestsOf(p, a) : d < b + 1 => q[PlaceAt(p, a, d)] = "AC") <=>
        (\A d \in DOMAIN TestsOf(p, a) : d < b => o[PlaceAt(p, a, d)] = "AC") /\ v = "AC"
    BY ONLY <1>8, b \in DOMAIN TestsOf(p, a)
  <2>2. QED
    BY ONLY <1>7, <2>1, u.groupPassed <=> t.groupPassed /\ v = "AC"
<1>10. QED
  BY ONLY <1>5, <1>6, <1>9, u.score = t.score DEF Scored

(* A list has finitely many places.                                        *)
LEMMA FiniteDomain ==
    ASSUME NEW p \in Problems PROVE IsFiniteSet(DOMAIN p)
<1>1. PICK n \in Nat : DOMAIN p = 1..n
  BY ONLY DomainsAreIndices, p \in Problems
<1>2. n \in Int /\ 1 \in Int
  BY ONLY n \in Nat
<1>3. IsFiniteSet(1..n)
  BY ONLY <1>2, FS_Interval
<1>4. QED
  BY ONLY <1>1, <1>3

(* The end of a group adds its points when all its testcases passed.       *)
LEMMA ScoredGroup ==
    ASSUME NEW p \in Problems, NEW a \in DOMAIN p, NEW b \in Nat, b > Len(TestsOf(p, a)),
           NEW t, NEW u, NEW o, t.score \in Int,
           Scored(p, <<a, b>>, t, o), u.groupPassed,
           u.score = IF t.groupPassed THEN t.score + ByOrdinal(p)[a].points ELSE t.score
    PROVE  Scored(p, <<a + 1, 1>>, u, o)
<1>1. PICK i, s, S : i = Order(p)[a] /\ s = TestsOf(p, a) /\ S = Full(p, <<a, b>>, o)
  OBVIOUS
<1>2. /\ i \in DOMAIN p /\ s = p[i].tests /\ ByOrdinal(p)[a] = p[i]
      /\ \A c \in DOMAIN p : Order(p)[c] = i => c = a
  <2>1. /\ Order(p)[a] \in DOMAIN p /\ ByOrdinal(p)[a] = p[Order(p)[a]]
        /\ \A c \in DOMAIN p : Order(p)[c] = Order(p)[a] => c = a
    BY ONLY SortedGroups, p \in Problems, a \in DOMAIN p
  <2>2. QED
    BY ONLY <1>1, <2>1 DEF TestsOf
<1>3. /\ t.score = Points(p, S)
      /\ t.groupPassed <=> \A d \in DOMAIN s : d < b => o[PlaceAt(p, a, d)] = "AC"
  BY ONLY <1>1, Scored(p, <<a, b>>, t, o), a \in DOMAIN p DEF Scored
<1>4. \A d \in DOMAIN s : d < b
  <2>1. DOMAIN s = 1..Len(s) /\ Len(s) \in Nat /\ b > Len(s)
    BY ONLY <1>1, DomainsAreIndices, p \in Problems, a \in DOMAIN p, b > Len(TestsOf(p, a))
  <2>2. QED
    BY ONLY <2>1, b \in Nat
<1>5. t.groupPassed <=> \A j \in DOMAIN s : o[<<i, j>>] = "AC"
  <2>1. \A d \in DOMAIN s : PlaceAt(p, a, d) = <<i, Order(s)[d]>>
    BY ONLY <1>1 DEF PlaceAt
  <2>2. \A d \in DOMAIN s : Order(s)[d] \in DOMAIN s
    BY ONLY <1>1, SortedTests, p \in Problems, a \in DOMAIN p
  <2>3. \A j \in DOMAIN s : \E d \in DOMAIN s : Order(s)[d] = j
    BY ONLY <1>1, SortedTests, p \in Problems, a \in DOMAIN p
  <2>4. (\A d \in DOMAIN s : o[<<i, Order(s)[d]>>] = "AC") <=>
        (\A j \in DOMAIN s : o[<<i, j>>] = "AC")
    <3>1. ASSUME \A d \in DOMAIN s : o[<<i, Order(s)[d]>>] = "AC", NEW j \in DOMAIN s
          PROVE  o[<<i, j>>] = "AC"
      <4>1. PICK d \in DOMAIN s : Order(s)[d] = j
        BY ONLY <2>3, <3>1
      <4>2. QED
        BY ONLY <3>1, <4>1
    <3>2. ASSUME \A j \in DOMAIN s : o[<<i, j>>] = "AC", NEW d \in DOMAIN s
          PROVE  o[<<i, Order(s)[d]>>] = "AC"
      BY ONLY <2>2, <3>2
    <3>3. QED
      BY ONLY <3>1, <3>2
  <2>5. t.groupPassed <=> \A d \in DOMAIN s : o[PlaceAt(p, a, d)] = "AC"
    BY ONLY <1>3, <1>4
  <2>6. QED
    BY ONLY <2>1, <2>4, <2>5
<1>6. i \notin S
  <2>1. ASSUME i \in S PROVE FALSE
    <3>1. PICK c \in DOMAIN p : c < a /\ Order(p)[c] = i
      BY ONLY <1>1, <2>1 DEF Full
    <3>2. a < a
      BY ONLY <1>2, <3>1
    <3>3. a \in Int
      <4>1. DOMAIN p = 1..Len(p) /\ Len(p) \in Nat
        BY ONLY DomainsAreIndices, p \in Problems
      <4>2. QED
        BY ONLY <4>1, a \in DOMAIN p
    <3>4. QED
      BY ONLY <3>2, <3>3
  <2>2. QED
    BY ONLY <2>1
<1>7. Full(p, <<a + 1, 1>>, o) = IF t.groupPassed THEN S \cup {i} ELSE S
  <2>1. \A c \in DOMAIN p : c < a + 1 <=> c < a \/ c = a
    <3>1. DOMAIN p = 1..Len(p) /\ Len(p) \in Nat
      BY ONLY DomainsAreIndices, p \in Problems
    <3>2. QED
      BY ONLY <3>1, a \in DOMAIN p
  <2>2. PICK T : T = Full(p, <<a + 1, 1>>, o)
    OBVIOUS
  <2>3. \A k : k \in T <=> /\ k \in DOMAIN p /\ \E c \in DOMAIN p : c < a + 1 /\ Order(p)[c] = k
                           /\ \A j \in DOMAIN p[k].tests : o[<<k, j>>] = "AC"
    BY ONLY <2>2 DEF Full
  <2>4. \A k : k \in S <=> /\ k \in DOMAIN p /\ \E c \in DOMAIN p : c < a /\ Order(p)[c] = k
                           /\ \A j \in DOMAIN p[k].tests : o[<<k, j>>] = "AC"
    BY ONLY <1>1 DEF Full
  <2>5. \A k : (\E c \in DOMAIN p : c < a + 1 /\ Order(p)[c] = k) <=>
               (\E c \in DOMAIN p : c < a /\ Order(p)[c] = k) \/ k = i
    BY ONLY <1>1, <2>1, a \in DOMAIN p
  <2>6. CASE t.groupPassed
    <3>1. \A j \in DOMAIN p[i].tests : o[<<i, j>>] = "AC"
      BY ONLY <1>2, <1>5, <2>6
    <3>2. \A k : k \in T <=> k \in S \/ k = i
      BY ONLY <1>2, <2>3, <2>4, <2>5, <3>1
    <3>3. T = S \cup {i}
      BY ONLY <3>2
    <3>4. QED
      BY ONLY <2>2, <2>6, <3>3
  <2>7. CASE ~t.groupPassed
    <3>1. ~ \A j \in DOMAIN p[i].tests : o[<<i, j>>] = "AC"
      BY ONLY <1>2, <1>5, <2>7
    <3>2. \A k : k \in T <=> k \in S
      BY ONLY <1>2, <2>3, <2>4, <2>5, <3>1
    <3>3. T = S
      BY ONLY <3>2
    <3>4. QED
      BY ONLY <2>2, <2>7, <3>3
  <2>8. QED
    BY ONLY <2>6, <2>7
<1>8. Points(p, S \cup {i}) = p[i].points + Points(p, S) /\ p[i].points \in Int
  <2>1. IsFiniteSet(DOMAIN p)
    BY ONLY FiniteDomain, p \in Problems
  <2>2. \A k \in DOMAIN p : p[k].points \in Int
    <3>1. \A k \in DOMAIN p : p[k] \in Group
      BY ONLY SortedGroups, p \in Problems
    <3>2. QED
      BY ONLY <3>1 DEF Group
  <2>3. S \in SUBSET DOMAIN p
    BY ONLY <1>1 DEF Full
  <2>4. QED
    BY ONLY <1>2, <1>6, <2>1, <2>2, <2>3, PointsAdd
<1>9. u.score = Points(p, Full(p, <<a + 1, 1>>, o))
  <2>1. PICK m, n, g : m = Points(p, S) /\ n = p[i].points /\ g = Points(p, S \cup {i})
    OBVIOUS
  <2>2. m \in Int /\ n \in Int /\ g = n + m
    BY ONLY <1>3, <1>8, <2>1, t.score \in Int
  <2>3. u.score = IF t.groupPassed THEN m + n ELSE m
    BY ONLY <1>2, <1>3, <2>1, u.score = IF t.groupPassed THEN t.score + ByOrdinal(p)[a].points ELSE t.score
  <2>4. m + n = g
    BY ONLY <2>2
  <2>5. QED
    BY ONLY <1>7, <2>1, <2>3, <2>4
<1>10. \A c \in DOMAIN p : \A d \in DOMAIN TestsOf(p, c) : ~(d < 1)
  <2>1. ASSUME NEW c \in DOMAIN p, NEW d \in DOMAIN TestsOf(p, c) PROVE ~(d < 1)
    <3>1. DOMAIN TestsOf(p, c) = 1..Len(TestsOf(p, c)) /\ Len(TestsOf(p, c)) \in Nat
      BY ONLY <2>1, DomainsAreIndices, p \in Problems
    <3>2. QED
      BY ONLY <2>1, <3>1
  <2>2. QED
    BY ONLY <2>1
<1>11. QED
  BY ONLY <1>9, <1>10, u.groupPassed DEF Scored

(* The totals of nothing.                                                  *)
LEMMA TalliedAtFirst ==
    ASSUME NEW p \in Problems PROVE Tallied(p, <<1, 1>>, NoTally)
<1>1. Done(p, <<1, 1>>) = {}
  BY ONLY DoneAtFirst, p \in Problems
<1>2. PICK o : o = [x \in {} |-> "AC"]
  OBVIOUS
<1>3. o \in [{} -> Verdict]
  BY ONLY <1>2
<1>4. Counted(p, {}, NoTally, o)
  <2>1. IsFiniteSet({}) /\ Cardinality({}) = 0
    BY ONLY FS_EmptySet
  <2>2. {x \in {} : o[x] = "AC"} = {}
    OBVIOUS
  <2>3. /\ NoTally.total = 0 /\ NoTally.passed = 0 /\ NoTally.results = << >>
    BY ONLY TRUE DEF NoTally
  <2>4. Len(<< >>) = 0 /\ DOMAIN << >> = {}
    OBVIOUS
  <2>5. QED
    BY ONLY <1>3, <2>1, <2>2, <2>3, <2>4 DEF Counted
<1>5. Earliest(p, {}, NoTally.worst, o)
  BY ONLY TRUE DEF Earliest, NoTally
<1>6. \A c \in DOMAIN p : ~(c < 1) /\ \A d \in DOMAIN TestsOf(p, c) : ~(d < 1)
  <2>1. ASSUME NEW c \in DOMAIN p, NEW d \in DOMAIN TestsOf(p, c) PROVE ~(d < 1)
    <3>1. DOMAIN TestsOf(p, c) = 1..Len(TestsOf(p, c)) /\ Len(TestsOf(p, c)) \in Nat
      BY ONLY <2>1, DomainsAreIndices, p \in Problems
    <3>2. QED
      BY ONLY <2>1, <3>1
  <2>2. ASSUME NEW c \in DOMAIN p PROVE ~(c < 1)
    <3>1. DOMAIN p = 1..Len(p) /\ Len(p) \in Nat
      BY ONLY DomainsAreIndices, p \in Problems
    <3>2. QED
      BY ONLY <2>2, <3>1
  <2>3. QED
    BY ONLY <2>1, <2>2
<1>7. Scored(p, <<1, 1>>, NoTally, o)
  <2>1. Full(p, <<1, 1>>, o) = {}
    BY ONLY <1>6 DEF Full
  <2>2. NoTally.score = 0 /\ NoTally.groupPassed
    BY ONLY TRUE DEF NoTally
  <2>3. QED
    BY ONLY <1>6, <2>1, <2>2, PointsOfNone DEF Scored
<1>8. QED
  BY ONLY <1>1, <1>3, <1>4, <1>5, <1>7 DEF Tallied

(* The totals after one more testcase.                                     *)
LEMMA TalliedNext ==
    ASSUME NEW p \in Problems, NEW a \in DOMAIN p, NEW b \in DOMAIN TestsOf(p, a),
           NEW t \in Tally, NEW u, NEW v \in Verdict, NEW r,
           Tallied(p, <<a, b>>, t),
           r.id = TestAt(p, PlaceAt(p, a, b)).id, r.verdict = v,
           u.total = t.total + 1, u.passed = IF v = "AC" THEN t.passed + 1 ELSE t.passed,
           u.results = Append(t.results, r), u.worst = Worst(t.worst, v),
           u.score = t.score, u.groupPassed <=> t.groupPassed /\ v = "AC"
    PROVE  Tallied(p, <<a, b + 1>>, u)
<1>1. PICK D, x : D = Done(p, <<a, b>>) /\ x = PlaceAt(p, a, b)
  OBVIOUS
<1>2. PICK o \in [D -> Verdict] : /\ Counted(p, D, t, o)
                                  /\ Earliest(p, D, t.worst, o)
                                  /\ Scored(p, <<a, b>>, t, o)
  BY ONLY <1>1, Tallied(p, <<a, b>>, t) DEF Tallied
<1>3. /\ x \in Places(p) /\ x \notin D
      /\ Done(p, <<a, b + 1>>) = D \cup {x}
      /\ \A e \in D : ~Before(p, x, e)
  BY ONLY <1>1, DoneNext, p \in Problems, a \in DOMAIN p, b \in DOMAIN TestsOf(p, a)
<1>4. PICK q : q = With(o, D, x, v)
  OBVIOUS
<1>5. q \in [D \cup {x} -> Verdict]
  BY ONLY <1>2, <1>4, v \in Verdict, o \in [D -> Verdict] DEF With
<1>6. Counted(p, D \cup {x}, u, q)
  <2>1. r.id = TestAt(p, x).id
    BY ONLY <1>1, r.id = TestAt(p, PlaceAt(p, a, b)).id
  <2>2. QED
    BY ONLY <1>2, <1>3, <1>4, <2>1, CountedNext, t \in Tally, v \in Verdict, r.verdict = v,
            u.total = t.total + 1, u.passed = IF v = "AC" THEN t.passed + 1 ELSE t.passed,
            u.results = Append(t.results, r)
<1>7. Earliest(p, D \cup {x}, u.worst, q)
  BY ONLY <1>2, <1>3, <1>4, EarliestNext, p \in Problems, v \in Verdict, u.worst = Worst(t.worst, v),
          o \in [D -> Verdict]
<1>8. Scored(p, <<a, b + 1>>, u, q)
  <2>1. o \in [Done(p, <<a, b>>) -> Verdict] /\ q = With(o, Done(p, <<a, b>>), PlaceAt(p, a, b), v)
    BY ONLY <1>1, <1>4, o \in [D -> Verdict]
  <2>2. QED
    BY ONLY <1>2, <2>1, ScoredNext, p \in Problems, a \in DOMAIN p, b \in DOMAIN TestsOf(p, a),
            v \in Verdict, u.score = t.score, u.groupPassed <=> t.groupPassed /\ v = "AC"
<1>9. QED
  BY ONLY <1>3, <1>5, <1>6, <1>7, <1>8 DEF Tallied

(* The totals after the end of a group.                                    *)
LEMMA TalliedGroup ==
    ASSUME NEW p \in Problems, NEW a \in DOMAIN p, NEW b \in Nat, b > Len(TestsOf(p, a)),
           NEW t \in Tally, NEW u,
           Tallied(p, <<a, b>>, t), u.groupPassed,
           u.score = IF t.groupPassed THEN t.score + ByOrdinal(p)[a].points ELSE t.score,
           u.total = t.total, u.passed = t.passed, u.results = t.results, u.worst = t.worst
    PROVE  Tallied(p, <<a + 1, 1>>, u)
<1>1. PICK D : D = Done(p, <<a, b>>)
  OBVIOUS
<1>2. PICK o \in [D -> Verdict] : /\ Counted(p, D, t, o)
                                  /\ Earliest(p, D, t.worst, o)
                                  /\ Scored(p, <<a, b>>, t, o)
  BY ONLY <1>1, Tallied(p, <<a, b>>, t) DEF Tallied
<1>3. Done(p, <<a + 1, 1>>) = D
  BY ONLY <1>1, DoneGroup, p \in Problems, a \in DOMAIN p, b \in Nat, b > Len(TestsOf(p, a))
<1>4. Counted(p, D, u, o)
  BY ONLY <1>2, u.total = t.total, u.passed = t.passed, u.results = t.results DEF Counted
<1>5. Earliest(p, D, u.worst, o)
  BY ONLY <1>2, u.worst = t.worst
<1>6. Scored(p, <<a + 1, 1>>, u, o)
  <2>1. t.score \in Int
    BY ONLY t \in Tally DEF Tally
  <2>2. QED
    BY ONLY <1>2, <2>1, ScoredGroup, p \in Problems, a \in DOMAIN p, b \in Nat, b > Len(TestsOf(p, a)),
            u.groupPassed, u.score = IF t.groupPassed THEN t.score + ByOrdinal(p)[a].points ELSE t.score
<1>7. QED
  BY ONLY <1>3, <1>4, <1>5, <1>6, o \in [D -> Verdict] DEF Tallied

WithReport(t, v, cpu, memory, id) ==
    [t EXCEPT
        !.total = @ + 1,
        !.passed = IF v = "AC" THEN @ + 1 ELSE @,
        !.groupPassed = @ /\ v = "AC",
        !.worst = Worst(@, v),
        !.cpu = Larger(@, cpu),
        !.memory = Larger(@, memory),
        !.results = Append(@, [id |-> id, verdict |-> v, cpu |-> cpu])]

(* The same for the record that the loop writes after a testcase.          *)
LEMMA AfterTestcase ==
    ASSUME NEW p \in Problems, NEW a \in DOMAIN p, NEW b \in DOMAIN TestsOf(p, a),
           NEW old \in Tally, NEW w \in Verdict, NEW time \in Nat, NEW mem \in Nat, NEW key \in Nat, NEW new,
           Tallied(p, <<a, b>>, old), key = TestAt(p, PlaceAt(p, a, b)).id,
           new = WithReport(old, w, time, mem, key)
    PROVE  new \in Tally /\ Tallied(p, <<a, b + 1>>, new)
<1>1. PICK tot, pas, gp, wor, c, m, res :
           /\ tot = old.total + 1 /\ pas = (IF w = "AC" THEN old.passed + 1 ELSE old.passed)
           /\ gp = (old.groupPassed /\ w = "AC") /\ wor = Worst(old.worst, w)
           /\ c = Larger(old.cpu, time) /\ m = Larger(old.memory, mem)
           /\ res = Append(old.results, [id |-> key, verdict |-> w, cpu |-> time])
  OBVIOUS
<1>2. new = [old EXCEPT !.total = tot, !.passed = pas, !.groupPassed = gp, !.worst = wor,
                    !.cpu = c, !.memory = m, !.results = res]
  BY ONLY <1>1, new = WithReport(old, w, time, mem, key), Zenon DEF WithReport
<1>3. new = [passed |-> pas, total |-> tot, score |-> old.score, worst |-> wor, groupPassed |-> gp,
           cpu |-> c, memory |-> m, results |-> res]
  BY ONLY <1>2, old \in Tally DEF Tally
<1>4. /\ old.total \in Nat /\ old.passed \in Nat /\ old.score \in Int /\ old.worst \in Verdict
      /\ old.groupPassed \in BOOLEAN /\ old.cpu \in Nat /\ old.memory \in Nat
      /\ old.results \in Seq([id : Nat, verdict : Verdict, cpu : Nat])
  BY ONLY old \in Tally DEF Tally
<1>5. /\ tot \in Nat /\ pas \in Nat /\ c \in Nat /\ m \in Nat
  BY ONLY <1>1, <1>4, time \in Nat, mem \in Nat DEF Larger
<1>6. wor \in Verdict
  BY ONLY <1>1, <1>4, w \in Verdict DEF Worst
<1>7. gp \in BOOLEAN
  BY ONLY <1>1, Zenon
<1>8. res \in Seq([id : Nat, verdict : Verdict, cpu : Nat])
  <2>1. \A S : \A s \in Seq(S), r \in S : Append(s, r) \in Seq(S)
    OBVIOUS
  <2>2. [id |-> key, verdict |-> w, cpu |-> time] \in [id : Nat, verdict : Verdict, cpu : Nat]
    BY ONLY key \in Nat, w \in Verdict, time \in Nat
  <2>3. QED
    BY ONLY <1>1, <1>4, <2>1, <2>2
<1>9. new \in Tally
  BY ONLY <1>3, <1>4, <1>5, <1>6, <1>7, <1>8 DEF Tally
<1>10. /\ new.total = tot /\ new.passed = pas /\ new.results = res
       /\ new.worst = wor /\ new.score = old.score /\ new.groupPassed = gp
  BY ONLY <1>3
<1>11. new.groupPassed <=> old.groupPassed /\ w = "AC"
  BY ONLY <1>1, <1>10, Zenon
<1>12. PICK r : r = [id |-> key, verdict |-> w, cpu |-> time]
  OBVIOUS
<1>13. r.id = TestAt(p, PlaceAt(p, a, b)).id /\ r.verdict = w
  BY ONLY <1>12, key = TestAt(p, PlaceAt(p, a, b)).id
<1>14. /\ new.total = old.total + 1 /\ new.passed = IF w = "AC" THEN old.passed + 1 ELSE old.passed
       /\ new.results = Append(old.results, r)
       /\ new.worst = Worst(old.worst, w) /\ new.score = old.score
  BY ONLY <1>1, <1>10, <1>12
<1>15. Tallied(p, <<a, b + 1>>, new)
  BY ONLY <1>11, <1>13, <1>14, TalliedNext, p \in Problems, a \in DOMAIN p, b \in DOMAIN TestsOf(p, a),
          old \in Tally, w \in Verdict, Tallied(p, <<a, b>>, old)
<1>16. QED
  BY ONLY <1>9, <1>15

WithGroup(t, n) ==
    [t EXCEPT !.score = IF t.groupPassed THEN @ + n ELSE @, !.groupPassed = TRUE]

(* The same for the record that it writes at the end of a group.           *)
LEMMA AfterGroup ==
    ASSUME NEW p \in Problems, NEW a \in DOMAIN p, NEW b \in Nat, b > Len(TestsOf(p, a)),
           NEW t \in Tally, NEW n \in Int, n = ByOrdinal(p)[a].points, NEW u,
           Tallied(p, <<a, b>>, t), u = WithGroup(t, n)
    PROVE  u \in Tally /\ Tallied(p, <<a + 1, 1>>, u)
<1>1. PICK s, g : s = (IF t.groupPassed THEN t.score + n ELSE t.score) /\ g = TRUE
  OBVIOUS
<1>2. u = [t EXCEPT !.score = s, !.groupPassed = g]
  BY ONLY <1>1, u = WithGroup(t, n), Zenon DEF WithGroup
<1>3. u = [passed |-> t.passed, total |-> t.total, score |-> s, worst |-> t.worst, groupPassed |-> g,
           cpu |-> t.cpu, memory |-> t.memory, results |-> t.results]
  BY ONLY <1>2, t \in Tally DEF Tally
<1>4. /\ t.total \in Nat /\ t.passed \in Nat /\ t.score \in Int /\ t.worst \in Verdict
      /\ t.groupPassed \in BOOLEAN /\ t.cpu \in Nat /\ t.memory \in Nat
      /\ t.results \in Seq([id : Nat, verdict : Verdict, cpu : Nat])
  BY ONLY t \in Tally DEF Tally
<1>5. s \in Int
  BY ONLY <1>1, <1>4, n \in Int
<1>6. g \in BOOLEAN
  BY ONLY <1>1
<1>7. u \in Tally
  BY ONLY <1>3, <1>4, <1>5, <1>6 DEF Tally
<1>8. /\ u.total = t.total /\ u.passed = t.passed /\ u.results = t.results /\ u.worst = t.worst
      /\ u.score = s /\ u.groupPassed = g
  BY ONLY <1>3
<1>9. u.groupPassed
  BY ONLY <1>1, <1>8, Zenon
<1>10. u.score = IF t.groupPassed THEN t.score + ByOrdinal(p)[a].points ELSE t.score
  BY ONLY <1>1, <1>8, n = ByOrdinal(p)[a].points
<1>11. Tallied(p, <<a + 1, 1>>, u)
  BY ONLY <1>8, <1>9, <1>10, TalliedGroup, p \in Problems, a \in DOMAIN p, b \in Nat,
          b > Len(TestsOf(p, a)), t \in Tally, Tallied(p, <<a, b>>, t)
<1>12. QED
  BY ONLY <1>7, <1>11

(***************************************************************************)
(* The invariant is inductive.                                             *)
(***************************************************************************)

(* The first totals have their types.                                      *)
LEMMA NoTallyIsTally == NoTally \in Tally
<1>1. PICK e, g : e = << >> /\ g = TRUE
  OBVIOUS
<1>2. NoTally = [passed |-> 0, total |-> 0, score |-> 0, worst |-> "AC",
                 groupPassed |-> g, cpu |-> 0, memory |-> 0, results |-> e]
  BY ONLY <1>1, Zenon DEF NoTally
<1>3. e \in Seq([id : Nat, verdict : Verdict, cpu : Nat]) /\ g \in BOOLEAN /\ "AC" \in Verdict
  BY ONLY <1>1 DEF Verdict
<1>4. QED
  BY ONLY <1>2, <1>3 DEF Tally

(* Every report is mapped to a verdict.                                    *)
LEMMA VerdictOfIsVerdict ==
    ASSUME NEW report \in Report, NEW graded \in {"ok", "wrong", "error"}
    PROVE  VerdictOf(report, graded) \in Verdict
BY DEF VerdictOf, Verdict

(* A report speaks of numbers.                                             *)
LEMMA ReportNumbers ==
    ASSUME NEW report \in Report PROVE report.cpu \in Nat /\ report.memory \in Nat
BY JudgingAssumption DEF Report

(* The invariant holds at first.                                           *)
LEMMA JudgeInit == Init => JudgeInv
<1> SUFFICES ASSUME Init PROVE JudgeInv
  OBVIOUS
<1>1. /\ pc = "receiving" /\ job = [problem |-> <<>>, language |-> "other"] /\ at = <<1, 1>>
      /\ tally = NoTally /\ result = NoResult /\ backlog = Deliveries /\ cancelled = FALSE
      /\ faults = 0 /\ failed = FALSE
  BY DEF Init
<1>2. NoTally \in Tally
  BY NoTallyIsTally
<1>3. PICK f, n : f = FALSE /\ n = NoTally
  OBVIOUS
<1>4. result = [verdict |-> "JUDGING", tally |-> n, full |-> f]
  BY ONLY <1>1, <1>3, Zenon DEF NoResult
<1>5. result \in [verdict : Verdict \cup {"JUDGING"}, tally : Tally, full : BOOLEAN]
  BY ONLY <1>2, <1>3, <1>4
<1>6. TypeOK
  <2>1. job \in [problem : Problems \cup {<<>>}, language : Languages]
    BY ONLY <1>1 DEF Languages
  <2>2. backlog \in 0..Deliveries /\ faults \in 0..MaxFaults
    BY ONLY <1>1, JudgingAssumption
  <2>3. at \in (Nat \ {0}) \X (Nat \ {0})
    BY ONLY <1>1
  <2>4. cancelled \in BOOLEAN /\ failed \in BOOLEAN
    BY ONLY <1>1
  <2>5. pc \in {"receiving", "setup", "compiling", "running", "publishing", "stopped"}
    BY ONLY <1>1
  <2>6. QED
    BY ONLY <1>1, <1>2, <1>5, <2>1, <2>2, <2>3, <2>4, <2>5 DEF TypeOK
<1>7. ~SummedUp
  BY ONLY <1>1 DEF SummedUp
<1>8. QED
  BY ONLY <1>1, <1>6, <1>7 DEF JudgeInv

(* A result that was published without a tally.                            *)
LEMMA FailTypes ==
    ASSUME NEW v \in Verdict, NEW r, r = [verdict |-> v, tally |-> NoTally, full |-> FALSE]
    PROVE  /\ r \in [verdict : Verdict \cup {"JUDGING"}, tally : Tally, full : BOOLEAN]
           /\ ~r.full /\ r.tally = NoTally
<1>1. PICK f, n : f = FALSE /\ n = NoTally
  OBVIOUS
<1>2. r = [verdict |-> v, tally |-> n, full |-> f]
  BY ONLY <1>1, r = [verdict |-> v, tally |-> NoTally, full |-> FALSE], Zenon
<1>3. n \in Tally
  BY ONLY <1>1, NoTallyIsTally
<1>4. f \in BOOLEAN
  BY ONLY <1>1
<1>5. r \in [verdict : Verdict \cup {"JUDGING"}, tally : Tally, full : BOOLEAN]
  BY ONLY <1>2, <1>3, <1>4, v \in Verdict
<1>6. r.full = f /\ r.tally = n
  BY ONLY <1>2
<1>7. QED
  BY ONLY <1>1, <1>5, <1>6

(* A job that is given up publishes no totals.                             *)
LEMMA FailStep ==
    ASSUME JudgeInv, NEW v \in Verdict, Fail(v), faults' \in 0..MaxFaults, failed' \in BOOLEAN,
           UNCHANGED <<backlog, cancelled, job, at, tally>>
    PROVE  JudgeInv'
<1>1. result' = [verdict |-> v, tally |-> NoTally, full |-> FALSE] /\ pc' = "publishing"
  BY ONLY Fail(v) DEF Fail
<1>2. PICK r : r = result'
  OBVIOUS
<1>3. /\ r \in [verdict : Verdict \cup {"JUDGING"}, tally : Tally, full : BOOLEAN]
      /\ ~r.full /\ r.tally = NoTally
  BY ONLY <1>1, <1>2, FailTypes, v \in Verdict
<1>4. TypeOK
  BY ONLY JudgeInv DEF JudgeInv
<1>5. TypeOK'
  BY ONLY <1>1, <1>2, <1>3, <1>4, faults' \in 0..MaxFaults, failed' \in BOOLEAN,
          UNCHANGED <<backlog, cancelled, job, at, tally>> DEF TypeOK
<1>6. ~SummedUp'
  BY ONLY <1>2, <1>3 DEF SummedUp
<1>7. QED
  BY ONLY <1>1, <1>2, <1>3, <1>5, <1>6 DEF JudgeInv

(* A failing call stays within the bound on faults.                        *)
LEMMA CallFailsTypes ==
    ASSUME JudgeInv, CallFails PROVE faults' \in 0..MaxFaults /\ failed' \in BOOLEAN
<1>1. faults \in 0..MaxFaults /\ failed \in BOOLEAN
  BY ONLY JudgeInv DEF JudgeInv, TypeOK
<1>2. CASE faults < MaxFaults /\ faults' = faults + 1 /\ failed' = TRUE
  <2>1. failed' \in BOOLEAN
    BY ONLY <1>2
  <2>2. faults' \in 0..MaxFaults
    BY ONLY <1>1, <1>2, JudgingAssumption
  <2>3. QED
    BY <2>1, <2>2
<1>3. CASE UNCHANGED <<faults, failed>>
  BY ONLY <1>1, <1>3
<1>4. QED
  BY ONLY <1>2, <1>3, CallFails DEF CallFails

(* The testcase the loop is at.                                            *)
LEMMA AtTestcaseIsAPlace ==
    ASSUME JudgeInv, AtTestcase
    PROVE  LET p == job.problem
               a == at[1]
               b == at[2]
           IN  /\ p \in Problems /\ a \in DOMAIN p /\ b \in DOMAIN TestsOf(p, a)
               /\ at = <<a, b>> /\ a \in Nat \ {0} /\ b \in Nat \ {0}
               /\ Tests[b] = TestAt(p, PlaceAt(p, a, b)) /\ Tests[b].id \in Nat
<1>1. /\ pc = "running" /\ at[1] <= Len(Groups) /\ at[2] <= Len(Tests)
  BY ONLY AtTestcase DEF AtTestcase, Running
<1>2. job.problem \in Problems /\ at \in (Nat \ {0}) \X (Nat \ {0})
  BY ONLY JudgeInv, <1>1 DEF JudgeInv, TypeOK
<1>3. PICK p, a, b, s : p = job.problem /\ a = at[1] /\ b = at[2] /\ s = TestsOf(p, a)
  OBVIOUS
<1>4. a \in Nat \ {0} /\ b \in Nat \ {0} /\ at = <<a, b>> /\ p \in Problems
  BY ONLY <1>2, <1>3
<1>5. Groups = ByOrdinal(p) /\ Tests = ByOrdinal(ByOrdinal(p)[a].tests)
  BY ONLY <1>3 DEF Groups, Tests
<1>6. Len(ByOrdinal(p)) = Len(p) /\ DOMAIN p = 1..Len(p) /\ Len(p) \in Nat
  BY ONLY SortedGroups, <1>4
<1>7. a \in DOMAIN p
  BY ONLY <1>1, <1>3, <1>4, <1>5, <1>6
<1>8. ByOrdinal(p)[a] = p[Order(p)[a]]
  BY ONLY SortedGroups, <1>4, <1>7
<1>9. Tests = ByOrdinal(s)
  BY ONLY <1>3, <1>5, <1>8 DEF TestsOf
<1>10. /\ Len(ByOrdinal(s)) = Len(s) /\ DOMAIN s = 1..Len(s) /\ Len(s) \in Nat
       /\ \A d \in DOMAIN s : Order(s)[d] \in DOMAIN s /\ ByOrdinal(s)[d] = s[Order(s)[d]] /\ s[d] \in Testcase
  <2>1. p \in Problems /\ a \in DOMAIN p /\ s = TestsOf(p, a)
    BY ONLY <1>3, <1>4, <1>7
  <2>2. Len(ByOrdinal(s)) = Len(s) /\ DOMAIN s = 1..Len(s) /\ Len(s) \in Nat
    BY ONLY SortedTests, <2>1
  <2>3. \A d \in DOMAIN s : Order(s)[d] \in DOMAIN s /\ ByOrdinal(s)[d] = s[Order(s)[d]] /\ s[d] \in Testcase
    BY ONLY SortedTests, <2>1
  <2>4. QED
    BY ONLY <2>2, <2>3
<1>11. b \in DOMAIN s
  BY ONLY <1>1, <1>3, <1>4, <1>9, <1>10
<1>12. Tests[b] = s[Order(s)[b]] /\ Tests[b] \in Testcase
  BY ONLY <1>9, <1>10, <1>11
<1>13. TestAt(p, PlaceAt(p, a, b)) = s[Order(s)[b]]
  <2>1. PICK x : x = PlaceAt(p, a, b)
    OBVIOUS
  <2>2. x[1] = Order(p)[a] /\ x[2] = Order(s)[b]
    BY ONLY <1>3, <2>1 DEF PlaceAt
  <2>3. s = p[Order(p)[a]].tests
    BY ONLY <1>3 DEF TestsOf
  <2>4. QED
    BY ONLY <2>1, <2>2, <2>3 DEF TestAt
<1>14. Tests[b].id \in Nat
  BY ONLY <1>12 DEF Testcase
<1>15. QED
  BY ONLY <1>3, <1>4, <1>7, <1>11, <1>12, <1>13, <1>14

(* One lemma per operation: a testcase is run.                             *)
LEMMA RunTestcaseStep == ASSUME JudgeInv, RunTestcase PROVE JudgeInv'
<1>1. PICK report \in Report, graded \in {"ok", "wrong", "error"} :
        LET verdict == VerdictOf(report, graded)
            passed  == verdict = "AC"
        IN  /\ IF verdict = "SE" THEN CallFails ELSE UNCHANGED <<faults, failed>>
            /\ tally' = [tally EXCEPT
                    !.total = @ + 1,
                    !.passed = IF passed THEN @ + 1 ELSE @,
                    !.groupPassed = @ /\ passed,
                    !.worst = Worst(@, verdict),
                    !.cpu = Larger(@, report.cpu),
                    !.memory = Larger(@, report.memory),
                    !.results = Append(@,
                        [id |-> Tests[at[2]].id, verdict |-> verdict, cpu |-> report.cpu])]
  BY ONLY RunTestcase DEF RunTestcase
<1>2. /\ AtTestcase /\ at' = <<at[1], at[2] + 1>>
      /\ UNCHANGED <<backlog, cancelled, pc, job, result>>
  BY ONLY RunTestcase DEF RunTestcase
<1>3. PICK p, a, b, t, u, v, id, cpu, memory :
        /\ p = job.problem /\ a = at[1] /\ b = at[2] /\ t = tally /\ u = tally'
        /\ v = VerdictOf(report, graded) /\ id = Tests[b].id
        /\ cpu = report.cpu /\ memory = report.memory
  OBVIOUS
<1>4. /\ p \in Problems /\ a \in DOMAIN p /\ b \in DOMAIN TestsOf(p, a)
      /\ at = <<a, b>> /\ a \in Nat \ {0} /\ b \in Nat \ {0}
      /\ id = TestAt(p, PlaceAt(p, a, b)).id /\ id \in Nat
  BY ONLY <1>2, <1>3, AtTestcaseIsAPlace, JudgeInv
<1>5. v \in Verdict /\ cpu \in Nat /\ memory \in Nat
  BY ONLY <1>3, VerdictOfIsVerdict, ReportNumbers, report \in Report, graded \in {"ok", "wrong", "error"}
<1>6. pc = "running"
  BY ONLY <1>2 DEF AtTestcase, Running
<1>7. TypeOK /\ Tallied(p, <<a, b>>, t) /\ t \in Tally
  BY ONLY JudgeInv, <1>3, <1>4, <1>6 DEF JudgeInv, TypeOK
<1>8. u = WithReport(t, v, cpu, memory, id)
  BY ONLY <1>1, <1>3, Zenon DEF WithReport
<1>9. u \in Tally /\ Tallied(p, <<a, b + 1>>, u)
  BY ONLY <1>4, <1>5, <1>7, <1>8, AfterTestcase
<1>11. at' = <<a, b + 1>>
  BY ONLY <1>2, <1>3
<1>12. faults' \in 0..MaxFaults /\ failed' \in BOOLEAN
  <2>1. CASE CallFails
    BY ONLY <2>1, CallFailsTypes, JudgeInv
  <2>2. CASE UNCHANGED <<faults, failed>>
    BY ONLY <1>7, <2>2 DEF TypeOK
  <2>3. QED
    BY ONLY <1>1, <2>1, <2>2
<1>13. TypeOK'
  <2>1. at' \in (Nat \ {0}) \X (Nat \ {0})
    BY ONLY <1>4, <1>11
  <2>2. QED
    BY ONLY <1>2, <1>3, <1>7, <1>9, <1>12, <2>1 DEF TypeOK
<1>14. pc' = "running" /\ ~SummedUp' /\ job'.problem = p
  BY ONLY <1>2, <1>3, <1>6 DEF SummedUp
<1>15. Tallied(job'.problem, at', tally')
  BY ONLY <1>3, <1>9, <1>11, <1>14
<1>16. QED
  BY ONLY <1>4, <1>13, <1>14, <1>15 DEF JudgeInv

(* A group ends.                                                           *)
LEMMA EndGroupStep == ASSUME JudgeInv, EndGroup PROVE JudgeInv'
<1>1. /\ pc = "running" /\ at[1] <= Len(Groups) /\ at[2] > Len(Tests)
      /\ tally' = [tally EXCEPT
            !.score = IF tally.groupPassed THEN @ + Groups[at[1]].points ELSE @,
            !.groupPassed = TRUE]
      /\ at' = <<at[1] + 1, 1>>
      /\ UNCHANGED <<backlog, cancelled, pc, job, result, faults, failed>>
  BY ONLY EndGroup DEF EndGroup, Running
<1>2. job.problem \in Problems /\ TypeOK /\ Tallied(job.problem, at, tally)
  BY ONLY JudgeInv, <1>1 DEF JudgeInv
<1>3. PICK p, a, b, t, u, n, s : /\ p = job.problem /\ a = at[1] /\ b = at[2] /\ t = tally /\ u = tally'
                                 /\ n = Groups[a].points /\ s = TestsOf(p, a)
  OBVIOUS
<1>4. a \in Nat \ {0} /\ b \in Nat \ {0} /\ at = <<a, b>> /\ p \in Problems /\ t \in Tally
  BY ONLY <1>2, <1>3 DEF TypeOK
<1>5. Groups = ByOrdinal(p) /\ Tests = ByOrdinal(ByOrdinal(p)[a].tests)
  BY ONLY <1>3 DEF Groups, Tests
<1>6. Len(ByOrdinal(p)) = Len(p) /\ DOMAIN p = 1..Len(p) /\ Len(p) \in Nat
  BY ONLY SortedGroups, <1>4
<1>7. a \in DOMAIN p
  BY ONLY <1>1, <1>3, <1>4, <1>5, <1>6
<1>8. ByOrdinal(p)[a] = p[Order(p)[a]] /\ Order(p)[a] \in DOMAIN p
  BY ONLY SortedGroups, <1>4, <1>7
<1>9. Tests = ByOrdinal(s)
  BY ONLY <1>3, <1>5, <1>8 DEF TestsOf
<1>10. Len(ByOrdinal(s)) = Len(s)
  <2>1. p \in Problems /\ a \in DOMAIN p /\ s = TestsOf(p, a)
    BY ONLY <1>3, <1>4, <1>7
  <2>2. QED
    BY ONLY SortedTests, <2>1
<1>11. b \in Nat /\ b > Len(TestsOf(p, a))
  BY ONLY <1>1, <1>3, <1>4, <1>9, <1>10
<1>12. n \in Int /\ n = ByOrdinal(p)[a].points
  <2>1. p[Order(p)[a]] \in Group
    BY ONLY SortedGroups, <1>4, <1>8
  <2>2. QED
    BY ONLY <1>3, <1>5, <1>8, <2>1 DEF Group
<1>13. u = WithGroup(t, n)
  BY ONLY <1>1, <1>3, Zenon DEF WithGroup
<1>14. Tallied(p, <<a, b>>, t)
  BY ONLY <1>2, <1>3, <1>4
<1>15. u \in Tally /\ Tallied(p, <<a + 1, 1>>, u)
  BY ONLY <1>4, <1>7, <1>11, <1>12, <1>13, <1>14, AfterGroup
<1>16. at' = <<a + 1, 1>>
  BY ONLY <1>1, <1>3
<1>17. TypeOK'
  <2>1. at' \in (Nat \ {0}) \X (Nat \ {0})
    BY ONLY <1>4, <1>16
  <2>2. QED
    BY ONLY <1>1, <1>2, <1>3, <1>15, <2>1 DEF TypeOK
<1>18. pc' = "running" /\ ~SummedUp' /\ job'.problem = p
  BY ONLY <1>1, <1>3 DEF SummedUp
<1>19. Tallied(job'.problem, at', tally')
  BY ONLY <1>3, <1>15, <1>16, <1>18
<1>20. QED
  BY ONLY <1>4, <1>17, <1>18, <1>19 DEF JudgeInv

(* The result is summed up.                                                *)
LEMMA SumUpStep == ASSUME JudgeInv, SumUp PROVE JudgeInv'
<1>1. PICK v, f, t : /\ v = (IF tally.passed < tally.total THEN tally.worst ELSE "AC")
                     /\ f = TRUE /\ t = tally
  OBVIOUS
<1>2. /\ pc = "running" /\ at[1] > Len(Groups)
      /\ result' = [verdict |-> v, tally |-> t, full |-> f]
      /\ pc' = "publishing"
      /\ UNCHANGED <<backlog, cancelled, job, at, tally, faults, failed>>
  BY ONLY SumUp, <1>1, Zenon DEF SumUp
<1>3. TypeOK /\ job.problem \in Problems /\ Tallied(job.problem, at, tally)
  BY ONLY JudgeInv, <1>2 DEF JudgeInv
<1>4. t \in Tally
  BY ONLY <1>1, <1>3 DEF TypeOK
<1>5. t.worst \in Verdict
  BY ONLY <1>4 DEF Tally
<1>6. v \in Verdict
  BY ONLY <1>1, <1>5 DEF Verdict
<1>7. f \in BOOLEAN
  BY ONLY <1>1
<1>8. result' \in [verdict : Verdict \cup {"JUDGING"}, tally : Tally, full : BOOLEAN]
  BY ONLY <1>2, <1>4, <1>6, <1>7
<1>9. result'.verdict = v /\ result'.tally = t /\ result'.full = f
  BY ONLY <1>2
<1>10. TypeOK'
  BY ONLY <1>2, <1>3, <1>8 DEF TypeOK
<1>11. Groups' = Groups
  BY ONLY <1>2 DEF Groups
<1>12. result'.full
  BY ONLY <1>1, <1>9, Zenon
<1>13. at'[1] > Len(Groups')
  BY ONLY <1>2, <1>11
<1>14. result'.verdict = IF tally'.passed < tally'.total THEN tally'.worst ELSE "AC"
  BY ONLY <1>1, <1>2, <1>9
<1>15. result'.tally = tally' /\ job' = job /\ at' = at /\ tally' = tally /\ pc' = "publishing"
  BY ONLY <1>1, <1>2, <1>9
<1>16. Tallied(job'.problem, at', tally') /\ job'.problem \in Problems
  BY ONLY <1>3, <1>15
<1>17. QED
  BY ONLY <1>10, <1>12, <1>13, <1>14, <1>15, <1>16 DEF JudgeInv

(* A delivery is taken.                                                    *)
LEMMA ReceiveStep == ASSUME JudgeInv, Receive PROVE JudgeInv'
<1>1. PICK p \in Problems, l \in Languages : job' = [problem |-> p, language |-> l]
  BY ONLY Receive DEF Receive
<1>2. /\ pc' = "setup" /\ at' = <<1, 1>> /\ tally' = NoTally /\ failed' = FALSE
      /\ backlog > 0 /\ backlog' = backlog - 1 /\ UNCHANGED <<cancelled, result, faults>>
  BY ONLY Receive DEF Receive
<1>3. TypeOK
  BY ONLY JudgeInv DEF JudgeInv
<1>4. TypeOK'
  <2>1. backlog' \in 0..Deliveries
    BY ONLY <1>2, <1>3, JudgingAssumption DEF TypeOK
  <2>2. /\ at' \in (Nat \ {0}) \X (Nat \ {0})
        /\ failed' \in BOOLEAN
    <3>1. at' = <<1, 1>> /\ failed' = FALSE
      BY ONLY <1>2
    <3>2. at' \in (Nat \ {0}) \X (Nat \ {0})
      BY ONLY <3>1
    <3>3. failed' \in BOOLEAN
      BY ONLY <3>1
    <3>4. QED
      BY ONLY <3>2, <3>3
  <2>3. tally' \in Tally
    BY ONLY <1>2, NoTallyIsTally
  <2>4. job' \in [problem : Problems \cup {<<>>}, language : Languages]
    BY ONLY <1>1
  <2>5. QED
    BY ONLY <1>2, <1>3, <2>1, <2>2, <2>3, <2>4 DEF TypeOK
<1>5. ~SummedUp' /\ job'.problem \in Problems
  BY ONLY <1>1, <1>2 DEF SummedUp
<1>6. QED
  BY ONLY <1>2, <1>4, <1>5 DEF JudgeInv

(* The source is written or compiled: the loop starts from nothing.        *)
LEMMA SetupStep == ASSUME JudgeInv, Setup \/ Compiled PROVE JudgeInv'
<1>1. /\ pc \in {"setup", "compiling"} /\ pc' \in {"compiling", "running"}
      /\ UNCHANGED <<backlog, cancelled, job, at, tally, result, faults, failed>>
  BY ONLY Setup \/ Compiled DEF Setup, Compiled
<1>2. TypeOK /\ job.problem \in Problems /\ at = <<1, 1>> /\ tally = NoTally
  BY ONLY JudgeInv, <1>1 DEF JudgeInv
<1>3. TypeOK'
  BY ONLY <1>1, <1>2 DEF TypeOK
<1>4. Tallied(job.problem, <<1, 1>>, NoTally)
  BY ONLY <1>2, TalliedAtFirst
<1>5. ~SummedUp' /\ pc' # "publishing"
  BY ONLY <1>1 DEF SummedUp
<1>6. job' = job /\ at' = <<1, 1>> /\ tally' = NoTally
  BY ONLY <1>1, <1>2
<1>7. Tallied(job'.problem, at', tally') /\ job'.problem \in Problems
  BY ONLY <1>2, <1>4, <1>6
<1>8. QED
  BY ONLY <1>3, <1>5, <1>6, <1>7 DEF JudgeInv

(* The result is published and the handler returns.                        *)
LEMMA PublishStep == ASSUME JudgeInv, Publish PROVE JudgeInv'
<1>1. /\ pc' = "receiving" /\ tally' = NoTally /\ result' = NoResult
      /\ UNCHANGED <<backlog, cancelled, job, at, faults, failed>>
  BY ONLY Publish DEF Publish
<1>2. TypeOK
  BY ONLY JudgeInv DEF JudgeInv
<1>3. NoTally \in Tally
  BY ONLY NoTallyIsTally
<1>4. NoResult \in [verdict : Verdict \cup {"JUDGING"}, tally : Tally, full : BOOLEAN]
  <2>1. PICK f, n : f = FALSE /\ n = NoTally
    OBVIOUS
  <2>2. NoResult = [verdict |-> "JUDGING", tally |-> n, full |-> f]
    BY ONLY <2>1, Zenon DEF NoResult
  <2>3. QED
    BY ONLY <1>3, <2>1, <2>2
<1>5. TypeOK'
  BY ONLY <1>1, <1>2, <1>3, <1>4 DEF TypeOK
<1>6. ~SummedUp'
  BY ONLY <1>1 DEF SummedUp
<1>7. QED
  BY ONLY <1>1, <1>5, <1>6 DEF JudgeInv

(* Steps that touch neither the job nor its totals nor the result.         *)
LEMMA AsideStep ==
    ASSUME JudgeInv, UNCHANGED <<job, at, tally, result>>,
           pc' = pc \/ (pc = "receiving" /\ pc' = "stopped"),
           TypeOK'
    PROVE  JudgeInv'
<1>1. Groups' = Groups
  BY ONLY UNCHANGED <<job, at, tally, result>> DEF Groups
<1>2. /\ job' = job /\ at' = at /\ tally' = tally /\ result' = result
  BY ONLY UNCHANGED <<job, at, tally, result>>
<1>3. CASE pc' = pc
  <2>1. SummedUp' <=> SummedUp
    BY ONLY <1>2, <1>3 DEF SummedUp
  <2>2. \A p, s, t : Tallied(p, s, t) => Tallied(p, s, t)
    OBVIOUS
  <2>3. Tallied(job.problem, at, tally) => Tallied(job'.problem, at', tally')
    BY ONLY <1>2
  <2>4. QED
    BY ONLY JudgeInv, TypeOK', <1>1, <1>2, <1>3, <2>1, <2>3 DEF JudgeInv
<1>4. CASE pc' = "stopped"
  <2>1. ~SummedUp'
    BY ONLY <1>4 DEF SummedUp
  <2>2. QED
    BY ONLY TypeOK', <1>4, <2>1 DEF JudgeInv
<1>5. QED
  BY ONLY <1>3, <1>4, pc' = pc \/ (pc = "receiving" /\ pc' = "stopped")

(* Every step keeps the invariant.                                         *)
LEMMA JudgeNext == ASSUME JudgeInv, [Next]_vars PROVE JudgeInv'
<1>1. TypeOK
  BY ONLY JudgeInv DEF JudgeInv
<1>2. CASE Receive
  BY ONLY <1>2, ReceiveStep, JudgeInv
<1>3. CASE Setup \/ Compiled
  BY ONLY <1>3, SetupStep, JudgeInv
<1>4. CASE SetupFails
  <2>1. Fail("SE") /\ UNCHANGED <<backlog, cancelled, job, at, tally>>
    BY ONLY <1>4 DEF SetupFails
  <2>2. faults' \in 0..MaxFaults /\ failed' \in BOOLEAN
    <3>1. /\ failed' = TRUE
          /\ faults' = faults \/ (faults < MaxFaults /\ faults' = faults + 1)
      BY ONLY <1>4 DEF SetupFails
    <3>2. faults \in 0..MaxFaults
      BY ONLY <1>1 DEF TypeOK
    <3>3. QED
      BY ONLY <3>1, <3>2, JudgingAssumption
  <2>3. "SE" \in Verdict
    BY ONLY TRUE DEF Verdict
  <2>4. QED
    BY ONLY <2>1, <2>2, <2>3, FailStep, JudgeInv
<1>5. CASE CompilationError
  <2>1. Fail("CE") /\ UNCHANGED <<backlog, cancelled, job, at, tally, faults, failed>>
    BY ONLY <1>5 DEF CompilationError
  <2>2. faults' \in 0..MaxFaults /\ failed' \in BOOLEAN
    BY ONLY <1>1, <2>1 DEF TypeOK
  <2>3. "CE" \in Verdict
    BY ONLY TRUE DEF Verdict
  <2>4. UNCHANGED <<backlog, cancelled, job, at, tally>>
    BY ONLY <2>1
  <2>5. QED
    BY ONLY <2>1, <2>2, <2>3, <2>4, FailStep, JudgeInv
<1>6. CASE RunTestcase
  BY ONLY <1>6, RunTestcaseStep, JudgeInv
<1>7. CASE JudgingFails
  <2>1. Fail("SE") /\ CallFails /\ UNCHANGED <<backlog, cancelled, job, at, tally>>
    BY ONLY <1>7 DEF JudgingFails
  <2>2. faults' \in 0..MaxFaults /\ failed' \in BOOLEAN
    BY ONLY <2>1, CallFailsTypes, JudgeInv
  <2>3. "SE" \in Verdict
    BY ONLY TRUE DEF Verdict
  <2>4. QED
    BY ONLY <2>1, <2>2, <2>3, FailStep, JudgeInv
<1>8. CASE EndGroup
  BY ONLY <1>8, EndGroupStep, JudgeInv
<1>9. CASE SumUp
  BY ONLY <1>9, SumUpStep, JudgeInv
<1>10. CASE Publish
  BY ONLY <1>10, PublishStep, JudgeInv
<1>11. CASE Stop
  <2>1. /\ UNCHANGED <<job, at, tally, result>> /\ pc = "receiving" /\ pc' = "stopped"
        /\ UNCHANGED <<backlog, cancelled, faults, failed>>
    BY ONLY <1>11 DEF Stop
  <2>2. TypeOK'
    BY ONLY <1>1, <2>1 DEF TypeOK
  <2>3. QED
    BY ONLY <2>1, <2>2, AsideStep, JudgeInv
<1>12. CASE Cancel
  <2>1. /\ UNCHANGED <<job, at, tally, result>> /\ pc' = pc
        /\ cancelled' = TRUE /\ UNCHANGED <<backlog, faults, failed>>
    BY ONLY <1>12 DEF Cancel
  <2>2. TypeOK'
    BY ONLY <1>1, <2>1 DEF TypeOK
  <2>3. QED
    BY ONLY <2>1, <2>2, AsideStep, JudgeInv
<1>13. CASE UNCHANGED vars
  <2>1. /\ UNCHANGED <<job, at, tally, result>> /\ pc' = pc
        /\ UNCHANGED <<backlog, cancelled, faults, failed>>
    BY ONLY <1>13 DEF vars
  <2>2. TypeOK'
    BY ONLY <1>1, <2>1 DEF TypeOK
  <2>3. QED
    BY ONLY <2>1, <2>2, AsideStep, JudgeInv
<1>14. QED
  BY ONLY <1>2, <1>3, <1>4, <1>5, <1>6, <1>7, <1>8, <1>9, <1>10, <1>11, <1>12, <1>13, [Next]_vars DEF Next

(* The totals of the loop are those of the testcases that were run, and    *)
(* what is published are the totals of all of them or nothing.             *)
THEOREM JudgeInvariance == Spec => []JudgeInv
<1>1. Init => JudgeInv
  BY JudgeInit
<1>2. JudgeInv /\ [Next]_vars => JudgeInv'
  BY JudgeNext
<1>3. QED
  BY <1>1, <1>2, PTL DEF Spec

(***************************************************************************)
(* The verdict and the score.                                              *)
(***************************************************************************)

(* The verdict of a testcase, as one looks it up in the results.           *)
LookedUp(p, t, x) == (CHOOSE r \in ToSet(t.results) : r.id = TestAt(p, x).id).verdict

(* Ids being unique, the lookup finds the result of that testcase.         *)
LEMMA LookUp ==
    ASSUME NEW p \in Problems, NEW D, NEW t, NEW o, Counted(p, D, t, o)
    PROVE  \A x \in D : LookedUp(p, t, x) = o[x]
<1>1. /\ D \subseteq Places(p)
      /\ \A k \in DOMAIN t.results : \E y \in D : /\ t.results[k].id = TestAt(p, y).id
                                                  /\ t.results[k].verdict = o[y]
      /\ \A y \in D : \E k \in DOMAIN t.results : t.results[k].id = TestAt(p, y).id
  BY ONLY Counted(p, D, t, o) DEF Counted
<1>2. \A y, z \in D : TestAt(p, y).id = TestAt(p, z).id => y = z
  BY ONLY <1>1, PlacesHaveIds, p \in Problems
<1>3. PICK R : R = ToSet(t.results)
  OBVIOUS
<1>4. \A r : r \in R <=> \E k \in DOMAIN t.results : r = t.results[k]
  BY ONLY <1>3 DEF ToSet
<1>5. ASSUME NEW x \in D PROVE LookedUp(p, t, x) = o[x]
  <2>1. PICK c : c = CHOOSE r \in R : r.id = TestAt(p, x).id
    OBVIOUS
  <2>2. \E r \in R : r.id = TestAt(p, x).id
    BY ONLY <1>1, <1>4, <1>5
  <2>3. c \in R /\ c.id = TestAt(p, x).id
    BY ONLY <2>1, <2>2
  <2>4. PICK y \in D : c.id = TestAt(p, y).id /\ c.verdict = o[y]
    BY ONLY <1>1, <1>4, <2>3
  <2>5. y = x
    BY ONLY <1>2, <1>5, <2>3, <2>4
  <2>6. LookedUp(p, t, x) = c.verdict
    BY ONLY <1>3, <2>1 DEF LookedUp
  <2>7. QED
    BY ONLY <2>4, <2>5, <2>6
<1>6. QED
  BY ONLY <1>5

(* Indices of group and testcase are a place.                              *)
LEMMA PlacesOfGroups ==
    ASSUME NEW p, NEW i \in DOMAIN p, NEW j \in DOMAIN p[i].tests PROVE <<i, j>> \in Places(p)
BY ONLY InPlaces, i \in DOMAIN p, j \in DOMAIN p[i].tests

(* At the end, every testcase has its verdict.                             *)
LEMMA TotalsOfAll ==
    ASSUME NEW p \in Problems, NEW s, s \in (Nat \ {0}) \X (Nat \ {0}), s[1] > Len(p), NEW t,
           Tallied(p, s, t)
    PROVE  \E o : /\ Counted(p, Places(p), t, o) /\ Earliest(p, Places(p), t.worst, o)
                  /\ t.score = Points(p, {i \in DOMAIN p : \A j \in DOMAIN p[i].tests : o[<<i, j>>] = "AC"})
<1>1. PICK a, b : a = s[1] /\ b = s[2]
  OBVIOUS
<1>2. s = <<a, b>> /\ a \in Nat /\ a > Len(p)
  BY ONLY <1>1, s \in (Nat \ {0}) \X (Nat \ {0}), s[1] > Len(p)
<1>3. Done(p, s) = Places(p)
  BY ONLY <1>2, DoneAll, p \in Problems
<1>4. PICK o : Counted(p, Done(p, s), t, o) /\ Earliest(p, Done(p, s), t.worst, o) /\ Scored(p, s, t, o)
  BY ONLY Tallied(p, s, t) DEF Tallied
<1>5. t.score = Points(p, Full(p, s, o))
  BY ONLY <1>4 DEF Scored
<1>6. Full(p, s, o) = {i \in DOMAIN p : \A j \in DOMAIN p[i].tests : o[<<i, j>>] = "AC"}
  <2>1. ASSUME NEW i \in DOMAIN p PROVE \E c \in DOMAIN p : c < s[1] /\ Order(p)[c] = i
    <3>1. PICK c \in DOMAIN p : Order(p)[c] = i
      BY ONLY SortedGroups, p \in Problems, <2>1
    <3>2. DOMAIN p = 1..Len(p) /\ Len(p) \in Nat
      BY ONLY DomainsAreIndices, p \in Problems
    <3>3. c < a
      BY ONLY <1>2, <3>2, c \in DOMAIN p
    <3>4. QED
      BY ONLY <1>1, <3>1, <3>3
  <2>2. QED
    BY ONLY <2>1 DEF Full
<1>7. QED
  BY ONLY <1>3, <1>4, <1>5, <1>6

(* What a result that was summed up says.                                  *)
LEMMA SummedUpResult ==
    ASSUME JudgeInv, SummedUp
    PROVE  /\ job.problem \in Problems /\ result.tally = tally /\ tally \in Tally
           /\ result.verdict = IF tally.passed < tally.total THEN tally.worst ELSE "AC"
           /\ \E o : /\ Counted(job.problem, Places(job.problem), tally, o)
                     /\ Earliest(job.problem, Places(job.problem), tally.worst, o)
                     /\ tally.score = Points(job.problem, {i \in DOMAIN job.problem :
                            \A j \in DOMAIN job.problem[i].tests : o[<<i, j>>] = "AC"})
                     /\ \A x \in Places(job.problem) : Outcome(x) = o[x]
<1>1. /\ job.problem \in Problems /\ result.tally = tally /\ tally \in Tally
      /\ result.verdict = IF tally.passed < tally.total THEN tally.worst ELSE "AC"
      /\ Tallied(job.problem, at, tally) /\ at \in (Nat \ {0}) \X (Nat \ {0}) /\ at[1] > Len(Groups)
  BY ONLY JudgeInv, SummedUp DEF JudgeInv, TypeOK
<1>2. PICK p, s, t : p = job.problem /\ s = at /\ t = tally
  OBVIOUS
<1>3. s[1] > Len(p)
  <2>1. Len(ByOrdinal(p)) = Len(p)
    BY ONLY <1>1, <1>2, SortedGroups
  <2>2. QED
    BY ONLY <1>1, <1>2, <2>1 DEF Groups
<1>4. PICK o : /\ Counted(p, Places(p), t, o) /\ Earliest(p, Places(p), t.worst, o)
               /\ t.score = Points(p, {i \in DOMAIN p : \A j \in DOMAIN p[i].tests : o[<<i, j>>] = "AC"})
  <2>1. p \in Problems /\ s \in (Nat \ {0}) \X (Nat \ {0}) /\ Tallied(p, s, t)
    BY ONLY <1>1, <1>2
  <2>2. QED
    BY ONLY <1>3, <2>1, TotalsOfAll
<1>5. \A x \in Places(p) : LookedUp(p, t, x) = o[x]
  BY ONLY <1>1, <1>2, <1>4, LookUp
<1>6. \A x : Outcome(x) = LookedUp(p, t, x)
  BY ONLY <1>1, <1>2 DEF Outcome, LookedUp
<1>7. QED
  BY ONLY <1>1, <1>2, <1>4, <1>5, <1>6

(* passed and total tell whether something failed.                         *)
LEMMA PassedIsLess ==
    ASSUME NEW p, NEW D, NEW t, NEW o, Counted(p, D, t, o)
    PROVE  t.passed < t.total <=> \E x \in D : o[x] # "AC"
<1>1. PICK A : A = {x \in D : o[x] = "AC"}
  OBVIOUS
<1>2. IsFiniteSet(D) /\ t.total = Cardinality(D) /\ t.passed = Cardinality(A)
  BY ONLY <1>1, Counted(p, D, t, o) DEF Counted
<1>3. A \in SUBSET D
  BY ONLY <1>1
<1>4. IsFiniteSet(A) /\ Cardinality(A) <= Cardinality(D) /\ (Cardinality(D) = Cardinality(A) => D = A)
  BY ONLY <1>2, <1>3, FS_Subset
<1>5. Cardinality(A) \in Nat /\ Cardinality(D) \in Nat
  BY ONLY <1>2, <1>4, FS_CardinalityType
<1>6. t.passed < t.total <=> A # D
  <2>1. PICK m, n : m = Cardinality(A) /\ n = Cardinality(D)
    OBVIOUS
  <2>2. m \in Nat /\ n \in Nat /\ m <= n /\ (m = n <=> A = D)
    BY ONLY <1>4, <1>5, <2>1
  <2>3. m < n <=> A # D
    BY ONLY <2>2
  <2>4. QED
    BY ONLY <1>2, <2>1, <2>3
<1>7. A # D <=> \E x \in D : o[x] # "AC"
  BY ONLY <1>1
<1>8. QED
  BY ONLY <1>6, <1>7

(* The verdict, from the invariant.                                        *)
LEMMA VerdictOfASummedUpResult == JudgeInv => VerdictIsFirstFailure
<1> SUFFICES ASSUME JudgeInv, SummedUp
             PROVE  LET failures == {x \in Places(job.problem) : Outcome(x) # "AC"}
                    IN  IF failures = {} THEN result.verdict = "AC"
                        ELSE \E x \in failures :
                                /\ \A y \in failures : ~Before(job.problem, y, x)
                                /\ result.verdict = Outcome(x)
  BY DEF VerdictIsFirstFailure
<1>1. PICK p, t, v : p = job.problem /\ t = tally /\ v = result.verdict
  OBVIOUS
<1>2. PICK o : /\ Counted(p, Places(p), t, o) /\ Earliest(p, Places(p), t.worst, o)
               /\ \A x \in Places(p) : Outcome(x) = o[x]
  BY ONLY <1>1, JudgeInv, SummedUp, SummedUpResult
<1>3. v = IF t.passed < t.total THEN t.worst ELSE "AC"
  BY ONLY <1>1, JudgeInv, SummedUp, SummedUpResult
<1>4. t.passed < t.total <=> \E x \in Places(p) : o[x] # "AC"
  BY ONLY <1>2, PassedIsLess
<1>5. PICK F : F = {x \in Places(p) : Outcome(x) # "AC"}
  OBVIOUS
<1>6. \A x : x \in F <=> x \in Places(p) /\ o[x] # "AC"
  BY ONLY <1>2, <1>5
<1>7. CASE F = {}
  <2>1. v = "AC"
    BY ONLY <1>3, <1>4, <1>6, <1>7
  <2>2. QED
    BY ONLY <1>1, <1>5, <1>7, <2>1
<1>8. CASE F # {}
  <2>1. v = t.worst
    BY ONLY <1>3, <1>4, <1>6, <1>8
  <2>2. PICK x \in Places(p) : /\ o[x] # "AC" /\ t.worst = o[x]
                               /\ \A y \in Places(p) : o[y] # "AC" => ~Before(p, y, x)
    BY ONLY <1>2, <1>6, <1>8 DEF Earliest
  <2>3. x \in F /\ (\A y \in F : ~Before(p, y, x)) /\ v = Outcome(x)
    BY ONLY <1>2, <1>6, <2>1, <2>2
  <2>4. QED
    BY ONLY <1>1, <1>5, <1>8, <2>3
<1>9. QED
  BY ONLY <1>7, <1>8

(* The score, from the invariant.                                          *)
LEMMA ScoreOfASummedUpResult == JudgeInv => ScoreAddsUp
<1> SUFFICES ASSUME JudgeInv PROVE ScoreAddsUp
  OBVIOUS
<1>1. ASSUME SummedUp
      PROVE  /\ result.tally.score = Points(job.problem, Whole)
             /\ result.tally.passed = Cardinality({x \in Places(job.problem) : Outcome(x) = "AC"})
             /\ Len(result.tally.results) = Cardinality(Places(job.problem))
  <2>1. PICK p, t : p = job.problem /\ t = tally
    OBVIOUS
  <2>2. PICK o : /\ Counted(p, Places(p), t, o)
                 /\ t.score = Points(p, {i \in DOMAIN p : \A j \in DOMAIN p[i].tests : o[<<i, j>>] = "AC"})
                 /\ \A x \in Places(p) : Outcome(x) = o[x]
    BY ONLY <1>1, <2>1, JudgeInv, SummedUpResult
  <2>3. result.tally = t
    BY ONLY <1>1, <2>1, JudgeInv, SummedUpResult
  <2>4. /\ t.total = Cardinality(Places(p)) /\ Len(t.results) = t.total
        /\ t.passed = Cardinality({x \in Places(p) : o[x] = "AC"})
    BY ONLY <2>2 DEF Counted
  <2>5. {x \in Places(p) : o[x] = "AC"} = {x \in Places(p) : Outcome(x) = "AC"}
    BY ONLY <2>2
  <2>6. Whole = {i \in DOMAIN p : \A j \in DOMAIN p[i].tests : o[<<i, j>>] = "AC"}
    <3>1. \A i \in DOMAIN p : \A j \in DOMAIN p[i].tests : Outcome(<<i, j>>) = o[<<i, j>>]
      BY ONLY <2>2, PlacesOfGroups
    <3>2. Whole = {i \in DOMAIN p : \A j \in DOMAIN p[i].tests : Outcome(<<i, j>>) = "AC"}
      BY ONLY <2>1 DEF Whole
    <3>3. QED
      BY ONLY <3>1, <3>2
  <2>7. QED
    BY ONLY <2>1, <2>2, <2>3, <2>4, <2>5, <2>6
<1>2. (pc = "publishing" /\ ~result.full) => result.tally = NoTally
  BY ONLY JudgeInv DEF JudgeInv
<1>3. QED
  BY ONLY <1>1, <1>2 DEF ScoreAddsUp

(* Types.  The totals of the loop keep their types whatever the sandbox    *)
(* and the grader report, and so does what is published.                   *)
THEOREM JudgingTypes == Spec => []TypeOK
<1>1. JudgeInv => TypeOK
  BY DEF JudgeInv
<1>2. QED
  BY <1>1, JudgeInvariance, PTL

(* The verdict of a result that was summed up is AC when every testcase    *)
(* passed, and otherwise that of a failed testcase with no failed one      *)
(* before it: processor.go sorts groups and testcases by ordinal, keeps    *)
(* the first verdict that is not AC, and falls back to AC when all passed. *)
THEOREM FirstFailureDecides == Spec => []VerdictIsFirstFailure
<1>1. JudgeInv => VerdictIsFirstFailure
  BY VerdictOfASummedUpResult
<1>2. QED
  BY <1>1, JudgeInvariance, PTL

(* The score is that of the groups of which every testcase passed, and the *)
(* counts and results are of every testcase once: groupAllPassed is reset  *)
(* at every group and the totals grow with each testcase.                  *)
THEOREM ScoreIsOfWholeGroups == Spec => []ScoreAddsUp
<1>1. JudgeInv => ScoreAddsUp
  BY ScoreOfASummedUpResult
<1>2. QED
  BY <1>1, JudgeInvariance, PTL

(***************************************************************************)
(* System errors.                                                          *)
(***************************************************************************)

(* While there was no signal, SE among the totals or in a result is due to *)
(* something that failed in this job.                                      *)
ErrorsExplained ==
    ~cancelled => /\ tally.worst = "SE" => failed
                  /\ SystemErrorExplained

LEMMA ErrorsExplainedStep ==
    ASSUME TypeOK, ErrorsExplained, [Next]_vars PROVE ErrorsExplained'
<1>1. SUFFICES ASSUME ~cancelled' PROVE /\ tally'.worst = "SE" => failed'
                                       /\ SystemErrorExplained'
  BY Zenon DEF ErrorsExplained
<1>2. CASE Cancel
  BY ONLY <1>1, <1>2 DEF Cancel
<1>3. CASE UNCHANGED cancelled /\ ~Cancel
  <2>1. ~cancelled /\ (tally.worst = "SE" => failed) /\ SystemErrorExplained
    BY ONLY <1>1, <1>3, ErrorsExplained DEF ErrorsExplained
  <2>2. ASSUME CallFails PROVE failed'
    BY ONLY <2>1, <2>2 DEF CallFails
  <2>3. CASE Receive \/ Publish
    BY ONLY <2>3 DEF Receive, Publish, NoTally, SystemErrorExplained
  <2>4. CASE Stop \/ Setup \/ Compiled
    BY ONLY <2>1, <2>4 DEF Stop, Setup, Compiled, SystemErrorExplained
  <2>5. CASE SetupFails \/ JudgingFails
    BY ONLY <2>2, <2>5 DEF SetupFails, JudgingFails, SystemErrorExplained
  <2>6. CASE CompilationError
    BY ONLY <2>1, <2>6 DEF CompilationError, Fail, SystemErrorExplained
  <2>7. CASE RunTestcase
    <3>1. PICK report \in Report, graded \in {"ok", "wrong", "error"} :
            LET v == VerdictOf(report, graded)
            IN  /\ IF v = "SE" THEN CallFails ELSE UNCHANGED <<faults, failed>>
                /\ tally' = [tally EXCEPT
                        !.total = @ + 1,
                        !.passed = IF v = "AC" THEN @ + 1 ELSE @,
                        !.groupPassed = @ /\ v = "AC",
                        !.worst = Worst(@, v),
                        !.cpu = Larger(@, report.cpu),
                        !.memory = Larger(@, report.memory),
                        !.results = Append(@, [id |-> Tests[at[2]].id, verdict |-> v,
                                               cpu |-> report.cpu])]
      BY ONLY <2>7, Zenon DEF RunTestcase
    <3>2. PICK v, old, new : /\ v = VerdictOf(report, graded) /\ old = tally /\ new = tally'
      OBVIOUS
    <3>3. new = WithReport(old, v, report.cpu, report.memory, Tests[at[2]].id)
      BY ONLY <3>1, <3>2, Zenon DEF WithReport
    <3>4. new.worst = Worst(old.worst, v)
      <4>1. old \in Tally
        BY ONLY <3>2, TypeOK DEF TypeOK
      <4>2. QED
        BY ONLY <3>3, <4>1 DEF Tally, WithReport
    <3>5. IF v = "SE" THEN CallFails ELSE failed' = failed
      BY ONLY <3>1, <3>2
    <3>6. tally'.worst = "SE" => failed'
      BY ONLY <2>1, <2>2, <3>2, <3>4, <3>5 DEF Worst
    <3>7. pc' = "running"
      BY ONLY <2>7 DEF RunTestcase, AtTestcase, Running
    <3>8. QED
      BY ONLY <3>6, <3>7 DEF SystemErrorExplained
  <2>8. CASE EndGroup
    <3>1. tally'.worst = tally.worst /\ failed' = failed /\ pc' = "running"
      BY ONLY <2>8, TypeOK DEF EndGroup, Running, TypeOK, Tally
    <3>2. QED
      BY ONLY <2>1, <3>1 DEF SystemErrorExplained
  <2>9. CASE SumUp
    BY ONLY <2>1, <2>9 DEF SumUp, SystemErrorExplained
  <2>10. CASE UNCHANGED vars
    BY ONLY <2>1, <2>10 DEF vars, SystemErrorExplained
  <2>11. QED
    BY ONLY <1>3, <2>3, <2>4, <2>5, <2>6, <2>7, <2>8, <2>9, <2>10, [Next]_vars DEF Next
<1>4. Cancel \/ UNCHANGED cancelled
  <2>1. RunTestcase => UNCHANGED cancelled
    BY ONLY DEF RunTestcase
  <2>2. EndGroup => UNCHANGED cancelled
    BY ONLY DEF EndGroup
  <2>3. Receive \/ Stop \/ Setup \/ SetupFails => UNCHANGED cancelled
    BY ONLY DEF Receive, Stop, Setup, SetupFails
  <2>4. Compiled \/ CompilationError \/ JudgingFails => UNCHANGED cancelled
    BY ONLY DEF Compiled, CompilationError, JudgingFails
  <2>5. SumUp \/ Publish \/ UNCHANGED vars => UNCHANGED cancelled
    BY ONLY DEF SumUp, Publish, vars
  <2>6. QED
    BY ONLY <2>1, <2>2, <2>3, <2>4, <2>5, [Next]_vars DEF Next
<1>5. QED
  BY ONLY <1>2, <1>3, <1>4

(* A worker that was not told to stop only reports a system error when     *)
(* something in the system failed: what the run judging_shutdown finds     *)
(* needs the signal, which cancels the calls of the job in hand.           *)
THEOREM SystemErrorNeedsASignal == Spec => [](~cancelled => SystemErrorExplained)
<1>1. Init => ErrorsExplained
  BY ONLY DEF Init, NoTally, ErrorsExplained, SystemErrorExplained
<1>2. ErrorsExplained => (~cancelled => SystemErrorExplained)
  BY ONLY DEF ErrorsExplained
<1>3. QED
  BY <1>1, <1>2, ErrorsExplainedStep, JudgingTypes, PTL DEF Spec
=================================================================================
