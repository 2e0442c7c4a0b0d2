---------------------------- MODULE NumberLemmas ----------------------------
(***************************************************************************)
(* Induction over the natural numbers, as facts about sets of numbers: a   *)
(* theorem of the library that takes an operator cannot be cited, one that *)
(* takes a set can.  With it, what a sum is; and a few facts about         *)
(* sequences, sorted and flattened ones too.  The proofs about files and   *)
(* reports rest on them.                                                   *)
(***************************************************************************)
EXTENDS Integers, Sums, StableOrder, SequencesExt, FiniteSetTheorems, WellFoundedInduction, TLAPS

(* A set of natural numbers that is not empty has a least member. *)
LEMMA LeastNumber ==
    ASSUME NEW T \in SUBSET Nat, T # {}
    PROVE  \E n \in T : \A m \in T : n <= m
<1>. DEFINE R == {r \in Nat \X Nat : r[1] < r[2]}
<1>1. IsWellFoundedOn(R, Nat)
  BY NatLessThanWellFounded DEF OpToRel
<1>2. PICK x \in T : \A y \in T : ~ (<<y, x>> \in R)
  BY <1>1, WFMin
<1>3. \A y \in T : ~ (y < x)
  BY <1>2
<1>. QED
  BY <1>3

(* A set of natural numbers that holds 0, and the successor of every       *)
(* number it holds, is all of them.                                        *)
LEMMA Induction ==
    ASSUME NEW S \in SUBSET Nat, 0 \in S, \A n \in S : n + 1 \in S
    PROVE  S = Nat
<1>. DEFINE T == Nat \ S
<1>1. SUFFICES ASSUME T # {} PROVE FALSE
  OBVIOUS
<1>2. PICK n \in T : \A m \in T : n <= m
  BY <1>1, LeastNumber
<1>3. n # 0 /\ n - 1 \in Nat /\ n - 1 \notin T
  BY <1>2
<1>. QED
  BY <1>3

-----------------------------------------------------------------------------
(* Sequences.                                                              *)

(* A sequence is known by its length and its members. *)
LEMMA SameSequence ==
    ASSUME NEW S, NEW s \in Seq(S), NEW t \in Seq(S), Len(s) = Len(t),
           \A i \in 1..Len(s) : s[i] = t[i]
    PROVE  s = t
  OBVIOUS

(* What is appended comes last, and the rest stays. *)
LEMMA Appended ==
    ASSUME NEW S, NEW s \in Seq(S), NEW x \in S
    PROVE  /\ Append(s, x) \in Seq(S) /\ Len(Append(s, x)) = Len(s) + 1
           /\ Append(s, x)[Len(s) + 1] = x
           /\ \A i \in 1..Len(s) : Append(s, x)[i] = s[i]
  OBVIOUS
(* The members of a sequence. *)
LEMMA Members ==
    ASSUME NEW S, NEW s \in Seq(S)
    PROVE  \A i \in 1..Len(s) : s[i] \in S
  OBVIOUS

-----------------------------------------------------------------------------
(* Sorted sequences.                                                       *)

(* R orders the members of S: of two of them one is before the other, and  *)
(* nothing is before itself.                                               *)
Orders(R, S) ==
    /\ \A i, j \in S : i # j => <<i, j>> \in R \/ <<j, i>> \in R
    /\ \A i \in S : <<i, i>> \notin R
    /\ \A i, j, k \in S : <<i, j>> \in R /\ <<j, k>> \in R => <<i, k>> \in R

(* Members of an ordered set differ in how many come before them, and that *)
(* number takes every value below the size of the set.                     *)
LEMMA PlacesAreFilled ==
    ASSUME NEW S, IsFiniteSet(S), NEW R, Orders(R, S)
    PROVE  LET place == [i \in S |-> Cardinality({j \in S : <<j, i>> \in R})]
           IN  /\ Cardinality(S) \in Nat
               /\ place \in [S -> 0..(Cardinality(S) - 1)]
               /\ \A i, j \in S : <<i, j>> \in R => place[i] < place[j]
               /\ \A k \in 0..(Cardinality(S) - 1) : \E i \in S : place[i] = k
<1>. DEFINE n == Cardinality(S)
            before(i) == {j \in S : <<j, i>> \in R}
            place == [i \in S |-> Cardinality(before(i))]
<1>1. n \in Nat
  BY FS_CardinalityType
<1>2. ASSUME NEW i \in S
      PROVE  /\ before(i) \in SUBSET S /\ i \notin before(i) /\ IsFiniteSet(before(i))
             /\ place[i] \in Nat /\ place[i] < n
  <2>1. before(i) \in SUBSET S /\ i \notin before(i)
    BY DEF Orders
  <2>. HIDE DEF before
  <2>2. IsFiniteSet(before(i)) /\ Cardinality(before(i)) <= n
        /\ (n = Cardinality(before(i)) => S = before(i))
    BY <2>1, FS_Subset
  <2>3. Cardinality(before(i)) \in Nat
    BY <2>2, FS_CardinalityType
  <2>. QED
    BY <1>1, <2>1, <2>2, <2>3
<1>3. place \in [S -> 0..(n - 1)]
  <2>. HIDE DEF before, n
  <2>1. \A i \in S : Cardinality(before(i)) \in 0..(n - 1)
    BY <1>1, <1>2
  <2>. QED
    BY <2>1
<1>4. ASSUME NEW i \in S, NEW j \in S, <<i, j>> \in R PROVE place[i] < place[j]
  <2>1. before(i) \in SUBSET before(j) /\ i \in before(j) /\ i \notin before(i)
    BY <1>4 DEF Orders
  <2>. HIDE DEF before
  <2>2. IsFiniteSet(before(j)) /\ IsFiniteSet(before(i))
    BY <1>2
  <2>3. /\ Cardinality(before(i)) <= Cardinality(before(j))
        /\ (Cardinality(before(j)) = Cardinality(before(i)) => before(j) = before(i))
    BY <2>1, <2>2, FS_Subset
  <2>4. Cardinality(before(i)) \in Nat /\ Cardinality(before(j)) \in Nat
    BY <2>2, FS_CardinalityType
  <2>. QED
    BY <2>1, <2>3, <2>4
<1>5. \A k \in 0..(n - 1) : \E i \in S : place[i] = k
  <2>. HIDE DEF place
  <2>. DEFINE T == 0..(n - 1)
  <2>1. IsFiniteSet(T) /\ Cardinality(T) = n
    <3>1. 0 \in Int /\ n - 1 \in Int /\ ((IF 0 > n - 1 THEN 0 ELSE n - 1 - 0 + 1) = n)
      BY <1>1
    <3>. HIDE DEF n
    <3>. QED
      BY <3>1, FS_Interval
  <2>2. \A i, j \in S : place[i] = place[j] => i = j
    <3>1. \A i, j \in S : place[i] \in Nat /\ place[j] \in Nat
      BY <1>1, <1>3
    <3>2. \A i, j \in S : i # j => place[i] < place[j] \/ place[j] < place[i]
      BY <1>4 DEF Orders
    <3>. QED
      BY <3>1, <3>2
  <2>. HIDE DEF T
  <2>3. place \in Injection(S, T)
    BY <1>3, <2>2 DEF T, Injection, IsInjective
  <2>4. place \in Surjection(S, T)
    BY <2>1, <2>3, FS_Injection
  <2>. QED
    BY <2>4 DEF T, Surjection
<1>. QED
  BY <1>1, <1>3, <1>4, <1>5

(* The members of an ordered set, arranged: all of them, each once, and    *)
(* what is before another in the order is so in the sequence.              *)
LEMMA ArrangedInOrder ==
    ASSUME NEW S, IsFiniteSet(S), NEW R, Orders(R, S)
    PROVE  LET a == Arranged(S, R)
               n == Cardinality(S)
           IN  /\ n \in Nat /\ a \in [1..n -> S] /\ a \in Seq(S) /\ Len(a) = n
               /\ \A i \in S : \E k \in 1..n : a[k] = i
               /\ \A j, k \in 1..n : j < k <=> <<a[j], a[k]>> \in R
               /\ \A j, k \in 1..n : a[j] = a[k] => j = k
<1>. DEFINE n == Cardinality(S)
            place == [i \in S |-> Cardinality({j \in S : <<j, i>> \in R})]
            a == Arranged(S, R)
<1>1. /\ n \in Nat /\ place \in [S -> 0..(n - 1)]
      /\ \A i, j \in S : <<i, j>> \in R => place[i] < place[j]
      /\ \A k \in 0..(n - 1) : \E i \in S : place[i] = k
  BY PlacesAreFilled
<1>2. a = [k \in 1..n |-> CHOOSE i \in S : place[i] = k - 1]
  BY DEF Arranged
<1>. HIDE DEF a, place, n
<1>3. \A k \in 1..n : a[k] \in S /\ place[a[k]] = k - 1
  <2>. SUFFICES ASSUME NEW k \in 1..n PROVE a[k] \in S /\ place[a[k]] = k - 1
    OBVIOUS
  <2>1. k - 1 \in 0..(n - 1)
    BY <1>1
  <2>2. \E i \in S : place[i] = k - 1
    BY <1>1, <2>1
  <2>3. a[k] = CHOOSE i \in S : place[i] = k - 1
    BY <1>2
  <2>. QED
    BY <2>2, <2>3
<1>4. a \in [1..n -> S]
  BY <1>2, <1>3
<1>5. a \in Seq(S) /\ Len(a) = n
  BY <1>1, <1>4
<1>6. \A i, j \in S : place[i] = place[j] => i = j
  <2>1. \A i, j \in S : place[i] \in Nat /\ place[j] \in Nat
    BY <1>1
  <2>2. \A i, j \in S : i # j => place[i] < place[j] \/ place[j] < place[i]
    BY <1>1 DEF Orders
  <2>. QED
    BY <2>1, <2>2
<1>7. \A i \in S : \E k \in 1..n : a[k] = i
  <2>. SUFFICES ASSUME NEW i \in S PROVE \E k \in 1..n : a[k] = i
    OBVIOUS
  <2>1. place[i] + 1 \in 1..n /\ (place[i] + 1) - 1 = place[i]
    BY <1>1
  <2>2. a[place[i] + 1] = i
    BY <1>3, <1>6, <2>1
  <2>. QED
    BY <2>1, <2>2
<1>8. \A j, k \in 1..n : a[j] = a[k] => j = k
  <2>1. \A j, k \in 1..n : j - 1 = k - 1 => j = k
    BY <1>1
  <2>. QED
    BY <1>3, <2>1
<1>9. ASSUME NEW j \in 1..n, NEW k \in 1..n PROVE j < k <=> <<a[j], a[k]>> \in R
  <2>1. /\ place[a[j]] = j - 1 /\ place[a[k]] = k - 1 /\ a[j] \in S /\ a[k] \in S
        /\ j \in Nat /\ k \in Nat
    BY <1>1, <1>3
  <2>2. <<a[j], a[k]>> \in R => j - 1 < k - 1
    BY <1>1, <2>1
  <2>3. <<a[k], a[j]>> \in R => k - 1 < j - 1
    BY <1>1, <2>1
  <2>4. j # k => <<a[j], a[k]>> \in R \/ <<a[k], a[j]>> \in R
    BY <1>8, <2>1 DEF Orders
  <2>. QED
    BY <2>1, <2>2, <2>3, <2>4
<1>. QED
  BY <1>1, <1>4, <1>5, <1>7, <1>8, <1>9 DEF a, n

(* A finite set of numbers in ascending order. *)
LEMMA AscendingInOrder ==
    ASSUME NEW S \in SUBSET Int, IsFiniteSet(S)
    PROVE  LET a == Ascending(S)
               n == Cardinality(S)
           IN  /\ n \in Nat /\ a \in [1..n -> S] /\ a \in Seq(S) /\ Len(a) = n
               /\ \A i \in S : \E k \in 1..n : a[k] = i
               /\ \A j, k \in 1..n : j < k <=> a[j] < a[k]
               /\ \A j, k \in 1..n : a[j] = a[k] => j = k
<1>. DEFINE R == {p \in S \X S : p[1] < p[2]}
<1>1. \A i, j \in S : <<i, j>> \in R <=> i < j
  OBVIOUS
<1>. HIDE DEF R
<1>2. Orders(R, S)
  BY <1>1 DEF Orders
<1>3. Ascending(S) = Arranged(S, R)
  BY DEF Ascending, R
<1>. DEFINE a == Arranged(S, R)
            n == Cardinality(S)
<1>4. /\ n \in Nat /\ a \in [1..n -> S] /\ a \in Seq(S) /\ Len(a) = n
      /\ \A i \in S : \E k \in 1..n : a[k] = i
      /\ \A j, k \in 1..n : j < k <=> <<a[j], a[k]>> \in R
      /\ \A j, k \in 1..n : a[j] = a[k] => j = k
  BY <1>2, ArrangedInOrder
<1>5. \A j, k \in 1..n : a[j] \in S /\ a[k] \in S
  BY <1>4
<1>. HIDE DEF a, n
<1>6. \A j, k \in 1..n : j < k <=> a[j] < a[k]
  BY <1>1, <1>4, <1>5
<1>. QED
  BY <1>3, <1>4, <1>6 DEF a, n

(* The positions that are kept of a sequence. *)
LEMMA KeptInOrder ==
    ASSUME NEW n \in Nat, NEW S \in SUBSET (1..n)
    PROVE  LET a == Ascending(S)
           IN  /\ IsFiniteSet(S) /\ Cardinality(S) \in Nat /\ Len(a) \in Nat
               /\ Len(a) = Cardinality(S) /\ a \in Seq(S) /\ a \in [1..Len(a) -> S]
               /\ \A i \in S : \E k \in 1..Len(a) : a[k] = i
               /\ \A j, k \in 1..Len(a) : j < k <=> a[j] < a[k]
               /\ \A j, k \in 1..Len(a) : a[j] = a[k] => j = k
<1>1. IsFiniteSet(1..n)
  BY FS_Interval
<1>2. IsFiniteSet(S)
  BY <1>1, FS_Subset
<1>3. S \in SUBSET Int
  OBVIOUS
<1>. QED
  BY <1>2, <1>3, AscendingInOrder

(* What less comes first and, among equals, what stood first: positions    *)
(* ordered in this way. *)
LEMMA SortedOrders ==
    ASSUME NEW n \in Nat, NEW L,
           \A i, j \in 1..n : <<i, j>> \in L => <<j, i>> \notin L,
           \A i, j, k \in 1..n : <<i, j>> \in L /\ <<j, k>> \in L => <<i, k>> \in L,
           \A i, j, k \in 1..n : <<i, j>> \in L => <<i, k>> \in L \/ <<k, j>> \in L
    PROVE  /\ IsFiniteSet(1..n) /\ Cardinality(1..n) = n
           /\ Orders({p \in (1..n) \X (1..n) :
                         <<p[1], p[2]>> \in L \/ (<<p[2], p[1]>> \notin L /\ p[1] < p[2])}, 1..n)
<1>. DEFINE R == {p \in (1..n) \X (1..n) :
                     <<p[1], p[2]>> \in L \/ (<<p[2], p[1]>> \notin L /\ p[1] < p[2])}
<1>1. IsFiniteSet(1..n) /\ Cardinality(1..n) = n
  BY FS_Interval
<1>2. \A i, j \in 1..n : <<i, j>> \in R <=> <<i, j>> \in L \/ (<<j, i>> \notin L /\ i < j)
  OBVIOUS
<1>. HIDE DEF R
<1>3. \A i \in 1..n : <<i, i>> \notin R
  BY <1>2
<1>4. ASSUME NEW i \in 1..n, NEW j \in 1..n, i # j
      PROVE  <<i, j>> \in R \/ <<j, i>> \in R
  <2>1. i < j \/ j < i
    BY <1>4
  <2>. QED
    BY <1>2, <2>1
<1>5. ASSUME NEW i \in 1..n, NEW j \in 1..n, NEW k \in 1..n,
             <<i, j>> \in R, <<j, k>> \in R
      PROVE  <<i, k>> \in R
  <2>1. CASE <<i, j>> \in L
    <3>1. <<k, j>> \notin L
      BY <1>2, <1>5
    <3>. QED
      BY <1>2, <2>1, <3>1
  <2>2. CASE <<j, k>> \in L
    <3>1. <<j, i>> \notin L
      BY <1>2, <1>5
    <3>. QED
      BY <1>2, <2>2, <3>1
  <2>3. CASE <<i, j>> \notin L /\ <<j, k>> \notin L
    <3>1. /\ <<j, i>> \notin L /\ i < j
          /\ <<k, j>> \notin L /\ j < k
      BY <1>2, <1>5, <2>3
    <3>2. i < k
      BY <3>1
    <3>3. <<k, i>> \notin L
      BY <2>3, <3>1
    <3>. QED
      BY <1>2, <3>2, <3>3
  <2>. QED
    BY <2>1, <2>2, <2>3
<1>. QED
  BY <1>1, <1>3, <1>4, <1>5 DEF Orders, R

-----------------------------------------------------------------------------
(* Sequences of sequences, one after another.                              *)

(* What the first parts amount to exists: its definition has a solution. *)
LEMMA FlattenExists ==
    ASSUME NEW T, NEW ss \in Seq(Seq(T)), Len(ss) # 0
    PROVE  \E f \in [1..Len(ss) -> Seq(T)] :
              f = [i \in 1..Len(ss) |-> IF i = 1 THEN ss[i] ELSE f[i - 1] \o ss[i]]
<1>. DEFINE Upto(k) == \E f \in [1..k -> Seq(T)] :
                          \A i \in 1..k : f[i] = IF i = 1 THEN ss[i] ELSE f[i - 1] \o ss[i]
            S == {k \in Nat : k <= Len(ss) => Upto(k)}
<1>0. \A i \in 1..Len(ss) : ss[i] \in Seq(T)
  BY Members
<1>1. 0 \in S
  <2>. DEFINE f == [i \in 1..0 |-> <<>>]
  <2>1. f \in [1..0 -> Seq(T)] /\ \A i \in 1..0 : FALSE
    OBVIOUS
  <2>. HIDE DEF f
  <2>2. Upto(0)
    BY <2>1
  <2>. QED
    BY <2>2
<1>2. ASSUME NEW k \in S PROVE k + 1 \in S
  <2>. HIDE DEF Upto
  <2>1. k \in Nat /\ Len(ss) \in Nat
    BY <1>2
  <2>. SUFFICES ASSUME k + 1 <= Len(ss) PROVE Upto(k + 1)
    BY <2>1
  <2>2. Upto(k) /\ ss[k + 1] \in Seq(T)
    BY <1>0, <1>2, <2>1
  <2>. USE DEF Upto
  <2>3. PICK f \in [1..k -> Seq(T)] :
           \A i \in 1..k : f[i] = IF i = 1 THEN ss[i] ELSE f[i - 1] \o ss[i]
    BY <2>2
  <2>. DEFINE part == IF k = 0 THEN ss[k + 1] ELSE f[k] \o ss[k + 1]
              g == [i \in 1..(k + 1) |-> IF i = k + 1 THEN part ELSE f[i]]
  <2>4. part \in Seq(T)
    <3>1. CASE k = 0
      BY <2>2, <3>1
    <3>2. CASE k # 0
      <4>1. f[k] \in Seq(T)
        BY <2>1, <3>2
      <4>. QED
        BY <2>2, <3>2, <4>1
    <3>. QED
      BY <3>1, <3>2
  <2>. HIDE DEF part
  <2>5. g \in [1..(k + 1) -> Seq(T)]
    BY <2>1, <2>4
  <2>6. ASSUME NEW i \in 1..(k + 1)
        PROVE  g[i] = IF i = 1 THEN ss[i] ELSE g[i - 1] \o ss[i]
    <3>1. CASE i = k + 1
      <4>1. g[i] = part
        BY <2>1, <3>1
      <4>2. CASE k = 0
        BY <3>1, <4>1, <4>2 DEF part
      <4>3. CASE k # 0
        <5>1. i # 1 /\ i - 1 = k /\ g[i - 1] = f[k]
          BY <2>1, <3>1, <4>3
        <5>. QED
          BY <3>1, <4>1, <4>3, <5>1 DEF part
      <4>. QED
        BY <4>2, <4>3
    <3>2. CASE i \in 1..k
      <4>1. i # 1 => i - 1 \in 1..k
        BY <2>1, <3>2
      <4>2. i # k + 1 /\ (i # 1 => i - 1 # k + 1 /\ i - 1 \in 1..(k + 1))
        BY <2>1, <3>2
      <4>3. g[i] = f[i] /\ (i # 1 => g[i - 1] = f[i - 1])
        BY <4>2
      <4>. QED
        BY <2>3, <3>2, <4>3
    <3>. QED
      BY <2>1, <3>1, <3>2
  <2>. HIDE DEF g
  <2>. QED
    BY <2>5, <2>6
<1>3. S = Nat
  <2>1. S \in SUBSET Nat
    OBVIOUS
  <2>. HIDE DEF S
  <2>. QED
    BY <1>1, <1>2, <2>1, Induction
<1>. HIDE DEF S
<1>4. Upto(Len(ss))
  <2>. HIDE DEF Upto
  <2>1. Len(ss) \in S
    BY <1>3
  <2>. QED
    BY <2>1 DEF S
<1>5. PICK f \in [1..Len(ss) -> Seq(T)] :
         \A i \in 1..Len(ss) : f[i] = IF i = 1 THEN ss[i] ELSE f[i - 1] \o ss[i]
  BY <1>4
<1>6. f = [i \in 1..Len(ss) |-> IF i = 1 THEN ss[i] ELSE f[i - 1] \o ss[i]]
  BY <1>5
<1>. QED
  BY <1>6

(* The members of the parts, and only those, are the members of the whole. *)
LEMMA FlattenHoldsTheParts ==
    ASSUME NEW T, NEW ss \in Seq(Seq(T))
    PROVE  /\ FlattenSeq(ss) \in Seq(T)
           /\ \A i \in 1..Len(ss) : \A j \in 1..Len(ss[i]) :
                  \E n \in 1..Len(FlattenSeq(ss)) : FlattenSeq(ss)[n] = ss[i][j]
           /\ \A n \in 1..Len(FlattenSeq(ss)) :
                  \E i \in 1..Len(ss) : \E j \in 1..Len(ss[i]) : FlattenSeq(ss)[n] = ss[i][j]
<1>0. \A i \in 1..Len(ss) : ss[i] \in Seq(T)
  BY Members
<1>1. CASE Len(ss) = 0
  <2>1. FlattenSeq(ss) = <<>>
    BY <1>1 DEF FlattenSeq
  <2>2. 1..Len(ss) = {} /\ 1..Len(FlattenSeq(ss)) = {} /\ <<>> \in Seq(T)
    BY <1>1, <2>1
  <2>. QED
    BY <2>1, <2>2
<1>2. CASE Len(ss) # 0
  <2>. DEFINE n == Len(ss)
              Of(f) == f = [i \in 1..n |-> IF i = 1 THEN ss[i] ELSE f[i - 1] \o ss[i]]
              f == CHOOSE f : Of(f)
  <2>1. n \in Nat /\ n # 0 /\ FlattenSeq(ss) = f[n]
    BY <1>2 DEF FlattenSeq
  <2>2. Of(f)
    <3>1. \E g : Of(g)
      <4>1. PICK g \in [1..Len(ss) -> Seq(T)] :
               g = [i \in 1..Len(ss) |-> IF i = 1 THEN ss[i] ELSE g[i - 1] \o ss[i]]
        BY <1>2, FlattenExists, Zenon
      <4>2. Of(g)
        BY <4>1
      <4>. HIDE DEF Of
      <4>. QED
        BY <4>2
    <3>. HIDE DEF Of
    <3>. QED
      BY <3>1
  <2>. HIDE DEF f
  <2>3. \A i \in 1..n : f[i] = IF i = 1 THEN ss[i] ELSE f[i - 1] \o ss[i]
    BY <2>2
  <2>. HIDE DEF Of
  <2>. DEFINE Holds(k) ==
                /\ f[k] \in Seq(T)
                /\ \A i \in 1..k : \A j \in 1..Len(ss[i]) :
                       \E m \in 1..Len(f[k]) : f[k][m] = ss[i][j]
                /\ \A m \in 1..Len(f[k]) :
                       \E i \in 1..k : \E j \in 1..Len(ss[i]) : f[k][m] = ss[i][j]
              S == {k \in Nat : k \in 1..n => Holds(k)}
  <2>4. 0 \in S
    OBVIOUS
  <2>5. ASSUME NEW k \in S PROVE k + 1 \in S
    <3>. SUFFICES ASSUME k + 1 \in 1..n PROVE Holds(k + 1)
      BY <2>1
    <3>1. k \in Nat /\ ss[k + 1] \in Seq(T)
      BY <1>0, <2>5
    <3>2. CASE k = 0
      <4>1. f[k + 1] = ss[k + 1] /\ k + 1 = 1
        BY <2>3, <3>2
      <4>2. \A i \in 1..(k + 1) : i = k + 1
        BY <3>2
      <4>3. k + 1 \in 1..(k + 1)
        BY <3>1
      <4>. HIDE DEF n
      <4>. QED
        BY <3>1, <4>1, <4>2, <4>3
    <3>3. CASE k # 0
      <4>1. k \in 1..n /\ Holds(k)
        <5>1. k \in 1..n
          BY <2>1, <3>1, <3>3
        <5>. HIDE DEF Holds
        <5>. QED
          BY <2>5, <5>1
      <4>2. f[k + 1] = f[k] \o ss[k + 1]
        <5>1. k + 1 # 1 /\ (k + 1) - 1 = k
          BY <3>1, <3>3
        <5>. QED
          BY <2>3, <5>1
      <4>. DEFINE a == f[k]
                  b == ss[k + 1]
                  c == f[k + 1]
      <4>3. a \in Seq(T) /\ b \in Seq(T) /\ c = a \o b
        BY <3>1, <4>1, <4>2
      <4>. HIDE DEF a, b, c
      <4>4. /\ c \in Seq(T) /\ Len(c) = Len(a) + Len(b) /\ Len(a) \in Nat /\ Len(b) \in Nat
            /\ \A m \in 1..Len(a) : c[m] = a[m]
            /\ \A m \in 1..Len(b) : c[Len(a) + m] = b[m]
        BY <4>3
      <4>5. ASSUME NEW i \in 1..(k + 1), NEW j \in 1..Len(ss[i])
            PROVE  \E m \in 1..Len(c) : c[m] = ss[i][j]
        <5>1. CASE i = k + 1
          <6>1. j \in 1..Len(b) /\ b[j] = ss[i][j]
            BY <5>1 DEF b
          <6>2. Len(a) + j \in 1..Len(c) /\ c[Len(a) + j] = b[j]
            BY <4>4, <6>1
          <6>. QED
            BY <6>1, <6>2
        <5>2. CASE i \in 1..k
          <6>1. PICK m \in 1..Len(a) : a[m] = ss[i][j]
            BY <4>1, <5>2 DEF a
          <6>2. m \in 1..Len(c) /\ c[m] = a[m]
            BY <4>4
          <6>. QED
            BY <6>1, <6>2
        <5>. QED
          BY <3>1, <5>1, <5>2
      <4>6. ASSUME NEW m \in 1..Len(c)
            PROVE  \E i \in 1..(k + 1) : \E j \in 1..Len(ss[i]) : c[m] = ss[i][j]
        <5>1. CASE m \in 1..Len(a)
          <6>1. PICK i \in 1..k : \E j \in 1..Len(ss[i]) : a[m] = ss[i][j]
            BY <4>1, <5>1 DEF a
          <6>2. i \in 1..(k + 1) /\ c[m] = a[m]
            BY <3>1, <4>4, <5>1
          <6>. QED
            BY <6>1, <6>2
        <5>2. CASE m \notin 1..Len(a)
          <6>. DEFINE j == m - Len(a)
          <6>1. j \in 1..Len(b) /\ m = Len(a) + j
            BY <4>4, <5>2
          <6>. HIDE DEF j
          <6>2. c[m] = b[j]
            BY <4>4, <6>1
          <6>3. k + 1 \in 1..(k + 1)
            BY <3>1
          <6>. QED
            BY <6>1, <6>2, <6>3 DEF b
        <5>. QED
          BY <5>1, <5>2
      <4>. QED
        BY <4>4, <4>5, <4>6 DEF c
    <3>. QED
      BY <3>2, <3>3
  <2>6. S = Nat
    <3>1. S \in SUBSET Nat
      OBVIOUS
    <3>. HIDE DEF S
    <3>. QED
      BY <2>4, <2>5, <3>1, Induction
  <2>7. Holds(n)
    <3>1. n \in S /\ n \in 1..n
      BY <2>1, <2>6
    <3>. QED
      BY <3>1
  <2>. DEFINE whole == f[n]
  <2>8. /\ whole \in Seq(T)
        /\ \A i \in 1..n : \A j \in 1..Len(ss[i]) :
               \E m \in 1..Len(whole) : whole[m] = ss[i][j]
        /\ \A m \in 1..Len(whole) :
               \E i \in 1..n : \E j \in 1..Len(ss[i]) : whole[m] = ss[i][j]
    BY <2>7
  <2>9. whole = FlattenSeq(ss)
    BY <2>1
  <2>. HIDE DEF whole
  <2>. QED
    BY <2>8, <2>9
<1>. QED
  BY <1>1, <1>2

-----------------------------------------------------------------------------
(* Sums.                                                                   *)

(* The sums on the way exist: their definition has a solution. *)
LEMMA PartialSumsExist ==
    ASSUME NEW s \in Seq(Nat)
    PROVE  \E f \in [0..Len(s) -> Nat] :
              f = [n \in 0..Len(s) |-> IF n = 0 THEN 0 ELSE f[n - 1] + s[n]]
<1>. DEFINE Upto(k) == \E f \in [0..k -> Nat] :
                          \A n \in 0..k : f[n] = IF n = 0 THEN 0 ELSE f[n - 1] + s[n]
            S == {k \in Nat : k <= Len(s) => Upto(k)}
<1>1. 0 \in S
  <2>. DEFINE f == [n \in 0..0 |-> 0]
  <2>1. f \in [0..0 -> Nat] /\ f[0] = 0
    OBVIOUS
  <2>2. \A n \in 0..0 : n = 0
    OBVIOUS
  <2>. HIDE DEF f
  <2>3. Upto(0)
    BY <2>1, <2>2
  <2>. QED
    BY <2>3
<1>2. ASSUME NEW k \in S PROVE k + 1 \in S
  <2>. HIDE DEF Upto
  <2>1. k \in Nat /\ Len(s) \in Nat
    BY <1>2
  <2>. SUFFICES ASSUME k + 1 <= Len(s) PROVE Upto(k + 1)
    BY <2>1
  <2>5. Upto(k) /\ s[k + 1] \in Nat
    BY <1>2, <2>1
  <2>. USE DEF Upto
  <2>2. PICK f \in [0..k -> Nat] :
           \A n \in 0..k : f[n] = IF n = 0 THEN 0 ELSE f[n - 1] + s[n]
    BY <2>5
  <2>. DEFINE g == [n \in 0..(k + 1) |-> IF n = k + 1 THEN f[k] + s[k + 1] ELSE f[n]]
  <2>3. g \in [0..(k + 1) -> Nat]
    BY <2>1, <2>5
  <2>4. ASSUME NEW n \in 0..(k + 1)
        PROVE  g[n] = IF n = 0 THEN 0 ELSE g[n - 1] + s[n]
    <3>1. CASE n = k + 1
      BY <2>1, <2>2, <3>1
    <3>2. CASE n \in 0..k
      <4>1. n # 0 => n - 1 \in 0..k
        BY <2>1, <3>2
      <4>. QED
        BY <2>1, <2>2, <3>2, <4>1
    <3>. QED
      BY <2>1, <3>1, <3>2
  <2>. HIDE DEF g
  <2>. QED
    BY <2>3, <2>4
<1>3. S = Nat
  <2>1. S \in SUBSET Nat
    OBVIOUS
  <2>. HIDE DEF S
  <2>. QED
    BY <1>1, <1>2, <2>1, Induction
<1>. HIDE DEF S
<1>4. Upto(Len(s))
  <2>. HIDE DEF Upto
  <2>1. Len(s) \in S
    BY <1>3
  <2>. QED
    BY <2>1 DEF S
<1>5. PICK f \in [0..Len(s) -> Nat] :
           \A n \in 0..Len(s) : f[n] = IF n = 0 THEN 0 ELSE f[n - 1] + s[n]
  BY <1>4
<1>6. f = [n \in 0..Len(s) |-> IF n = 0 THEN 0 ELSE f[n - 1] + s[n]]
  BY <1>5
<1>. QED
  BY <1>6

(* Each sum on the way adds one number to the one before it. *)
LEMMA PartialSumsDef ==
    ASSUME NEW s \in Seq(Nat)
    PROVE  \A n \in 0..Len(s) :
              PartialSums(s)[n] = IF n = 0 THEN 0 ELSE PartialSums(s)[n - 1] + s[n]
<1>1. PICK f : f = [n \in 0..Len(s) |-> IF n = 0 THEN 0 ELSE f[n - 1] + s[n]]
  BY PartialSumsExist
<1>. DEFINE sum == PartialSums(s)
<1>2. sum = [n \in 0..Len(s) |-> IF n = 0 THEN 0 ELSE sum[n - 1] + s[n]]
  BY <1>1 DEF PartialSums
<1>. HIDE DEF sum
<1>3. \A n \in 0..Len(s) : sum[n] = IF n = 0 THEN 0 ELSE sum[n - 1] + s[n]
  BY <1>2
<1>. QED
  BY <1>3 DEF sum

(* The sums of natural numbers are natural numbers. *)
LEMMA SumsAreNumbers ==
    ASSUME NEW s \in Seq(Nat)
    PROVE  \A n \in 0..Len(s) : PartialSums(s)[n] \in Nat
<1>. DEFINE S == {n \in Nat : n <= Len(s) => PartialSums(s)[n] \in Nat}
<1>1. 0 \in S
  BY PartialSumsDef
<1>2. ASSUME NEW n \in S PROVE n + 1 \in S
  <2>. SUFFICES ASSUME n + 1 <= Len(s) PROVE PartialSums(s)[n + 1] \in Nat
    OBVIOUS
  <2>1. n \in 0..Len(s) /\ n + 1 \in 0..Len(s) /\ n + 1 # 0 /\ (n + 1) - 1 = n
    OBVIOUS
  <2>2. PartialSums(s)[n + 1] = PartialSums(s)[n] + s[n + 1]
    BY <2>1, PartialSumsDef
  <2>3. PartialSums(s)[n] \in Nat /\ s[n + 1] \in Nat
    BY <1>2
  <2>. QED
    BY <2>2, <2>3
<1>3. S = Nat
  <2>1. S \in SUBSET Nat
    OBVIOUS
  <2>. HIDE DEF S
  <2>. QED
    BY <1>1, <1>2, <2>1, Induction
<1>. QED
  BY <1>3

(* Numbers that agree up to n have the same sum up to n. *)
LEMMA PartialSumsAgree ==
    ASSUME NEW s \in Seq(Nat), NEW t \in Seq(Nat), Len(s) <= Len(t),
           \A i \in 1..Len(s) : s[i] = t[i]
    PROVE  \A n \in 0..Len(s) : PartialSums(s)[n] = PartialSums(t)[n]
<1>. DEFINE S == {n \in Nat : n <= Len(s) => PartialSums(s)[n] = PartialSums(t)[n]}
<1>1. 0 \in S
  BY PartialSumsDef
<1>2. ASSUME NEW n \in S PROVE n + 1 \in S
  <2>. SUFFICES ASSUME n + 1 <= Len(s) PROVE PartialSums(s)[n + 1] = PartialSums(t)[n + 1]
    OBVIOUS
  <2>1. /\ n + 1 \in 0..Len(s) /\ n + 1 \in 0..Len(t) /\ n + 1 # 0 /\ (n + 1) - 1 = n
        /\ n + 1 \in 1..Len(s)
    OBVIOUS
  <2>2. PartialSums(s)[n + 1] = PartialSums(s)[n] + s[n + 1]
    BY <2>1, PartialSumsDef
  <2>3. PartialSums(t)[n + 1] = PartialSums(t)[n] + t[n + 1]
    BY <2>1, PartialSumsDef
  <2>. QED
    BY <1>2, <2>1, <2>2, <2>3
<1>3. S = Nat
  <2>1. S \in SUBSET Nat
    OBVIOUS
  <2>. HIDE DEF S
  <2>. QED
    BY <1>1, <1>2, <2>1, Induction
<1>. QED
  BY <1>3

(* One more number adds itself. *)
LEMMA SumOfAppend ==
    ASSUME NEW s \in Seq(Nat), NEW x \in Nat
    PROVE  SumOf(s) \in Nat /\ SumOf(Append(s, x)) = SumOf(s) + x
<1>. DEFINE t == Append(s, x)
<1>1. /\ t \in Seq(Nat) /\ Len(t) = Len(s) + 1 /\ t[Len(s) + 1] = x
      /\ \A i \in 1..Len(s) : t[i] = s[i]
  OBVIOUS
<1>. HIDE DEF t
<1>2. PartialSums(t)[Len(s) + 1] = PartialSums(t)[Len(s)] + x
  <2>1. Len(s) + 1 \in 0..Len(t) /\ Len(s) + 1 # 0 /\ (Len(s) + 1) - 1 = Len(s)
    BY <1>1
  <2>. QED
    BY <1>1, <2>1, PartialSumsDef
<1>3. PartialSums(t)[Len(s)] = PartialSums(s)[Len(s)]
  BY <1>1, PartialSumsAgree
<1>4. SumOf(s) \in Nat
  BY SumsAreNumbers DEF SumOf
<1>. QED
  BY <1>1, <1>2, <1>3, <1>4 DEF SumOf, t

(* Nothing has the sum 0. *)
LEMMA SumOfNothing ==
    ASSUME NEW s \in Seq(Nat), Len(s) = 0
    PROVE  SumOf(s) = 0
<1>1. 0 \in 0..Len(s)
  OBVIOUS
<1>2. PartialSums(s)[0] = 0
  BY <1>1, PartialSumsDef
<1>. QED
  BY <1>2 DEF SumOf

(* One number is its own sum. *)
LEMMA SumOfOne ==
    ASSUME NEW s \in Seq(Nat), Len(s) = 1
    PROVE  SumOf(s) = s[1]
<1>1. 0 \in 0..Len(s) /\ 1 \in 0..Len(s) /\ 1 # 0 /\ 1 - 1 = 0 /\ s[1] \in Nat
  <2>1. \A i \in 1..Len(s) : s[i] \in Nat
    BY Members
  <2>. QED
    BY <2>1
<1>2. PartialSums(s)[0] = 0 /\ PartialSums(s)[1] = PartialSums(s)[1 - 1] + s[1]
  BY <1>1, PartialSumsDef
<1>. QED
  BY <1>1, <1>2 DEF SumOf

(* A sum on the way, and the next number, are within the whole sum. *)
LEMMA SumsAreWithin ==
    ASSUME NEW s \in Seq(Nat)
    PROVE  \A n \in 0..Len(s) : PartialSums(s)[n] <= SumOf(s)
<1>. DEFINE S == {m \in Nat : m <= Len(s) => PartialSums(s)[Len(s) - m] <= SumOf(s)}
<1>1. 0 \in S
  <2>1. SumOf(s) \in Nat /\ Len(s) - 0 = Len(s)
    BY SumsAreNumbers DEF SumOf
  <2>. QED
    BY <2>1 DEF SumOf
<1>2. ASSUME NEW m \in S PROVE m + 1 \in S
  <2>. SUFFICES ASSUME m + 1 <= Len(s)
                PROVE  PartialSums(s)[Len(s) - (m + 1)] <= SumOf(s)
    OBVIOUS
  <2>. DEFINE k == Len(s) - m
  <2>1. /\ k \in 0..Len(s) /\ k # 0 /\ k - 1 \in 0..Len(s) /\ k \in 1..Len(s)
        /\ Len(s) - (m + 1) = k - 1
    OBVIOUS
  <2>2. PartialSums(s)[k] <= SumOf(s)
    BY <1>2
  <2>. HIDE DEF k
  <2>3. PartialSums(s)[k] = PartialSums(s)[k - 1] + s[k]
    BY <2>1, PartialSumsDef
  <2>4. /\ PartialSums(s)[k] \in Nat /\ PartialSums(s)[k - 1] \in Nat /\ s[k] \in Nat
        /\ SumOf(s) \in Nat
    BY <2>1, SumsAreNumbers DEF SumOf
  <2>5. ASSUME NEW a \in Nat, NEW b \in Nat, NEW c \in Nat, NEW d \in Nat,
               a = b + c, a <= d
        PROVE  b <= d
    BY <2>5
  <2>6. PartialSums(s)[k - 1] <= SumOf(s)
    BY <2>2, <2>3, <2>4, <2>5
  <2>. QED
    BY <2>1, <2>6
<1>3. S = Nat
  <2>1. S \in SUBSET Nat
    OBVIOUS
  <2>. HIDE DEF S
  <2>. QED
    BY <1>1, <1>2, <2>1, Induction
<1>4. ASSUME NEW n \in 0..Len(s) PROVE PartialSums(s)[n] <= SumOf(s)
  <2>. DEFINE m == Len(s) - n
  <2>1. m \in Nat /\ m <= Len(s) /\ Len(s) - m = n
    OBVIOUS
  <2>. HIDE DEF m
  <2>2. m \in S
    BY <1>3, <2>1
  <2>. QED
    BY <2>1, <2>2
<1>. QED
  BY <1>4
=============================================================================
