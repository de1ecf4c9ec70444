------------------------------- MODULE Lists -------------------------------
(***************************************************************************)
(* Array.prototype.filter, and a Map that loses entries: the elements of a *)
(* sequence at some of its positions, in their order; and what it returns. *)
(* Then what the proofs use of the numbers that index a sequence:          *)
(* induction, stated of sets, and that a loop which makes each value from  *)
(* the one before defines a function.                                      *)
(***************************************************************************)
EXTENDS Naturals, Integers, Sequences, FiniteSets, FiniteSetTheorems, WellFoundedInduction, TLAPS

\* The place a position of K has among K's positions.
Place(K, i) == Cardinality({x \in K : x <= i})

\* The elements of s at the positions K, in order.
Kept(s, K) == [j \in 1..Cardinality(K) |-> s[CHOOSE i \in K : Place(K, i) = j]]

\* The places of K's positions are exactly 1 to the size of K.
LEMMA Places ==
    ASSUME NEW n \in Nat, NEW K \in SUBSET (1..n)
    PROVE  /\ IsFiniteSet(K) /\ Cardinality(K) \in Nat /\ Cardinality(K) <= n
           /\ K # 1..n => Cardinality(K) < n
           /\ \A i \in K : Place(K, i) \in 1..Cardinality(K)
           /\ \A i, j \in K : Place(K, i) = Place(K, j) => i = j
           /\ \A p \in 1..Cardinality(K) : \E i \in K : Place(K, i) = p
<1>1. IsFiniteSet(1..n) /\ Cardinality(1..n) = n
  BY FS_Interval
<1>2. IsFiniteSet(K) /\ Cardinality(K) <= n /\ (K # 1..n => Cardinality(K) # n)
  BY <1>1, FS_Subset
<1>3. Cardinality(K) \in Nat
  BY <1>2, FS_CardinalityType
<1> DEFINE upTo(i) == {x \in K : x <= i}
<1>4. ASSUME NEW i \in K
      PROVE  IsFiniteSet(upTo(i)) /\ Cardinality(upTo(i)) \in Nat
             /\ Cardinality(upTo(i)) # 0 /\ Cardinality(upTo(i)) <= Cardinality(K)
  <2>1. upTo(i) \in SUBSET K /\ i \in upTo(i)
    OBVIOUS
  <2>2. IsFiniteSet(upTo(i)) /\ Cardinality(upTo(i)) <= Cardinality(K)
    BY <1>2, <2>1, FS_Subset
  <2>3. Cardinality(upTo(i)) \in Nat
    BY <2>2, FS_CardinalityType
  <2>4. Cardinality(upTo(i)) # 0
    BY <2>1, <2>2, FS_EmptySet
  <2> QED
    BY <2>2, <2>3, <2>4
<1>5. \A i \in K : Place(K, i) \in 1..Cardinality(K)
  BY <1>3, <1>4 DEF Place
<1>6. ASSUME NEW i \in K, NEW j \in K, i < j PROVE Place(K, i) # Place(K, j)
  <2>1. upTo(i) \in SUBSET upTo(j) /\ upTo(i) # upTo(j)
    <3>1. i \in Int /\ j \in Int /\ \A x \in K : x \in Int
      OBVIOUS
    <3>2. \A x \in upTo(i) : x \in upTo(j)
      BY <1>6, <3>1
    <3>3. j \in upTo(j) /\ j \notin upTo(i)
      BY <1>6, <3>1
    <3> QED
      BY <3>2, <3>3
  <2> QED
    BY <1>4, <2>1, FS_Subset DEF Place
<1>7. \A i, j \in K : Place(K, i) = Place(K, j) => i = j
  BY <1>6
<1>8. \A p \in 1..Cardinality(K) : \E i \in K : Place(K, i) = p
  <2> DEFINE f == [i \in K |-> Place(K, i)]
  <2>1. f \in Injection(K, 1..Cardinality(K))
    BY <1>5, <1>7 DEF Injection, IsInjective
  <2>2. IsFiniteSet(1..Cardinality(K)) /\ Cardinality(1..Cardinality(K)) = Cardinality(K)
    BY <1>3, FS_Interval
  <2>3. f \in Surjection(K, 1..Cardinality(K))
    BY <2>1, <2>2, FS_Injection
  <2> QED
    BY <2>3 DEF Surjection
<1> QED
  BY <1>1, <1>2, <1>3, <1>5, <1>7, <1>8

\* What is kept is a sequence of exactly the elements at those positions, shorter than
\* the original when a position is left out.
LEMMA KeptElements ==
    ASSUME NEW S, NEW s \in Seq(S), NEW K \in SUBSET DOMAIN s
    PROVE  /\ Kept(s, K) \in Seq(S)
           /\ Len(Kept(s, K)) <= Len(s)
           /\ K # DOMAIN s => Len(Kept(s, K)) < Len(s)
           /\ \A j \in DOMAIN Kept(s, K) : \E i \in K : Kept(s, K)[j] = s[i]
           /\ \A i \in K : \E j \in DOMAIN Kept(s, K) : Kept(s, K)[j] = s[i]
<1> DEFINE at(j) == CHOOSE i \in K : Place(K, i) = j
           c == Cardinality(K)
<1>1. Len(s) \in Nat /\ DOMAIN s = 1..Len(s) /\ K \in SUBSET (1..Len(s))
  OBVIOUS
<1>2. /\ c \in Nat /\ c <= Len(s)
      /\ K # DOMAIN s => c < Len(s)
      /\ \A i \in K : Place(K, i) \in 1..c
      /\ \A i, j \in K : Place(K, i) = Place(K, j) => i = j
      /\ \A p \in 1..c : \E i \in K : Place(K, i) = p
  BY <1>1, Places
<1>3. \A p \in 1..c : at(p) \in K /\ Place(K, at(p)) = p
  BY <1>2
<1>4. \A i \in K : at(Place(K, i)) = i
  BY <1>2, <1>3
<1>5. Kept(s, K) = [j \in 1..c |-> s[at(j)]]
  BY DEF Kept
<1> HIDE DEF at, c
<1>6. \A j \in 1..c : s[at(j)] \in S
  BY <1>1, <1>3
<1>7. Kept(s, K) \in Seq(S) /\ Len(Kept(s, K)) = c /\ DOMAIN Kept(s, K) = 1..c
  BY <1>2, <1>5, <1>6
<1>8. \A j \in 1..c : Kept(s, K)[j] = s[at(j)]
  BY <1>5
<1>9. \A i \in K : Place(K, i) \in 1..c /\ Kept(s, K)[Place(K, i)] = s[i]
  BY <1>2, <1>4, <1>8
<1> QED
  BY <1>2, <1>3, <1>7, <1>8, <1>9

-----------------------------------------------------------------------------
\* A set of numbers that is not empty has a least one.
LEMMA LeastNumber ==
    ASSUME NEW S \in SUBSET Nat, S # {} PROVE \E n \in S : \A m \in S : n <= m
<1>1. PICK n \in S : \A m \in S : <<m, n>> \notin OpToRel(<, Nat)
  BY WFMin, NatLessThanWellFounded
<1>2. \A m \in S : ~(m < n)
  BY <1>1 DEF OpToRel
<1> QED
  BY <1>2

\* Induction: a set that has 0, and with a number the next one, has all of them.
LEMMA Induction ==
    ASSUME NEW S \in SUBSET Nat, 0 \in S, \A n \in S : n + 1 \in S PROVE S = Nat
<1> SUFFICES ASSUME Nat \ S # {} PROVE FALSE
  OBVIOUS
<1> DEFINE T == Nat \ S
<1>1. T \in SUBSET Nat /\ T # {}
  OBVIOUS
<1>2. PICK n \in T : \A m \in T : n <= m
  <2> HIDE DEF T
  <2> QED
    BY <1>1, LeastNumber
<1>3. n # 0 /\ n - 1 \in Nat
  BY <1>2
<1>4. n - 1 \in S
  BY <1>2, <1>3
<1> QED
  BY <1>2, <1>3, <1>4

\* A loop of n rounds, round i making a value of S from the one before by F[i]; and f, the
\* values it has made from a after each round.
Rounds(n, S) == [1..n -> [S -> S]]
Makes(f, n, S, F, a) == f \in [0..n -> S] /\ f[0] = a /\ \A i \in 1..n : f[i] = F[i][f[i - 1]]

\* Every loop makes something.
LEMMA Loop ==
    ASSUME NEW n \in Nat, NEW S, NEW F \in Rounds(n, S), NEW a \in S PROVE \E f : Makes(f, n, S, F, a)
<1> DEFINE N == {m \in Nat : m <= n => \E g : Makes(g, m, S, F, a)}
<1>1. 0 \in N
  <2> DEFINE g == [i \in 0..0 |-> a]
  <2>1. g \in [0..0 -> S] /\ g[0] = a
    OBVIOUS
  <2>2. \A i \in 1..0 : FALSE
    OBVIOUS
  <2> HIDE DEF g
  <2>3. Makes(g, 0, S, F, a)
    BY <2>1, <2>2 DEF Makes
  <2> QED
    BY <2>3
<1>2. ASSUME NEW m \in N, m + 1 <= n PROVE \E h : Makes(h, m + 1, S, F, a)
  <2>1. m \in Nat /\ m <= n /\ m + 1 \in 1..n
    BY <1>2
  <2>2. PICK g : Makes(g, m, S, F, a)
    BY <2>1
  <2> DEFINE h == [i \in 0..m + 1 |-> IF i <= m THEN g[i] ELSE F[m + 1][g[m]]]
  <2>3. g[m] \in S /\ F[m + 1][g[m]] \in S
    BY <2>1, <2>2 DEF Makes, Rounds
  <2>4. h \in [0..m + 1 -> S] /\ h[0] = a
    BY <2>1, <2>2, <2>3 DEF Makes
  <2>5. \A i \in 1..m + 1 : h[i] = F[i][h[i - 1]]
    BY <2>1, <2>2, <2>3 DEF Makes
  <2> HIDE DEF h
  <2>6. Makes(h, m + 1, S, F, a)
    BY <2>4, <2>5 DEF Makes
  <2> QED
    BY <2>6
<1>3. N \in SUBSET Nat /\ \A m \in N : m + 1 \in N
  BY <1>2
<1>4. N = Nat
  <2> HIDE DEF N
  <2> QED
    BY <1>1, <1>3, Induction
<1>5. n <= n
  OBVIOUS
<1> QED
  BY <1>4, <1>5

-----------------------------------------------------------------------------
\* Two sequences of the same elements are one.
LEMMA SameSeq ==
    ASSUME NEW S, NEW s \in Seq(S), NEW t \in Seq(S), Len(s) = Len(t), \A i \in 1..Len(s) : s[i] = t[i]
    PROVE  s = t
  OBVIOUS

\* What Append adds, and that taking it off again leaves the sequence.
LEMMA Appended ==
    ASSUME NEW S, NEW s \in Seq(S), NEW x \in S
    PROVE  /\ Append(s, x) \in Seq(S) /\ Append(s, x) # <<>>
           /\ Len(Append(s, x)) = Len(s) + 1 /\ Len(s) \in Nat
           /\ SubSeq(Append(s, x), 1, Len(s)) = s
<1>1. /\ Append(s, x) \in Seq(S) /\ Len(Append(s, x)) = Len(s) + 1 /\ Len(s) \in Nat
      /\ \A i \in 1..Len(s) : Append(s, x)[i] = s[i]
  OBVIOUS
<1>2. PICK t \in Seq(S) : t = Append(s, x)
  BY <1>1
<1>3. /\ SubSeq(t, 1, Len(s)) \in Seq(S) /\ Len(SubSeq(t, 1, Len(s))) = Len(s)
      /\ \A i \in 1..Len(s) : SubSeq(t, 1, Len(s))[i] = s[i]
  BY <1>1, <1>2
<1>4. SubSeq(t, 1, Len(s)) = s
  BY <1>3, SameSeq
<1> QED
  BY <1>1, <1>2, <1>4

\* When a sequence has one element only.
LEMMA OneElement ==
    ASSUME NEW S, NEW s \in Seq(S), NEW x \in S PROVE s = <<x>> <=> Len(s) = 1 /\ s[1] = x
<1>1. <<x>> \in Seq(S) /\ Len(<<x>>) = 1 /\ <<x>>[1] = x
  OBVIOUS
<1>2. ASSUME Len(s) = 1, s[1] = x PROVE s = <<x>>
  BY <1>1, <1>2, SameSeq
<1> QED
  BY <1>1, <1>2
=============================================================================
