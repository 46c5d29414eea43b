---------------------------- MODULE OrderLemmas -----------------------------
(***************************************************************************)
(* Facts about sets of naturals and about ordering a finite set by a key,  *)
(* which the proofs about MariaMigrate, MongoMigrate and Notifications     *)
(* share: first and newest files, and the sequences that up(), down() and  *)
(* baseline() work through.                                                *)
(***************************************************************************)
EXTENDS Integers, Sequences, FiniteSets, TLAPS, FiniteSetTheorems,
        WellFoundedInduction

(* The library's less-than relation on the naturals.                       *)
LEMMA LessRelation ==
  ASSUME NEW x \in Nat, NEW y \in Nat, x < y
  PROVE  <<x, y>> \in OpToRel(<, Nat)
<1>1. /\ <<x, y>> \in Nat \X Nat
      /\ <<x, y>>[1] < <<x, y>>[2]
  OBVIOUS
<1> QED  BY <1>1, Zenon DEF OpToRel

(* A nonempty set of naturals has a least element: the induction that the  *)
(* proofs use.                                                             *)
LEMMA NatMinimum ==
  ASSUME NEW S, S \subseteq Nat, S # {}
  PROVE  \E x \in S : \A y \in S : x <= y
<1>1. PICK x \in S : \A y \in S : ~(<<y, x>> \in OpToRel(<, Nat))
  BY WFMin, NatLessThanWellFounded, Zenon
<1>2. \A y \in S : ~(y < x)
  BY <1>1, LessRelation
<1> QED  BY <1>2

(* A nonempty set of naturals with a bound has a greatest element.         *)
LEMMA NatMaximum ==
  ASSUME NEW S, S \subseteq Nat, S # {}, NEW n \in Nat, \A x \in S : x <= n
  PROVE  \E x \in S : \A y \in S : y <= x
<1> DEFINE T == {n - x : x \in S}
<1>1. T \subseteq Nat /\ T # {}
  <2>1. \A x \in S : n - x \in Nat
    OBVIOUS
  <2>2. PICK x \in S : n - x \in T
    OBVIOUS
  <2> QED  BY <2>1, <2>2
<1>2. PICK t \in T : \A u \in T : t <= u
  BY <1>1, NatMinimum
<1>3. PICK m \in S : t = n - m
  BY <1>2
<1>4. \A y \in S : n - m <= n - y
  BY <1>2, <1>3
<1>5. \A y \in S : y <= m
  BY <1>4
<1> QED  BY <1>5

-----------------------------------------------------------------------------
(* Ordering a finite set by an injective key: the element with k smaller   *)
(* ones comes at place k + 1.                                              *)

IsKey(S, key) ==
  key \in [S -> Int] /\ \A f, g \in S : key[f] = key[g] => f = g

Rank(S, key, f) == Cardinality({g \in S : key[g] < key[f]})

IsByRank(S, key, q) ==
  /\ q \in [1..Cardinality(S) -> S]
  /\ \A i \in 1..Cardinality(S) : Rank(S, key, q[i]) = i - 1

LEMMA RankFacts ==
  ASSUME NEW S, NEW key, IsFiniteSet(S), IsKey(S, key)
  PROVE  /\ \A f \in S : Rank(S, key, f) \in 0..Cardinality(S) - 1
         /\ \A f, g \in S :
              key[f] < key[g] => Rank(S, key, f) < Rank(S, key, g)
         /\ \A k \in 0..Cardinality(S) - 1 : \E f \in S : Rank(S, key, f) = k
<1> DEFINE n == Cardinality(S)
           Below(f) == {g \in S : key[g] < key[f]}
           T == 0..n - 1
<1>0. n \in Nat
  BY FS_CardinalityType
<1>k. /\ key \in [S -> Int]
      /\ \A f, g \in S : key[f] = key[g] => f = g
  BY DEF IsKey
<1>1. ASSUME NEW A \in SUBSET S, NEW B \in SUBSET A, NEW x \in A, x \notin B
      PROVE  Cardinality(B) \in Nat /\ Cardinality(B) < Cardinality(A)
  <2>1. IsFiniteSet(A) /\ IsFiniteSet(B)
    BY FS_Subset
  <2>2. /\ Cardinality(A) \in Nat /\ Cardinality(B) \in Nat
        /\ Cardinality(B) <= Cardinality(A)
        /\ Cardinality(B) # Cardinality(A)
    BY <1>1, <2>1, FS_Subset, FS_CardinalityType
  <2> QED  BY <2>2
<1>2. ASSUME NEW f \in S
      PROVE  Rank(S, key, f) \in T
  <2>1. Below(f) \in SUBSET S /\ f \notin Below(f)
    BY <1>k
  <2>2. Cardinality(Below(f)) \in Nat /\ Cardinality(Below(f)) < n
    BY <1>1, <2>1
  <2> QED  BY <1>0, <2>2 DEF Rank
<1>3. ASSUME NEW f \in S, NEW g \in S, key[f] < key[g]
      PROVE  Rank(S, key, f) < Rank(S, key, g)
  <2>1. /\ Below(g) \in SUBSET S /\ Below(f) \in SUBSET Below(g)
        /\ f \in Below(g) /\ f \notin Below(f)
    BY <1>3, <1>k
  <2>2. Cardinality(Below(f)) < Cardinality(Below(g))
    BY <1>1, <2>1
  <2> QED  BY <2>2 DEF Rank
<1> DEFINE rank == [f \in S |-> Rank(S, key, f)]
<1>4. rank \in Injection(S, T)
  <2>1. rank \in [S -> T]
    BY <1>2
  <2>2. ASSUME NEW f \in S, NEW g \in S, rank[f] = rank[g]
        PROVE  f = g
    <3>1. ~(key[f] < key[g]) /\ ~(key[g] < key[f])
      BY <1>2, <1>3, <2>2
    <3> QED  BY <3>1, <1>k
  <2> QED  BY <2>1, <2>2 DEF Injection, IsInjective
<1>5. IsFiniteSet(T) /\ Cardinality(T) = n
  BY <1>0, FS_Interval
<1>6. rank \in Surjection(S, T)
  BY <1>4, <1>5, FS_Injection
<1>7. \A k \in T : \E f \in S : Rank(S, key, f) = k
  BY <1>6 DEF Surjection
<1> QED  BY <1>2, <1>3, <1>7

(* The sequence of the elements by rank has each once, by rising keys.     *)
LEMMA RankedFacts ==
  ASSUME NEW S, NEW key, NEW q,
         IsFiniteSet(S), IsKey(S, key), IsByRank(S, key, q)
  PROVE  /\ q \in Seq(S)
         /\ Len(q) = Cardinality(S)
         /\ \A f \in S : \E i \in 1..Cardinality(S) : q[i] = f
         /\ \A i, j \in 1..Cardinality(S) : i < j => key[q[i]] < key[q[j]]
<1> DEFINE n == Cardinality(S)
<1>0. n \in Nat
  BY FS_CardinalityType
<1>k. /\ key \in [S -> Int]
      /\ \A f, g \in S : key[f] = key[g] => f = g
  BY DEF IsKey
<1>1. \A i \in 1..n : q[i] \in S /\ Rank(S, key, q[i]) = i - 1
  BY DEF IsByRank
<1>2. q \in Seq(S) /\ Len(q) = n
  BY <1>0 DEF IsByRank
<1>3. ASSUME NEW f \in S, NEW g \in S, Rank(S, key, f) = Rank(S, key, g)
      PROVE  f = g
  <2>1. ~(key[f] < key[g]) /\ ~(key[g] < key[f])
    BY <1>3, RankFacts, <1>0
  <2> QED  BY <2>1, <1>k
<1>4. ASSUME NEW f \in S
      PROVE  \E i \in 1..n : q[i] = f
  <2>1. Rank(S, key, f) \in 0..n - 1
    BY RankFacts
  <2>2. /\ Rank(S, key, f) + 1 \in 1..n
        /\ (Rank(S, key, f) + 1) - 1 = Rank(S, key, f)
    BY <1>0, <2>1
  <2> QED  BY <1>1, <1>3, <2>2
<1>5. ASSUME NEW i \in 1..n, NEW j \in 1..n, i < j
      PROVE  key[q[i]] < key[q[j]]
  <2>1. /\ q[i] \in S /\ q[j] \in S
        /\ Rank(S, key, q[i]) < Rank(S, key, q[j])
        /\ Rank(S, key, q[i]) \in Int /\ Rank(S, key, q[j]) \in Int
    BY <1>0, <1>1, <1>5
  <2>2. ~(key[q[j]] < key[q[i]])
    BY <2>1, RankFacts
  <2>3. key[q[i]] # key[q[j]]
    BY <2>1, <1>k
  <2> QED  BY <2>1, <2>2, <2>3, <1>k
<1> QED  BY <1>0, <1>2, <1>4, <1>5
=============================================================================
