----------------------------- MODULE OrderLemmas -----------------------------
(***************************************************************************)
(* Facts several proofs share. On orders: a set of naturals has a minimum, *)
(* a finite set has a last element, and what the earliest month with a     *)
(* trace is, the anchor of the bill list and of the scheduler. On sums     *)
(* over a finite set: what the recursion of the library computes, and a    *)
(* way to prove a claim of every subset without induction over data.       *)
(***************************************************************************)
EXTENDS Integers, FiniteSets, FiniteSetsExt, FiniteSetTheorems, WellFoundedInduction, TLAPS

(***************************************************************************)
(* The minimum of a non-empty set of naturals.                             *)
(***************************************************************************)
LEMMA MinOfNat ==
  ASSUME NEW S \in SUBSET Nat, NEW x \in S
  PROVE  Min(S) \in S /\ Min(S) <= x
<1>1. PICK y \in S : \A z \in S : <<z, y>> \notin OpToRel(<, Nat)
  BY NatLessThanWellFounded, WFMin
<1>2. \A z \in S : y <= z
  <2> SUFFICES ASSUME NEW z \in S, z < y PROVE FALSE
    OBVIOUS
  <2>1. <<z, y>> \in Nat \X Nat /\ <<z, y>>[1] < <<z, y>>[2]
    OBVIOUS
  <2>2. <<z, y>> \in {ss \in Nat \X Nat : ss[1] < ss[2]}
    BY <2>1
  <2>3. QED
    BY <2>2, <1>1 DEF OpToRel
<1>3. QED
  BY <1>2 DEF Min

\* The anchor, beyond the last month if there is no trace.
LEMMA EarliestTrace ==
  ASSUME NEW n \in Nat \ {0}, NEW S \in SUBSET 1..n
  PROVE  /\ Min(S \cup {n}) \in 1..n
         /\ \A m \in S : Min(S \cup {n}) <= m
<1>1. S \cup {n} \in SUBSET Nat
  OBVIOUS
<1>2. Min(S \cup {n}) \in S \cup {n}
  BY <1>1, MinOfNat
<1>3. \A m \in S : Min(S \cup {n}) <= m
  BY <1>1, MinOfNat
<1>4. S \cup {n} \subseteq 1..n
  OBVIOUS
<1>5. QED
  BY <1>2, <1>3, <1>4

\* A finite set that is not empty has a last element under a total order R:
\* else take a smallest set without one, and remove an element.
LEMMA LastExists ==
  ASSUME NEW S, IsFiniteSet(S), S # {}, NEW R,
         \A x, y \in S : x = y \/ <<x, y>> \in R \/ <<y, x>> \in R,
         \A x, y, z \in S : <<x, y>> \in R /\ <<y, z>> \in R => <<x, z>> \in R
  PROVE  \E x \in S : \A y \in S : y = x \/ <<y, x>> \in R
<1> DEFINE HasLast(T) == \E x \in T : \A y \in T : y = x \/ <<y, x>> \in R
           Sizes == {k \in Nat : \E T \in SUBSET S : T # {} /\ ~HasLast(T) /\ Cardinality(T) = k}
<1> SUFFICES ASSUME ~HasLast(S) PROVE FALSE
  OBVIOUS
<1>1. Cardinality(S) \in Sizes
  BY FS_CardinalityType
<1>2. PICK k \in Sizes : \A j \in Sizes : <<j, k>> \notin OpToRel(<, Nat)
  <2>1. Sizes \subseteq Nat /\ Sizes # {}
    BY <1>1
  <2> HIDE DEF Sizes
  <2>2. QED
    BY <2>1, NatLessThanWellFounded, WFMin
<1>3. PICK T \in SUBSET S : T # {} /\ ~HasLast(T) /\ Cardinality(T) = k
  OBVIOUS
<1>4. PICK x \in T : TRUE
  BY <1>3
<1>5. IsFiniteSet(T) /\ IsFiniteSet(T \ {x}) /\ Cardinality(T \ {x}) = k - 1 /\ k \in Nat
  BY <1>3, <1>4, FS_Subset, FS_RemoveElement
<1>6. T \ {x} # {}
  BY <1>3, <1>4
<1>7. HasLast(T \ {x})
  <2> SUFFICES ASSUME ~HasLast(T \ {x}) PROVE FALSE
    OBVIOUS
  <2>1. k - 1 \in Nat
    BY <1>5, FS_CardinalityType
  <2>2. k - 1 \in Sizes
    BY <1>5, <1>6, <2>1
  <2>3. <<k - 1, k>> \in Nat \X Nat /\ <<k - 1, k>>[1] < <<k - 1, k>>[2]
    BY <2>1, <1>5
  <2>4. <<k - 1, k>> \in {ss \in Nat \X Nat : ss[1] < ss[2]}
    BY <2>3
  <2>5. QED
    BY <2>2, <2>4, <1>2 DEF OpToRel
<1>8. PICK z \in T \ {x} : \A y \in T \ {x} : y = z \/ <<y, z>> \in R
  BY <1>7
<1>9. x \in S /\ z \in S /\ \A y \in T : y \in S
  BY <1>4, <1>8
<1>10. CASE <<z, x>> \in R
  <2>1. \A y \in T : y = x \/ <<y, x>> \in R
    BY <1>8, <1>9, <1>10
  <2>2. QED
    BY <1>3, <1>4, <2>1
<1>11. CASE <<x, z>> \in R
  <2>1. \A y \in T : y = z \/ <<y, z>> \in R
    BY <1>8, <1>11
  <2>2. QED
    BY <1>3, <1>8, <2>1
<1>12. QED
  BY <1>8, <1>9, <1>10, <1>11

-----------------------------------------------------------------------------
(* Sums over a finite set: MapThenSumSet walks the set by a recursive      *)
(* function, which exists because a smallest set it could not reach would  *)
(* have one element more than a set it does.                               *)

Picked(s) == CHOOSE x \in s : TRUE

Table(f, S) ==
  CHOOSE g : g = [s \in SUBSET S |-> IF s = {} THEN 0 ELSE f[Picked(s)] + g[s \ {Picked(s)}]]

SumOver(f, S) == MapThenSumSet(LAMBDA u : f[u], S)

LEMMA SumIsTable ==
  ASSUME NEW f, NEW S
  PROVE  SumOver(f, S) = Table(f, S)[S]
  BY DEF SumOver, MapThenSumSet, MapThenFoldSet, Table, Picked

LEMMA PickedIn ==
  ASSUME NEW s, s # {}
  PROVE  Picked(s) \in s
  BY DEF Picked

LEMMA TableExists ==
  ASSUME NEW f, NEW S, IsFiniteSet(S)
  PROVE  \A s \in SUBSET S :
           Table(f, S)[s] = IF s = {} THEN 0 ELSE f[Picked(s)] + Table(f, S)[s \ {Picked(s)}]
<1> DEFINE Sum(g, s) == IF s = {} THEN 0 ELSE f[Picked(s)] + g[s \ {Picked(s)}]
           Reaches(n) == \E g : \A s \in SUBSET S : Cardinality(s) <= n => g[s] = Sum(g, s)
           Bad == {n \in Nat : ~Reaches(n)}
<1>1. ASSUME NEW s \in SUBSET S
      PROVE  /\ IsFiniteSet(s) /\ Cardinality(s) \in Nat /\ Cardinality(s) <= Cardinality(S)
             /\ s # {} => /\ s \ {Picked(s)} \in SUBSET S
                          /\ Cardinality(s \ {Picked(s)}) = Cardinality(s) - 1
             /\ Cardinality(s) = 0 => s = {}
  <2>1. IsFiniteSet(s) /\ Cardinality(s) <= Cardinality(S) /\ Cardinality(s) \in Nat
    BY FS_Subset, FS_CardinalityType
  <2>2. s # {} => Cardinality(s \ {Picked(s)}) = Cardinality(s) - 1
    BY <2>1, PickedIn, FS_RemoveElement
  <2>3. Cardinality(s) = 0 => s = {}
    BY <2>1, FS_EmptySet
  <2>4. QED
    BY <2>1, <2>2, <2>3
<1>2. Bad = {}
  <2> SUFFICES ASSUME NEW m \in Bad PROVE FALSE
    OBVIOUS
  <2> DEFINE k == Min(Bad)
  <2>1. k \in Bad /\ \A n \in Bad : k <= n
    BY MinOfNat
  <2> HIDE DEF k
  <2>2. CASE k = 0
    <3> DEFINE g == [s \in SUBSET S |-> 0]
    <3>1. \A s \in SUBSET S : Cardinality(s) <= 0 => g[s] = Sum(g, s)
      <4> SUFFICES ASSUME NEW s \in SUBSET S, Cardinality(s) <= 0 PROVE g[s] = Sum(g, s)
        OBVIOUS
      <4>1. IsFiniteSet(s) /\ Cardinality(s) \in Nat
        BY FS_Subset, FS_CardinalityType
      <4>2. s = {}
        BY <4>1, FS_EmptySet
      <4>3. QED
        BY <4>2
    <3>2. Reaches(0)
      BY <3>1
    <3>3. QED
      BY <2>1, <2>2, <3>2
  <2>3. CASE k # 0
    <3>1. k \in Nat /\ k - 1 \in Nat /\ k - 1 \notin Bad
      <4>1. k \in Nat /\ k - 1 \in Nat
        BY <2>1, <2>3
      <4> HIDE DEF Bad
      <4>2. QED
        BY <2>1, <4>1
    <3>2. Reaches(k - 1)
      BY <3>1
    <3>3. PICK g : \A s \in SUBSET S : Cardinality(s) <= k - 1 => g[s] = Sum(g, s)
      BY <3>2
    <3> DEFINE h == [s \in SUBSET S |-> Sum(g, s)]
    <3>4. ASSUME NEW s \in SUBSET S, Cardinality(s) <= k PROVE h[s] = Sum(h, s)
      <4>1. CASE s = {}
        BY <4>1
      <4>2. CASE s # {}
        <5> DEFINE t == s \ {Picked(s)}
        <5>1. t \in SUBSET S /\ Cardinality(t) <= k - 1
          BY <1>1, <3>1, <3>4, <4>2
        <5>2. g[t] = Sum(g, t) /\ h[t] = Sum(g, t)
          BY <3>3, <5>1
        <5>3. h[s] = f[Picked(s)] + g[t] /\ Sum(h, s) = f[Picked(s)] + h[t]
          BY <4>2
        <5>4. QED
          BY <5>2, <5>3
      <4>3. QED
        BY <4>1, <4>2
    <3> HIDE DEF h
    <3>5. Reaches(k)
      BY <3>4
    <3>6. QED
      BY <2>1, <3>5
  <2>4. QED
    BY <2>2, <2>3
<1>3. Cardinality(S) \in Nat /\ Reaches(Cardinality(S))
  BY <1>1, <1>2
<1>4. PICK g : \A s \in SUBSET S : Cardinality(s) <= Cardinality(S) => g[s] = Sum(g, s)
  BY <1>3
<1>5. \A s \in SUBSET S : g[s] = Sum(g, s)
  BY <1>1, <1>4
<1> DEFINE h == [s \in SUBSET S |-> g[s]]
<1>6. h = [s \in SUBSET S |-> Sum(h, s)]
  <2>1. \A s \in SUBSET S : g[s] = Sum(h, s)
    <3> SUFFICES ASSUME NEW s \in SUBSET S PROVE g[s] = Sum(h, s)
      OBVIOUS
    <3>1. s \ {Picked(s)} \in SUBSET S
      OBVIOUS
    <3>2. QED
      BY <1>5, <3>1
  <2>2. QED
    BY <2>1
<1> HIDE DEF h
<1>7. \E x : x = [s \in SUBSET S |-> Sum(x, s)]
  BY <1>6
<1>8. Table(f, S) = [s \in SUBSET S |-> Sum(Table(f, S), s)]
  BY <1>7 DEF Table
<1> HIDE DEF Sum
<1>9. \A s \in SUBSET S : Table(f, S)[s] = Sum(Table(f, S), s)
  BY <1>8
<1>10. QED
  BY <1>9 DEF Sum

LEMMA TableStep ==
  ASSUME NEW f, NEW S, IsFiniteSet(S), NEW s \in SUBSET S
  PROVE  /\ s = {} => Table(f, S)[s] = 0
         /\ s # {} => /\ Picked(s) \in s /\ s \ {Picked(s)} \in SUBSET S
                      /\ Table(f, S)[s] = f[Picked(s)] + Table(f, S)[s \ {Picked(s)}]
<1>1. Table(f, S)[s] = IF s = {} THEN 0 ELSE f[Picked(s)] + Table(f, S)[s \ {Picked(s)}]
  BY TableExists
<1>2. QED
  BY <1>1, PickedIn

LEMMA TableEmpty ==
  ASSUME NEW f, NEW S, IsFiniteSet(S)
  PROVE  Table(f, S)[{}] = 0
<1>1. {} \in SUBSET S
  OBVIOUS
<1>2. QED
  BY <1>1, TableStep

\* What is claimed of every subset of a finite set holds when it holds of the
\* empty one and passes from a set without its picked element to the set.
LEMMA SmallestSet ==
  ASSUME NEW S, IsFiniteSet(S), NEW Good \in SUBSET SUBSET S, {} \in Good,
         \A s \in SUBSET S : s # {} /\ s \ {Picked(s)} \in Good => s \in Good
  PROVE  S \in Good
<1> DEFINE Bad == {k \in Nat : \E s \in SUBSET S : s \notin Good /\ Cardinality(s) = k}
<1> SUFFICES ASSUME S \notin Good PROVE FALSE
  OBVIOUS
<1>1. Cardinality(S) \in Bad
  BY FS_CardinalityType
<1>2. Min(Bad) \in Bad /\ \A k \in Bad : Min(Bad) <= k
  BY <1>1, MinOfNat
<1>3. PICK s \in SUBSET S : s \notin Good /\ Cardinality(s) = Min(Bad)
  BY <1>2
<1>4. s # {} /\ IsFiniteSet(s)
  BY <1>3, FS_Subset
<1> DEFINE t == s \ {Picked(s)}
<1>5. t \in SUBSET S /\ Cardinality(t) = Cardinality(s) - 1 /\ Cardinality(t) \in Nat
  BY <1>4, PickedIn, FS_RemoveElement, FS_CardinalityType
<1>6. t \notin Good
  BY <1>3, <1>4
<1>7. Cardinality(t) \in Bad
  BY <1>5, <1>6
<1>8. Cardinality(t) < Min(Bad)
  BY <1>2, <1>3, <1>5
<1> HIDE DEF Bad, t
<1>9. QED
  <2>1. Min(Bad) <= Cardinality(t) /\ Min(Bad) \in Nat
    BY <1>2, <1>7 DEF Bad
  <2>2. QED
    BY <1>5, <1>8, <2>1
=============================================================================
