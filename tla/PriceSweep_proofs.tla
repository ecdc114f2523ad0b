-------------------------- MODULE PriceSweep_proofs --------------------------
(***************************************************************************)
(* Proofs about PriceSweep, for every number of traces, models, token      *)
(* types, versions, pages, chunks and faults: what a stamp holds, and that *)
(* it is final.                                                            *)
(***************************************************************************)
EXTENDS PriceSweep, OrderLemmas

-----------------------------------------------------------------------------
(* Orders. *)

\* The keyset order is total on traces: dates first, then ids.
LEMMA PrecedesIsOrder ==
  /\ \A t, u \in Traces : t = u \/ Precedes(t, u) \/ Precedes(u, t)
  /\ \A t, u, w \in Traces : Precedes(t, u) /\ Precedes(u, w) => Precedes(t, w)
  /\ \A t, u \in Traces : Precedes(t, u) => ~Precedes(u, t) /\ t # u
<1>1. \A t \in Traces : t \in Nat /\ DateOf[t] \in Nat
  BY PriceAssumption DEF PriceAssumption
<1>2. QED
  BY <1>1 DEF Precedes

LEMMA EndsOfQueue ==
  ASSUME NEW S \in SUBSET Traces, S # {}
  PROVE  /\ Latest(S) \in S /\ \A u \in S : Latest(S) = u \/ Precedes(u, Latest(S))
         /\ Earliest(S) \in S
<1>1. IsFiniteSet(S)
  BY PriceAssumption, FS_Subset DEF PriceAssumption
<1>2. \E t \in S : \A u \in S : u = t \/ Precedes(u, t)
  <2> DEFINE R == {e \in Traces \X Traces : Precedes(e[1], e[2])}
  <2>1. \A x, y \in Traces : <<x, y>> \in R <=> Precedes(x, y)
    OBVIOUS
  <2> HIDE DEF R
  <2>2. /\ \A x, y \in S : x = y \/ <<x, y>> \in R \/ <<y, x>> \in R
        /\ \A x, y, z \in S : <<x, y>> \in R /\ <<y, z>> \in R => <<x, z>> \in R
    BY <2>1, PrecedesIsOrder
  <2>3. \E x \in S : \A y \in S : y = x \/ <<y, x>> \in R
    BY <1>1, <2>2, LastExists
  <2>4. QED
    BY <2>1, <2>3
<1>3. \E t \in S : \A u \in S : u = t \/ Precedes(t, u)
  <2> DEFINE R == {e \in Traces \X Traces : Precedes(e[2], e[1])}
  <2>1. \A x, y \in Traces : <<x, y>> \in R <=> Precedes(y, x)
    OBVIOUS
  <2> HIDE DEF R
  <2>2. /\ \A x, y \in S : x = y \/ <<x, y>> \in R \/ <<y, x>> \in R
        /\ \A x, y, z \in S : <<x, y>> \in R /\ <<y, z>> \in R => <<x, z>> \in R
    BY <2>1, PrecedesIsOrder
  <2>3. \E x \in S : \A y \in S : y = x \/ <<y, x>> \in R
    BY <1>1, <2>2, LastExists
  <2>4. QED
    BY <2>1, <2>3
<1>4. QED
  BY <1>2, <1>3 DEF Latest, Earliest

\* A page is no longer than its limit.
LEMMA PageIsShort ==
  ASSUME NEW S \in SUBSET Traces, NEW n \in Nat
  PROVE  /\ FirstTraces(S, n) \subseteq S
         /\ Cardinality(FirstTraces(S, n)) \in 0..n
<1> DEFINE T == FirstTraces(S, n)
<1>1. T \subseteq S
  BY DEF FirstTraces
<1>2. IsFiniteSet(S) /\ IsFiniteSet(T) /\ Cardinality(T) \in Nat
  BY <1>1, PriceAssumption, FS_Subset, FS_CardinalityType DEF PriceAssumption
<1>3. CASE T = {}
  BY <1>1, <1>3, FS_EmptySet
<1>4. CASE T # {}
  <2> DEFINE x == Latest(T)
             before == {u \in S : Precedes(u, x)}
  <2>1. x \in T /\ \A u \in T : x = u \/ Precedes(u, x)
    BY <1>1, <1>4, EndsOfQueue
  <2>2. Cardinality(before) < n
    BY <2>1 DEF FirstTraces
  <2>3. IsFiniteSet(before) /\ Cardinality(before) \in Nat
    BY <1>2, FS_Subset, FS_CardinalityType
  <2>4. T \ {x} \subseteq before
    BY <1>1, <2>1
  <2>5. Cardinality(T \ {x}) <= Cardinality(before)
    BY <2>3, <2>4, FS_Subset
  <2>6. Cardinality(T \ {x}) = Cardinality(T) - 1
    BY <1>2, <2>1, FS_RemoveElement
  <2>7. QED
    BY <1>1, <1>2, <2>2, <2>3, <2>5, <2>6
<1>5. QED
  BY <1>3, <1>4

LEMMA LimitFits ==
  ASSUME NEW s, s.cap \in Nat, s.examined \in Nat, s.examined <= s.cap
  PROVE  PageLimit(s) \in Nat /\ PageLimit(s) <= s.cap - s.examined
<1> DEFINE a == PageSize
           b == s.cap - s.examined
<1>1. a \in Nat /\ b \in Nat
  BY PriceAssumption DEF PriceAssumption
<1> HIDE DEF a, b
<1>2. \E x \in {a, b} : \A y \in {a, b} : x <= y
  BY <1>1
<1>3. Min({a, b}) \in {a, b} /\ \A y \in {a, b} : Min({a, b}) <= y
  BY <1>2 DEF Min
<1>4. QED
  BY <1>1, <1>3 DEF PageLimit, a, b

-----------------------------------------------------------------------------
(* Versions and intervals. *)

LEMMA VersionFacts ==
  /\ \A v \in Versions : v.model \in Models /\ v.type \in TokenTypes /\ v.from \in Nat \ {0}
  /\ NoVersion \notin Versions
  /\ \A R \in SUBSET Versions : R # Torn
<1>1. \A v \in Versions : v.model \in Models /\ v.type \in TokenTypes /\ v.from \in Nat \ {0}
  BY PriceAssumption DEF PriceAssumption
<1>2. NoVersion.model = NoModel /\ NoModel \notin Models
  BY PriceAssumption DEF PriceAssumption, NoVersion
<1>3. QED
  BY <1>1, <1>2 DEF Torn

\* What the lookup answers: nothing, or the latest version in effect.
LEMMA EffectiveIsLatest ==
  ASSUME NEW reg \in SUBSET Versions, NEW m, NEW k \in TokenTypes, NEW d \in Nat
  PROVE  LET v == EffectiveVersion(reg, m, k, d) IN
         \/ v = NoVersion
         \/ /\ v \in Of(reg, m) \ Computed /\ v.type = k /\ v.from <= d
            /\ \A w \in Of(reg, m) : w.type = k => w.from <= v.from \/ w.from > d
<1> DEFINE inEffect == InEffect(reg, m, k, d)
           latest == CHOOSE v \in inEffect : \A w \in inEffect : w.from <= v.from
           R == {e \in Versions \X Versions : e[1].from <= e[2].from}
<1>1. inEffect \subseteq Versions /\ IsFiniteSet(inEffect)
  <2>1. inEffect \subseteq Versions
    BY DEF InEffect, Of
  <2>2. QED
    BY <2>1, PriceAssumption, FS_Subset DEF PriceAssumption
<1>2. \A x, y \in Versions : <<x, y>> \in R <=> x.from <= y.from
  OBVIOUS
<1>3. ASSUME inEffect # {}
      PROVE  latest \in inEffect /\ \A w \in inEffect : w.from <= latest.from
  <2> HIDE DEF R, inEffect
  <2>1. /\ \A x, y \in inEffect : x = y \/ <<x, y>> \in R \/ <<y, x>> \in R
        /\ \A x, y, z \in inEffect : <<x, y>> \in R /\ <<y, z>> \in R => <<x, z>> \in R
    BY <1>1, <1>2, VersionFacts
  <2>2. \E x \in inEffect : \A y \in inEffect : y = x \/ <<y, x>> \in R
    BY <1>1, <1>3, <2>1, LastExists
  <2>3. \E x \in inEffect : \A y \in inEffect : y.from <= x.from
    <3>1. PICK x \in inEffect : \A y \in inEffect : y = x \/ <<y, x>> \in R
      BY <2>2
    <3>2. \A y \in inEffect : y.from \in Nat
      BY <1>1, VersionFacts
    <3>3. ASSUME NEW y \in inEffect PROVE y.from <= x.from
      <4>1. x \in Versions /\ y \in Versions
        BY <1>1
      <4>2. CASE y = x
        BY <3>2, <4>2
      <4>3. CASE <<y, x>> \in R
        BY <1>2, <4>1, <4>3
      <4>4. QED
        BY <3>1, <4>2, <4>3
    <3>4. QED
      BY <3>3
  <2>4. QED
    BY <2>3
<1>4. CASE inEffect = {} \/ latest \in Computed
  BY <1>4 DEF EffectiveVersion
<1>5. CASE inEffect # {} /\ latest \notin Computed
  <2>1. EffectiveVersion(reg, m, k, d) = latest
    BY <1>5 DEF EffectiveVersion
  <2>2. \A w \in Of(reg, m) : w.type = k => w.from <= latest.from \/ w.from > d
    <3>1. \A w \in Of(reg, m) : w.from \in Nat
      BY VersionFacts DEF Of
    <3>2. QED
      BY <1>3, <1>5, <3>1 DEF InEffect
  <2>3. QED
    BY <1>3, <1>5, <2>1, <2>2 DEF InEffect
<1>6. QED
  BY <1>4, <1>5

LEMMA PricesTyped ==
  ASSUME NEW reg \in SUBSET Versions, NEW m, NEW d \in Nat
  PROVE  EffectivePrices(reg, m, d) \in [TokenTypes -> Versions \cup {NoVersion}]
<1>1. ASSUME NEW k \in TokenTypes
      PROVE  EffectiveVersion(reg, m, k, d) \in Versions \cup {NoVersion}
  <2>1. Of(reg, m) \subseteq Versions
    BY DEF Of
  <2>2. QED
    BY <2>1, EffectiveIsLatest
<1>2. QED
  BY <1>1 DEF EffectivePrices

\* A lookup sees the versions of its model only.
LEMMA LookupIsLocal ==
  ASSUME NEW reg, NEW m, NEW d
  PROVE  EffectivePrices(Of(reg, m), m, d) = EffectivePrices(reg, m, d)
<1>1. Of(Of(reg, m), m) = Of(reg, m)
  BY DEF Of
<1>2. ASSUME NEW k
      PROVE  EffectiveVersion(Of(reg, m), m, k, d) = EffectiveVersion(reg, m, k, d)
  <2>1. InEffect(Of(reg, m), m, k, d) = InEffect(reg, m, k, d)
    BY <1>1 DEF InEffect
  <2>2. QED
    BY <2>1 DEF EffectiveVersion
<1>3. QED
  BY <1>2 DEF EffectivePrices

Cuts(R) == {v.from : v \in R}

LEMMA CutsFinite ==
  ASSUME NEW R \in SUBSET Versions
  PROVE  /\ Cuts(R) \in SUBSET (Nat \ {0})
         /\ IsFiniteSet(Cuts(R))
         /\ Cardinality(Cuts(R)) <= Cardinality(Versions)
         /\ Cardinality(Cuts(R)) \in Nat /\ Cardinality(Versions) \in Nat
<1>1. Cuts(R) \in SUBSET (Nat \ {0})
  BY VersionFacts DEF Cuts
<1>2. IsFiniteSet(Versions) /\ IsFiniteSet(R) /\ Cardinality(R) <= Cardinality(Versions)
  BY PriceAssumption, FS_Subset DEF PriceAssumption
<1> DEFINE f == [v \in R |-> v.from]
<1>3. f \in Surjection(R, Cuts(R))
  BY DEF Surjection, Cuts
<1>4. IsFiniteSet(Cuts(R)) /\ Cardinality(Cuts(R)) <= Cardinality(R)
  BY <1>2, <1>3, FS_Surjection
<1>5. Cardinality(Cuts(R)) \in Nat /\ Cardinality(R) \in Nat /\ Cardinality(Versions) \in Nat
  BY <1>2, <1>4, FS_CardinalityType
<1>6. QED
  BY <1>1, <1>2, <1>4, <1>5

LEMMA IntervalFits ==
  ASSUME NEW R \in SUBSET Versions, NEW d \in Nat
  PROVE  IntervalOf(Cuts(R), d) \in 0..Cardinality(Versions)
<1> DEFINE C == {c \in Cuts(R) : c <= d}
<1>1. IsFiniteSet(C) /\ Cardinality(C) <= Cardinality(Cuts(R))
  BY CutsFinite, FS_Subset
<1>2. Cardinality(C) \in Nat
  BY <1>1, FS_CardinalityType
<1>3. QED
  BY <1>1, <1>2, CutsFinite DEF IntervalOf

\* Two dates with as many version dates behind them have the same ones.
LEMMA SameInterval ==
  ASSUME NEW R \in SUBSET Versions, NEW d \in Nat, NEW e \in Nat,
         IntervalOf(Cuts(R), d) = IntervalOf(Cuts(R), e)
  PROVE  \A v \in R : v.from <= d <=> v.from <= e
<1> DEFINE C(x) == {c \in Cuts(R) : c <= x}
<1>1. ASSUME NEW x \in Nat, NEW y \in Nat, x <= y, Cardinality(C(x)) = Cardinality(C(y))
      PROVE  \A v \in R : v.from <= x <=> v.from <= y
  <2>1. C(x) \subseteq C(y)
    BY <1>1, CutsFinite
  <2>2. IsFiniteSet(C(y))
    BY CutsFinite, FS_Subset
  <2>3. C(x) = C(y)
    BY <1>1, <2>1, <2>2, FS_Subset
  <2>4. \A v \in R : v.from \in Cuts(R)
    BY DEF Cuts
  <2>5. QED
    BY <2>3, <2>4
<1>2. CASE d <= e
  BY <1>1, <1>2 DEF IntervalOf
<1>3. CASE e <= d
  BY <1>1, <1>3 DEF IntervalOf
<1>4. QED
  BY <1>2, <1>3

\* The cache's claim: every trace inside one interval gets the same answer.
LEMMA SamePrices ==
  ASSUME NEW R \in SUBSET Versions, NEW m, NEW d \in Nat, NEW e \in Nat,
         IntervalOf(Cuts(R), d) = IntervalOf(Cuts(R), e)
  PROVE  EffectivePrices(R, m, d) = EffectivePrices(R, m, e)
<1>1. ASSUME NEW k PROVE EffectiveVersion(R, m, k, d) = EffectiveVersion(R, m, k, e)
  <2>1. InEffect(R, m, k, d) = InEffect(R, m, k, e)
    BY SameInterval DEF InEffect, Of
  <2>2. QED
    BY <2>1 DEF EffectiveVersion
<1>2. QED
  BY <1>1 DEF EffectivePrices

-----------------------------------------------------------------------------
(* Types. *)

\* Beside its types: the cut dates are those of some registry, whatever the
\* worker has in hand the source has shown, and a trace is looked at only
\* while the page has one.
CutsKnown == \A m \in Models : batch.cuts[m] = Unread \/ \E R \in SUBSET Versions : batch.cuts[m] = Cuts(R)

Shown == \A t \in Traces : t \in news \/ batch.flight[t].step # "out" => source[t] \in Refs

Paging(s) == s.pc \in {"trace", "stamp"} => s.page # {}

TypeInv == TypeOK /\ CutsKnown /\ Shown /\ \A w \in Runners : Paging(run[w])

LEMMA ConstantsTyped ==
  /\ PageSize \in Nat /\ ChunkSize \in Nat /\ TargetSize \in Nat /\ MaxSlips \in Nat
  /\ Cardinality(Traces) \in Nat
  /\ Models \subseteq Refs /\ NoModel \in Refs
  /\ \A t \in Traces : DateOf[t] \in Nat /\ MonthOf[DateOf[t]] \in Months /\ t # 0
  /\ NoStamp \in [TokenTypes -> Versions \cup {NoVersion}]
  /\ Absent \in Docs /\ NoFlight \in Flights /\ NotAsked \in Asked
  /\ {0} \in SUBSET Nat
<1>1. PageSize \in Nat /\ ChunkSize \in Nat /\ TargetSize \in Nat /\ MaxSlips \in Nat
  BY PriceAssumption DEF PriceAssumption
<1>2. Cardinality(Traces) \in Nat
  BY PriceAssumption, FS_CardinalityType DEF PriceAssumption
<1>3. \A t \in Traces : DateOf[t] \in Nat /\ MonthOf[DateOf[t]] \in Months /\ t # 0
  BY PriceAssumption DEF PriceAssumption, Months, Dates
<1>4. NoStamp \in [TokenTypes -> Versions \cup {NoVersion}]
  BY DEF NoStamp
<1>5. Absent \in Docs
  BY <1>4 DEF Absent, Docs, Refs
<1>6. NoFlight \in Flights /\ NotAsked \in Asked
  BY <1>4, <1>5 DEF NoFlight, Flights, NotAsked, Asked, Torn
<1>7. QED
  BY <1>1, <1>2, <1>3, <1>4, <1>5, <1>6 DEF Refs

LEMMA NoBatchTyped ==
  /\ NoBatch \in BatchStates
  /\ \A m \in Models : NoBatch.cuts[m] = Unread
  /\ \A t \in Traces : NoBatch.flight[t] = NoFlight /\ NoBatch.flight[t].step = "out"
  /\ \A i \in Intervals : NoBatch.cache[i] = NotAsked
<1>1. [t \in Traces |-> NoModel] \in [Traces -> Refs]
  BY DEF Refs
<1>2. [m \in Models |-> Unread] \in [Models -> SUBSET Nat]
  BY DEF Unread
<1>3. [i \in Intervals |-> NotAsked] \in [Intervals -> Asked]
  BY ConstantsTyped
<1>4. [t \in Traces |-> NoFlight] \in [Traces -> Flights]
  BY ConstantsTyped
<1>5. QED
  BY <1>1, <1>2, <1>3, <1>4 DEF NoBatch, BatchStates, NoFlight

LEMMA IdleTyped == Idle \in RunStates /\ Idle.pc = "idle" /\ Idle.examined <= Idle.cap
  BY ConstantsTyped DEF Idle, RunStates

LEMMA ReprocessTyped ==
  ASSUME NEW closed \in SUBSET Months, NEW only \in SUBSET Refs, NEW cap \in Nat, NEW after \in Traces \cup {0}
  PROVE  LET s == Reprocess(closed, only, cap, after) IN
         s \in RunStates /\ s.pc = "page" /\ s.examined <= s.cap
<1> DEFINE s == Reprocess(closed, only, cap, after)
<1>1. Idle \in RunStates /\ Idle.examined = 0
  BY IdleTyped DEF Idle
<1>2. s \in RunStates
  BY <1>1 DEF Reprocess, RunStates
<1>3. s.pc = "page" /\ s.cap = cap /\ s.examined = 0
  BY <1>1 DEF Reprocess, RunStates
<1>4. QED
  BY <1>2, <1>3

LEMMA StampTyped ==
  ASSUME NEW t, NEW m \in Refs, NEW prices \in [TokenTypes -> Versions \cup {NoVersion}],
         NEW asOf \in SUBSET (Versions \cup {NoVersion})
  PROVE  Stamp(t, m, prices, asOf) \in Docs
<1>1. StampStatus(t, m, prices) \in {"pending_price", "stamped", "no_measured_usage"}
  BY DEF StampStatus
<1>2. [k \in TokenTypes |-> IF k \in UsedOf[t] THEN prices[k] ELSE NoVersion]
        \in [TokenTypes -> Versions \cup {NoVersion}]
  OBVIOUS
<1>3. QED
  BY <1>1, <1>2, ConstantsTyped DEF Stamp, Docs

LEMMA SettleTyped ==
  ASSUME NEW s \in RunStates, s.examined <= s.cap
  PROVE  Settle(s) \in RunStates /\ Settle(s).examined <= Settle(s).cap /\ Paging(Settle(s))
<1>1. s.page \ {Head(s)} \in SUBSET [trace : Traces, model : Refs]
  BY DEF RunStates
<1>2. QED
  BY <1>1, ConstantsTyped DEF Settle, RunStates, Paging

LEMMA HeadOnPage ==
  ASSUME NEW s \in RunStates, s.page # {}
  PROVE  Head(s) \in s.page /\ Head(s).trace \in Traces /\ Head(s).model \in Refs
<1>1. s.page \subseteq [trace : Traces, model : Refs]
  BY DEF RunStates
<1>2. Paged(s) \in SUBSET Traces /\ Paged(s) # {}
  BY <1>1 DEF Paged
<1>3. Earliest(Paged(s)) \in Paged(s)
  BY <1>2, EndsOfQueue
<1>4. Head(s) \in s.page
  BY <1>3 DEF Head, Paged
<1>5. QED
  BY <1>1, <1>4

-----------------------------------------------------------------------------
(* One run moves at a time. *)

LEMMA RunTyped ==
  ASSUME TypeInv, NEW w \in Runners, NEW s \in RunStates, s.examined <= s.cap, Paging(s),
         run' = [run EXCEPT ![w] = s]
  PROVE  /\ run' \in [Runners -> RunStates]
         /\ \A x \in Runners : run'[x].examined <= run'[x].cap /\ Paging(run'[x])
<1>1. run \in [Runners -> RunStates] /\ \A x \in Runners : run[x].examined <= run[x].cap /\ Paging(run[x])
  BY DEF TypeInv, TypeOK
<1>2. \A x \in Runners : run'[x] = s \/ run'[x] = run[x]
  BY <1>1
<1>3. run' \in [Runners -> RunStates]
  BY <1>1
<1>4. QED
  BY <1>1, <1>2, <1>3

\* So does one flight.
LEMMA FlightTyped ==
  ASSUME TypeInv, NEW t \in Traces, NEW f \in Flights, batch' = [batch EXCEPT !.flight[t] = f]
  PROVE  /\ batch' \in BatchStates /\ batch'.cuts = batch.cuts
         /\ batch'.flight[t] = f
         /\ \A u \in Traces : u # t => batch'.flight[u] = batch.flight[u]
  BY DEF TypeInv, TypeOK, BatchStates

\* Steps that leave the worker's batch, or throw it away.
LEMMA BatchKept ==
  ASSUME TypeInv, batch' = batch \/ batch' = NoBatch
  PROVE  /\ batch' \in BatchStates /\ CutsKnown'
         /\ \A t \in Traces : batch'.flight[t].step # "out" => batch.flight[t].step # "out"
<1>1. CASE batch' = batch
  BY <1>1 DEF TypeInv, TypeOK, CutsKnown
<1>2. CASE batch' = NoBatch
  <2>1. CutsKnown'
    BY <1>2, NoBatchTyped DEF CutsKnown
  <2>2. QED
    BY <1>2, <2>1, NoBatchTyped
<1>3. QED
  BY <1>1, <1>2

LEMMA SlotTyped ==
  ASSUME TypeInv, NEW t \in Traces, batch.models[t] # NoModel, batch.cuts[batch.models[t]] # Unread
  PROVE  batch.models[t] \in Models /\ Slot(t) \in Intervals
<1> DEFINE m == batch.models[t]
<1>1. m \in Models
  BY DEF TypeInv, TypeOK, BatchStates, Refs
<1>2. PICK R \in SUBSET Versions : batch.cuts[m] = Cuts(R)
  BY <1>1 DEF TypeInv, CutsKnown
<1>3. IntervalOf(batch.cuts[m], DateOf[t]) \in 0..Cardinality(Versions)
  BY <1>2, IntervalFits, ConstantsTyped
<1>4. QED
  BY <1>1, <1>3 DEF Slot, Intervals

LEMMA IngestTyped ==
  ASSUME TypeInv, Ingest
  PROVE  TypeInv'
<1>0. TypeOK /\ CutsKnown /\ Shown /\ batch \in BatchStates
  BY DEF TypeInv, TypeOK
<1> DEFINE Kept == UNCHANGED <<registry, frozen, source, run, slips>>
<1>1. ASSUME Kept, pace' = pace \/ pace' = [pace EXCEPT !.turn = "sweep"], news' = news \/ news' = {},
             archive' \in [Traces -> Docs], batch' \in BatchStates, CutsKnown', Shown'
      PROVE  TypeInv'
  BY <1>0, <1>1 DEF TypeInv, TypeOK, Paging
<1>2. CASE StartBatch
  <2>1. [t \in Traces |-> IF t \in news THEN source[t] ELSE NoModel] \in [Traces -> Refs]
    BY <1>0, ConstantsTyped DEF Shown
  <2>2. [t \in Traces |-> IF t \in news THEN [NoFlight EXCEPT !.step = "price"] ELSE NoFlight] \in [Traces -> Flights]
    BY ConstantsTyped DEF Flights
  <2>3. batch' \in BatchStates /\ batch'.cuts = NoBatch.cuts
        /\ \A t \in Traces : batch'.flight[t].step # "out" => t \in news
    BY <1>0, <1>2, <2>1, <2>2, NoBatchTyped DEF StartBatch, BatchStates, TypeOK, NoFlight
  <2>4. CutsKnown'
    BY <2>3, NoBatchTyped DEF CutsKnown
  <2>5. Shown'
    BY <1>0, <1>2, <2>3 DEF Shown, StartBatch
  <2>6. QED
    BY <1>0, <1>1, <1>2, <2>3, <2>4, <2>5 DEF StartBatch, TypeOK
<1>3. ASSUME NEW m \in Models, CutIntervals(m) PROVE TypeInv'
  <2>1. Of(registry, m) \in SUBSET Versions /\ {v.from : v \in Of(registry, m)} = Cuts(Of(registry, m))
    BY <1>0 DEF Of, TypeOK, Cuts
  <2>2. Cuts(Of(registry, m)) \in SUBSET Nat
    BY <2>1, CutsFinite
  <2>3. batch' = [batch EXCEPT !.cuts[m] = Cuts(Of(registry, m))]
    BY <1>3, <2>1 DEF CutIntervals
  <2>4. batch' \in BatchStates /\ batch'.flight = batch.flight
        /\ \A n \in Models : batch'.cuts[n] = batch.cuts[n] \/ batch'.cuts[n] = Cuts(Of(registry, m))
    BY <1>0, <2>2, <2>3 DEF BatchStates
  <2>5. CutsKnown'
    BY <1>0, <2>1, <2>4 DEF CutsKnown
  <2>6. Shown'
    BY <1>0, <1>3, <2>4 DEF Shown, CutIntervals
  <2>7. QED
    BY <1>0, <1>1, <1>3, <2>4, <2>5, <2>6 DEF CutIntervals, TypeOK
<1>4. ASSUME NEW t \in Traces, AskPrices(t) PROVE TypeInv'
  <2> DEFINE m == batch.models[t]
             a == [prices |-> EffectivePrices(registry, m, DateOf[t]), asked |-> TRUE,
                   asOf |-> IF batch.cuts[m] = {v.from : v \in Of(registry, m)} THEN Of(registry, m) ELSE Torn]
  <2>1. a \in Asked
    <3>1. EffectivePrices(registry, m, DateOf[t]) \in [TokenTypes -> Versions \cup {NoVersion}]
      BY <1>0, PricesTyped, ConstantsTyped DEF TypeOK
    <3>2. Of(registry, m) \subseteq Versions
      BY <1>0 DEF Of, TypeOK
    <3>3. QED
      BY <3>1, <3>2 DEF Asked, Torn
  <2>2. batch' = [batch EXCEPT !.cache[Slot(t)] = a]
    BY <1>4 DEF AskPrices
  <2>3. batch' \in BatchStates /\ batch'.cuts = batch.cuts /\ batch'.flight = batch.flight
    BY <1>0, <2>1, <2>2 DEF BatchStates
  <2>4. CutsKnown' /\ Shown'
    BY <1>0, <1>4, <2>3 DEF CutsKnown, Shown, AskPrices
  <2>5. QED
    BY <1>0, <1>1, <1>4, <2>3, <2>4 DEF AskPrices, TypeOK
<1>5. ASSUME NEW t \in Traces, NEW f \in Flights, Kept, news' = news, pace' = pace,
             archive' \in [Traces -> Docs], batch' = [batch EXCEPT !.flight[t] = f],
             f.step # "out" => batch.flight[t].step # "out"
      PROVE  TypeInv'
  <2>1. /\ batch' \in BatchStates /\ batch'.cuts = batch.cuts
        /\ batch'.flight[t] = f
        /\ \A u \in Traces : u # t => batch'.flight[u] = batch.flight[u]
    BY <1>5, FlightTyped
  <2>2. CutsKnown'
    BY <1>0, <2>1 DEF CutsKnown
  <2>3. Shown'
    BY <1>0, <1>5, <2>1 DEF Shown
  <2>4. QED
    BY <1>1, <1>5, <2>1, <2>2, <2>3
<1>6. ASSUME NEW t \in Traces, Decide(t) PROVE TypeInv'
  <2> DEFINE m == batch.models[t]
             found == IF m = NoModel THEN [prices |-> NoStamp, asked |-> TRUE, asOf |-> {}]
                      ELSE batch.cache[Slot(t)]
             month == MonthOf[DateOf[t]]
             f == [step |-> "insert", doc |-> Stamp(t, m, found.prices, found.asOf),
                   quarantined |-> month \in batch.closed \/ (month # CurrentMonth /\ month \in frozen)]
  <2>1. m \in Refs /\ \A n \in Models : n # NoModel
    BY <1>0, VersionFacts, PriceAssumption DEF BatchStates, PriceAssumption
  <2>2. ASSUME m # NoModel PROVE Slot(t) \in Intervals
    BY <1>6, <2>2, SlotTyped DEF Decide
  <2>3. found.prices \in [TokenTypes -> Versions \cup {NoVersion}] /\ found.asOf \in SUBSET (Versions \cup {NoVersion})
    BY <1>0, <2>2, ConstantsTyped DEF BatchStates, Asked
  <2>4. Stamp(t, m, found.prices, found.asOf) \in Docs
    BY <2>1, <2>3, StampTyped
  <2>5. f \in Flights /\ f.step = "insert"
    BY <2>4 DEF Flights
  <2>6. batch' = [batch EXCEPT !.flight[t] = f] /\ batch.flight[t].step # "out"
    BY <1>6 DEF Decide, InFlight
  <2> HIDE DEF f
  <2>7. QED
    BY <1>0, <1>5, <1>6, <2>5, <2>6 DEF Decide, TypeOK
<1>7. ASSUME NEW t \in Traces, Insert(t) PROVE TypeInv'
  <2>1. archive' \in [Traces -> Docs]
    BY <1>0, <1>7 DEF Insert, TypeOK, BatchStates, Flights
  <2>2. [NoFlight EXCEPT !.step = "refresh"] \in Flights /\ NoFlight \in Flights /\ batch.flight[t].step # "out"
    BY <1>7, ConstantsTyped DEF Flights, Insert, InFlight
  <2>3. NoFlight.step = "out"
    BY DEF NoFlight
  <2>4. QED
    BY <1>5, <1>7, <2>1, <2>2, <2>3 DEF Insert
<1>8. ASSUME NEW t \in Traces, Refresh(t) PROVE TypeInv'
  <2>1. batch.models[t] \in Refs
    BY <1>0 DEF BatchStates
  <2>2. archive \in [Traces -> Docs] /\ [archive[t] EXCEPT !.model = batch.models[t]] \in Docs
    BY <1>0, <2>1 DEF TypeOK, Docs
  <2>3. archive' = archive \/ archive' = [archive EXCEPT ![t] = [archive[t] EXCEPT !.model = batch.models[t]]]
    BY <1>8, <2>2 DEF Refresh
  <2>4. archive' \in [Traces -> Docs]
    BY <2>2, <2>3
  <2>5. QED
    BY <1>5, <1>8, <2>4, ConstantsTyped DEF Refresh, NoFlight
<1>9. CASE EndBatch
  BY <1>0, <1>1, <1>9, BatchKept DEF EndBatch, Shown, TypeOK
<1>10. CASE DrainOver
  BY <1>0, <1>1, <1>10, BatchKept DEF DrainOver, Shown, TypeOK
<1>11. QED
  BY <1>2, <1>3, <1>4, <1>6, <1>7, <1>8, <1>9, <1>10 DEF Ingest

LEMMA SweepTyped ==
  ASSUME TypeInv, NEW w \in Runners, Sweep(w) \/ TraceFails(w)
  PROVE  TypeInv'
<1> DEFINE s == run[w]
<1>0. /\ TypeOK /\ CutsKnown /\ Shown
      /\ s \in RunStates /\ s.examined <= s.cap /\ Paging(s)
  BY DEF TypeInv, TypeOK
<1>1. ASSUME NEW r \in RunStates, r.examined <= r.cap, Paging(r), run' = [run EXCEPT ![w] = r],
             archive' \in [Traces -> Docs], slips' \in 0..MaxSlips,
             UNCHANGED <<registry, frozen, source, news, batch, pace>>
      PROVE  TypeInv'
  <2>1. /\ run' \in [Runners -> RunStates]
        /\ \A x \in Runners : run'[x].examined <= run'[x].cap /\ Paging(run'[x])
    BY <1>1, RunTyped
  <2>2. CutsKnown' /\ Shown'
    BY <1>0, <1>1 DEF CutsKnown, Shown
  <2>3. QED
    BY <1>0, <1>1, <2>1, <2>2 DEF TypeInv, TypeOK
<1>2. CASE ReadPage(w)
  <2> DEFINE queue == {t \in Pending : archive[t].model \in s.only /\ After(s.after, t)}
             size == PageLimit(s)
             found == FirstTraces(queue, size)
             page == {[trace |-> t, model |-> archive[t].model] : t \in found}
             a == [s EXCEPT !.pc = "report", !.short = TRUE]
             b == [s EXCEPT !.pc = "trace", !.after = Latest(found), !.short = Cardinality(found) < size,
                            !.examined = @ + Cardinality(found), !.page = page]
  <2>1. size \in Nat /\ size <= s.cap - s.examined /\ s.cap \in Nat /\ s.examined \in Nat
    BY <1>0, LimitFits DEF RunStates
  <2>2. queue \in SUBSET Traces
    BY DEF Pending
  <2>3. found \subseteq Traces /\ Cardinality(found) \in 0..size
    BY <2>1, <2>2, PageIsShort
  <2>4. a \in RunStates /\ a.examined <= a.cap /\ Paging(a)
    BY <1>0 DEF RunStates, Paging
  <2>5. ASSUME found # {} PROVE b \in RunStates /\ b.examined <= b.cap /\ Paging(b)
    <3>1. Latest(found) \in Traces
      BY <2>3, <2>5, EndsOfQueue
    <3>2. page \in SUBSET [trace : Traces, model : Refs] /\ page # {}
      <4>1. \A t \in Traces : archive[t].model \in Refs
        BY <1>0 DEF TypeOK, Docs
      <4>2. \A t \in found : [trace |-> t, model |-> archive[t].model] \in [trace : Traces, model : Refs]
        BY <2>3, <4>1
      <4>3. QED
        BY <2>5, <4>2
    <3>3. s.examined + Cardinality(found) \in Nat /\ s.examined + Cardinality(found) <= s.cap
      BY <2>1, <2>3
    <3>4. (Cardinality(found) < size) \in BOOLEAN
      OBVIOUS
    <3> HIDE DEF page, found, size
    <3>5. b.pc = "trace" /\ b.page = page /\ b.cap = s.cap /\ b.examined = s.examined + Cardinality(found)
      BY <1>0 DEF RunStates
    <3>6. b \in RunStates
      BY <1>0, <3>1, <3>2, <3>3, <3>4 DEF RunStates
    <3>7. QED
      BY <3>2, <3>3, <3>5, <3>6 DEF Paging
  <2>6. run' = [run EXCEPT ![w] = IF found = {} THEN a ELSE b]
    BY <1>2 DEF ReadPage
  <2> HIDE DEF a, b, found
  <2>7. QED
    BY <1>0, <1>1, <1>2, <2>4, <2>5, <2>6 DEF ReadPage, TypeOK
<1>3. CASE LookUp(w)
  <2> DEFINE e == Head(s)
             prices == IF e.model = NoModel THEN NoStamp ELSE EffectivePrices(registry, e.model, DateOf[e.trace])
             r == [s EXCEPT !.pc = "stamp", !.prices = prices, !.asOf = Of(registry, e.model)]
  <2>1. s.page # {} /\ e.trace \in Traces
    BY <1>0, <1>3, HeadOnPage DEF LookUp, Paging
  <2>2. prices \in [TokenTypes -> Versions \cup {NoVersion}] /\ Of(registry, e.model) \in SUBSET Versions
    <3>1. registry \in SUBSET Versions
      BY <1>0 DEF TypeOK
    <3>2. QED
      BY <2>1, <3>1, PricesTyped, ConstantsTyped DEF Of
  <2>3. r \in RunStates /\ r.examined <= r.cap /\ Paging(r)
    <3> HIDE DEF prices, e
    <3>1. QED
      BY <1>0, <2>1, <2>2 DEF RunStates, Paging
  <2>4. run' = [run EXCEPT ![w] = Settle(s)] \/ run' = [run EXCEPT ![w] = r]
    BY <1>3 DEF LookUp
  <2> HIDE DEF r
  <2>5. QED
    BY <1>0, <1>1, <1>3, <2>3, <2>4, SettleTyped DEF LookUp, TypeOK
<1>4. CASE StampPending(w)
  <2> DEFINE e == Head(s)
             d == [Stamp(e.trace, e.model, s.prices, s.asOf) EXCEPT !.model = archive[e.trace].model]
  <2>1. e.trace \in Traces /\ e.model \in Refs
    BY <1>0, <1>4, HeadOnPage DEF StampPending, Paging
  <2>2. Stamp(e.trace, e.model, s.prices, s.asOf) \in Docs
    <3> HIDE DEF e
    <3>1. s.prices \in [TokenTypes -> Versions \cup {NoVersion}] /\ s.asOf \in SUBSET (Versions \cup {NoVersion})
      BY <1>0 DEF RunStates
    <3>2. QED
      BY <2>1, <3>1, StampTyped
  <2>3. archive \in [Traces -> Docs] /\ archive[e.trace].model \in Refs
    BY <1>0, <2>1 DEF TypeOK, Docs
  <2>4. d \in Docs
    BY <2>2, <2>3 DEF Docs
  <2>5. archive' = archive \/ archive' = [archive EXCEPT ![e.trace] = d]
    BY <1>4 DEF StampPending
  <2>6. archive' \in [Traces -> Docs]
    BY <2>3, <2>4, <2>5
  <2>7. QED
    BY <1>0, <1>1, <1>4, <2>6, SettleTyped DEF StampPending, TypeOK
<1>5. CASE TraceFails(w)
  <2>1. run' = [run EXCEPT ![w] = Settle(s)]
    BY <1>5 DEF TraceFails
  <2>2. slips' \in 0..MaxSlips
    BY <1>0, <1>5, ConstantsTyped DEF TraceFails, TypeOK
  <2>3. QED
    BY <1>0, <1>1, <1>5, <2>1, <2>2, SettleTyped DEF TraceFails, TypeOK
<1>6. QED
  BY <1>2, <1>3, <1>4, <1>5 DEF Sweep

LEMMA TypeInit == Init => TypeInv
<1> SUFFICES ASSUME Init PROVE TypeInv
  OBVIOUS
<1>1. registry \in SUBSET Versions /\ frozen \in SUBSET Months /\ source \in [Traces -> Refs \cup {"unseen"}]
      /\ slips \in 0..MaxSlips /\ news = {} /\ batch = NoBatch
  BY ConstantsTyped DEF Init, Versions
<1>2. archive \in [Traces -> Docs]
  BY ConstantsTyped DEF Init
<1>3. run \in [Runners -> RunStates] /\ \A w \in Runners : run[w].examined <= run[w].cap /\ Paging(run[w])
  BY IdleTyped DEF Init, Paging
<1>4. pace \in [turn : {"drain", "sweep"}, cursor : Traces \cup {0}, due : BOOLEAN]
  BY DEF Init
<1>5. QED
  BY <1>1, <1>2, <1>3, <1>4, NoBatchTyped DEF TypeInv, TypeOK, CutsKnown, Shown

LEMMA TypeNext ==
  ASSUME TypeInv, [Next]_vars
  PROVE  TypeInv'
<1> DEFINE Paces == [turn : {"drain", "sweep"}, cursor : Traces \cup {0}, due : BOOLEAN]
<1>0. /\ TypeOK /\ CutsKnown /\ Shown
      /\ \A w \in Runners : run[w] \in RunStates /\ run[w].examined <= run[w].cap /\ Paging(run[w])
  BY DEF TypeInv, TypeOK
<1>1. ASSUME UNCHANGED <<registry, archive, frozen, source>>, slips' \in 0..MaxSlips, pace' \in Paces,
             batch' = batch \/ batch' = NoBatch, news' = news \/ news' = Undelivered,
             \/ run' = run
             \/ \E w \in Runners, s \in RunStates :
                  s.examined <= s.cap /\ Paging(s) /\ run' = [run EXCEPT ![w] = s]
      PROVE  TypeInv'
  <2>1. batch' \in BatchStates /\ CutsKnown' /\ \A t \in Traces : batch'.flight[t].step # "out" => batch.flight[t].step # "out"
    BY <1>1, BatchKept
  <2>2. news' \in SUBSET Traces /\ Shown'
    BY <1>0, <1>1, <2>1 DEF Shown, Undelivered, TypeOK
  <2>3. run' \in [Runners -> RunStates] /\ \A x \in Runners : run'[x].examined <= run'[x].cap /\ Paging(run'[x])
    <3>1. CASE run' = run
      BY <1>0, <3>1 DEF TypeOK
    <3>2. CASE run' # run
      BY <1>1, <3>2, RunTyped
    <3>3. QED
      BY <3>1, <3>2
  <2>4. QED
    BY <1>0, <1>1, <2>1, <2>2, <2>3 DEF TypeInv, TypeOK
<1>2. Idle \in RunStates /\ Idle.examined <= Idle.cap /\ Paging(Idle)
  BY IdleTyped DEF Paging
<1>3. ASSUME NEW closed \in SUBSET Months, NEW only \in SUBSET Refs, NEW cap \in Nat, NEW after \in Traces \cup {0}
      PROVE  LET s == Reprocess(closed, only, cap, after) IN s \in RunStates /\ s.examined <= s.cap /\ Paging(s)
  BY <1>3, ReprocessTyped DEF Paging
<1>4. pace \in Paces /\ frozen \in SUBSET Months /\ slips \in 0..MaxSlips
  BY <1>0 DEF TypeOK
<1>5. "worker" \in Runners /\ "operator" \in Runners
  BY DEF Runners
<1>6. ASSUME NEW t \in Traces, NEW m \in Refs, SourceSays(t, m) PROVE TypeInv'
  <2>1. source' \in [Traces -> Refs \cup {"unseen"}] /\ source'[t] = m /\ \A u \in Traces \ {t} : source'[u] = source[u]
    BY <1>0, <1>6 DEF SourceSays, TypeOK
  <2>2. Shown'
    BY <1>0, <1>6, <2>1 DEF SourceSays, Shown
  <2>3. QED
    BY <1>0, <1>6, <2>1, <2>2 DEF SourceSays, TypeInv, TypeOK, CutsKnown
<1>7. CASE IntervalElapses
  <2>1. pace' \in Paces
    BY <1>4, <1>7 DEF IntervalElapses
  <2>2. QED
    BY <1>1, <1>4, <1>7, <2>1 DEF IntervalElapses
<1>8. CASE BatchFails
  <2>1. pace' \in Paces
    BY <1>4, <1>8 DEF BatchFails
  <2>2. slips' \in 0..MaxSlips
    BY <1>4, <1>8, ConstantsTyped DEF BatchFails
  <2>3. QED
    BY <1>1, <1>8, <2>1, <2>2 DEF BatchFails
<1>9. CASE ChunkFails
  <2>1. pace' \in Paces
    BY <1>4, <1>9 DEF ChunkFails
  <2>2. slips' \in 0..MaxSlips
    BY <1>4, <1>9, ConstantsTyped DEF ChunkFails
  <2>3. QED
    BY <1>1, <1>2, <1>5, <1>9, <2>1, <2>2 DEF ChunkFails
<1>10. CASE Restart
  <2>1. pace' \in Paces
    BY <1>10 DEF Restart
  <2>2. slips' \in 0..MaxSlips
    BY <1>4, <1>10, ConstantsTyped DEF Restart
  <2>3. QED
    BY <1>1, <1>2, <1>5, <1>10, <2>1, <2>2 DEF Restart
<1>11. CASE StartChunk
  <2> DEFINE s == Reprocess(frozen, Models, ChunkSize, pace.cursor)
  <2>1. pace' \in Paces
    BY <1>4, <1>11 DEF StartChunk
  <2>2. s \in RunStates /\ s.examined <= s.cap /\ Paging(s)
    BY <1>3, <1>4, ConstantsTyped
  <2>3. run' = run \/ run' = [run EXCEPT !["worker"] = s]
    BY <1>11 DEF StartChunk
  <2> HIDE DEF s
  <2>4. QED
    BY <1>1, <1>4, <1>5, <1>11, <2>1, <2>2, <2>3 DEF StartChunk
<1>12. CASE ChunkOver
  <2>1. run["worker"] \in RunStates
    BY <1>0, <1>5
  <2>2. run["worker"].after \in Traces \cup {0}
    BY <2>1 DEF RunStates
  <2>3. pace' \in Paces
    BY <1>4, <1>12, <2>2 DEF ChunkOver, AfterChunk
  <2>4. QED
    BY <1>1, <1>2, <1>4, <1>5, <1>12, <2>3 DEF ChunkOver
<1>13. ASSUME NEW v \in OnSale, Register(v) PROVE TypeInv'
  <2> DEFINE s == Reprocess(frozen, {v.model}, TargetSize, 0)
  <2>1. v \in Versions /\ v.model \in Refs
    BY VersionFacts DEF Versions, Refs
  <2>2. s \in RunStates /\ s.examined <= s.cap /\ Paging(s)
    BY <1>3, <1>4, <2>1, ConstantsTyped
  <2>3. run' = [run EXCEPT !["operator"] = s]
    BY <1>13 DEF Register
  <2> HIDE DEF s
  <2>4. /\ run' \in [Runners -> RunStates]
        /\ \A x \in Runners : run'[x].examined <= run'[x].cap /\ Paging(run'[x])
    BY <1>5, <2>2, <2>3, RunTyped
  <2>5. registry' \in SUBSET Versions
    BY <1>0, <1>13, <2>1 DEF Register, TypeOK
  <2>6. QED
    BY <1>0, <1>13, <2>4, <2>5 DEF Register, TypeInv, TypeOK, CutsKnown, Shown
<1>14. CASE RunbookSweep
  <2> DEFINE s == Reprocess(frozen, Refs, Cardinality(Traces) + 1, 0)
  <2>1. s \in RunStates /\ s.examined <= s.cap /\ Paging(s)
    BY <1>3, <1>4, ConstantsTyped
  <2>2. run' = [run EXCEPT !["operator"] = s]
    BY <1>14 DEF RunbookSweep
  <2> HIDE DEF s
  <2>3. QED
    BY <1>1, <1>4, <1>5, <1>14, <2>1, <2>2 DEF RunbookSweep
<1>15. CASE OperatorDone
  BY <1>1, <1>2, <1>4, <1>5, <1>15 DEF OperatorDone
<1>16. ASSUME NEW m \in Months, Freeze(m) \/ Unfreeze(m) PROVE TypeInv'
  <2>1. frozen' \in SUBSET Months
    BY <1>4, <1>16 DEF Freeze, Unfreeze
  <2>2. UNCHANGED <<registry, archive, source, news, batch, run, pace, slips>>
    BY <1>16 DEF Freeze, Unfreeze
  <2>3. QED
    BY <1>0, <2>1, <2>2 DEF TypeInv, TypeOK, CutsKnown, Shown
<1>17. CASE UNCHANGED vars
  BY <1>1, <1>4, <1>17 DEF vars
<1>18. QED
  BY <1>5, <1>6, <1>7, <1>8, <1>9, <1>10, <1>11, <1>12, <1>13, <1>14, <1>15, <1>16, <1>17, IngestTyped, SweepTyped
     DEF Next, WorkerCycle

(* Documents, the worker's batch and its cache, the sweeps' pages and the  *)
(* pacing keep their types, and no run of the sweep examines more than its *)
(* cap (reprocess-pending-db-use-case.ts): REPROCESS_PAGE_SIZE is cut to   *)
(* what the cap leaves.                                                    *)
THEOREM SweepTypeCorrect == Spec => []TypeOK
<1>1. TypeInv => TypeOK
  BY DEF TypeInv
<1>2. QED
  BY <1>1, TypeInit, TypeNext, PTL DEF Spec

-----------------------------------------------------------------------------
(* A stamp is final. *)

LEMMA StampKept ==
  ASSUME TypeInv, [Next]_vars, NEW t \in Traces, archive[t].status = "stamped"
  PROVE  archive'[t] = archive[t]
<1>1. archive \in [Traces -> Docs]
  BY DEF TypeInv, TypeOK
<1>2. ASSUME NEW u \in Traces, Insert(u) PROVE archive'[t] = archive[t]
  <2>1. Absent.status # "stamped"
    BY DEF Absent
  <2>2. QED
    BY <1>1, <1>2, <2>1 DEF Insert
<1>3. ASSUME NEW u \in Traces, Refresh(u) PROVE archive'[t] = archive[t]
  BY <1>1, <1>3 DEF Refresh, ModelMayMove
<1>4. ASSUME NEW w \in Runners, StampPending(w) PROVE archive'[t] = archive[t]
  <2> DEFINE e == Head(run[w])
  <2>1. CASE Matches(e)
    <3>1. e.trace # t
      BY <2>1 DEF Matches
    <3>2. QED
      BY <1>1, <1>4, <3>1 DEF StampPending
  <2>2. CASE ~Matches(e)
    BY <1>4, <2>2 DEF StampPending
  <2>3. QED
    BY <2>1, <2>2
<1>5. CASE archive' = archive
  BY <1>5
<1>6. QED
  BY <1>2, <1>3, <1>4, <1>5
     DEF Next, vars, WorkerCycle, Ingest, Sweep, SourceSays, StartBatch, CutIntervals, AskPrices, Decide, EndBatch,
         BatchFails, DrainOver, ReadPage, LookUp, TraceFails, StartChunk, IntervalElapses, ChunkOver, ChunkFails,
         Restart, Register, RunbookSweep, OperatorDone, Freeze, Unfreeze, Runners

(* Whatever the order of batches, corrections, sweeps, faults and months   *)
(* that freeze and reopen, for any number of traces: a stamped trace keeps *)
(* its stamp and its model (stampPendingTrace and updateAttribution of     *)
(* mongodb-trace-repository.ts).                                           *)
THEOREM StampsAreFinal == Spec => StampIsFinal
<1>1. TypeInv /\ [Next]_vars => [\A t \in Traces : archive[t].status = "stamped" => archive'[t] = archive[t]]_vars
  BY StampKept
<1>2. QED
  BY <1>1, TypeInit, TypeNext, PTL DEF Spec, StampIsFinal

-----------------------------------------------------------------------------
(* A stamp is the as-of price. *)

\* StampedAsOf of one document.
HonestStamp(t, doc) ==
  doc.status = "stamped" /\ doc.asOf # Torn =>
    \A k \in TokenTypes :
      LET v == doc.applied[k] IN
      IF k \notin UsedOf[t] THEN v = NoVersion
      ELSE /\ v \in doc.asOf \ Computed
           /\ v.model = doc.model /\ v.type = k /\ v.from <= DateOf[t]
           /\ \A w \in doc.asOf :
                w.type = k /\ w.model = v.model => w.from <= v.from \/ w.from > DateOf[t]

Prices(asOf, m, d) == IF m = NoModel THEN NoStamp ELSE EffectivePrices(asOf, m, d)

\* An answer in the cache that no registration tore: the cuts are those of
\* the registry it was looked up in, and its date lies in its interval.
HonestAnswer(i, answer, cuts) ==
  answer.asked /\ answer.asOf # Torn =>
    /\ answer.asOf \in SUBSET Versions
    /\ cuts = Cuts(answer.asOf)
    /\ \E d \in Nat : i[2] = IntervalOf(cuts, d) /\ answer.prices = EffectivePrices(answer.asOf, i[1], d)

CacheHonest == \A i \in Intervals : HonestAnswer(i, batch.cache[i], batch.cuts[i[1]])

FlightsHonest == \A t \in Traces : HonestStamp(t, batch.flight[t].doc)

\* What a run is about to stamp was looked up for the model and the date of
\* the head of its page.
HonestRun(s) ==
  s.pc = "stamp" => s.prices = Prices(s.asOf, Head(s).model, DateOf[Head(s).trace])

HonestInv ==
  /\ TypeInv
  /\ \A t \in Traces : HonestStamp(t, archive[t])
  /\ CacheHonest
  /\ FlightsHonest
  /\ \A w \in Runners : HonestRun(run[w])

LEMMA StampIsHonest ==
  ASSUME NEW t \in Traces, NEW m \in Refs, NEW asOf \in SUBSET Versions,
         NEW prices, prices = Prices(asOf, m, DateOf[t])
  PROVE  HonestStamp(t, Stamp(t, m, prices, asOf))
<1> DEFINE doc == Stamp(t, m, prices, asOf)
<1> SUFFICES ASSUME doc.status = "stamped", NEW k \in TokenTypes
             PROVE  LET v == doc.applied[k] IN
                    IF k \notin UsedOf[t] THEN v = NoVersion
                    ELSE /\ v \in doc.asOf \ Computed
                         /\ v.model = doc.model /\ v.type = k /\ v.from <= DateOf[t]
                         /\ \A w \in doc.asOf :
                              w.type = k /\ w.model = v.model => w.from <= v.from \/ w.from > DateOf[t]
  BY Zenon DEF HonestStamp
<1>1. StampStatus(t, m, prices) = "stamped"
  BY DEF Stamp
<1>2. /\ doc.model = m /\ doc.asOf = asOf
      /\ doc.applied = [l \in TokenTypes |-> IF l \in UsedOf[t] THEN prices[l] ELSE NoVersion]
  BY <1>1 DEF Stamp
<1>3. CASE k \notin UsedOf[t]
  BY <1>2, <1>3
<1>4. CASE k \in UsedOf[t]
  <2>1. prices[k] # NoVersion
    BY <1>1, <1>4 DEF StampStatus, Missing
  <2>2. m # NoModel
    BY <2>1 DEF Prices, NoStamp
  <2>3. prices[k] = EffectiveVersion(asOf, m, k, DateOf[t])
    BY <2>2 DEF Prices, EffectivePrices
  <2>4. /\ prices[k] \in Of(asOf, m) \ Computed /\ prices[k].type = k /\ prices[k].from <= DateOf[t]
        /\ \A w \in Of(asOf, m) : w.type = k => w.from <= prices[k].from \/ w.from > DateOf[t]
    BY <2>1, <2>3, EffectiveIsLatest, ConstantsTyped
  <2>5. doc.applied[k] = prices[k]
    BY <1>2, <1>4
  <2>6. QED
    BY <1>2, <1>4, <2>4, <2>5 DEF Of
<1>5. QED
  BY <1>3, <1>4

LEMMA HonestInit == Init => HonestInv
<1> SUFFICES ASSUME Init PROVE HonestInv
  OBVIOUS
<1>1. \A t \in Traces : HonestStamp(t, Absent)
  BY DEF HonestStamp, Absent
<1>2. archive = [t \in Traces |-> Absent] /\ batch = NoBatch /\ run = [w \in Runners |-> Idle]
  BY DEF Init
<1>3. FlightsHonest
  BY <1>1, <1>2, NoBatchTyped DEF FlightsHonest, NoFlight
<1>4. CacheHonest
  BY <1>2, NoBatchTyped DEF CacheHonest, HonestAnswer, NotAsked
<1>5. \A w \in Runners : HonestRun(run[w])
  BY <1>2, IdleTyped DEF HonestRun
<1>6. QED
  BY <1>1, <1>2, <1>3, <1>4, <1>5, TypeInit DEF HonestInv

\* The batch in progress: its cache and its flights.
LEMMA BatchHonest ==
  ASSUME HonestInv, [Next]_vars
  PROVE  CacheHonest' /\ FlightsHonest'
<1>0. /\ TypeInv /\ TypeOK /\ batch \in BatchStates /\ CacheHonest /\ FlightsHonest
      /\ registry \in SUBSET Versions
  BY DEF HonestInv, TypeInv, TypeOK
<1>1. \A t \in Traces : HonestStamp(t, Absent)
  BY DEF HonestStamp, Absent
<1>2. CASE batch' = batch
  BY <1>0, <1>2 DEF CacheHonest, FlightsHonest
<1>3. ASSUME batch'.cache = NoBatch.cache, \A t \in Traces : batch'.flight[t].doc = Absent
      PROVE  CacheHonest' /\ FlightsHonest'
  <2>1. CacheHonest'
    BY <1>3, NoBatchTyped DEF CacheHonest, HonestAnswer, NotAsked
  <2>2. QED
    BY <1>1, <1>3, <2>1 DEF FlightsHonest
<1>4. CASE batch' = NoBatch
  BY <1>3, <1>4, NoBatchTyped DEF NoFlight
<1>5. CASE StartBatch
  <2>1. batch'.cache = NoBatch.cache /\ \A t \in Traces : batch'.flight[t].doc = Absent
    BY <1>5 DEF StartBatch, NoBatch, NoFlight
  <2>2. QED
    BY <1>3, <2>1
<1>6. ASSUME NEW m \in Models, CutIntervals(m) PROVE CacheHonest' /\ FlightsHonest'
  <2>1. /\ batch'.cache = batch.cache /\ batch'.flight = batch.flight /\ batch.cuts[m] = Unread
        /\ \A n \in Models : n # m => batch'.cuts[n] = batch.cuts[n]
    BY <1>0, <1>6 DEF CutIntervals, BatchStates
  <2>2. ASSUME NEW i \in Intervals PROVE HonestAnswer(i, batch'.cache[i], batch'.cuts[i[1]])
    <3>1. HonestAnswer(i, batch.cache[i], batch.cuts[i[1]]) /\ i[1] \in Models
      BY <1>0 DEF CacheHonest, Intervals
    <3>2. CASE i[1] # m
      BY <2>1, <3>1, <3>2
    <3>3. CASE i[1] = m
      <4>1. \A R \in SUBSET Versions : Cuts(R) # Unread
        BY CutsFinite DEF Unread
      <4>2. ~(batch.cache[i].asked /\ batch.cache[i].asOf # Torn)
        BY <2>1, <3>1, <3>3, <4>1 DEF HonestAnswer
      <4>3. QED
        BY <2>1, <4>2 DEF HonestAnswer
    <3>4. QED
      BY <3>2, <3>3
  <2>3. QED
    BY <1>0, <2>1, <2>2 DEF CacheHonest, FlightsHonest
<1>7. ASSUME NEW t \in Traces, AskPrices(t) PROVE CacheHonest' /\ FlightsHonest'
  <2> DEFINE m == batch.models[t]
             R == Of(registry, m)
             a == [prices |-> EffectivePrices(registry, m, DateOf[t]), asked |-> TRUE,
                   asOf |-> IF batch.cuts[m] = {v.from : v \in R} THEN R ELSE Torn]
  <2>1. batch' = [batch EXCEPT !.cache[Slot(t)] = a]
    BY <1>7 DEF AskPrices
  <2>2. m \in Models /\ Slot(t) \in Intervals
    BY <1>0, <1>7, SlotTyped DEF AskPrices
  <2>3. Slot(t)[1] = m /\ Slot(t)[2] = IntervalOf(batch.cuts[m], DateOf[t])
    BY DEF Slot
  <2>4. HonestAnswer(Slot(t), a, batch.cuts[m])
    <3>1. R \in SUBSET Versions /\ EffectivePrices(registry, m, DateOf[t]) = EffectivePrices(R, m, DateOf[t])
      BY <1>0, LookupIsLocal DEF Of
    <3>2. CASE batch.cuts[m] = {v.from : v \in R}
      BY <2>3, <3>1, <3>2, ConstantsTyped DEF HonestAnswer, Cuts
    <3>3. CASE batch.cuts[m] # {v.from : v \in R}
      BY <3>3 DEF HonestAnswer
    <3>4. QED
      BY <3>2, <3>3
  <2> HIDE DEF a
  <2>5. /\ batch'.cuts = batch.cuts /\ batch'.flight = batch.flight
        /\ \A i \in Intervals : batch'.cache[i] = IF i = Slot(t) THEN a ELSE batch.cache[i]
    BY <1>0, <2>1 DEF BatchStates
  <2>6. QED
    BY <1>0, <2>3, <2>4, <2>5 DEF CacheHonest, FlightsHonest
<1>8. ASSUME NEW t \in Traces, NEW f, HonestStamp(t, f.doc), batch' = [batch EXCEPT !.flight[t] = f]
      PROVE  CacheHonest' /\ FlightsHonest'
  <2>1. /\ batch'.cuts = batch.cuts /\ batch'.cache = batch.cache
        /\ \A u \in Traces : batch'.flight[u] = IF u = t THEN f ELSE batch.flight[u]
    BY <1>0, <1>8 DEF BatchStates
  <2>2. QED
    BY <1>0, <1>8, <2>1 DEF CacheHonest, FlightsHonest
<1>9. ASSUME NEW t \in Traces, Decide(t) PROVE CacheHonest' /\ FlightsHonest'
  <2> DEFINE m == batch.models[t]
             found == IF m = NoModel THEN [prices |-> NoStamp, asked |-> TRUE, asOf |-> {}]
                      ELSE batch.cache[Slot(t)]
             doc == Stamp(t, m, found.prices, found.asOf)
             f == [step |-> "insert", doc |-> doc,
                   quarantined |-> MonthOf[DateOf[t]] \in batch.closed
                                   \/ (MonthOf[DateOf[t]] # CurrentMonth /\ MonthOf[DateOf[t]] \in frozen)]
  <2>1. m \in Refs /\ found.asked
    BY <1>0, <1>9 DEF Decide, BatchStates
  <2>2. batch' = [batch EXCEPT !.flight[t] = f] /\ f.doc = doc
    BY <1>9 DEF Decide
  <2>3. ASSUME HonestStamp(t, doc) PROVE CacheHonest' /\ FlightsHonest'
    <3> HIDE DEF f, doc
    <3>1. QED
      BY <1>8, <2>2, <2>3
  <2>4. CASE found.asOf = Torn
    <3>1. HonestStamp(t, doc)
      BY <2>4 DEF HonestStamp, Stamp
    <3>2. QED
      BY <2>3, <3>1
  <2>5. CASE found.asOf # Torn
    <3>1. found.asOf \in SUBSET Versions /\ found.prices = Prices(found.asOf, m, DateOf[t])
      <4>1. CASE m = NoModel
        BY <4>1 DEF Prices
      <4>2. CASE m # NoModel
        <5>1. Slot(t) \in Intervals /\ Slot(t)[1] = m /\ Slot(t)[2] = IntervalOf(batch.cuts[m], DateOf[t])
          BY <1>0, <1>9, <4>2, SlotTyped DEF Decide, Slot
        <5>2. found = batch.cache[Slot(t)]
          BY <4>2
        <5>3. HonestAnswer(Slot(t), found, batch.cuts[m])
          BY <1>0, <5>1, <5>2 DEF CacheHonest
        <5> HIDE DEF found
        <5>4. PICK d \in Nat : /\ Slot(t)[2] = IntervalOf(batch.cuts[m], d)
                               /\ found.prices = EffectivePrices(found.asOf, m, d)
          BY <2>1, <2>5, <5>1, <5>3 DEF HonestAnswer
        <5>5. found.asOf \in SUBSET Versions /\ batch.cuts[m] = Cuts(found.asOf)
          BY <2>1, <2>5, <5>3 DEF HonestAnswer
        <5>6. EffectivePrices(found.asOf, m, d) = EffectivePrices(found.asOf, m, DateOf[t])
          <6>1. IntervalOf(Cuts(found.asOf), d) = IntervalOf(Cuts(found.asOf), DateOf[t])
            BY <5>1, <5>4, <5>5
          <6>2. DateOf[t] \in Nat
            BY ConstantsTyped
          <6> HIDE DEF m
          <6>3. QED
            BY <5>4, <5>5, <6>1, <6>2, SamePrices
        <5>7. QED
          BY <4>2, <5>4, <5>5, <5>6 DEF Prices
      <4>3. QED
        BY <4>1, <4>2
    <3>2. HonestStamp(t, doc)
      BY <2>1, <3>1, StampIsHonest
    <3>3. QED
      BY <2>3, <3>2
  <2>6. QED
    BY <2>4, <2>5
<1>10. ASSUME NEW t \in Traces, Insert(t) \/ Refresh(t) PROVE CacheHonest' /\ FlightsHonest'
  <2>1. batch' = [batch EXCEPT !.flight[t] = NoFlight]
        \/ batch' = [batch EXCEPT !.flight[t] = [NoFlight EXCEPT !.step = "refresh"]]
    BY <1>10 DEF Insert, Refresh
  <2>2. NoFlight.doc = Absent /\ [NoFlight EXCEPT !.step = "refresh"].doc = Absent
    BY DEF NoFlight
  <2>3. QED
    BY <1>1, <1>8, <2>1, <2>2
<1>11. QED
  BY <1>2, <1>4, <1>5, <1>6, <1>7, <1>9, <1>10
     DEF Next, vars, WorkerCycle, Ingest, Sweep, SourceSays, EndBatch,
         BatchFails, DrainOver, ReadPage, LookUp, StampPending, TraceFails, StartChunk, IntervalElapses, ChunkOver,
         ChunkFails, Restart, Register, RunbookSweep, OperatorDone, Freeze, Unfreeze

\* The sweeps: only a lookup leads to a stamp, and only a stamp of the head
\* leads away from it.
LEMMA RunsStayHonest ==
  ASSUME HonestInv, [Next]_vars
  PROVE  \A w \in Runners : HonestRun(run'[w])
<1>0. /\ TypeInv /\ TypeOK /\ run \in [Runners -> RunStates] /\ registry \in SUBSET Versions
      /\ \A w \in Runners : HonestRun(run[w]) /\ run[w] \in RunStates
  BY DEF HonestInv, TypeInv, TypeOK
<1>1. CASE run' = run
  BY <1>0, <1>1
<1>2. ASSUME NEW x \in Runners, NEW s, HonestRun(s), run' = [run EXCEPT ![x] = s]
      PROVE  \A w \in Runners : HonestRun(run'[w])
  <2>1. \A w \in Runners : run'[w] = IF w = x THEN s ELSE run[w]
    BY <1>0, <1>2
  <2>2. QED
    BY <1>0, <1>2, <2>1
<1>3. \A s \in RunStates : HonestRun(Settle(s))
  <2> SUFFICES ASSUME NEW s \in RunStates PROVE Settle(s).pc # "stamp"
    BY DEF HonestRun
  <2>1. QED
    BY DEF Settle, RunStates
<1>4. \A s : s.pc # "stamp" => HonestRun(s)
  BY DEF HonestRun
<1>5. ASSUME NEW x \in Runners, ReadPage(x) PROVE \A w \in Runners : HonestRun(run'[w])
  <2>1. \E s : s.pc # "stamp" /\ run' = [run EXCEPT ![x] = s]
    <3> DEFINE found == FirstTraces({t \in Pending : archive[t].model \in run[x].only /\ After(run[x].after, t)}, PageLimit(run[x]))
               a == [run[x] EXCEPT !.pc = "report", !.short = TRUE]
               b == [run[x] EXCEPT !.pc = "trace", !.after = Latest(found), !.short = Cardinality(found) < PageLimit(run[x]),
                                   !.examined = @ + Cardinality(found),
                                   !.page = {[trace |-> t, model |-> archive[t].model] : t \in found}]
    <3>1. a.pc = "report"
      BY <1>0 DEF RunStates
    <3>2. b.pc = "trace"
      <4> HIDE DEF found
      <4>1. QED
        BY <1>0 DEF RunStates
    <3>3. run' = [run EXCEPT ![x] = IF found = {} THEN a ELSE b]
      BY <1>5 DEF ReadPage
    <3> HIDE DEF a, b, found
    <3>4. QED
      BY <3>1, <3>2, <3>3
  <2>2. QED
    BY <1>2, <1>4, <2>1
<1>6. ASSUME NEW x \in Runners, LookUp(x) PROVE \A w \in Runners : HonestRun(run'[w])
  <2> DEFINE s == run[x]
             e == Head(s)
             prices == IF e.model = NoModel THEN NoStamp ELSE EffectivePrices(registry, e.model, DateOf[e.trace])
             r == [s EXCEPT !.pc = "stamp", !.prices = prices, !.asOf = Of(registry, e.model)]
  <2>1. run' = [run EXCEPT ![x] = Settle(s)] \/ run' = [run EXCEPT ![x] = r]
    BY <1>6 DEF LookUp
  <2>2. /\ r.page = s.page /\ r.prices = prices /\ r.asOf = Of(registry, e.model)
    BY <1>0 DEF RunStates
  <2>3. Head(r) = e
    BY <2>2 DEF Head, Paged
  <2>4. prices = Prices(Of(registry, e.model), e.model, DateOf[e.trace])
    BY LookupIsLocal DEF Prices
  <2>5. HonestRun(r)
    BY <2>2, <2>3, <2>4 DEF HonestRun
  <2> HIDE DEF r
  <2>6. QED
    BY <1>0, <1>2, <1>3, <2>1, <2>5
<1>7. ASSUME NEW x \in Runners, StampPending(x) \/ TraceFails(x) PROVE \A w \in Runners : HonestRun(run'[w])
  <2>1. run' = [run EXCEPT ![x] = Settle(run[x])]
    BY <1>7 DEF StampPending, TraceFails
  <2>2. QED
    BY <1>0, <1>2, <1>3, <2>1
<1>8. ASSUME NEW x \in Runners, \E c, o, n, a : run' = [run EXCEPT ![x] = Reprocess(c, o, n, a)]
      PROVE  \A w \in Runners : HonestRun(run'[w])
  <2>1. \A c, o, n, a : Reprocess(c, o, n, a).pc = "page"
    BY DEF Reprocess, Idle
  <2>2. QED
    BY <1>2, <1>4, <1>8, <2>1
<1>9. ASSUME NEW x \in Runners, run' = [run EXCEPT ![x] = Idle] PROVE \A w \in Runners : HonestRun(run'[w])
  BY <1>2, <1>4, <1>9, IdleTyped
<1>10. "worker" \in Runners /\ "operator" \in Runners
  BY DEF Runners
<1>11. CASE StartChunk
  BY <1>1, <1>8, <1>10, <1>11 DEF StartChunk
<1>12. CASE ChunkOver \/ ChunkFails \/ Restart \/ OperatorDone
  BY <1>9, <1>10, <1>12 DEF ChunkOver, ChunkFails, Restart, OperatorDone
<1>13. CASE RunbookSweep \/ \E v \in OnSale : Register(v)
  BY <1>8, <1>10, <1>13 DEF RunbookSweep, Register
<1>14. QED
  BY <1>1, <1>5, <1>6, <1>7, <1>10, <1>11, <1>12, <1>13
     DEF Next, vars, WorkerCycle, Ingest, Sweep, SourceSays, StartBatch, CutIntervals, AskPrices, Decide, Insert, Refresh,
         EndBatch, BatchFails, DrainOver, IntervalElapses, Freeze, Unfreeze

\* The archive: what an insert or a sweep's stamp puts there.
LEMMA ArchiveStaysHonest ==
  ASSUME HonestInv, [Next]_vars
  PROVE  \A t \in Traces : HonestStamp(t, archive'[t])
<1>0. /\ TypeInv /\ archive \in [Traces -> Docs] /\ FlightsHonest
      /\ \A t \in Traces : HonestStamp(t, archive[t])
      /\ \A w \in Runners : HonestRun(run[w]) /\ run[w] \in RunStates /\ Paging(run[w])
  BY DEF HonestInv, TypeInv, TypeOK
<1>1. CASE archive' = archive
  BY <1>0, <1>1
<1>2. ASSUME NEW u \in Traces, NEW d, HonestStamp(u, d), archive' = [archive EXCEPT ![u] = d]
      PROVE  \A t \in Traces : HonestStamp(t, archive'[t])
  <2>1. \A t \in Traces : archive'[t] = IF t = u THEN d ELSE archive[t]
    BY <1>0, <1>2
  <2>2. QED
    BY <1>0, <1>2, <2>1
<1>3. ASSUME NEW u \in Traces, Insert(u) PROVE \A t \in Traces : HonestStamp(t, archive'[t])
  BY <1>0, <1>1, <1>2, <1>3 DEF Insert, FlightsHonest
<1>4. ASSUME NEW u \in Traces, Refresh(u) PROVE \A t \in Traces : HonestStamp(t, archive'[t])
  <2> DEFINE d == [archive[u] EXCEPT !.model = batch.models[u]]
  <2>1. CASE archive' = archive
    BY <1>1, <2>1
  <2>2. CASE archive' # archive
    <3>1. archive' = [archive EXCEPT ![u] = d] /\ archive[u].status # "stamped"
      BY <1>0, <1>4, <2>2 DEF Refresh, ModelMayMove
    <3>2. d.status # "stamped"
      BY <1>0, <3>1 DEF Docs
    <3>3. HonestStamp(u, d)
      BY <3>2 DEF HonestStamp
    <3> HIDE DEF d
    <3>4. QED
      BY <1>2, <3>1, <3>3
  <2>3. QED
    BY <2>1, <2>2
<1>5. ASSUME NEW w \in Runners, StampPending(w) PROVE \A t \in Traces : HonestStamp(t, archive'[t])
  <2> DEFINE s == run[w]
             e == Head(s)
             stamp == Stamp(e.trace, e.model, s.prices, s.asOf)
             d == [stamp EXCEPT !.model = archive[e.trace].model]
  <2>1. CASE ~Matches(e)
    BY <1>1, <1>5, <2>1 DEF StampPending
  <2>2. CASE Matches(e)
    <3>1. e.trace \in Traces /\ e.model \in Refs /\ s.pc = "stamp" /\ s.asOf \in SUBSET Versions
      BY <1>0, <1>5, HeadOnPage DEF StampPending, Paging, RunStates
    <3>2. s.prices = Prices(s.asOf, e.model, DateOf[e.trace])
      BY <1>0, <3>1 DEF HonestRun
    <3>3. HonestStamp(e.trace, stamp)
      <4> HIDE DEF e, s
      <4>1. QED
        BY <3>1, <3>2, StampIsHonest
    <3>4. stamp.model = archive[e.trace].model
      BY <2>2 DEF Stamp, Matches
    <3>5. d = stamp
      BY <3>4 DEF Stamp
    <3>6. archive' = [archive EXCEPT ![e.trace] = d]
      BY <1>5, <2>2 DEF StampPending
    <3> HIDE DEF d, stamp, e
    <3>7. QED
      BY <1>2, <3>1, <3>3, <3>5, <3>6
  <2>3. QED
    BY <2>1, <2>2
<1>6. QED
  BY <1>1, <1>3, <1>4, <1>5
     DEF Next, vars, WorkerCycle, Ingest, Sweep, SourceSays, StartBatch, CutIntervals, AskPrices, Decide, EndBatch,
         BatchFails, DrainOver, ReadPage, LookUp, TraceFails, StartChunk, IntervalElapses, ChunkOver, ChunkFails,
         Restart, Register, RunbookSweep, OperatorDone, Freeze, Unfreeze, Runners

LEMMA HonestNext ==
  ASSUME HonestInv, [Next]_vars
  PROVE  HonestInv'
<1>1. TypeInv'
  BY TypeNext DEF HonestInv
<1>2. CacheHonest' /\ FlightsHonest'
  BY BatchHonest
<1>3. \A w \in Runners : HonestRun(run'[w])
  BY RunsStayHonest
<1>4. \A t \in Traces : HonestStamp(t, archive'[t])
  BY ArchiveStaysHonest
<1>5. QED
  BY <1>1, <1>2, <1>3, <1>4 DEF HonestInv

(* For any registry, any corrections of the source and any number of       *)
(* traces, runs and faults, a stamp no registration tore is the as-of      *)
(* price of the model beside it (batch-price-cache.ts, price-stamper.ts,   *)
(* stampPendingTrace): the traces of an interval do get one answer, and    *)
(* the compare-and-set stamps no model but the one that was priced.        *)
THEOREM StampsAreAsOf == Spec => []StampedAsOf
<1>1. HonestInv => StampedAsOf
  BY DEF HonestInv, HonestStamp, StampedAsOf
<1>2. QED
  BY <1>1, HonestInit, HonestNext, PTL DEF Spec
=============================================================================
