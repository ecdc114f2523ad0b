--------------------------- MODULE BatchSync_proofs ---------------------------
(***************************************************************************)
(* Proofs about BatchSync, for every number of rows, sessions, drainers,   *)
(* lanes and faults: nothing is lost behind the watermark, the watermark   *)
(* never regresses, what is stored is final, a session stays in order.     *)
(***************************************************************************)
EXTENDS BatchSync, OrderLemmas

-----------------------------------------------------------------------------
(* The order of a page: UpdatedAt, then TraceId. *)

LEMMA ClockFacts ==
  /\ MaxClock \in Nat /\ LastWrite <= MaxClock
  /\ LastWrite \in Nat /\ Quiet \in Nat /\ Lag \in Nat /\ Gap \in Nat /\ Lag + Gap <= Quiet
  /\ BatchSize \in Nat \ {0} /\ Concurrency \in Nat \ {0} /\ MaxFaults \in Nat
  /\ Rows \subseteq Nat \ {0} /\ IsFiniteSet(Rows) /\ Poison \subseteq Rows /\ Broken \subseteq Poison
BY BatchAssumption, QuietAssumption DEF BatchAssumption, QuietAssumption, MaxClock

LEMMA EntryFacts ==
  /\ \A e \in Entries : e.at \in Nat /\ e.row \in Nat
  /\ \A e, f \in Entries : e.at = f.at /\ e.row = f.row => e = f
  /\ NoCursor \in Entries
<1>1. \A e \in Entries : e.at \in 0..MaxClock /\ e.row \in Rows \cup {0} /\ e = [at |-> e.at, row |-> e.row]
  BY DEF Entries
<1>2. \A e, f \in Entries : e.at = f.at /\ e.row = f.row => e = f
  BY <1>1
<1>3. NoCursor \in Entries
  BY ClockFacts DEF NoCursor, Entries
<1>4. QED
  BY <1>1, <1>2, <1>3, ClockFacts

LEMMA EntryOrder ==
  /\ \A e, f \in Entries : e = f \/ Before(e, f) \/ Before(f, e)
  /\ \A e, f \in Entries : AtOrBefore(e, f) /\ AtOrBefore(f, e) => e = f
  /\ \A e, f, g \in Entries : AtOrBefore(e, f) /\ AtOrBefore(f, g) => AtOrBefore(e, g)
  /\ \A e, f, g \in Entries : Before(e, f) /\ AtOrBefore(f, g) => Before(e, g)
  /\ \A e, f \in Entries : Before(e, f) => ~AtOrBefore(f, e)
  /\ \A e, f \in Entries : AtOrBefore(e, f) => e.at <= f.at
  /\ \A e \in Entries : AtOrBefore(NoCursor, e) /\ AtOrBefore(e, e)
<1>1. \A e, f \in Entries : e = f \/ Before(e, f) \/ Before(f, e)
  BY EntryFacts DEF Before
<1>2. \A e, f \in Entries : AtOrBefore(e, f) /\ AtOrBefore(f, e) => e = f
  BY EntryFacts DEF AtOrBefore, Before
<1>3. \A e, f, g \in Entries : Before(e, f) /\ Before(f, g) => Before(e, g)
  BY EntryFacts DEF Before
<1>4. \A e, f, g \in Entries : AtOrBefore(e, f) /\ AtOrBefore(f, g) => AtOrBefore(e, g)
  BY <1>3 DEF AtOrBefore
<1>5. \A e, f, g \in Entries : Before(e, f) /\ AtOrBefore(f, g) => Before(e, g)
  BY <1>3 DEF AtOrBefore
<1>6. \A e, f \in Entries : Before(e, f) => ~AtOrBefore(f, e)
  BY EntryFacts DEF AtOrBefore, Before
<1>7. \A e, f \in Entries : AtOrBefore(e, f) => e.at <= f.at
  BY EntryFacts DEF AtOrBefore, Before
<1>8. \A e \in Entries : AtOrBefore(NoCursor, e) /\ AtOrBefore(e, e)
  <2> SUFFICES ASSUME NEW e \in Entries PROVE AtOrBefore(NoCursor, e) /\ AtOrBefore(e, e)
    OBVIOUS
  <2>1. NoCursor.at = 0 /\ NoCursor.row = 0 /\ e.at \in Nat /\ e.row \in Nat
    BY EntryFacts DEF NoCursor
  <2>2. QED
    BY <2>1, EntryFacts DEF AtOrBefore, Before
<1>9. QED
  BY <1>1, <1>2, <1>4, <1>5, <1>6, <1>7, <1>8

LEMMA EntriesFinite == IsFiniteSet(Entries)
<1> DEFINE P == (0..MaxClock) \X (Rows \cup {0})
           f == [p \in P |-> [at |-> p[1], row |-> p[2]]]
<1>1. IsFiniteSet(0..MaxClock) /\ IsFiniteSet(Rows \cup {0})
  BY ClockFacts, FS_Interval, FS_AddElement
<1>2. IsFiniteSet(P)
  BY <1>1, FS_Product
<1>3. f \in [P -> Entries]
  BY DEF Entries
<1>4. \A e \in Entries : \E p \in P : f[p] = e
  <2> SUFFICES ASSUME NEW e \in Entries PROVE f[<<e.at, e.row>>] = e /\ <<e.at, e.row>> \in P
    OBVIOUS
  <2>1. QED
    BY DEF Entries
<1>5. f \in Surjection(P, Entries)
  BY <1>3, <1>4 DEF Surjection
<1>6. QED
  BY <1>2, <1>5, FS_Surjection

LEMMA Extremes ==
  ASSUME NEW S \in SUBSET Entries, S # {}
  PROVE  /\ Least(S) \in S /\ \A f \in S : AtOrBefore(Least(S), f)
         /\ Greatest(S) \in S /\ \A f \in S : AtOrBefore(f, Greatest(S))
<1>1. IsFiniteSet(S)
  BY EntriesFinite, FS_Subset
<1>2. \E x \in S : \A y \in S : AtOrBefore(x, y)
  <2> DEFINE R == {p \in Entries \X Entries : AtOrBefore(p[2], p[1])}
  <2>1. \A x, y \in Entries : <<x, y>> \in R <=> AtOrBefore(y, x)
    OBVIOUS
  <2> HIDE DEF R
  <2>2. /\ \A x, y \in S : x = y \/ <<x, y>> \in R \/ <<y, x>> \in R
        /\ \A x, y, z \in S : <<x, y>> \in R /\ <<y, z>> \in R => <<x, z>> \in R
    BY <2>1, EntryOrder DEF AtOrBefore
  <2>3. \E x \in S : \A y \in S : y = x \/ <<y, x>> \in R
    BY <1>1, <2>2, LastExists
  <2>4. QED
    BY <2>1, <2>3 DEF AtOrBefore
<1>3. \E x \in S : \A y \in S : AtOrBefore(y, x)
  <2> DEFINE R == {p \in Entries \X Entries : AtOrBefore(p[1], p[2])}
  <2>1. \A x, y \in Entries : <<x, y>> \in R <=> AtOrBefore(x, y)
    OBVIOUS
  <2> HIDE DEF R
  <2>2. /\ \A x, y \in S : x = y \/ <<x, y>> \in R \/ <<y, x>> \in R
        /\ \A x, y, z \in S : <<x, y>> \in R /\ <<y, z>> \in R => <<x, z>> \in R
    BY <2>1, EntryOrder DEF AtOrBefore
  <2>3. \E x \in S : \A y \in S : y = x \/ <<y, x>> \in R
    BY <1>1, <2>2, LastExists
  <2>4. QED
    BY <2>1, <2>3 DEF AtOrBefore
<1>4. QED
  BY <1>2, <1>3 DEF Least, Greatest

\* A page has no gap: with a row it has every candidate before it.
LEMMA PageHasNoGap ==
  ASSUME NEW S \in SUBSET Entries, NEW n \in Nat, NEW e \in FirstOf(S, n), NEW f \in S, AtOrBefore(f, e)
  PROVE  f \in FirstOf(S, n)
<1> DEFINE B(x) == {g \in S : Before(g, x)}
<1>1. e \in S /\ Cardinality(B(e)) < n
  BY DEF FirstOf
<1>2. B(f) \subseteq B(e)
  BY <1>1, EntryOrder
<1>3. IsFiniteSet(S)
  BY EntriesFinite, FS_Subset
<1>4. IsFiniteSet(B(e)) /\ IsFiniteSet(B(f))
  BY <1>3, FS_Subset
<1>5. Cardinality(B(f)) <= Cardinality(B(e)) /\ Cardinality(B(f)) \in Nat /\ Cardinality(B(e)) \in Nat
  BY <1>2, <1>4, FS_Subset, FS_CardinalityType
<1>6. QED
  BY <1>1, <1>5 DEF FirstOf

-----------------------------------------------------------------------------
(* Lanes. *)

Waiting(s) == s.todo \cup UNION s.running

\* Lanes in progress hold traces of one session each, and no two of them, nor
\* a lane and a trace that waits for one, share a session.
LanesApart(s) ==
  /\ s.todo \subseteq s.traces
  /\ \A L \in s.running : L # {} /\ L \subseteq s.traces
  /\ \A L, M \in s.running : \A e \in L, f \in M : L = M <=> LaneKey(e) = LaneKey(f)
  /\ \A L \in s.running : \A e \in L, f \in s.todo : LaneKey(e) # LaneKey(f)

\* Nothing waits for a lane while no lane works, unless the batch broke.
Busy(s) == s.broke \/ s.running # {} \/ s.todo = {}

LEMMA LanesOfSet ==
  ASSUME NEW S \in SUBSET Entries
  PROVE  /\ \A L \in Lanes(S) : L # {} /\ L \subseteq S
         /\ \A L \in Lanes(S) : \A e \in L, f \in S : f \in L <=> LaneKey(e) = LaneKey(f)
         /\ UNION Lanes(S) = S
  BY DEF Lanes

LEMMA SomeLaneStarts ==
  ASSUME NEW S \in SUBSET Entries, S # {}, NEW n \in Nat \ {0}
  PROVE  FirstLanes(S, n) # {}
<1> DEFINE e == Least(S)
           L == {f \in S : LaneKey(f) = LaneKey(e)}
<1>1. e \in S /\ \A f \in S : AtOrBefore(e, f)
  BY Extremes
<1>2. L \in Lanes(S) /\ e \in L /\ L \subseteq S
  BY <1>1 DEF Lanes
<1> HIDE DEF L, e
<1>3. Least(L) \in L /\ \A f \in L : AtOrBefore(Least(L), f)
  BY <1>2, Extremes
<1>4. Least(L) = e
  BY <1>1, <1>2, <1>3, EntryOrder
<1>5. ASSUME NEW M \in Lanes(S), Before(Least(M), Least(L)) PROVE FALSE
  <2>1. M # {} /\ M \subseteq S
    BY LanesOfSet
  <2>2. Least(M) \in S
    BY <2>1, Extremes
  <2>3. QED
    BY <1>1, <1>4, <1>5, <2>2, EntryOrder
<1>6. {M \in Lanes(S) : Before(Least(M), Least(L))} = {}
  BY <1>5
<1>7. Cardinality({M \in Lanes(S) : Before(Least(M), Least(L))}) < n
  BY <1>6, FS_EmptySet
<1>8. L \in FirstLanes(S, n)
  BY <1>2, <1>7 DEF FirstLanes
<1>9. QED
  BY <1>8

LEMMA RefillKeeps ==
  ASSUME NEW s \in DrainerStates, LanesApart(s)
  PROVE  LET t == Refill(s) IN
         /\ t \in DrainerStates /\ LanesApart(t) /\ Busy(t)
         /\ Waiting(t) = Waiting(s)
         /\ t.traces = s.traces /\ t.broke = s.broke /\ t.pc = s.pc /\ t.next = s.next
         /\ t.read = s.read /\ t.now = s.now
<1> DEFINE taken == FirstLanes(s.todo, Concurrency - Cardinality(s.running))
           t == [s EXCEPT !.running = @ \cup taken, !.todo = @ \ UNION taken]
<1>1. CASE s.broke
  BY <1>1 DEF Refill, Busy
<1>2. CASE ~s.broke
  <2>1. s.todo \in SUBSET Entries /\ s.traces \in SUBSET Entries /\ s.running \in SUBSET SUBSET Entries
    BY DEF DrainerStates
  <2>2. taken \subseteq Lanes(s.todo)
    BY DEF FirstLanes
  <2> HIDE DEF taken
  <2>3. /\ \A L \in taken : L # {} /\ L \subseteq s.todo
        /\ \A L \in taken : \A e \in L, f \in s.todo : f \in L <=> LaneKey(e) = LaneKey(f)
    BY <2>1, <2>2, LanesOfSet
  <2>4. t.running = s.running \cup taken /\ t.todo = s.todo \ UNION taken
        /\ t.traces = s.traces /\ t.broke = s.broke /\ t.pc = s.pc /\ t.next = s.next
        /\ t.read = s.read /\ t.now = s.now
    BY DEF DrainerStates
  <2>5. t \in DrainerStates
    <3>1. s.running \cup taken \in SUBSET SUBSET Entries /\ s.todo \ UNION taken \in SUBSET Entries
      BY <2>1, <2>3
    <3>2. QED
      BY <3>1 DEF DrainerStates
  <2> HIDE DEF t
  <2>6. LanesApart(t)
    <3>1. t.todo \subseteq t.traces /\ \A L \in t.running : L # {} /\ L \subseteq t.traces
      BY <2>3, <2>4 DEF LanesApart
    <3>2. ASSUME NEW L \in t.running, NEW M \in t.running, NEW e \in L, NEW f \in M
          PROVE  L = M <=> LaneKey(e) = LaneKey(f)
      <4>1. CASE L \in s.running /\ M \in s.running
        BY <4>1 DEF LanesApart
      <4>2. CASE L \in taken /\ M \in taken
        <5>1. e \in s.todo /\ f \in s.todo
          BY <2>3, <4>2
        <5>2. ASSUME LaneKey(e) = LaneKey(f) PROVE \A g \in s.todo : g \in L <=> g \in M
          BY <2>3, <4>2, <5>2
        <5>3. LaneKey(e) = LaneKey(f) => L = M
          BY <2>3, <4>2, <5>2
        <5>4. L = M => LaneKey(e) = LaneKey(f)
          BY <2>3, <4>2, <5>1
        <5>5. QED
          BY <5>3, <5>4
      <4>3. CASE L \in s.running /\ M \in taken
        <5>1. LaneKey(e) # LaneKey(f)
          BY <2>3, <4>3 DEF LanesApart
        <5>2. L # M
          BY <2>3, <4>3 DEF LanesApart
        <5>3. QED
          BY <5>1, <5>2
      <4>4. CASE L \in taken /\ M \in s.running
        <5>1. LaneKey(f) # LaneKey(e)
          BY <2>3, <4>4 DEF LanesApart
        <5>2. L # M
          BY <2>3, <4>4 DEF LanesApart
        <5>3. QED
          BY <5>1, <5>2
      <4>5. QED
        BY <2>4, <4>1, <4>2, <4>3, <4>4
    <3>3. ASSUME NEW L \in t.running, NEW e \in L, NEW f \in t.todo PROVE LaneKey(e) # LaneKey(f)
      BY <2>3, <2>4 DEF LanesApart
    <3>4. QED
      BY <3>1, <3>2, <3>3 DEF LanesApart
  <2>7. Waiting(t) = Waiting(s)
    BY <2>3, <2>4 DEF Waiting
  <2>8. Busy(t)
    <3> SUFFICES ASSUME t.running = {}, s.todo # {} PROVE FALSE
      BY <2>4 DEF Busy
    <3>1. Cardinality(s.running) = 0 /\ taken = {}
      BY <2>4, FS_EmptySet
    <3>2. taken # {}
      BY <2>1, <3>1, SomeLaneStarts, ClockFacts DEF taken
    <3>3. QED
      BY <3>1, <3>2
  <2>9. Refill(s) = t
    BY <1>2 DEF Refill, t, taken
  <2>10. QED
    BY <2>4, <2>5, <2>6, <2>7, <2>8, <2>9
<1>3. QED
  BY <1>1, <1>2

LEMMA AdvanceKeeps ==
  ASSUME NEW s \in DrainerStates, LanesApart(s), NEW lane \in s.running
  PROVE  LET t == Advance(s, lane) IN
         /\ t \in DrainerStates /\ LanesApart(t) /\ Busy(t)
         /\ Waiting(t) \subseteq Waiting(s)
         /\ ~s.broke => Waiting(s) \subseteq Waiting(t) \cup {Least(lane)}
         /\ t.traces = s.traces /\ t.broke = s.broke /\ t.pc = s.pc /\ t.next = s.next
         /\ t.read = s.read /\ t.now = s.now
<1> DEFINE rest == lane \ {Least(lane)}
           more == IF rest = {} \/ s.broke THEN {} ELSE {rest}
           u == [s EXCEPT !.running = (@ \ {lane}) \cup more]
<1>1. lane \subseteq s.traces /\ lane # {} /\ s.running \in SUBSET SUBSET Entries /\ lane \subseteq Entries
  BY DEF LanesApart, DrainerStates
<1>2. /\ u.running = (s.running \ {lane}) \cup more /\ u.todo = s.todo
      /\ u.traces = s.traces /\ u.broke = s.broke /\ u.pc = s.pc /\ u.next = s.next
      /\ u.read = s.read /\ u.now = s.now
  BY DEF DrainerStates
<1>3. u \in DrainerStates
  <2>1. (s.running \ {lane}) \cup more \in SUBSET SUBSET Entries
    BY <1>1
  <2> HIDE DEF more
  <2>2. QED
    BY <2>1 DEF DrainerStates
<1>4. Advance(s, lane) = Refill(u)
  BY DEF Advance
<1> HIDE DEF u
<1>5. \A L \in u.running : L \in s.running \/ (L = rest /\ rest # {})
  BY <1>2
<1>6. LanesApart(u)
  <2>1. \A L \in u.running : \E K \in s.running : L # {} /\ L \subseteq K /\ (L = K \/ (L = rest /\ K = lane))
    BY <1>1, <1>5 DEF LanesApart
  <2>2. \A L \in u.running : L # lane \/ rest = lane
    BY <1>2
  <2>3. rest # lane
    BY <1>1, Extremes
  <2>4. ASSUME NEW L \in u.running, NEW M \in u.running, NEW e \in L, NEW f \in M
        PROVE  L = M <=> LaneKey(e) = LaneKey(f)
    <3>1. PICK K \in s.running : L \subseteq K /\ (L = K \/ (L = rest /\ K = lane))
      BY <2>1
    <3>2. PICK N \in s.running : M \subseteq N /\ (M = N \/ (M = rest /\ N = lane))
      BY <2>1
    <3>3. K = N <=> LaneKey(e) = LaneKey(f)
      BY <3>1, <3>2 DEF LanesApart
    <3>4. ASSUME L = M PROVE LaneKey(e) = LaneKey(f)
      <4>1. e \in K /\ f \in K
        BY <3>1, <3>4
      <4>2. QED
        BY <4>1 DEF LanesApart
    <3>5. ASSUME K = N PROVE L = M
      BY <2>2, <2>3, <3>1, <3>2, <3>5
    <3>6. QED
      BY <3>3, <3>4, <3>5
  <2>5. ASSUME NEW L \in u.running, NEW e \in L, NEW f \in u.todo PROVE LaneKey(e) # LaneKey(f)
    BY <1>2, <2>1 DEF LanesApart
  <2>6. QED
    BY <1>2, <2>1, <2>4, <2>5 DEF LanesApart
<1>7. Waiting(u) \subseteq Waiting(s)
  BY <1>2 DEF Waiting
<1>8. ASSUME ~s.broke PROVE Waiting(s) \subseteq Waiting(u) \cup {Least(lane)}
  <2>1. ASSUME NEW e \in lane, e # Least(lane) PROVE e \in UNION u.running
    <3>1. rest \in u.running
      BY <1>2, <1>8, <2>1
    <3>2. QED
      BY <2>1, <3>1
  <2>2. QED
    BY <1>2, <2>1 DEF Waiting
<1>9. QED
  BY <1>2, <1>3, <1>4, <1>6, <1>7, <1>8, RefillKeeps

-----------------------------------------------------------------------------
(* The invariant, over a clock c, the source's writes w, the archive a, the *)
(* watermark k and the set L of rows that landed.                          *)

Marking == {"advance", "create", "retry", "settled"}

Entry(w, r) == [at |-> w[r], row |-> r]

\* Every row the source shows at or before a watermark is in S.
Covered(next, w, S) == \A r \in Rows : w[r] # 0 /\ AtOrBefore(Entry(w, r), next) => r \in S

\* No row at or before it may still change.
Quieted(next, c) == next = NoCursor \/ next.at + Quiet < c

\* The traces of a batch are final, and each has landed or is still to come.
InHand(s, c, w, L) ==
  \A e \in s.traces :
    /\ e.row \in Rows /\ e.at # 0 /\ e.at = w[e.row] /\ e.at + Quiet < c
    /\ s.broke \/ e.row \in L \/ e \in Waiting(s)

Held(s, c, w, k, L) ==
  /\ s.now <= c /\ AtOrBefore(s.read, k)
  /\ s.pc # "lanes" => s.todo = {} /\ s.running = {}
  /\ s.pc = "lanes" =>
       /\ LanesApart(s) /\ Busy(s) /\ InHand(s, c, w, L)
       /\ Quieted(s.next, c) /\ Covered(s.next, w, L \cup {e.row : e \in s.traces})
  /\ s.pc \in Marking => s.next # NoCursor /\ Quieted(s.next, c) /\ Covered(s.next, w, L)
  /\ s.pc = "retry" => k # NoCursor
  /\ s.pc = "settled" => AtOrBefore(s.next, k)

Sound(c, w, a, k, L) ==
  /\ \A r \in Rows : a[r] # 0 => a[r] = w[r] /\ w[r] + Quiet < c
  /\ Quieted(k, c) /\ Covered(k, w, L)

LandedRows == {r \in Rows : Landed(r)}

BatchInv ==
  /\ TypeOK
  /\ Sound(clock, written, stored, cursor, LandedRows)
  /\ \A d \in Drainers : Held(drainer[d], clock, written, cursor, LandedRows)

-----------------------------------------------------------------------------
(* Time passes, the source writes, others work. *)

Writes == [Rows -> 0..LastWrite]

\* The source touches no row that was silent for the quiet period.
Rewrites(w, x, c) ==
  \A r \in Rows : x[r] = w[r] \/ (x[r] + Quiet >= c /\ (w[r] = 0 \/ w[r] + Quiet >= c))

LEMMA EntryTyped ==
  ASSUME NEW w \in Writes, NEW r \in Rows
  PROVE  /\ Entry(w, r) \in Entries /\ w[r] \in Nat
         /\ Entry(w, r).at = w[r] /\ Entry(w, r).row = r
  BY ClockFacts DEF Writes, Entry, Entries

LEMMA NothingBeforeNoCursor ==
  ASSUME NEW w \in Writes, NEW S PROVE Covered(NoCursor, w, S)
<1> SUFFICES ASSUME NEW r \in Rows, w[r] # 0, AtOrBefore(Entry(w, r), NoCursor) PROVE FALSE
  BY DEF Covered
<1>1. w[r] <= NoCursor.at
  BY EntryTyped, EntryOrder, EntryFacts
<1>2. QED
  BY <1>1, EntryTyped DEF NoCursor

LEMMA CoveredLater ==
  ASSUME NEW w \in Writes, NEW x \in Writes, NEW c \in Nat, Rewrites(w, x, c),
         NEW next \in Entries, Quieted(next, c), NEW S, NEW T, S \subseteq T, Covered(next, w, S)
  PROVE  Covered(next, x, T)
<1>1. CASE next = NoCursor
  BY <1>1, NothingBeforeNoCursor
<1>2. CASE next # NoCursor
  <2> SUFFICES ASSUME NEW r \in Rows, x[r] # 0, AtOrBefore(Entry(x, r), next) PROVE r \in T
    BY DEF Covered
  <2>1. x[r] <= next.at /\ next.at \in Nat /\ x[r] \in Nat
    BY EntryTyped, EntryOrder, EntryFacts
  <2>2. x[r] + Quiet < c
    BY <1>2, <2>1, ClockFacts DEF Quieted
  <2>3. x[r] = w[r]
    BY <2>1, <2>2, ClockFacts DEF Rewrites
  <2>4. Entry(x, r) = Entry(w, r)
    BY <2>3 DEF Entry
  <2>5. QED
    BY <2>3, <2>4 DEF Covered
<1>3. QED
  BY <1>1, <1>2

LEMMA HeldLater ==
  ASSUME NEW s \in DrainerStates, NEW w \in Writes, NEW x \in Writes, NEW c \in Nat, NEW b \in Nat, c <= b,
         NEW k \in Entries, NEW l \in Entries, AtOrBefore(k, l), NEW L, NEW M, L \subseteq M,
         Rewrites(w, x, c), Held(s, c, w, k, L)
  PROVE  Held(s, b, x, l, M)
<1>1. s.now \in Nat /\ s.read \in Entries /\ s.next \in Entries /\ s.traces \subseteq Entries
  BY ClockFacts DEF DrainerStates
<1>2. s.now <= b /\ AtOrBefore(s.read, l)
  BY <1>1, EntryOrder DEF Held
<1>3. ASSUME Quieted(s.next, c) PROVE Quieted(s.next, b)
  BY <1>1, <1>3, EntryFacts, ClockFacts DEF Quieted
<1>4. ASSUME s.pc = "lanes"
      PROVE  /\ LanesApart(s) /\ Busy(s) /\ InHand(s, b, x, M)
             /\ Quieted(s.next, b) /\ Covered(s.next, x, M \cup {e.row : e \in s.traces})
  <2>1. LanesApart(s) /\ Busy(s) /\ InHand(s, c, w, L) /\ Quieted(s.next, c)
        /\ Covered(s.next, w, L \cup {e.row : e \in s.traces})
    BY <1>4 DEF Held
  <2>2. InHand(s, b, x, M)
    <3> SUFFICES ASSUME NEW e \in s.traces
                 PROVE  /\ e.row \in Rows /\ e.at # 0 /\ e.at = x[e.row] /\ e.at + Quiet < b
                        /\ s.broke \/ e.row \in M \/ e \in Waiting(s)
      BY DEF InHand
    <3>1. /\ e.row \in Rows /\ e.at # 0 /\ e.at = w[e.row] /\ e.at + Quiet < c
          /\ s.broke \/ e.row \in M \/ e \in Waiting(s)
      BY <2>1 DEF InHand
    <3>2. e.at \in Nat
      BY <1>1, EntryFacts
    <3>3. x[e.row] = w[e.row]
      <4>0. e.row \in Rows /\ e.at = w[e.row] /\ w[e.row] # 0 /\ e.at + Quiet < c
        BY <3>1
      <4>1. ~(w[e.row] + Quiet >= c)
        BY <3>2, <4>0, ClockFacts
      <4>2. QED
        BY <4>0, <4>1 DEF Rewrites
    <3>4. QED
      BY <3>1, <3>2, <3>3, ClockFacts
  <2>3. Covered(s.next, x, M \cup {e.row : e \in s.traces})
    <3> DEFINE R == {e.row : e \in s.traces}
    <3>1. L \cup R \subseteq M \cup R
      OBVIOUS
    <3> HIDE DEF R
    <3>2. QED
      BY <1>1, <2>1, <3>1, CoveredLater DEF R
  <2>4. QED
    BY <1>3, <2>1, <2>2, <2>3
<1>5. ASSUME s.pc \in Marking PROVE s.next # NoCursor /\ Quieted(s.next, b) /\ Covered(s.next, x, M)
  <2>1. s.next # NoCursor /\ Quieted(s.next, c) /\ Covered(s.next, w, L)
    BY <1>5 DEF Held
  <2>2. QED
    BY <1>1, <1>3, <2>1, CoveredLater
<1>6. ASSUME s.pc = "retry" PROVE l # NoCursor
  BY <1>6, EntryOrder, EntryFacts DEF Held
<1>7. ASSUME s.pc = "settled" PROVE AtOrBefore(s.next, l)
  BY <1>1, <1>7, EntryOrder DEF Held
<1>8. QED
  BY <1>2, <1>4, <1>5, <1>6, <1>7 DEF Held

\* The source shows rows late and touches them again, but no row that has
\* been silent for the quiet period.
LEMMA SourceKeeps ==
  ASSUME TypeOK, NEW r \in Rows, SourceWrite(r)
  PROVE  written' \in Writes /\ Rewrites(written, written', clock)
<1>1. PICK u \in 1..LastWrite :
        /\ u <= clock /\ clock <= u + Lag
        /\ written[r] = 0 \/ (written[r] < u /\ u <= written[r] + Gap)
        /\ written' = [written EXCEPT ![r] = u]
  BY DEF SourceWrite
<1>2. written \in Writes /\ clock \in Nat /\ written[r] \in Nat
  BY ClockFacts DEF TypeOK, Writes
<1>3. written' \in Writes
  BY <1>1, <1>2, ClockFacts DEF Writes
<1>4. \A q \in Rows : written'[q] = IF q = r THEN u ELSE written[q]
  BY <1>1, <1>2 DEF Writes
<1>5. u + Quiet >= clock /\ (written[r] = 0 \/ written[r] + Quiet >= clock)
  BY <1>1, <1>2, ClockFacts
<1>6. QED
  BY <1>3, <1>4, <1>5 DEF Rewrites

\* Steps of the source: nothing of ours changes.
LEMMA OutsideKeeps ==
  ASSUME BatchInv, Tick \/ \E r \in Rows : SourceWrite(r)
  PROVE  BatchInv'
<1>0. /\ TypeOK /\ written \in Writes /\ clock \in Nat /\ cursor \in Entries /\ drainer \in [Drainers -> DrainerStates]
      /\ Sound(clock, written, stored, cursor, LandedRows)
  BY ClockFacts DEF BatchInv, TypeOK, Writes
<1>1. /\ UNCHANGED <<stored, parked, poisonTrail, cursor, drainer, faults>>
      /\ clock' \in 1..MaxClock /\ clock <= clock'
      /\ written' \in Writes /\ Rewrites(written, written', clock)
  <2>1. CASE Tick
    BY <1>0, <2>1, ClockFacts DEF Tick, TypeOK, Rewrites, MaxClock
  <2>2. ASSUME NEW r \in Rows, SourceWrite(r)
        PROVE  /\ UNCHANGED <<clock, stored, parked, poisonTrail, cursor, drainer, faults>>
               /\ written' \in Writes /\ Rewrites(written, written', clock)
    BY <1>0, <2>2, SourceKeeps DEF SourceWrite
  <2>3. QED
    BY <1>0, <2>1, <2>2, ClockFacts DEF TypeOK
<1>2. LandedRows' = LandedRows
  BY <1>1 DEF LandedRows, Landed
<1>3. TypeOK'
  BY <1>0, <1>1 DEF TypeOK, Writes
<1>4. clock' \in Nat
  BY <1>1, ClockFacts
<1>5. Sound(clock', written', stored', cursor', LandedRows')
  <2>1. \A r \in Rows : stored[r] # 0 => stored[r] = written'[r] /\ written'[r] + Quiet < clock'
    <3> SUFFICES ASSUME NEW r \in Rows, stored[r] # 0
                 PROVE  stored[r] = written'[r] /\ written'[r] + Quiet < clock'
      OBVIOUS
    <3>1. stored[r] = written[r] /\ written[r] + Quiet < clock /\ written[r] \in Nat /\ written[r] # 0
      BY <1>0, EntryTyped DEF Sound
    <3>2. written'[r] = written[r]
      BY <1>0, <1>1, <3>1, ClockFacts DEF Rewrites
    <3>3. QED
      BY <1>0, <1>1, <1>4, <3>1, <3>2, ClockFacts
  <2>2. Quieted(cursor, clock')
    <3>1. cursor.at \in Nat
      BY <1>0, EntryFacts
    <3>2. QED
      BY <1>0, <1>1, <1>4, <3>1, ClockFacts DEF Sound, Quieted
  <2>3. Covered(cursor, written', LandedRows)
    BY <1>0, <1>1, CoveredLater DEF Sound
  <2>4. QED
    BY <1>1, <1>2, <2>1, <2>2, <2>3 DEF Sound
<1>6. ASSUME NEW d \in Drainers PROVE Held(drainer'[d], clock', written', cursor', LandedRows')
  <2>1. drainer[d] \in DrainerStates /\ Held(drainer[d], clock, written, cursor, LandedRows)
    BY <1>0 DEF BatchInv
  <2>2. AtOrBefore(cursor, cursor)
    BY <1>0, EntryOrder
  <2>3. Held(drainer[d], clock', written', cursor, LandedRows)
    BY <1>0, <1>1, <1>4, <2>1, <2>2, HeldLater
  <2>4. QED
    BY <1>1, <1>2, <2>3
<1>7. QED
  BY <1>3, <1>5, <1>6 DEF BatchInv

\* A step of one drainer: it is enough that its own new state holds up.
LEMMA StepKeeps ==
  ASSUME BatchInv, NEW d \in Drainers, NEW s \in DrainerStates,
         drainer' = [drainer EXCEPT ![d] = s], UNCHANGED <<clock, written>>,
         stored' \in Writes, parked' \in SUBSET Rows, poisonTrail' \in SUBSET Rows, faults' \in 0..MaxFaults,
         cursor' \in Entries, AtOrBefore(cursor, cursor'), LandedRows \subseteq LandedRows',
         Sound(clock, written, stored', cursor', LandedRows'),
         Held(s, clock, written, cursor', LandedRows')
  PROVE  BatchInv'
<1>1. /\ written \in Writes /\ clock \in Nat /\ cursor \in Entries /\ drainer \in [Drainers -> DrainerStates]
      /\ TypeOK
  BY ClockFacts DEF BatchInv, TypeOK, Writes
<1>2. TypeOK'
  BY <1>1 DEF TypeOK, Writes
<1>3. Sound(clock', written', stored', cursor', LandedRows')
  OBVIOUS
<1>4. Rewrites(written, written, clock)
  BY DEF Rewrites
<1>5. ASSUME NEW e \in Drainers PROVE Held(drainer'[e], clock', written', cursor', LandedRows')
  <2>1. CASE e = d
    BY <1>1, <2>1
  <2>2. CASE e # d
    <3>1. drainer[e] \in DrainerStates /\ Held(drainer[e], clock, written, cursor, LandedRows)
      BY <1>1 DEF BatchInv
    <3>2. Held(drainer[e], clock, written, cursor', LandedRows')
      <4>1. clock <= clock
        BY <1>1
      <4>2. QED
        BY <1>1, <1>4, <3>1, <4>1, HeldLater
    <3>3. drainer'[e] = drainer[e]
      BY <1>1, <2>2
    <3>4. QED
      BY <3>2, <3>3
  <2>3. QED
    BY <2>1, <2>2
<1>6. QED
  BY <1>2, <1>3, <1>5 DEF BatchInv

\* What the invariant says of the drainer that steps.
LEMMA OwnState ==
  ASSUME BatchInv, NEW d \in Drainers
  PROVE  /\ drainer \in [Drainers -> DrainerStates] /\ drainer[d] \in DrainerStates
         /\ Held(drainer[d], clock, written, cursor, LandedRows)
         /\ Sound(clock, written, stored, cursor, LandedRows)
         /\ drainer[d].read \in Entries /\ drainer[d].next \in Entries
         /\ drainer[d].now \in 0..MaxClock /\ drainer[d].now \in Nat
         /\ clock \in Nat /\ clock \in 0..MaxClock /\ cursor \in Entries /\ AtOrBefore(cursor, cursor)
         /\ written \in Writes /\ stored \in Writes /\ parked \in SUBSET Rows
         /\ poisonTrail \in SUBSET Rows /\ faults \in 0..MaxFaults
  BY ClockFacts, EntryOrder DEF BatchInv, TypeOK, Writes, DrainerStates

LEMMA IdleHeld ==
  /\ Idle \in DrainerStates
  /\ \A c \in Nat, k \in Entries : \A w, L : Held(Idle, c, w, k, L)
<1>1. Idle \in DrainerStates
  BY ClockFacts, EntryFacts DEF Idle, DrainerStates, Pcs
<1>2. QED
  BY <1>1, EntryOrder DEF Held, Idle, Marking

LEMMA InitHolds == Init => BatchInv
<1> SUFFICES ASSUME Init PROVE BatchInv
  OBVIOUS
<1>1. TypeOK
  BY ClockFacts, EntryFacts, IdleHeld DEF Init, TypeOK, MaxClock
<1>2. written \in Writes /\ clock \in Nat /\ cursor \in Entries /\ cursor = NoCursor
  BY <1>1, ClockFacts DEF Init, TypeOK, Writes
<1>3. Sound(clock, written, stored, cursor, LandedRows)
  BY <1>2, NothingBeforeNoCursor DEF Init, Sound, Quieted
<1>4. \A d \in Drainers : Held(drainer[d], clock, written, cursor, LandedRows)
  BY <1>2, IdleHeld DEF Init
<1>5. QED
  BY <1>1, <1>3, <1>4 DEF BatchInv

\* Steps that leave everything shared as it is.
LEMMA AloneKeeps ==
  ASSUME BatchInv, NEW d \in Drainers, NEW s \in DrainerStates,
         drainer' = [drainer EXCEPT ![d] = s], UNCHANGED <<clock, written, stored, parked, poisonTrail, cursor>>,
         faults' \in 0..MaxFaults, Held(s, clock, written, cursor, LandedRows)
  PROVE  BatchInv'
<1>1. LandedRows' = LandedRows
  BY DEF LandedRows, Landed
<1>2. QED
  BY <1>1, OwnState, StepKeeps

-----------------------------------------------------------------------------
(* The steps of a batch. *)

LEMMA ReadsKeep ==
  ASSUME BatchInv, NEW d \in Drainers, ReadCursor(d) \/ ReadClock(d) \/ Report(d) \/ Crash(d)
  PROVE  BatchInv'
<1> DEFINE s == drainer[d]
<1>0. s \in DrainerStates /\ Held(s, clock, written, cursor, LandedRows)
  BY OwnState
<1> HIDE DEF s
<1>1. CASE ReadCursor(d)
  <2> DEFINE t == [s EXCEPT !.pc = "clock", !.read = cursor]
  <2>1. t \in DrainerStates
    BY <1>0, OwnState DEF DrainerStates, Pcs
  <2>2. t.pc = "clock" /\ t.read = cursor /\ t.now = s.now /\ t.todo = s.todo /\ t.running = s.running
    BY <1>0 DEF DrainerStates
  <2>3. s.pc = "idle" /\ drainer' = [drainer EXCEPT ![d] = t]
    BY <1>1, OwnState DEF ReadCursor, s
  <2> HIDE DEF t
  <2>4. clock <= clock /\ AtOrBefore(cursor, cursor)
    BY OwnState
  <2>5. Held(t, clock, written, cursor, LandedRows)
    BY <1>0, <2>2, <2>3, <2>4 DEF Held, Marking
  <2>6. QED
    BY <1>1, <2>1, <2>3, <2>5, AloneKeeps, OwnState DEF ReadCursor
<1>2. CASE ReadClock(d)
  <2> DEFINE t == [s EXCEPT !.pc = "fetch", !.now = clock]
  <2>1. t \in DrainerStates
    BY <1>0, OwnState DEF DrainerStates, Pcs
  <2>2. t.pc = "fetch" /\ t.read = s.read /\ t.now = clock /\ t.todo = s.todo /\ t.running = s.running
    BY <1>0 DEF DrainerStates
  <2>3. s.pc = "clock" /\ drainer' = [drainer EXCEPT ![d] = t]
    BY <1>2, OwnState DEF ReadClock, NowOf, s
  <2> HIDE DEF t
  <2>4. clock <= clock /\ AtOrBefore(cursor, cursor)
    BY OwnState
  <2>5. Held(t, clock, written, cursor, LandedRows)
    BY <1>0, <2>2, <2>3, <2>4 DEF Held, Marking
  <2>6. QED
    BY <1>2, <2>1, <2>3, <2>5, AloneKeeps, OwnState DEF ReadClock
<1>3. CASE Report(d) \/ Crash(d)
  <2>1. /\ drainer' = [drainer EXCEPT ![d] = Idle]
        /\ UNCHANGED <<clock, written, stored, parked, poisonTrail, cursor>>
        /\ faults' \in 0..MaxFaults
    BY <1>3, OwnState, ClockFacts DEF Report, Crash
  <2>2. QED
    BY <2>1, IdleHeld, AloneKeeps, OwnState
<1>4. QED
  BY <1>1, <1>2, <1>3

\* What a page holds: rows after the cursor it was read from, silent for the
\* quiet period by the source's clock.
LEMMA CandidateFacts ==
  ASSUME BatchInv, NEW d \in Drainers
  PROVE  LET S == Candidates(drainer[d]) IN
         /\ S \subseteq Entries
         /\ \A e \in S : /\ e.row \in Rows /\ e.at # 0 /\ e.at = written[e.row]
                         /\ e.at + Quiet < drainer[d].now /\ Before(drainer[d].read, e)
         /\ \A r \in Rows : /\ written[r] # 0 /\ Before(drainer[d].read, Entry(written, r))
                            /\ written[r] + Quiet < drainer[d].now
                            => Entry(written, r) \in S
<1> DEFINE s == drainer[d]
           W == {[at |-> written[r], row |-> r] : r \in {q \in Rows : written[q] # 0}}
<1>1. \A e \in W : e \in Entries /\ e.row \in Rows /\ e.at # 0 /\ e.at = written[e.row]
  BY OwnState, EntryTyped DEF Entry
<1>2. \A r \in Rows : written[r] # 0 => Entry(written, r) \in W
  BY DEF Entry
<1>3. Candidates(s) = {e \in W : Before(s.read, e) /\ e.at + Quiet < s.now}
  BY DEF Candidates, Silent
<1>4. \A r \in Rows : Entry(written, r).at = written[r]
  BY DEF Entry
<1> HIDE DEF W
<1>5. QED
  BY <1>1, <1>2, <1>3, <1>4

LEMMA FetchKeeps ==
  ASSUME BatchInv, NEW d \in Drainers, Fetch(d)
  PROVE  BatchInv'
<1> DEFINE s == drainer[d]
           page == FirstOf(Candidates(s), BatchSize)
           poison == {e \in page : e.row \in Poison}
           next == CursorOf(page)
           kept == page \ poison
           u == [s EXCEPT !.pc = "lanes", !.next = next, !.traces = kept, !.todo = kept]
           refused == \/ Cardinality(page) >= BreakerMin /\ page = poison
                      \/ next # NoCursor /\ ~Before(s.read, next)
<1>0. s \in DrainerStates /\ Held(s, clock, written, cursor, LandedRows) /\ s.pc = "fetch"
  BY OwnState DEF Fetch
<1>1. /\ page \subseteq Candidates(s) /\ page \subseteq Entries
      /\ \A e \in page : /\ e.row \in Rows /\ e.at # 0 /\ e.at = written[e.row]
                         /\ e.at + Quiet < s.now /\ Before(s.read, e)
  BY CandidateFacts DEF FirstOf
<1>2. /\ poisonTrail' = poisonTrail \cup {e.row : e \in poison}
      /\ drainer' = [drainer EXCEPT ![d] = IF refused THEN Idle ELSE Refill(u)]
      /\ UNCHANGED <<clock, written, stored, parked, cursor, faults>>
  BY DEF Fetch
<1>3. next = NoCursor \/ next \in page
  <2> DEFINE usable == {e \in page : e.row \notin Broken}
  <2>1. usable # {} => Greatest(usable) \in usable
    BY <1>1, Extremes
  <2>2. QED
    BY <2>1 DEF CursorOf
<1>4. \A r \in Rows : written[r] # 0 /\ Before(s.read, Entry(written, r)) /\ written[r] + Quiet < s.now
                       => Entry(written, r) \in Candidates(s)
  BY CandidateFacts
<1>5. \A e \in page, f \in Candidates(s) : AtOrBefore(f, e) => f \in page
  BY CandidateFacts, PageHasNoGap, ClockFacts
<1> HIDE DEF page, refused, next
<1>6. poisonTrail' \in SUBSET Rows /\ LandedRows \subseteq LandedRows'
      /\ \A e \in poison : e.row \in LandedRows'
  BY <1>1, <1>2, OwnState DEF LandedRows, Landed
<1>7. Sound(clock, written, stored', cursor', LandedRows')
  BY <1>2, <1>6, OwnState DEF Sound, Covered
<1>8. next \in Entries /\ s.now <= clock /\ s.now \in Nat /\ clock \in Nat /\ AtOrBefore(s.read, cursor)
      /\ s.running = {} /\ s.todo = {} /\ s.read \in Entries
  BY <1>0, <1>1, <1>3, EntryFacts, OwnState DEF Held
<1>9. u \in DrainerStates
  BY <1>0, <1>1, <1>8 DEF DrainerStates, Pcs
<1>10. /\ u.pc = "lanes" /\ u.next = next /\ u.traces = kept /\ u.todo = kept
       /\ u.running = {} /\ u.now = s.now /\ u.read = s.read
  BY <1>0, <1>8 DEF DrainerStates
<1> HIDE DEF u, kept
<1>11. LanesApart(u)
  BY <1>10 DEF LanesApart
<1>12. /\ Refill(u) \in DrainerStates /\ LanesApart(Refill(u)) /\ Busy(Refill(u))
       /\ Waiting(Refill(u)) = kept
       /\ Refill(u).traces = kept /\ Refill(u).pc = "lanes" /\ Refill(u).next = next
       /\ Refill(u).read = s.read /\ Refill(u).now = s.now
  <2>1. Waiting(u) = kept
    BY <1>10 DEF Waiting
  <2>2. QED
    BY <1>9, <1>10, <1>11, <2>1, RefillKeeps
<1>13. Quieted(next, clock)
  <2>1. CASE next = NoCursor
    BY <2>1 DEF Quieted
  <2>2. CASE next # NoCursor
    BY <1>1, <1>3, <1>8, <2>2, EntryFacts, ClockFacts DEF Quieted
  <2>3. QED
    BY <2>1, <2>2
<1>14. Covered(next, written, LandedRows' \cup {e.row : e \in kept})
  <2>1. CASE next = NoCursor
    BY <2>1, NothingBeforeNoCursor, OwnState
  <2>2. CASE next # NoCursor
    <3> SUFFICES ASSUME NEW r \in Rows, written[r] # 0, AtOrBefore(Entry(written, r), next)
                 PROVE  r \in LandedRows' \cup {e.row : e \in kept}
      BY DEF Covered
    <3>1. Entry(written, r) \in Entries /\ Entry(written, r).at = written[r]
          /\ Entry(written, r).row = r /\ written[r] \in Nat
      BY EntryTyped, OwnState
    <3>2. CASE AtOrBefore(Entry(written, r), s.read)
      <4>1. AtOrBefore(Entry(written, r), cursor)
        BY <1>8, <3>1, <3>2, EntryOrder, OwnState
      <4>2. r \in LandedRows
        BY <4>1, OwnState DEF Sound, Covered
      <4>3. QED
        BY <1>6, <4>2
    <3>3. CASE ~AtOrBefore(Entry(written, r), s.read)
      <4>1. Before(s.read, Entry(written, r))
        BY <1>8, <3>1, <3>3, EntryOrder DEF AtOrBefore
      <4>2. written[r] <= next.at /\ next.at + Quiet < s.now /\ next.at \in Nat
        BY <1>1, <1>3, <1>8, <2>2, <3>1, EntryOrder, EntryFacts
      <4>3. written[r] + Quiet < s.now
        BY <1>8, <3>1, <4>2, ClockFacts
      <4>4. Entry(written, r) \in page
        BY <1>3, <1>4, <1>5, <2>2, <4>1, <4>3
      <4>5. CASE r \in Poison
        BY <1>6, <3>1, <4>4, <4>5
      <4>6. CASE r \notin Poison
        BY <3>1, <4>4, <4>6 DEF kept
      <4>7. QED
        BY <4>5, <4>6
    <3>4. QED
      BY <3>2, <3>3
  <2>3. QED
    BY <2>1, <2>2
<1>15. InHand(Refill(u), clock, written, LandedRows')
  <2> SUFFICES ASSUME NEW e \in kept
               PROVE  /\ e.row \in Rows /\ e.at # 0 /\ e.at = written[e.row] /\ e.at + Quiet < clock
                      /\ e \in Waiting(Refill(u))
    BY <1>12 DEF InHand
  <2>1. /\ e.row \in Rows /\ e.at # 0 /\ e.at = written[e.row] /\ e.at + Quiet < s.now /\ e.at \in Nat
    BY <1>1, EntryFacts DEF kept
  <2>2. QED
    BY <1>8, <1>12, <2>1, ClockFacts
<1>16. Held(Refill(u), clock, written, cursor, LandedRows')
  BY <1>8, <1>12, <1>13, <1>14, <1>15 DEF Held, Marking
<1>17. Held(Idle, clock, written, cursor, LandedRows') /\ Idle \in DrainerStates
  BY IdleHeld, OwnState
<1> DEFINE v == IF refused THEN Idle ELSE Refill(u)
<1>18. v \in DrainerStates /\ Held(v, clock, written, cursor, LandedRows')
  BY <1>12, <1>16, <1>17
<1> HIDE DEF v
<1>19. drainer' = [drainer EXCEPT ![d] = v]
  BY <1>2 DEF v
<1>20. QED
  BY <1>2, <1>6, <1>7, <1>18, <1>19, StepKeeps, OwnState

\* A lane goes on, or ends, once its trace landed or the batch broke.
LEMMA LaneGoesOn ==
  ASSUME BatchInv, NEW d \in Drainers, NEW lane \in drainer[d].running, drainer[d].pc = "lanes",
         NEW u \in DrainerStates, NEW L, LandedRows \subseteq L,
         u.pc = "lanes", u.now = drainer[d].now, u.read = drainer[d].read, u.next = drainer[d].next,
         u.traces = drainer[d].traces, u.todo = drainer[d].todo, u.running = drainer[d].running,
         drainer[d].broke => u.broke,
         u.broke \/ Least(lane).row \in L
  PROVE  Advance(u, lane) \in DrainerStates /\ Held(Advance(u, lane), clock, written, cursor, L)
<1> DEFINE s == drainer[d]
           t == Advance(u, lane)
<1>0. /\ s.now <= clock /\ AtOrBefore(s.read, cursor)
      /\ LanesApart(s) /\ InHand(s, clock, written, LandedRows) /\ Quieted(s.next, clock)
      /\ Covered(s.next, written, LandedRows \cup {e.row : e \in s.traces})
  BY OwnState DEF Held
<1>1. LanesApart(u) /\ lane \in u.running /\ Waiting(u) = Waiting(s)
  BY <1>0 DEF LanesApart, Waiting
<1>2. /\ t \in DrainerStates /\ LanesApart(t) /\ Busy(t)
      /\ Waiting(t) \subseteq Waiting(u)
      /\ ~u.broke => Waiting(u) \subseteq Waiting(t) \cup {Least(lane)}
      /\ t.traces = u.traces /\ t.broke = u.broke /\ t.pc = u.pc /\ t.next = u.next
      /\ t.read = u.read /\ t.now = u.now
  BY <1>1, AdvanceKeeps
<1> HIDE DEF t
<1>3. InHand(t, clock, written, L)
  <2> SUFFICES ASSUME NEW e \in s.traces
               PROVE  /\ e.row \in Rows /\ e.at # 0 /\ e.at = written[e.row] /\ e.at + Quiet < clock
                      /\ t.broke \/ e.row \in L \/ e \in Waiting(t)
    BY <1>2 DEF InHand
  <2>1. /\ e.row \in Rows /\ e.at # 0 /\ e.at = written[e.row] /\ e.at + Quiet < clock
        /\ s.broke \/ e.row \in LandedRows \/ e \in Waiting(s)
    BY <1>0 DEF InHand
  <2>2. t.broke \/ e.row \in L \/ e \in Waiting(t)
    BY <1>1, <1>2, <2>1
  <2>3. QED
    BY <2>1, <2>2
<1>4. Covered(t.next, written, L \cup {e.row : e \in t.traces})
  <2> DEFINE R == {e.row : e \in s.traces}
  <2>1. Covered(s.next, written, LandedRows \cup R)
    BY <1>0
  <2> HIDE DEF R
  <2>2. Covered(s.next, written, L \cup R)
    BY <2>1 DEF Covered
  <2>3. QED
    BY <1>2, <2>2 DEF R
<1>5. Held(t, clock, written, cursor, L)
  BY <1>0, <1>2, <1>3, <1>4 DEF Held, Marking
<1>6. QED
  BY <1>2, <1>5 DEF t

\* The trace a lane has in flight is one of the batch's traces, and final.
LEMMA InFlight ==
  ASSUME BatchInv, NEW d \in Drainers, NEW lane \in drainer[d].running, drainer[d].pc = "lanes"
  PROVE  LET e == Least(lane) IN
         e.row \in Rows /\ e.at \in 1..LastWrite /\ e.at = written[e.row] /\ e.at + Quiet < clock
<1>1. lane # {} /\ lane \subseteq drainer[d].traces /\ lane \subseteq Entries
      /\ InHand(drainer[d], clock, written, LandedRows)
  BY OwnState DEF Held, LanesApart, DrainerStates
<1>2. Least(lane) \in drainer[d].traces
  BY <1>1, Extremes
<1> DEFINE e == Least(lane)
<1>3. e.row \in Rows /\ e.at # 0 /\ e.at = written[e.row] /\ e.at + Quiet < clock
  BY <1>1, <1>2 DEF InHand
<1> HIDE DEF e
<1>4. written[e.row] \in 0..LastWrite
  BY <1>3, OwnState DEF Writes
<1>5. e.at \in 1..LastWrite
  BY <1>3, <1>4, ClockFacts
<1>6. QED
  BY <1>3, <1>5 DEF e

LEMMA IngestKeeps ==
  ASSUME BatchInv, NEW d \in Drainers, NEW lane \in drainer[d].running, Ingest(d, lane)
  PROVE  BatchInv'
<1> DEFINE s == drainer[d]
           e == Least(lane)
<1>1. /\ s.pc = "lanes" /\ UNCHANGED <<clock, written, parked, poisonTrail, cursor, faults>>
      /\ stored' = [stored EXCEPT ![e.row] = IF @ = 0 THEN e.at ELSE @]
      /\ drainer' = [drainer EXCEPT ![d] = Advance(s, lane)]
  BY OwnState DEF Ingest
<1>2. e.row \in Rows /\ e.at \in 1..LastWrite /\ e.at = written[e.row] /\ e.at + Quiet < clock
  BY <1>1, InFlight
<1> HIDE DEF e
<1>3. stored' \in Writes
      /\ \A r \in Rows : stored'[r] = IF r = e.row /\ stored[r] = 0 THEN e.at ELSE stored[r]
  BY <1>1, <1>2, ClockFacts, OwnState DEF Writes
<1>4. LandedRows \subseteq LandedRows' /\ e.row \in LandedRows'
  BY <1>1, <1>2, <1>3, ClockFacts, OwnState DEF LandedRows, Landed, Writes
<1>5. Sound(clock, written, stored', cursor', LandedRows')
  <2>1. \A r \in Rows : stored'[r] # 0 => stored'[r] = written[r] /\ written[r] + Quiet < clock
    BY <1>2, <1>3, OwnState DEF Sound
  <2>2. QED
    BY <1>1, <1>4, <2>1, OwnState DEF Sound, Covered
<1>6. Advance(s, lane) \in DrainerStates /\ Held(Advance(s, lane), clock, written, cursor, LandedRows')
  BY <1>1, <1>4, LaneGoesOn, OwnState DEF e
<1>7. QED
  BY <1>1, <1>3, <1>4, <1>5, <1>6, StepKeeps, OwnState

LEMMA DeadLetterKeeps ==
  ASSUME BatchInv, NEW d \in Drainers, NEW lane \in drainer[d].running, DeadLetter(d, lane)
  PROVE  BatchInv'
<1> DEFINE s == drainer[d]
           u == [s EXCEPT !.failed = @ + 1]
<1>1. /\ s.pc = "lanes" /\ UNCHANGED <<clock, written, stored, poisonTrail, cursor>>
      /\ parked' = parked \cup {Least(lane).row} /\ faults' \in 0..MaxFaults
      /\ drainer' = [drainer EXCEPT ![d] = Advance(u, lane)]
  <2>1. faults' \in 0..MaxFaults
    BY ClockFacts, OwnState DEF DeadLetter
  <2>2. drainer' = [drainer EXCEPT ![d] = Advance(u, lane)]
    BY Zenon DEF DeadLetter
  <2>3. QED
    BY <2>1, <2>2 DEF DeadLetter
<1>2. Least(lane).row \in Rows
  BY <1>1, InFlight
<1>3. /\ u \in DrainerStates
      /\ u.pc = s.pc /\ u.now = s.now /\ u.read = s.read /\ u.next = s.next /\ u.broke = s.broke
      /\ u.traces = s.traces /\ u.todo = s.todo /\ u.running = s.running
  BY OwnState DEF DrainerStates
<1> HIDE DEF u
<1>4. parked' \in SUBSET Rows /\ LandedRows \subseteq LandedRows' /\ Least(lane).row \in LandedRows'
  BY <1>1, <1>2, OwnState DEF LandedRows, Landed
<1>5. Sound(clock, written, stored', cursor', LandedRows')
  BY <1>1, <1>4, OwnState DEF Sound, Covered
<1>6. Advance(u, lane) \in DrainerStates /\ Held(Advance(u, lane), clock, written, cursor, LandedRows')
  BY <1>1, <1>3, <1>4, LaneGoesOn
<1>7. QED
  BY <1>1, <1>4, <1>5, <1>6, StepKeeps, OwnState

LEMMA SystemicKeeps ==
  ASSUME BatchInv, NEW d \in Drainers, NEW lane \in drainer[d].running, Systemic(d, lane)
  PROVE  BatchInv'
<1> DEFINE s == drainer[d]
           u == [s EXCEPT !.broke = TRUE]
<1>1. /\ s.pc = "lanes" /\ UNCHANGED <<clock, written, stored, parked, poisonTrail, cursor>>
      /\ faults' \in 0..MaxFaults
      /\ drainer' = [drainer EXCEPT ![d] = Advance(u, lane)]
  BY ClockFacts, OwnState DEF Systemic
<1>2. /\ u \in DrainerStates
      /\ u.pc = s.pc /\ u.now = s.now /\ u.read = s.read /\ u.next = s.next /\ u.broke
      /\ u.traces = s.traces /\ u.todo = s.todo /\ u.running = s.running
  BY OwnState DEF DrainerStates
<1> HIDE DEF u
<1>3. Advance(u, lane) \in DrainerStates /\ Held(Advance(u, lane), clock, written, cursor, LandedRows)
  BY <1>1, <1>2, LaneGoesOn
<1>4. QED
  BY <1>1, <1>3, AloneKeeps

\* The batch ends with every trace landed, or it does not move the watermark.
LEMMA EndKeeps ==
  ASSUME BatchInv, NEW d \in Drainers, EndLanes(d)
  PROVE  BatchInv'
<1> DEFINE s == drainer[d]
           t == [Idle EXCEPT !.pc = "advance", !.next = s.next]
           aborts == Aborts(s) \/ s.next = NoCursor
<1>1. /\ s.pc = "lanes" /\ s.running = {}
      /\ UNCHANGED <<clock, written, stored, parked, poisonTrail, cursor, faults>>
      /\ drainer' = [drainer EXCEPT ![d] = IF aborts THEN Idle ELSE t]
  BY DEF EndLanes
<1>2. /\ Busy(s) /\ InHand(s, clock, written, LandedRows) /\ Quieted(s.next, clock)
      /\ Covered(s.next, written, LandedRows \cup {e.row : e \in s.traces})
  BY <1>1, OwnState DEF Held
<1>3. Idle \in DrainerStates /\ Held(Idle, clock, written, cursor, LandedRows)
  BY IdleHeld, OwnState
<1>4. ASSUME ~aborts PROVE t \in DrainerStates /\ Held(t, clock, written, cursor, LandedRows)
  <2>1. ~s.broke /\ s.next # NoCursor
    BY <1>4 DEF Aborts
  <2>2. Waiting(s) = {}
    BY <1>1, <1>2, <2>1 DEF Busy, Waiting
  <2>3. {e.row : e \in s.traces} \subseteq LandedRows
    BY <1>2, <2>1, <2>2 DEF InHand
  <2>4. Covered(s.next, written, LandedRows)
    BY <1>2, <2>3 DEF Covered
  <2>5. t \in DrainerStates
    BY <1>3, OwnState DEF DrainerStates, Pcs
  <2>6. /\ t.pc = "advance" /\ t.next = s.next /\ t.now = 0 /\ t.read = NoCursor
        /\ t.todo = {} /\ t.running = {}
    BY DEF Idle
  <2> HIDE DEF t
  <2>7. Held(t, clock, written, cursor, LandedRows)
    <3>1. 0 <= clock /\ AtOrBefore(NoCursor, cursor)
      BY EntryOrder, OwnState
    <3>2. QED
      BY <1>2, <2>1, <2>4, <2>6, <3>1 DEF Held, Marking
  <2>8. QED
    BY <2>5, <2>7
<1> DEFINE v == IF aborts THEN Idle ELSE t
<1>5. v \in DrainerStates /\ Held(v, clock, written, cursor, LandedRows)
  BY <1>3, <1>4
<1> HIDE DEF v
<1>6. drainer' = [drainer EXCEPT ![d] = v]
  BY <1>1 DEF v
<1>7. QED
  BY <1>1, <1>5, <1>6, AloneKeeps, OwnState

-----------------------------------------------------------------------------
(* The three steps of setTraceCursor. *)

\* The watermark moves to the batch's own, or stays.
LEMMA MarkKeeps ==
  ASSUME BatchInv, NEW d \in Drainers, AdvanceCursor(d) \/ CreateCursor(d) \/ RetryCursor(d)
  PROVE  BatchInv' /\ AtOrBefore(cursor, cursor')
<1> DEFINE s == drainer[d]
<1>0. /\ s \in DrainerStates /\ s.next \in Entries /\ cursor \in Entries /\ AtOrBefore(cursor, cursor)
      /\ Held(s, clock, written, cursor, LandedRows) /\ s.pc \in Marking
      /\ s.todo = {} /\ s.running = {} /\ s.next # NoCursor
  BY OwnState DEF Held, Marking, AdvanceCursor, CreateCursor, RetryCursor
<1>1. UNCHANGED <<clock, written, stored, parked, poisonTrail, faults>>
  BY DEF AdvanceCursor, CreateCursor, RetryCursor
<1>2. \/ cursor' = s.next /\ AtOrBefore(cursor, s.next)
      \/ cursor' = cursor
  BY <1>0, EntryOrder DEF AdvanceCursor, CreateCursor, RetryCursor, NotAhead
<1>3. cursor' \in Entries /\ AtOrBefore(cursor, cursor')
  BY <1>0, <1>2
<1>4. PICK p \in {"settled", "create", "retry"} :
        /\ drainer' = [drainer EXCEPT ![d] = [s EXCEPT !.pc = p]]
        /\ p = "settled" => AtOrBefore(s.next, cursor')
        /\ p = "retry" => cursor' # NoCursor
  <2>1. CASE AdvanceCursor(d)
    <3>1. CASE NotAhead(s.next)
      <4>1. cursor' = s.next /\ drainer' = [drainer EXCEPT ![d] = [s EXCEPT !.pc = "settled"]]
        BY <2>1, <3>1, OwnState DEF AdvanceCursor
      <4>2. QED
        BY <1>0, <4>1, EntryOrder
    <3>2. CASE ~NotAhead(s.next)
      <4>1. drainer' = [drainer EXCEPT ![d] = [s EXCEPT !.pc = "create"]]
        BY <2>1, <3>2, OwnState DEF AdvanceCursor
      <4>2. QED
        BY <4>1
    <3>3. QED
      BY <3>1, <3>2
  <2>2. CASE CreateCursor(d)
    <3>1. CASE cursor = NoCursor
      <4>1. cursor' = s.next /\ drainer' = [drainer EXCEPT ![d] = [s EXCEPT !.pc = "settled"]]
        BY <2>2, <3>1, OwnState DEF CreateCursor
      <4>2. QED
        BY <1>0, <4>1, EntryOrder
    <3>2. CASE cursor # NoCursor
      <4>1. cursor' = cursor /\ drainer' = [drainer EXCEPT ![d] = [s EXCEPT !.pc = "retry"]]
        BY <2>2, <3>2, OwnState DEF CreateCursor, TryAgain
      <4>2. QED
        BY <3>2, <4>1
    <3>3. QED
      BY <3>1, <3>2
  <2>3. CASE RetryCursor(d)
    <3>1. drainer' = [drainer EXCEPT ![d] = [s EXCEPT !.pc = "settled"]] /\ s.pc = "retry"
          /\ cursor' = IF NotAhead(s.next) THEN s.next ELSE cursor
      BY <2>3, OwnState DEF RetryCursor
    <3>2. cursor # NoCursor
      BY <1>0, <3>1 DEF Held
    <3>3. AtOrBefore(s.next, cursor')
      BY <1>0, <3>1, <3>2, EntryOrder DEF NotAhead, AtOrBefore
    <3>4. QED
      BY <3>1, <3>3
  <2>4. QED
    BY <2>1, <2>2, <2>3
<1> DEFINE t == [s EXCEPT !.pc = p]
<1>5. t \in DrainerStates
  BY <1>0 DEF DrainerStates, Pcs
<1>6. /\ t.pc = p /\ t.next = s.next /\ t.now = s.now /\ t.read = s.read
      /\ t.todo = s.todo /\ t.running = s.running
  BY <1>0 DEF DrainerStates
<1> HIDE DEF t
<1>7. LandedRows' = LandedRows
  BY <1>1 DEF LandedRows, Landed
<1>8. AtOrBefore(s.read, cursor')
  BY <1>0, <1>3, EntryOrder, OwnState DEF Held
<1>9. Held(t, clock, written, cursor', LandedRows)
  BY <1>0, <1>4, <1>6, <1>8 DEF Held, Marking
<1>10. Sound(clock, written, stored', cursor', LandedRows)
  BY <1>0, <1>1, <1>2, OwnState DEF Sound, Held
<1>11. BatchInv'
  BY <1>1, <1>3, <1>4, <1>5, <1>7, <1>9, <1>10, StepKeeps, OwnState DEF t
<1>12. QED
  BY <1>3, <1>11

-----------------------------------------------------------------------------

LEMMA NextKeeps ==
  ASSUME BatchInv, [Next]_vars
  PROVE  BatchInv' /\ AtOrBefore(cursor, cursor')
<1>0. cursor \in Entries
  BY DEF BatchInv, TypeOK
<1>1. ASSUME UNCHANGED cursor PROVE AtOrBefore(cursor, cursor')
  BY <1>1 DEF AtOrBefore
<1>2. CASE Tick
  BY <1>1, <1>2, OutsideKeeps DEF Tick
<1>3. ASSUME NEW r \in Rows, SourceWrite(r) PROVE BatchInv' /\ AtOrBefore(cursor, cursor')
  BY <1>1, <1>3, OutsideKeeps DEF SourceWrite
<1>4. ASSUME NEW d \in Drainers, Progress(d) PROVE BatchInv' /\ AtOrBefore(cursor, cursor')
  <2>1. CASE ReadCursor(d) \/ ReadClock(d) \/ Report(d)
    BY <1>1, <2>1, ReadsKeep DEF ReadCursor, ReadClock, Report
  <2>2. CASE Fetch(d)
    BY <1>1, <2>2, FetchKeeps DEF Fetch
  <2>3. ASSUME NEW lane \in drainer[d].running, Ingest(d, lane) PROVE BatchInv' /\ AtOrBefore(cursor, cursor')
    BY <1>1, <2>3, IngestKeeps DEF Ingest
  <2>4. CASE EndLanes(d)
    BY <1>1, <2>4, EndKeeps DEF EndLanes
  <2>5. CASE AdvanceCursor(d) \/ CreateCursor(d) \/ RetryCursor(d)
    BY <2>5, MarkKeeps
  <2>6. QED
    BY <1>4, <2>1, <2>2, <2>3, <2>4, <2>5 DEF Progress
<1>5. ASSUME NEW d \in Drainers, Fault(d) PROVE BatchInv' /\ AtOrBefore(cursor, cursor')
  <2>1. ASSUME NEW lane \in drainer[d].running, DeadLetter(d, lane) PROVE BatchInv' /\ AtOrBefore(cursor, cursor')
    BY <1>1, <2>1, DeadLetterKeeps DEF DeadLetter
  <2>2. ASSUME NEW lane \in drainer[d].running, Systemic(d, lane) PROVE BatchInv' /\ AtOrBefore(cursor, cursor')
    BY <1>1, <2>2, SystemicKeeps DEF Systemic
  <2>3. CASE Crash(d)
    BY <1>1, <2>3, ReadsKeep DEF Crash
  <2>4. QED
    BY <1>5, <2>1, <2>2, <2>3 DEF Fault
<1>6. CASE UNCHANGED vars
  <2>1. UNCHANGED <<clock, written, stored, parked, poisonTrail, cursor, drainer, faults>>
    BY <1>6 DEF vars
  <2>2. LandedRows' = LandedRows
    BY <2>1 DEF LandedRows, Landed
  <2>3. BatchInv'
    BY <2>1, <2>2 DEF BatchInv, TypeOK
  <2>4. QED
    BY <1>1, <2>1, <2>3
<1>7. QED
  BY <1>2, <1>3, <1>4, <1>5, <1>6 DEF Next

LEMMA BatchInvariant == Spec => []BatchInv
<1>1. BatchInv /\ [Next]_vars => BatchInv'
  BY NextKeeps
<1>2. QED
  BY InitHolds, <1>1, PTL DEF Spec

-----------------------------------------------------------------------------

\* Every step of every drainer keeps the types: a page, a lane and a watermark
\* hold rows of the source, and counters stay within their bounds.
THEOREM BatchTypeCorrect == Spec => []TypeOK
<1>1. BatchInv => TypeOK
  BY DEF BatchInv
<1>2. QED
  BY BatchInvariant, <1>1, PTL

\* syncNextBatch moves the watermark only past rows that are archived, dead-
\* lettered or on the poison trail, however many drainers run, whatever fails
\* and however late the source shows a row (sync-batches-db-use-case.ts).
THEOREM NothingIsLost == Spec => []NothingBehindCursor
<1>1. BatchInv => NothingBehindCursor
  BY DEF BatchInv, Sound, Covered, Entry, LandedRows, NothingBehindCursor
<1>2. QED
  BY BatchInvariant, <1>1, PTL

\* The quiet period lets no trace into the archive that the source updates
\* again: what insertIfAbsent froze is the source's last word.
THEOREM ArchiveIsFinal == Spec => []StoredIsFinal
<1>1. BatchInv => StoredIsFinal
  BY DEF BatchInv, Sound, StoredIsFinal
<1>2. QED
  BY BatchInvariant, <1>1, PTL

\* setTraceCursor's three awaits, with other drainers between them, leave the
\* watermark at or past the batch's own (mongodb-sync-state-repository.ts).
THEOREM BookmarksSettle == Spec => []BookmarkSettles
<1>1. BatchInv => BookmarkSettles
  BY DEF BatchInv, Held, BookmarkSettles
<1>2. QED
  BY BatchInvariant, <1>1, PTL

\* runInLanes starts no trace while an earlier one of its session is in
\* flight, at any concurrency (run-in-lanes.ts).
THEOREM SessionsInOrder == Spec => []SessionInOrder
<1>1. ASSUME BatchInv, NEW d \in Drainers, NEW L \in drainer[d].running PROVE Least(L) \in L
  <2>1. L # {} /\ L \in SUBSET Entries
    BY <1>1, OwnState DEF Held, LanesApart, DrainerStates
  <2>2. QED
    BY <2>1, Extremes
<1>2. ASSUME BatchInv, NEW d \in Drainers, NEW L \in drainer[d].running, NEW f \in Waiting(drainer[d]),
             SessionOf[f.row] = SessionOf[Least(L).row]
      PROVE  AtOrBefore(Least(L), f)
  <2>1. LanesApart(drainer[d]) /\ L \in SUBSET Entries /\ L # {}
    BY <1>2, OwnState DEF Held, LanesApart, DrainerStates
  <2>2. Least(L) \in L /\ \A g \in L : AtOrBefore(Least(L), g)
    BY <2>1, Extremes
  <2>3. LaneKey(Least(L)) = LaneKey(f)
    BY <1>2 DEF LaneKey
  <2>4. f \in L
    BY <1>2, <2>1, <2>2, <2>3 DEF LanesApart, Waiting
  <2>5. QED
    BY <2>2, <2>4
<1>3. BatchInv => SessionInOrder
  <2> SUFFICES ASSUME BatchInv, NEW d \in Drainers, NEW L \in drainer[d].running,
                      NEW f \in (drainer[d].todo \cup UNION {M \ {Least(M)} : M \in drainer[d].running})
                                 \cup {Least(M) : M \in drainer[d].running},
                      SessionOf[f.row] = SessionOf[Least(L).row]
               PROVE  AtOrBefore(Least(L), f)
    BY DEF SessionInOrder
  <2>1. f \in Waiting(drainer[d])
    BY <1>1 DEF Waiting
  <2>2. QED
    BY <1>2, <2>1
<1>4. QED
  BY BatchInvariant, <1>3, PTL

\* No batch, retry or lost creation race moves the watermark backwards.
THEOREM WatermarkNeverRegresses == Spec => CursorNeverRegresses
<1>1. BatchInv /\ [Next]_vars => [AtOrBefore(cursor, cursor')]_vars
  BY NextKeeps
<1>2. QED
  BY BatchInvariant, <1>1, PTL DEF Spec, CursorNeverRegresses
=============================================================================
