----------------------- MODULE CloseScheduler_proofs -----------------------
(***************************************************************************)
(* Proofs about CloseScheduler, for every number of months, of operators   *)
(* and of failures: the close-order guard, the hold of a reopened month,   *)
(* and that whatever the doors do stays within MonthCalendar.              *)
(***************************************************************************)
EXTENDS CloseScheduler, OrderLemmas

(***************************************************************************)
(* The inductive invariant.                                                *)
(***************************************************************************)

Guarding == {"find", "earliest", "list", "probe"}

\* A call in progress works on a month that is over.  What it owes are older
\* months with a trace that nobody has closed since it began, which its guard
\* has neither passed nor read as closed; the guard stops short of the month
\* itself, and past the guard the call owes nothing.
CallInv(s) ==
  /\ s.pc \notin {"idle", "done"} => s.month <= ended
  /\ \A o \in s.owed : /\ o \in traced /\ doc[o] # "closed" /\ o < s.month
                       /\ o >= s.cursor /\ o \notin s.closed
  /\ s.pc \in {"list", "probe"} => s.cursor < s.month
  /\ s.pc \notin Guarding => s.owed = {}

\* The scheduler is in a call for the month its walk stands at, or in none.
OneCallInv ==
  /\ walk.pc # "closing" => call[Scheduler].pc = "idle"
  /\ call[Scheduler].pc \notin {"idle", "done"} => call[Scheduler].month = walk.month

\* The walk never passes a month that it holds, nor one that is not due.
HeldInv ==
  /\ \A o \in walk.held : o >= walk.month
  /\ walk.pc \in {"walk", "closing"} => walk.held \subseteq walk.reopened
  /\ walk.pc = "closing" => walk.month <= walk.now /\ walk.month \notin walk.reopened

IInv == /\ TypeOK
        /\ \A d \in Doors : CallInv(call[d])
        /\ OneCallInv
        /\ HeldInv

-----------------------------------------------------------------------------
(* Lemmas about the operators. *)

LEMMA MonthFacts ==
  /\ Months \subseteq Nat /\ Months \subseteq 1..NoMonth
  /\ 1 \in Months /\ 1 \in 1..NoMonth /\ NoMonth \in Nat /\ NoMonth = LastMonth + 1
  /\ \A m \in 1..NoMonth : m <= LastMonth => m \in Months
BY CalendarAssumption DEF CalendarAssumption, Months, NoMonth

LEMMA MonthsAreNat == Months \subseteq Nat /\ \A m \in Months : m \in Nat /\ m \in Int
BY CalendarAssumption DEF CalendarAssumption, Months

\* The anchor of the guard and of the walk is a month no trace precedes.
LEMMA EarliestFacts ==
  ASSUME TypeOK
  PROVE  Earliest \in 1..NoMonth /\ \A o \in traced : Earliest <= o
<1>1. NoMonth \in Nat \ {0} /\ traced \in SUBSET 1..NoMonth
  BY CalendarAssumption DEF CalendarAssumption, TypeOK, CalendarTypeOK, Months, NoMonth
<1>2. QED
  BY <1>1, EarliestTrace DEF Earliest

LEMMA MaxOfTwo ==
  ASSUME NEW a \in Nat, NEW b \in Nat
  PROVE  Max({a, b}) \in Nat
<1>1. \E x \in {a, b} : \A y \in {a, b} : x >= y
  OBVIOUS
<1>2. QED
  BY <1>1 DEF Max

\* A call that is over, or has not begun, owes nothing.
LEMMA QuietFacts ==
  /\ Quiet \in CallStates /\ CallInv(Quiet) /\ Quiet.pc = "idle"
  /\ \A o \in {"none", "closed", "state", "blocked"} :
       Finished(o) \in CallStates /\ CallInv(Finished(o)) /\ Finished(o).pc = "done"
BY MonthFacts DEF Quiet, Finished, CallStates, CallInv, Guarding

\* A call starts owing what it must not overtake.
LEMMA StartingFacts ==
  ASSUME TypeOK, NEW m \in Months
  PROVE  /\ Starting(m) \in CallStates /\ CallInv(Starting(m))
         /\ Starting(m).pc # "idle"
         /\ Starting(m).pc # "done" => Starting(m).month = m
<1> DEFINE s == [Quiet EXCEPT !.pc = "find", !.month = m, !.owed = Overtaken(m)]
<1>1. Overtaken(m) \subseteq Months
  BY DEF Overtaken, TypeOK, CalendarTypeOK
<1>2. s \in CallStates
  BY <1>1, QuietFacts DEF CallStates
<1>3. /\ s.pc = "find" /\ s.month = m /\ s.cursor = 1 /\ s.closed = {}
      /\ s.owed = Overtaken(m)
  BY DEF Quiet
<1>4. CASE HasEnded(m)
  <2>1. \A o \in Overtaken(m) : o \in traced /\ doc[o] # "closed" /\ o < m /\ o >= 1
    BY <1>1, MonthFacts DEF Overtaken, Closed, TypeOK, CalendarTypeOK, Months
  <2>2. Starting(m) = s
    BY <1>4 DEF Starting
  <2> HIDE DEF s
  <2>3. CallInv(s)
    BY <1>3, <1>4, <2>1 DEF CallInv, HasEnded, Guarding
  <2>4. QED
    BY <1>2, <1>3, <2>2, <2>3
<1>5. CASE ~HasEnded(m)
  BY <1>5, QuietFacts DEF Starting
<1>6. QED
  BY <1>4, <1>5

-----------------------------------------------------------------------------
(* The shape of most steps: one call moves on, nothing else changes. *)

\* A call in progress moves on to s: only what holds of s is to be shown.
LEMMA OneCall ==
  ASSUME IInv, NEW d \in Doors, NEW s \in CallStates, CallInv(s),
         call[d].pc \notin {"idle", "done"},
         s.pc # "idle", s.pc = "done" \/ s.month = call[d].month,
         call' = [call EXCEPT ![d] = s],
         UNCHANGED <<calendar, store, periods, walk>>,
         left' \in [reopens : Nat, arrivals : Nat, failures : Nat]
  PROVE  IInv'
<1>1. call \in [Doors -> CallStates] /\ Scheduler \in Doors
  BY DEF IInv, TypeOK, Doors
<1>2. call' \in [Doors -> CallStates]
  BY <1>1
<1>3. ended' = ended /\ due' = due /\ traced' = traced /\ pending' = pending
      /\ doc' = doc /\ version' = version /\ walk' = walk
  BY DEF calendar, store, periods
<1>4. TypeOK'
  BY <1>2, <1>3 DEF IInv, TypeOK, CalendarTypeOK
<1>5. \A e \in Doors : CallInv(call[e])'
  <2> SUFFICES ASSUME NEW e \in Doors PROVE CallInv(call[e])'
    OBVIOUS
  <2>1. CallInv(call'[e])
    BY <1>1 DEF IInv
  <2>2. QED
    BY <1>3, <2>1 DEF CallInv
<1>6. OneCallInv'
  <2>1. CASE d = Scheduler
    BY <1>1, <1>3, <2>1 DEF IInv, OneCallInv
  <2>2. CASE d # Scheduler
    BY <1>1, <1>3, <2>2 DEF IInv, OneCallInv
  <2>3. QED
    BY <2>1, <2>2
<1>7. HeldInv'
  BY <1>3 DEF IInv, HeldInv
<1>8. QED
  BY <1>4, <1>5, <1>6, <1>7 DEF IInv

-----------------------------------------------------------------------------
(* The steps of a call. *)

\* Past the guard with nothing owed, a call still has its month.
LEMMA GuardedFacts ==
  ASSUME NEW s \in CallStates, s.owed = {}, s.month <= ended
  PROVE  /\ Guarded(s) \in CallStates /\ CallInv(Guarded(s))
         /\ Guarded(s).pc = "pending" /\ Guarded(s).month = s.month
BY MonthFacts DEF Guarded, CallStates, CallInv, Guarding

\* A call that is over has nothing left to show.
LEMMA Finishes ==
  ASSUME IInv, NEW d \in Doors, call[d].pc \notin {"idle", "done"},
         NEW o \in {"none", "closed", "state", "blocked"},
         call' = [call EXCEPT ![d] = Finished(o)],
         UNCHANGED <<calendar, store, periods, walk>>,
         left' \in [reopens : Nat, arrivals : Nat, failures : Nat]
  PROVE  IInv'
BY QuietFacts, OneCall

LEMMA CloseStepInv ==
  ASSUME IInv, NEW d \in Doors, CloseStep(d), ~Publish(d)
  PROVE  IInv'
<1> DEFINE c == call[d]
<1>1. /\ call \in [Doors -> CallStates] /\ c \in CallStates /\ CallInv(c) /\ TypeOK
      /\ left \in [reopens : Nat, arrivals : Nat, failures : Nat]
  BY DEF IInv, TypeOK
<1>2. CASE Find(d)
  <2>1. c.pc = "find" /\ UNCHANGED <<calendar, store, periods, walk, left>>
    BY <1>2 DEF Find
  <2>2. CASE doc[c.month] = "closed"
    <3>1. call' = [call EXCEPT ![d] = Finished("state")]
      BY <1>2, <2>2 DEF Find
    <3>2. QED
      BY <1>1, <2>1, <3>1, Finishes
  <2>3. CASE doc[c.month] # "closed"
    <3> DEFINE s == [c EXCEPT !.pc = "earliest", !.known = version[c.month]]
    <3>1. call' = [call EXCEPT ![d] = s]
      BY <1>2, <2>3 DEF Find
    <3>2. version[c.month] \in Nat
      BY <1>1 DEF TypeOK, CallStates
    <3>3. s \in CallStates /\ CallInv(s) /\ s.pc = "earliest" /\ s.month = c.month
      BY <1>1, <2>1, <3>2 DEF CallStates, CallInv, Guarding
    <3> HIDE DEF s
    <3>4. QED
      BY <1>1, <2>1, <3>1, <3>3, OneCall
  <2>4. QED
    BY <2>2, <2>3
<1>3. CASE ReadEarliest(d)
  <2>1. c.pc = "earliest" /\ UNCHANGED <<calendar, store, periods, walk, left>>
    BY <1>3 DEF ReadEarliest
  <2>2. Earliest \in 1..NoMonth /\ \A o \in c.owed : Earliest <= o /\ o < c.month
    BY <1>1, EarliestFacts DEF CallInv
  <2>3. c.month \in Nat /\ c.owed \subseteq Nat /\ Earliest \in Nat
    <3>1. c.month \in Months /\ c.owed \subseteq Months
      BY <1>1 DEF CallStates
    <3>2. Months \subseteq Nat /\ NoMonth \in Nat
      BY MonthFacts
    <3>3. Earliest \in Nat
      BY <2>2, <3>2
    <3>4. QED
      BY <3>1, <3>2, <3>3
  <2>4. CASE Earliest >= c.month
    <3>1. call' = [call EXCEPT ![d] = Guarded(c)]
      BY <1>3, <2>4 DEF ReadEarliest, GuardAnchor
    <3>2. c.owed = {} /\ c.month <= ended
      BY <1>1, <2>1, <2>2, <2>3, <2>4 DEF CallInv
    <3>3. QED
      BY <1>1, <2>1, <3>1, <3>2, GuardedFacts, OneCall
  <2>5. CASE ~(Earliest >= c.month)
    <3> DEFINE s == [c EXCEPT !.cursor = Earliest, !.pc = "list"]
    <3>1. call' = [call EXCEPT ![d] = s]
      BY <1>3, <2>5 DEF ReadEarliest, GuardAnchor
    <3>2. /\ s.pc = "list" /\ s.month = c.month /\ s.owed = c.owed
          /\ s.closed = c.closed /\ s.cursor = Earliest /\ s \in CallStates
      BY <1>1, <2>2 DEF CallStates
    <3> HIDE DEF s
    <3>3. Earliest < c.month
      BY <2>3, <2>5
    <3>4. CallInv(s)
      BY <1>1, <2>1, <2>2, <2>3, <3>2, <3>3 DEF CallInv, Guarding
    <3>5. QED
      BY <1>1, <2>1, <3>1, <3>2, <3>4, OneCall
  <2>6. QED
    BY <2>4, <2>5
<1>4. CASE ListClosed(d)
  <2> DEFINE s == [c EXCEPT !.closed = Closed, !.pc = "probe"]
  <2>1. c.pc = "list" /\ UNCHANGED <<calendar, store, periods, walk, left>>
    BY <1>4 DEF ListClosed
  <2>2. call' = [call EXCEPT ![d] = s]
    BY <1>1, <1>4 DEF ListClosed
  <2>3. /\ s.pc = "probe" /\ s.month = c.month /\ s.owed = c.owed
        /\ s.closed = Closed /\ s.cursor = c.cursor /\ s \in CallStates
    BY <1>1 DEF CallStates, Closed
  <2> HIDE DEF s
  <2>4. CallInv(s)
    BY <1>1, <2>1, <2>3 DEF CallInv, Guarding, Closed
  <2>5. QED
    BY <1>1, <2>1, <2>2, <2>3, <2>4, OneCall
<1>5. CASE ProbeOlder(d)
  <2>1. c.pc = "probe" /\ UNCHANGED <<calendar, store, periods, walk, left>>
    BY <1>5 DEF ProbeOlder
  <2>2. CASE Blocks(d, c.cursor)
    <3>1. call' = [call EXCEPT ![d] = Finished("blocked")]
      BY <1>5, <2>2 DEF ProbeOlder
    <3>2. QED
      BY <1>1, <2>1, <3>1, Finishes
  <2>3. CASE ~Blocks(d, c.cursor)
    <3>1. c.month \in Nat /\ c.cursor \in 1..NoMonth /\ c.owed \subseteq Nat
      BY <1>1, MonthFacts DEF CallStates
    <3>2. c.cursor + 1 <= c.month /\ \A o \in c.owed : o >= c.cursor + 1 /\ o < c.month
      BY <1>1, <2>1, <2>3, <3>1, MonthFacts DEF CallInv, Blocks
    <3>3. CASE c.cursor + 1 = c.month
      <4>1. call' = [call EXCEPT ![d] = Guarded(c)]
        BY <1>5, <2>3, <3>3 DEF ProbeOlder
      <4>2. c.owed = {} /\ c.month <= ended
        BY <1>1, <2>1, <3>1, <3>2, <3>3 DEF CallInv
      <4>3. QED
        BY <1>1, <2>1, <4>1, <4>2, GuardedFacts, OneCall
    <3>4. CASE c.cursor + 1 # c.month
      <4> DEFINE s == [c EXCEPT !.cursor = c.cursor + 1]
      <4>1. call' = [call EXCEPT ![d] = s]
        BY <1>5, <2>3, <3>4 DEF ProbeOlder
      <4>2. /\ s.pc = "probe" /\ s.month = c.month /\ s.owed = c.owed
            /\ s.closed = c.closed /\ s.cursor = c.cursor + 1
        BY <1>1, <2>1 DEF CallStates
      <4>3. c.cursor + 1 \in 1..NoMonth /\ c.cursor + 1 < c.month
        <5>1. c.month \in 1..NoMonth
          BY <1>1, MonthFacts DEF CallStates
        <5>2. QED
          BY <3>1, <3>2, <3>4, <5>1, MonthFacts
      <4>4. s \in CallStates
        BY <1>1, <4>3 DEF CallStates
      <4> HIDE DEF s
      <4>5. CallInv(s)
        BY <1>1, <2>1, <3>2, <4>2, <4>3 DEF CallInv, Guarding
      <4>6. QED
        BY <1>1, <2>1, <4>1, <4>2, <4>4, <4>5, OneCall
    <3>5. QED
      BY <3>3, <3>4
  <2>4. QED
    BY <2>2, <2>3
<1>6. CASE CheckPending(d)
  <2>1. c.pc = "pending" /\ UNCHANGED <<calendar, store, periods, walk, left>>
    BY <1>6 DEF CheckPending
  <2>2. CASE c.month \in pending
    <3>1. call' = [call EXCEPT ![d] = Finished("blocked")]
      BY <1>6, <2>2 DEF CheckPending
    <3>2. QED
      BY <1>1, <2>1, <3>1, Finishes
  <2>3. CASE c.month \notin pending
    <3> DEFINE s == [c EXCEPT !.pc = "version"]
    <3>1. call' = [call EXCEPT ![d] = s]
      BY <1>6, <2>3 DEF CheckPending
    <3>2. s \in CallStates /\ CallInv(s) /\ s.pc = "version" /\ s.month = c.month
      BY <1>1, <2>1 DEF CallStates, CallInv, Guarding
    <3> HIDE DEF s
    <3>3. QED
      BY <1>1, <2>1, <3>1, <3>2, OneCall
  <2>4. QED
    BY <2>2, <2>3
<1>7. CASE ReadVersion(d)
  <2> DEFINE s == [c EXCEPT !.version = Max({c.known, version[c.month]}) + 1,
                            !.known = 0, !.pc = "publish"]
  <2>1. c.pc = "version" /\ UNCHANGED <<calendar, store, periods, walk, left>>
    BY <1>7 DEF ReadVersion
  <2>2. call' = [call EXCEPT ![d] = s]
    BY <1>1, <1>7 DEF ReadVersion
  <2>3. c.known \in Nat /\ version[c.month] \in Nat
    BY <1>1 DEF TypeOK, CallStates
  <2>4. Max({c.known, version[c.month]}) + 1 \in Nat
    BY <2>3, MaxOfTwo
  <2>5. s \in CallStates /\ CallInv(s) /\ s.pc = "publish" /\ s.month = c.month
    BY <1>1, <2>1, <2>4 DEF CallStates, CallInv, Guarding
  <2> HIDE DEF s
  <2>6. QED
    BY <1>1, <2>1, <2>2, <2>5, OneCall
<1>8. CASE LosePublish(d)
  <2>1. c.pc = "publish" /\ UNCHANGED <<calendar, store, periods, walk, left>>
        /\ call' = [call EXCEPT ![d] = Finished("state")]
    BY <1>8 DEF LosePublish
  <2>2. QED
    BY <1>1, <2>1, Finishes
<1>9. QED
  BY <1>2, <1>3, <1>4, <1>5, <1>6, <1>7, <1>8 DEF CloseStep

\* The publish closes the month for everybody: whoever owed it owes it no more.
LEMMA PublishInv ==
  ASSUME IInv, NEW d \in Doors, Publish(d)
  PROVE  IInv'
<1> DEFINE m == call[d].month
<1>1. /\ call \in [Doors -> CallStates] /\ call[d] \in CallStates /\ m \in Months
      /\ call[d].pc = "publish" /\ Scheduler \in Doors /\ TypeOK
  BY DEF IInv, TypeOK, Publish, CallStates, Doors
<1>2. /\ doc' = [doc EXCEPT ![m] = "closed"]
      /\ version' = [version EXCEPT ![m] = call[d].version]
      /\ call' = Settled(d, m)
      /\ ended' = ended /\ due' = due /\ traced' = traced /\ pending' = pending
      /\ walk' = walk /\ left' = left
  BY DEF Publish, calendar, store
<1> HIDE DEF m
<1>3. call'[d] = Finished("closed")
  BY <1>2 DEF Settled
<1>4. \A e \in Doors \ {d} :
        /\ call'[e] = [call[e] EXCEPT !.owed = @ \ {m}]
        /\ call'[e] \in CallStates
        /\ call'[e].pc = call[e].pc /\ call'[e].month = call[e].month
        /\ call'[e].cursor = call[e].cursor /\ call'[e].closed = call[e].closed
        /\ call'[e].owed = call[e].owed \ {m}
  <2> SUFFICES ASSUME NEW e \in Doors \ {d}
               PROVE /\ call'[e] = [call[e] EXCEPT !.owed = @ \ {m}]
                     /\ call'[e] \in CallStates
                     /\ call'[e].pc = call[e].pc /\ call'[e].month = call[e].month
                     /\ call'[e].cursor = call[e].cursor
                     /\ call'[e].closed = call[e].closed
                     /\ call'[e].owed = call[e].owed \ {m}
    OBVIOUS
  <2>1. call'[e] = [call[e] EXCEPT !.owed = @ \ {m}]
    BY <1>2 DEF Settled
  <2>2. call[e] \in CallStates
    BY <1>1
  <2>3. QED
    BY <2>1, <2>2 DEF CallStates
<1>5. call' \in [Doors -> CallStates]
  <2>1. call' = [e \in Doors |-> call'[e]]
    BY <1>2 DEF Settled
  <2>2. \A e \in Doors : call'[e] \in CallStates
    BY <1>3, <1>4, QuietFacts
  <2>3. QED
    BY <2>1, <2>2
<1>6. doc' \in [Months -> Statuses] /\ version' \in [Months -> Nat]
  BY <1>1, <1>2 DEF TypeOK, CalendarTypeOK, Statuses, CallStates
<1>7. TypeOK'
  BY <1>1, <1>2, <1>5, <1>6 DEF TypeOK, CalendarTypeOK
<1>8. \A e \in Doors : CallInv(call[e])'
  <2> SUFFICES ASSUME NEW e \in Doors PROVE CallInv(call[e])'
    OBVIOUS
  <2>1. CASE e = d
    BY <1>3, <2>1, QuietFacts DEF CallInv, Finished, Quiet
  <2>2. CASE e # d
    <3>1. CallInv(call[e]) /\ call[e].owed \subseteq Months
      BY <1>1 DEF IInv, CallStates
    <3>2. \A o \in call'[e].owed : doc'[o] # "closed"
      <4> SUFFICES ASSUME NEW o \in call'[e].owed PROVE doc'[o] # "closed"
        OBVIOUS
      <4>1. o \in Months /\ o # m /\ doc[o] # "closed"
        BY <1>4, <2>2, <3>1 DEF CallInv
      <4>2. doc \in [Months -> Statuses]
        BY <1>1 DEF TypeOK, CalendarTypeOK
      <4>3. QED
        BY <1>2, <4>1, <4>2
    <3>3. QED
      BY <1>2, <1>4, <2>2, <3>1, <3>2 DEF CallInv
  <2>3. QED
    BY <2>1, <2>2
<1>9. OneCallInv'
  <2>1. CASE d = Scheduler
    <3>1. walk.pc = "closing"
      BY <1>1, <2>1 DEF IInv, OneCallInv
    <3>2. call'[Scheduler].pc = "done"
      BY <1>3, <2>1, QuietFacts
    <3>3. QED
      BY <1>2, <3>1, <3>2 DEF OneCallInv
  <2>2. CASE d # Scheduler
    BY <1>1, <1>2, <1>4, <2>2 DEF IInv, OneCallInv
  <2>3. QED
    BY <2>1, <2>2
<1>10. HeldInv'
  BY <1>2 DEF IInv, HeldInv
<1>11. QED
  BY <1>7, <1>8, <1>9, <1>10 DEF IInv

-----------------------------------------------------------------------------
(* The surroundings, the operators and the failures. *)

\* Time, traces, prices and reopens take nothing from any call or walk.
LEMMA SurroundingsInv ==
  ASSUME IInv, Surroundings
  PROVE  IInv'
<1>1. TypeOK /\ ended \in Int
  BY MonthFacts DEF IInv, TypeOK, CalendarTypeOK
<1>2. /\ TypeOK' /\ ended <= ended' /\ traced \subseteq traced'
      /\ \A o \in Months : doc[o] # "closed" => doc'[o] # "closed"
      /\ walk' = walk /\ call' = call
  <2>1. CASE TimePasses
    <3>1. /\ ended' = ended + 1 /\ ended < LastMonth
          /\ UNCHANGED <<traced, doc, due, pending, version, walk, call, left>>
      BY <2>1 DEF TimePasses, MonthEnds
    <3>2. ended \in 0..LastMonth /\ due \in 0..ended /\ LastMonth \in Nat
      BY <1>1, CalendarAssumption DEF CalendarAssumption, TypeOK, CalendarTypeOK
    <3>3. ended' \in 0..LastMonth /\ due' \in 0..ended' /\ ended <= ended'
      BY <3>1, <3>2
    <3>4. QED
      BY <1>1, <3>1, <3>3 DEF TypeOK, CalendarTypeOK
  <2>2. CASE DelayPasses
    BY <1>1, <2>2 DEF DelayPasses, TypeOK, CalendarTypeOK, store, periods
  <2>3. CASE \E m \in Months : Ingest(m)
    <3>1. PICK m \in Months : Ingest(m)
      BY <2>3
    <3>2. /\ traced' = traced \cup {m} /\ pending' \in {pending, pending \cup {m}}
          /\ UNCHANGED <<ended, doc, due, version, walk, call>>
          /\ left.arrivals > 0 /\ left' = [left EXCEPT !.arrivals = @ - 1]
      BY <3>1 DEF Ingest, Arrive
    <3>3. left' \in [reopens : Nat, arrivals : Nat, failures : Nat]
      BY <1>1, <3>2 DEF TypeOK
    <3>4. QED
      BY <1>1, <3>2, <3>3 DEF TypeOK, CalendarTypeOK
  <2>4. CASE \E m \in Months : Stamp(m)
    BY <1>1, <2>4 DEF Stamp, TypeOK, CalendarTypeOK, calendar, periods
  <2>5. CASE \E m \in Months : Reopen(m)
    <3>1. PICK m \in Months : Reopen(m)
      BY <2>5
    <3>2. /\ doc' = [doc EXCEPT ![m] = "open"]
          /\ UNCHANGED <<ended, traced, due, pending, version, walk, call>>
          /\ left.reopens > 0 /\ left' = [left EXCEPT !.reopens = @ - 1]
      BY <3>1 DEF Reopen, ReopenMonth
    <3>3. left' \in [reopens : Nat, arrivals : Nat, failures : Nat]
      BY <1>1, <3>2 DEF TypeOK
    <3>4. doc' \in [Months -> Statuses]
      BY <1>1, <3>2 DEF TypeOK, CalendarTypeOK, Statuses
    <3>5. QED
      BY <1>1, <3>2, <3>3, <3>4 DEF TypeOK, CalendarTypeOK
  <2>6. QED
    BY <2>1, <2>2, <2>3, <2>4, <2>5 DEF Surroundings
<1>3. \A d \in Doors : CallInv(call[d])'
  <2> SUFFICES ASSUME NEW d \in Doors PROVE CallInv(call[d])'
    OBVIOUS
  <2>1. CallInv(call[d]) /\ call[d].owed \subseteq Months /\ call[d].month \in Int
    <3>1. CallInv(call[d]) /\ call[d] \in CallStates
      BY DEF IInv, TypeOK
    <3>2. call[d].owed \subseteq Months /\ call[d].month \in Months
      BY <3>1 DEF CallStates
    <3>3. call[d].month \in Int
      BY <3>2, MonthsAreNat
    <3>4. QED
      BY <3>1, <3>2, <3>3
  <2>2. ended' \in Int
    BY <1>2, MonthFacts DEF TypeOK, CalendarTypeOK
  <2>3. call[d].month <= ended => call[d].month <= ended'
    BY <1>1, <1>2, <2>1, <2>2
  <2>4. QED
    BY <1>2, <2>1, <2>3 DEF CallInv
<1>4. OneCallInv' /\ HeldInv'
  BY <1>2 DEF IInv, OneCallInv, HeldInv
<1>5. QED
  BY <1>2, <1>3, <1>4 DEF IInv

\* A call that begins, or whose answer is taken, while the walk moves on.
LEMMA WalkMoves ==
  ASSUME IInv, NEW d \in Doors, NEW s \in CallStates, CallInv(s),
         call' = [call EXCEPT ![d] = s],
         UNCHANGED <<calendar, store, periods>>,
         walk' \in WalkStates, OneCallInv', HeldInv',
         left' \in [reopens : Nat, arrivals : Nat, failures : Nat]
  PROVE  IInv'
<1>1. call \in [Doors -> CallStates]
  BY DEF IInv, TypeOK
<1>2. ended' = ended /\ due' = due /\ traced' = traced /\ pending' = pending
      /\ doc' = doc /\ version' = version
  BY DEF calendar, store, periods
<1>3. TypeOK'
  BY <1>1, <1>2 DEF IInv, TypeOK, CalendarTypeOK
<1>4. \A e \in Doors : CallInv(call[e])'
  <2> SUFFICES ASSUME NEW e \in Doors PROVE CallInv(call[e])'
    OBVIOUS
  <2>1. CallInv(call'[e])
    BY <1>1 DEF IInv
  <2>2. QED
    BY <1>2, <2>1 DEF CallInv
<1>5. QED
  BY <1>3, <1>4 DEF IInv

LEMMA OnlyWalk ==
  ASSUME IInv, UNCHANGED <<call, left, calendar, store, periods>>,
         walk' \in WalkStates, OneCallInv', HeldInv'
  PROVE  IInv'
<1>1. /\ call \in [Doors -> CallStates] /\ Scheduler \in Doors
      /\ left \in [reopens : Nat, arrivals : Nat, failures : Nat]
  BY DEF IInv, TypeOK, Doors
<1>2. call' = [call EXCEPT ![Scheduler] = call[Scheduler]]
  BY <1>1
<1>3. call[Scheduler] \in CallStates /\ CallInv(call[Scheduler])
  BY <1>1 DEF IInv
<1>4. QED
  BY <1>1, <1>2, <1>3, WalkMoves

\* A cycle that ends, whatever ended it, leaves the walk at rest.
LEMMA RestingFacts ==
  Resting \in WalkStates /\ Resting.pc = "idle" /\ Resting.held = {}
BY MonthFacts, CalendarAssumption DEF CalendarAssumption, Resting, WalkStates

\* The operator starts a close by hand; the scheduler is not involved.
LEMMA RunbookInv ==
  ASSUME IInv, NEW d \in Runbooks, NEW m \in Months, RunbookClose(d, m)
  PROVE  IInv'
<1>1. /\ d \in Doors /\ d # Scheduler /\ Scheduler \in Doors
      /\ call \in [Doors -> CallStates] /\ TypeOK
  BY SchedulerAssumption DEF SchedulerAssumption, IInv, TypeOK, Doors
<1>2. /\ call' = [call EXCEPT ![d] = Starting(m)]
      /\ UNCHANGED <<calendar, store, periods, walk, left>>
  BY DEF RunbookClose
<1>3. OneCallInv' /\ HeldInv'
  BY <1>1, <1>2 DEF IInv, OneCallInv, HeldInv
<1>4. /\ walk' \in WalkStates
      /\ left' \in [reopens : Nat, arrivals : Nat, failures : Nat]
  BY <1>1, <1>2 DEF TypeOK
<1>5. QED
  BY <1>1, <1>2, <1>3, <1>4, StartingFacts, WalkMoves

\* Any failure of the cycle gives up its walk and its call.
LEMMA CycleFailsInv ==
  ASSUME IInv, CycleFails
  PROVE  IInv'
<1>1. call \in [Doors -> CallStates] /\ Scheduler \in Doors /\ TypeOK
  BY DEF IInv, TypeOK, Doors
<1>2. /\ walk' = Resting /\ call' = [call EXCEPT ![Scheduler] = Quiet]
      /\ UNCHANGED <<calendar, store, periods>>
      /\ left.failures > 0 /\ left' = [left EXCEPT !.failures = @ - 1]
  BY DEF CycleFails
<1>3. left' \in [reopens : Nat, arrivals : Nat, failures : Nat]
  BY <1>1, <1>2 DEF TypeOK
<1>4. OneCallInv' /\ HeldInv'
  BY <1>1, <1>2, RestingFacts, QuietFacts DEF OneCallInv, HeldInv
<1>5. QED
  BY <1>1, <1>2, <1>3, <1>4, RestingFacts, QuietFacts, WalkMoves

\* A transaction that does not fit ends its call, the month still open.
LEMMA CommitTooLargeInv ==
  ASSUME IInv, NEW d \in Doors, CommitTooLarge(d)
  PROVE  IInv'
<1>1. /\ call[d].pc = "publish" /\ call' = [call EXCEPT ![d] = Finished("state")]
      /\ UNCHANGED <<calendar, store, periods, walk>>
      /\ left.failures > 0 /\ left' = [left EXCEPT !.failures = @ - 1]
  BY DEF CommitTooLarge
<1>2. left' \in [reopens : Nat, arrivals : Nat, failures : Nat]
  BY <1>1 DEF IInv, TypeOK
<1>3. QED
  BY <1>1, <1>2, Finishes

-----------------------------------------------------------------------------
(* The walk of a cycle. *)

LEMMA WalkStepInv ==
  ASSUME IInv,
         StartCycle \/ ListPeriods \/ EndWalk \/ SkipMonth \/ Attempt \/ Answered
  PROVE  IInv'
<1>1. /\ call \in [Doors -> CallStates] /\ Scheduler \in Doors /\ TypeOK
      /\ walk \in WalkStates /\ left \in [reopens : Nat, arrivals : Nat, failures : Nat]
  BY DEF IInv, TypeOK, Doors
<1>2. /\ walk.month \in Nat /\ walk.month \in 1..NoMonth /\ walk.held \subseteq Nat
      /\ walk.now \in Nat /\ walk.now <= LastMonth
      /\ LastMonth \in Nat /\ NoMonth = LastMonth + 1
  <2>1. /\ walk.month \in 1..NoMonth /\ walk.held \subseteq Months
        /\ walk.now \in 0..LastMonth
    BY <1>1 DEF WalkStates
  <2>2. LastMonth \in Nat /\ NoMonth = LastMonth + 1 /\ Months \subseteq Nat
    BY CalendarAssumption, MonthsAreNat DEF CalendarAssumption, NoMonth
  <2>3. walk.month \in Nat
    BY <2>1, <2>2
  <2>4. walk.now \in Nat /\ walk.now <= LastMonth
    BY <2>1, <2>2
  <2>5. QED
    BY <2>1, <2>2, <2>3, <2>4
<1>3. CASE StartCycle
  <2> DEFINE w == [Resting EXCEPT !.pc = "list", !.now = due, !.month = Earliest,
                                  !.held = traced]
  <2>1. /\ walk.pc = "idle" /\ walk' = w
        /\ UNCHANGED <<calendar, store, periods, call, left>>
    BY <1>3 DEF StartCycle
  <2>2. Earliest \in 1..NoMonth /\ \A o \in traced : Earliest <= o
    BY <1>1, EarliestFacts
  <2>3. due \in 0..LastMonth /\ traced \subseteq Months
    BY <1>1, <1>2 DEF TypeOK, CalendarTypeOK
  <2>4. w \in WalkStates
    BY <2>2, <2>3, RestingFacts DEF WalkStates
  <2>5. w.pc = "list" /\ w.month = Earliest /\ w.held = traced
    BY DEF Resting
  <2> HIDE DEF w
  <2>6. \A o \in w.held : o >= w.month
    <3>1. traced \subseteq Nat /\ Earliest \in Nat
      BY <1>2, <2>2, <2>3, MonthsAreNat
    <3>2. QED
      BY <2>2, <2>5, <3>1
  <2>7. OneCallInv' /\ HeldInv'
    BY <1>1, <2>1, <2>5, <2>6 DEF IInv, OneCallInv, HeldInv
  <2>8. QED
    BY <2>1, <2>4, <2>7, OnlyWalk
<1>4. CASE ListPeriods
  <2> DEFINE w == [walk EXCEPT !.pc = "walk", !.closed = Closed, !.reopened = ReopenedKeys,
                               !.held = walk.held \cap Reopened]
  <2>1. /\ walk.pc = "list" /\ walk' = w
        /\ UNCHANGED <<calendar, store, periods, call, left>>
    BY <1>1, <1>4 DEF ListPeriods
  <2>2. /\ w \in WalkStates /\ w.pc = "walk" /\ w.month = walk.month
        /\ w.held = walk.held \cap Reopened /\ w.reopened = Reopened
    BY <1>1 DEF WalkStates, Closed, Reopened, ReopenedKeys
  <2> HIDE DEF w
  <2>3. OneCallInv' /\ HeldInv'
    BY <1>1, <2>1, <2>2 DEF IInv, OneCallInv, HeldInv
  <2>4. QED
    BY <2>1, <2>2, <2>3, OnlyWalk
<1>5. CASE EndWalk
  <2>1. /\ walk.pc = "walk" /\ walk' = Resting
        /\ UNCHANGED <<calendar, store, periods, call, left>>
    BY <1>5 DEF EndWalk
  <2>2. OneCallInv' /\ HeldInv'
    BY <1>1, <2>1, RestingFacts DEF IInv, OneCallInv, HeldInv
  <2>3. QED
    BY <2>1, <2>2, RestingFacts, OnlyWalk
<1>6. CASE SkipMonth
  <2> DEFINE w == [walk EXCEPT !.month = walk.month + 1]
  <2>1. /\ walk.pc = "walk" /\ walk' = w /\ ~StopsAt(walk.month)
        /\ UNCHANGED <<calendar, store, periods, call, left>>
    BY <1>1, <1>6 DEF SkipMonth
  <2>2. walk.month <= walk.now /\ walk.month \notin walk.reopened
    BY <1>2, <2>1 DEF StopsAt
  <2>3. walk.month + 1 \in 1..NoMonth
    BY <1>2, <2>2
  <2>4. /\ w \in WalkStates /\ w.pc = "walk" /\ w.month = walk.month + 1
        /\ w.held = walk.held /\ w.reopened = walk.reopened
    BY <1>1, <2>1, <2>3 DEF WalkStates
  <2> HIDE DEF w
  <2>5. \A o \in walk.held : o >= walk.month + 1 /\ o \in walk.reopened
    BY <1>2, <2>1, <2>2 DEF IInv, HeldInv
  <2>6. OneCallInv' /\ HeldInv'
    BY <1>1, <2>1, <2>4, <2>5 DEF IInv, OneCallInv, HeldInv
  <2>7. QED
    BY <2>1, <2>4, <2>6, OnlyWalk
<1>7. CASE Attempt
  <2> DEFINE w == [walk EXCEPT !.pc = "closing"]
  <2>1. /\ walk.pc = "walk" /\ walk' = w /\ ~StopsAt(walk.month)
        /\ call' = [call EXCEPT ![Scheduler] = Starting(walk.month)]
        /\ UNCHANGED <<calendar, store, periods, left>>
    BY <1>7 DEF Attempt
  <2>2. walk.month <= walk.now /\ walk.month \notin walk.reopened
    BY <1>2, <2>1 DEF StopsAt
  <2>3. walk.month \in Months
    BY <1>2, <2>2 DEF Months
  <2>4. /\ w \in WalkStates /\ w.pc = "closing" /\ w.month = walk.month
        /\ w.held = walk.held /\ w.reopened = walk.reopened /\ w.now = walk.now
    BY <1>1 DEF WalkStates
  <2> HIDE DEF w
  <2>5. HeldInv'
    BY <2>1, <2>2, <2>4 DEF IInv, HeldInv
  <2>6. OneCallInv'
    BY <1>1, <2>1, <2>3, <2>4, StartingFacts DEF OneCallInv
  <2>7. QED
    BY <1>1, <2>1, <2>3, <2>4, <2>5, <2>6, StartingFacts, WalkMoves
<1>8. CASE Answered
  <2>1. /\ walk.pc = "closing" /\ call' = [call EXCEPT ![Scheduler] = Quiet]
        /\ UNCHANGED <<calendar, store, periods, left>>
        /\ walk' = Resting \/ walk' = [walk EXCEPT !.pc = "walk", !.month = walk.month + 1]
    BY <1>1, <1>8 DEF Answered
  <2>2. OneCallInv'
    BY <1>1, <2>1, QuietFacts DEF OneCallInv
  <2>3. CASE walk' = Resting
    <3>1. HeldInv'
      BY <2>3, RestingFacts DEF HeldInv
    <3>2. QED
      BY <1>1, <2>1, <2>2, <2>3, <3>1, QuietFacts, RestingFacts, WalkMoves
  <2>4. CASE walk' = [walk EXCEPT !.pc = "walk", !.month = walk.month + 1]
    <3>1. walk.month + 1 \in 1..NoMonth
      BY <1>2, <2>1 DEF IInv, HeldInv
    <3>2. /\ walk' \in WalkStates /\ walk'.pc = "walk" /\ walk'.month = walk.month + 1
          /\ walk'.held = walk.held /\ walk'.reopened = walk.reopened
      BY <1>1, <2>4, <3>1 DEF WalkStates
    <3>3. \A o \in walk.held : o >= walk.month + 1 /\ o \in walk.reopened
      BY <1>2, <2>1 DEF IInv, HeldInv
    <3>4. HeldInv'
      BY <3>2, <3>3 DEF HeldInv
    <3>5. QED
      BY <1>1, <2>1, <2>2, <3>2, <3>4, QuietFacts, WalkMoves
  <2>5. QED
    BY <2>1, <2>3, <2>4
<1>9. QED
  BY <1>3, <1>4, <1>5, <1>6, <1>7, <1>8

-----------------------------------------------------------------------------
(* The theorems. *)

\* At the start nobody has called and the walk is at rest.
LEMMA InitInv == Init => IInv
<1> SUFFICES ASSUME Init PROVE IInv
  OBVIOUS
<1>1. /\ walk = Resting /\ call = [d \in Doors |-> Quiet]
      /\ ended = OverAtStart /\ due = ended /\ CalendarInit
      /\ pending \in SUBSET traced /\ version = [m \in Months |-> 0]
      /\ left = [reopens |-> MaxReopens, arrivals |-> MaxArrivals, failures |-> MaxFailures]
  BY DEF Init
<1>2. CalendarTypeOK /\ due \in 0..ended
  BY <1>1, CalendarAssumption, SchedulerAssumption
     DEF CalendarAssumption, SchedulerAssumption, CalendarInit, CalendarTypeOK, Statuses
<1>3. \A d \in Doors : call[d] = Quiet
  BY <1>1
<1>4. call \in [Doors -> CallStates]
  BY <1>1, QuietFacts
<1>5. left \in [reopens : Nat, arrivals : Nat, failures : Nat]
  BY <1>1, SchedulerAssumption DEF SchedulerAssumption
<1>6. TypeOK
  BY <1>1, <1>2, <1>4, <1>5, RestingFacts DEF TypeOK
<1>7. (\A d \in Doors : CallInv(call[d])) /\ OneCallInv /\ HeldInv
  BY <1>1, <1>3, QuietFacts, RestingFacts DEF OneCallInv, HeldInv, Doors
<1>8. QED
  BY <1>6, <1>7 DEF IInv

\* Every step preserves the invariant.
LEMMA StepInv == IInv /\ [Next]_vars => IInv'
<1> SUFFICES ASSUME IInv, [Next]_vars PROVE IInv'
  OBVIOUS
<1>1. ASSUME NEW d \in Doors, CloseStep(d) PROVE IInv'
  BY <1>1, PublishInv, CloseStepInv
<1>2. CASE Surroundings
  BY <1>2, SurroundingsInv
<1>3. CASE CycleStep
  BY <1>1, <1>3, WalkStepInv DEF CycleStep, Doors
<1>4. CASE CycleFails
  BY <1>4, CycleFailsInv
<1>5. CASE \E d \in Doors : CommitTooLarge(d)
  BY <1>5, CommitTooLargeInv
<1>6. CASE \E d \in Runbooks : CloseStep(d) \/ (\E m \in Months : RunbookClose(d, m))
  BY <1>1, <1>6, RunbookInv DEF Doors
<1>7. CASE UNCHANGED vars
  <2>1. UNCHANGED <<call, left, calendar, store, periods>> /\ walk' = walk
    BY <1>7 DEF vars
  <2>2. walk' \in WalkStates /\ OneCallInv' /\ HeldInv'
    BY <2>1 DEF IInv, TypeOK, OneCallInv, HeldInv
  <2>3. QED
    BY <2>1, <2>2, OnlyWalk
<1>8. QED
  BY <1>2, <1>3, <1>4, <1>5, <1>6, <1>7 DEF Next

\* The inductive invariant holds in every reachable state.
THEOREM Inductive == Spec => []IInv
<1>1. QED
  BY InitInv, StepInv, PTL DEF Spec

\* Every variable keeps its type; in particular no walk and no guard leaves the
\* calendar.
THEOREM TypeCorrect == Spec => []TypeOK
<1>1. IInv => TypeOK
  BY DEF IInv
<1>2. QED
  BY <1>1, Inductive, PTL

\* A close that passed its guard has overtaken no older month that carried money
\* when it began, unless somebody closed that month meanwhile.
THEOREM GuardHolds == Spec => []OldestFirst
<1>1. IInv => OldestFirst
  BY DEF IInv, CallInv, Guarding, OldestFirst
<1>2. QED
  BY <1>1, Inductive, PTL

\* Only a publish closes a month: the one its call is for, which is over.
LEMMA WhoCloses ==
  ASSUME IInv, [Next]_vars
  PROVE  \/ \E d \in Doors : Publish(d)
         \/ Surroundings
         \/ UNCHANGED months
<1>1. ASSUME NEW d \in Doors, CloseStep(d), ~Publish(d) PROVE UNCHANGED months
  BY <1>1 DEF CloseStep, Find, ReadEarliest, ListClosed, ProbeOlder, CheckPending,
              ReadVersion, LosePublish, calendar, store, periods, months
<1>2. ASSUME StartCycle \/ ListPeriods \/ EndWalk \/ SkipMonth \/ Attempt \/ Answered
      PROVE UNCHANGED months
  BY <1>2 DEF StartCycle, ListPeriods, EndWalk, SkipMonth, Attempt, Answered,
              calendar, store, periods, months
<1>3. ASSUME CycleFails \/ (\E d \in Doors : CommitTooLarge(d)) PROVE UNCHANGED months
  BY <1>3 DEF CycleFails, CommitTooLarge, calendar, store, periods, months
<1>4. ASSUME \E d \in Runbooks : \E m \in Months : RunbookClose(d, m)
      PROVE UNCHANGED months
  BY <1>4 DEF RunbookClose, calendar, store, periods, months
<1>5. ASSUME UNCHANGED vars PROVE UNCHANGED months
  BY <1>5 DEF vars, calendar, store, periods, months
<1>6. QED
  BY <1>1, <1>2, <1>3, <1>4, <1>5 DEF Next, CycleStep, Doors

\* The scheduler's own publishes respect every month its cycle holds.
THEOREM HoldKept == Spec => HoldIsRespected
<1>1. ASSUME IInv, [Next]_vars, NEW m \in Months,
             doc[m] # "closed", doc'[m] = "closed",
             call[Scheduler].pc = "publish", call'[Scheduler].pc = "done"
      PROVE  \A o \in walk.held : o > m
  <2>1. /\ TypeOK /\ Scheduler \in Doors /\ walk \in WalkStates
        /\ call \in [Doors -> CallStates] /\ doc \in [Months -> Statuses]
    BY <1>1 DEF IInv, TypeOK, CalendarTypeOK, Doors
  <2>2. PICK d \in Doors : Publish(d)
    <3>1. ~UNCHANGED months
      BY <1>1 DEF months
    <3>2. ~Surroundings
      <4>1. Surroundings => call' = call
        BY DEF Surroundings, TimePasses, DelayPasses, Ingest, Stamp, Reopen
      <4>2. QED
        BY <1>1, <4>1
    <3>3. QED
      BY <1>1, <3>1, <3>2, WhoCloses
  <2>3. d = Scheduler
    <3>1. d # Scheduler => call'[Scheduler] = [call[Scheduler] EXCEPT !.owed = @ \ {call[d].month}]
      BY <2>1, <2>2 DEF Publish, Settled
    <3>2. d # Scheduler => call'[Scheduler].pc = call[Scheduler].pc
      BY <2>1, <3>1 DEF CallStates
    <3>3. QED
      BY <1>1, <3>2
  <2>4. m = call[Scheduler].month
    BY <1>1, <2>1, <2>2, <2>3 DEF Publish
  <2>5. /\ m = walk.month /\ walk.month \notin walk.reopened
        /\ walk.held \subseteq walk.reopened /\ \A o \in walk.held : o >= walk.month
    BY <1>1, <2>4 DEF IInv, OneCallInv, HeldInv
  <2>6. walk.held \subseteq Months
    BY <2>1 DEF WalkStates
  <2>7. QED
    BY <2>5, <2>6, MonthsAreNat
<1>2. IInv /\ [Next]_vars =>
        [\A m \in Months :
           (/\ doc[m] # "closed" /\ doc'[m] = "closed"
            /\ call[Scheduler].pc = "publish" /\ call'[Scheduler].pc = "done")
           => \A o \in walk.held : o > m]_vars
  BY <1>1
<1>3. QED
  BY <1>2, Inductive, PTL DEF Spec, HoldIsRespected

\* CloseScheduler implements MonthCalendar, which is all BillList relies on.
THEOREM CalendarImplemented == Spec => ImplementsCalendar
<1>1. Init => CalendarInit
  BY DEF Init
<1>2. ASSUME IInv, [Next]_vars PROVE [CalendarNext]_months
  <2>1. CASE \E d \in Doors : Publish(d)
    <3>1. PICK d \in Doors : Publish(d)
      BY <2>1
    <3> DEFINE m == call[d].month
    <3>2. /\ call[d] \in CallStates /\ CallInv(call[d]) /\ call[d].pc = "publish"
          /\ doc[m] # "closed" /\ doc' = [doc EXCEPT ![m] = "closed"]
          /\ UNCHANGED <<ended, traced>>
      BY <1>2, <3>1 DEF IInv, TypeOK, Publish, MayPublish, calendar, store
    <3>3. m \in Months /\ m <= ended
      BY <3>2 DEF CallStates, CallInv
    <3>4. CloseMonth(m)
      BY <3>2, <3>3 DEF CloseMonth
    <3>5. QED
      BY <3>3, <3>4 DEF CalendarNext
  <2>2. CASE Surroundings
    <3>1. CASE TimePasses
      BY <3>1 DEF TimePasses, CalendarNext
    <3>2. CASE DelayPasses
      BY <3>2 DEF DelayPasses, store, periods, months
    <3>3. CASE \E m \in Months : Ingest(m)
      BY <3>3 DEF Ingest, CalendarNext
    <3>4. CASE \E m \in Months : Stamp(m)
      BY <3>4 DEF Stamp, calendar, periods, months
    <3>5. CASE \E m \in Months : Reopen(m)
      BY <3>5 DEF Reopen, CalendarNext
    <3>6. QED
      BY <2>2, <3>1, <3>2, <3>3, <3>4, <3>5 DEF Surroundings
  <2>3. CASE UNCHANGED months
    BY <2>3
  <2>4. QED
    BY <1>2, <2>1, <2>2, <2>3, WhoCloses
<1>3. QED
  BY <1>1, <1>2, Inductive, PTL DEF Spec, ImplementsCalendar, CalendarSpec
=============================================================================
