--------------------------- MODULE BillingReaders ---------------------------
(***************************************************************************)
(* The readers of a month's money: summary with its comparison, monthly    *)
(* series, daily lens, projection and the totals of the bill list.  A      *)
(* closed month is its current snapshot, any other month the live sum of   *)
(* its stamps; every reader takes status, sums and snapshots in separate   *)
(* reads, while traces land, are stamped, and months close and reopen.     *)
(* A trace costs 1.  Traces are flagged as they land (the race that lets   *)
(* one through unflagged is BillingClose's), and which months are LISTED   *)
(* is BillList's: this module is about what they show.                     *)
(***************************************************************************)
EXTENDS Integers, Sequences, FiniteSets, FiniteSetsExt

CONSTANTS
  LastRead,      \* months 1..LastRead
  MaxTraces,     \* bound: traces in the store
  MaxVersions,   \* bound: closes of one month
  MaxMeanwhile,  \* bound: what happens during one query
  MaxMonths      \* the cap of the series axis

ASSUME ReadersAssumption == {LastRead, MaxTraces, MaxVersions, MaxMeanwhile, MaxMonths} \subseteq Nat \ {0}

Read == 1..LastRead

Readers == {"summary", "series", "daily", "projection", "bills"}

VARIABLES
  over,       \* how many months are over: the current one is over + 1
  period,     \* billing_periods: status or "absent"
  purse,      \* traces of each month, by pricing and quarantine
  frozen,     \* totals of the snapshot versions of each month
  settling,   \* months published whose stragglers are not absorbed yet
  query,      \* local state of one reader
  during      \* history: live sums, frozen totals and events since it began

books == <<over, period, purse, frozen, settling>>
readersVars == <<books, query, during>>

NoTraces == [billed |-> 0, late |-> 0, pending |-> 0, pendingLate |-> 0]

All(p) == p.billed + p.late + p.pending + p.pendingLate
Stored == MapThenSumSet(LAMBDA m : All(purse[m]), Read)

Traced == {m \in Read : All(purse[m]) > 0}

\* fetchUsageRecords, listBills, monthlyRollup: every stamped trace.
Live(m) == purse[m].billed + purse[m].late

\* findCurrent: the snapshot of the highest version.
Current(m) == IF frozen[m] = <<>> THEN 0 ELSE frozen[m][Len(frozen[m])]

-----------------------------------------------------------------------------
(* What a query has to answer for. *)

NoSums == [m \in Read |-> -1]
Unread == [m \in Read |-> "unread"]

NoRead == [kind |-> "none", month |-> 1, pc |-> "idle", docs |-> Unread, anchor |-> 0,
         total |-> NoSums, split |-> NoSums, todo |-> {}, pending |-> -1, held |-> -1]

Now == over + 1

\* resolvePeriodStatus: a month later than the current one is "future" until closed.
IsFuture(docs, m) == docs[m] # "closed" /\ m > Now

ClosedDocs(docs) == {m \in Read : docs[m] = "closed"}

\* firstOpenMonthStart, whose walk is BillList's subject.
LiveFrom(docs, anchor) ==
  IF ClosedDocs(docs) = {} THEN 1
  ELSE Min({m \in 1..(LastRead + 1) : m \notin ClosedDocs(docs)
                                     /\ m >= Min(ClosedDocs(docs) \cup {anchor})}
           \cup {m \in Read : docs[m] = "open"})

\* The months a query may still answer by a live sum, and by a bill: the
\* history keeps what its answer will be compared with.
Concerned(q) == {m \in Read : q.kind = "summary" => m \in {q.month, q.month - 1}}
ByStamps(q) == {m \in Concerned(q) : q.docs[m] # "closed"}
ByBill(q) == {m \in Concerned(q) : q.kind # "projection" /\ q.docs[m] \in {"unread", "closed"}}

Seen(q) ==
  [lives |-> [m \in Read |-> IF m \in ByStamps(q) THEN {Live(m)} ELSE {}],
   frozen |-> [m \in Read |-> IF m \in ByBill(q) THEN {Current(m)} ELSE {}],
   moved |-> IF q.kind = "daily" THEN settling ELSE {},
   settled |-> settling = {}, moves |-> 0]

Asked == {"find", "statement", "pending", "quarantine", "read", "rollup", "models", "snapshots", "accrue"}

NoHistory == [lives |-> [m \in Read |-> {}], frozen |-> [m \in Read |-> {}],
              moved |-> {}, settled |-> TRUE, moves |-> 0]

\* The history follows every step of the books while a query is under way.
Follow(moved) ==
  IF query.pc \notin Asked THEN during' = during
  ELSE /\ during.moves < MaxMeanwhile
       /\ during' = [lives |-> [m \in Read |-> during.lives[m] \cup Seen(query)'.lives[m]],
                  frozen |-> [m \in Read |-> during.frozen[m] \cup Seen(query)'.frozen[m]],
                  moved |-> IF query.kind = "daily" THEN during.moved \cup moved ELSE {},
                  settled |-> during.settled, moves |-> during.moves + 1]

ReadersInit ==
  /\ over \in 0..LastRead
  /\ period = [m \in Read |-> "absent"]
  /\ purse = [m \in Read |-> NoTraces]
  /\ frozen = [m \in Read |-> <<>>]
  /\ settling = {}
  /\ query = NoRead
  /\ during = NoHistory

-----------------------------------------------------------------------------
(* The books. *)

Turn ==
  /\ over < LastRead
  /\ over' = over + 1
  /\ UNCHANGED <<period, purse, frozen, settling, query>>
  /\ Follow({})

Land(m, priced) ==
  /\ Stored < MaxTraces
  /\ LET slot == CASE period[m] = "closed" /\ priced -> "late"
                   [] period[m] = "closed" /\ ~priced -> "pendingLate"
                   [] period[m] # "closed" /\ priced -> "billed"
                   [] OTHER -> "pending"
     IN purse' = [purse EXCEPT ![m][slot] = @ + 1]
  /\ UNCHANGED <<over, period, frozen, settling, query>>
  /\ Follow({})

\* The reprocess sweep: it passes over the months that are closed.
PricePending(m) ==
  /\ period[m] # "closed"
  /\ \/ /\ purse[m].pending > 0
        /\ purse' = [purse EXCEPT ![m].pending = @ - 1, ![m].billed = @ + 1]
     \/ /\ purse[m].pendingLate > 0
        /\ purse' = [purse EXCEPT ![m].pendingLate = @ - 1, ![m].late = @ + 1]
  /\ UNCHANGED <<over, period, frozen, settling, query>>
  /\ Follow({})

\* The publish of a close: every stamped trace is in the snapshot, stragglers
\* of an earlier close included; nothing may be pending.
PublishBill(m) ==
  /\ m <= over
  /\ period[m] # "closed"
  /\ purse[m].pending + purse[m].pendingLate = 0
  /\ Len(frozen[m]) < MaxVersions
  /\ period' = [period EXCEPT ![m] = "closed"]
  /\ frozen' = [frozen EXCEPT ![m] = Append(@, Live(m))]
  /\ settling' = IF purse[m].late > 0 THEN settling \cup {m} ELSE settling
  /\ UNCHANGED <<over, purse, query>>
  /\ Follow({m})

\* The reconciliation that follows it marks the billed stragglers absorbed.
AbsorbLate(m) ==
  /\ m \in settling
  /\ LET absorbed == Current(m) - purse[m].billed
     IN purse' = [purse EXCEPT ![m].late = @ - absorbed, ![m].billed = @ + absorbed]
  /\ settling' = settling \ {m}
  /\ UNCHANGED <<over, period, frozen, query>>
  /\ Follow({m})

ReopenBill(m) ==
  /\ period[m] = "closed"
  /\ m \notin settling
  /\ period' = [period EXCEPT ![m] = "open"]
  /\ UNCHANGED <<over, purse, frozen, settling, query>>
  /\ Follow({m})

BooksNext ==
  \/ Turn
  \/ \E m \in Read : \/ \E priced \in BOOLEAN : Land(m, priced)
                     \/ PricePending(m) \/ PublishBill(m) \/ AbsorbLate(m) \/ ReopenBill(m)

-----------------------------------------------------------------------------
(* The readers. *)

Step(next) ==
  /\ query' = next
  /\ during' = [during EXCEPT !.lives = [m \in Read |-> IF m \in ByStamps(next) THEN @[m] ELSE {}],
                             !.frozen = [m \in Read |-> IF m \in ByBill(next) THEN @[m] ELSE {}]]
  /\ UNCHANGED books

BeginCall(kind, m) ==
  /\ query.pc = "idle"
  /\ kind # "summary" => m = 1
  /\ LET began == [NoRead EXCEPT !.kind = kind, !.month = m,
                                  !.pc = CASE kind = "summary" -> "find"
                                           [] kind = "projection" -> "accrue"
                                           [] OTHER -> "read"]
     IN query' = began /\ during' = Seen(began)
  /\ UNCHANGED books

(* get(): the month, what is outside its bill, then the previous month. *)

Target == IF query.total[query.month] = -1 THEN query.month ELSE query.month - 1

FindPeriod ==
  /\ query.pc = "find"
  /\ Step([query EXCEPT !.docs[Target] = period[Target],
                       !.pc = IF IsFuture(period, Target) THEN "failed" ELSE "statement"])

MonthStatement ==
  /\ query.pc = "statement"
  /\ Step([query EXCEPT
       !.total[Target] = IF query.docs[Target] = "closed" THEN Current(Target) ELSE Live(Target),
       !.pc = IF Target = query.month THEN "pending" ELSE "done"])

\* Unresolved quarantine is left out of the panel of a closed month only.
PendingPriceSummary(m, docs) ==
  purse[m].pending + (IF docs[m] = "closed" THEN 0 ELSE purse[m].pendingLate)

Quarantined(m) == purse[m].late + purse[m].pendingLate

ReadPending ==
  /\ query.pc = "pending"
  /\ Step([query EXCEPT !.pc = "quarantine",
                       !.pending = PendingPriceSummary(query.month, query.docs)])

CountQuarantined ==
  /\ query.pc = "quarantine"
  /\ Step([query EXCEPT !.held = Quarantined(query.month),
                       !.pc = IF query.month = 1 THEN "done" ELSE "find"])

(* list(), listDaily() and the totals of the bill list. *)

\* Promise.all for series and bills; the daily lens reads the periods alone.
ReadPeriods ==
  /\ query.pc = "read"
  /\ query.docs = Unread
  /\ Step([query EXCEPT !.docs = period,
             !.pc = IF query.anchor = 0 /\ query.kind # "daily" THEN "read" ELSE "rollup"])

ReadAnchor ==
  /\ query.pc = "read"
  /\ query.kind # "daily"
  /\ query.anchor = 0
  /\ Step([query EXCEPT !.anchor = Min(Traced \cup {LastRead + 1}),
                       !.pc = IF query.docs = Unread THEN "read" ELSE "rollup"])

\* monthlyRollup sums stamps only: a month with none has no row.
RowsFrom == {m \in Read : m >= LiveFrom(query.docs, query.anchor) /\ Live(m) > 0}

Documented == {m \in Read : query.docs[m] # "absent"}

\* The chart: from the oldest known month to the current one, capped.
Axis(rows) ==
  LET known == {m \in rows \cup Documented : m <= Now}
  IN IF known = {} THEN {} ELSE {m \in Min(known)..Now : m > Now - MaxMonths} \cap Read

ItemOf(m) == IF m \in RowsFrom THEN Live(m) ELSE 0

MonthlyRollup ==
  /\ query.pc = "rollup"
  /\ query.kind = "series"
  /\ LET shown == Axis(RowsFrom)
     IN Step([query EXCEPT
          !.total = [m \in Read |-> IF m \in shown \ ClosedDocs(query.docs) THEN ItemOf(m) ELSE -1],
          !.todo = shown \cap ClosedDocs(query.docs),
          !.pc = "models"])

\* The second aggregation: the same stamps by model, read after the first.
RollupByModel ==
  /\ query.pc = "models"
  /\ Step([query EXCEPT
       !.split = [m \in Read |-> IF query.total[m] = -1 THEN -1 ELSE ItemOf(m)],
       !.pc = "snapshots"])

\* listBills has a row for a month of pending traces too.
BillItems ==
  /\ query.pc = "rollup"
  /\ query.kind = "bills"
  /\ LET shown == {m \in Documented \cup {t \in Traced :
                                           t >= LiveFrom(query.docs, query.anchor)} :
                     ~IsFuture(query.docs, m)}
     IN Step([query EXCEPT
          !.total = [m \in Read |-> IF m \in shown \ ClosedDocs(query.docs) THEN Live(m) ELSE -1],
          !.todo = ClosedDocs(query.docs),
          !.pc = "snapshots"])

FromSnapshot(m) ==
  /\ query.pc = "snapshots"
  /\ m \in query.todo
  /\ Step([query EXCEPT !.total[m] = Current(m), !.todo = @ \ {m}])

EndOfMonths ==
  /\ query.pc = "snapshots"
  /\ query.todo = {}
  /\ Step([query EXCEPT !.pc = "done"])

\* Faulty: unresolved quarantine charts in every month.
DailyOfAll(m) == Live(m)

\* Unresolved quarantine is left out of the days of closed months only.
DailyOf(m) == IF query.docs[m] = "closed" THEN purse[m].billed ELSE Live(m)

\* The sum of a month's days; the window reaches back over all of them.
DailyRollup ==
  /\ query.pc = "rollup"
  /\ query.kind = "daily"
  /\ Step([query EXCEPT !.total = [m \in Read |-> IF m <= Now THEN DailyOf(m) ELSE -1],
                       !.pc = "done"])

\* The projection reads one sum, that of the current month's stamps; the
\* extrapolation is arithmetic on it.
AccruedCost ==
  /\ query.pc = "accrue"
  /\ Step([query EXCEPT !.total = [m \in Read |-> IF m = Now THEN Live(m) ELSE -1],
                       !.pc = "done"])

CallNext ==
  \/ \E kind \in Readers, m \in Read : BeginCall(kind, m)
  \/ FindPeriod \/ MonthStatement \/ ReadPending \/ CountQuarantined
  \/ ReadPeriods \/ ReadAnchor \/ MonthlyRollup \/ RollupByModel \/ BillItems
  \/ DailyRollup \/ AccruedCost \/ EndOfMonths
  \/ \E m \in Read : FromSnapshot(m)

\* A behaviour is about one query, and ends with its answer.
Unanswered == query.pc \notin {"done", "failed"}

ReadersNext == Unanswered /\ (BooksNext \/ CallNext)

ReadersSpec == ReadersInit /\ [][ReadersNext]_readersVars

-----------------------------------------------------------------------------
Answered == {m \in Read : query.total[m] # -1}

\* No closed month is the current one; the projection needs no documents.
Frozen(m) == query.docs[m] = "closed"

(* "ONE total per month, everywhere" (get-billing-series-db-use-case.ts):  *)
(* whatever the interleaving, a month a reader calls closed shows a bill   *)
(* that was its current snapshot during the query, and any other month the  *)
(* sum of its stamps at an instant of the query; the daily lens agrees with *)
(* the frozen bill unless the month's lifecycle moved meanwhile.  When     *)
(* nothing happens during a summary, bill, pending panel and quarantine    *)
(* count together show every trace of the month, each of them once.        *)
OneTotalPerMonth ==
  query.pc = "done" =>
    /\ \A m \in Answered :
         CASE Frozen(m) /\ query.kind = "daily" ->
                m \notin during.moved => query.total[m] \in during.frozen[m]
           [] Frozen(m) /\ query.kind # "daily" -> query.total[m] \in during.frozen[m]
           [] OTHER -> query.total[m] \in during.lives[m]
    /\ \A m \in Read : query.split[m] # -1 => query.split[m] \in during.lives[m]
    /\ query.kind = "summary" /\ during.settled /\ during.moves = 0 =>
         All(purse[query.month]) = query.total[query.month] + query.pending
                                    + (IF Frozen(query.month) THEN query.held ELSE 0)
=============================================================================
