--------------------------- MODULE CloseScheduler ---------------------------
(***************************************************************************)
(* Which months are closed, and in which order: the auto-close sidecar's   *)
(* reconcile walk (CloseDueBillingPeriodsDbUseCase.runCycle inside the     *)
(* loop of run-billing-close-scheduler), the runbook's close and reopen,   *)
(* and the close-order guard both doors go through, while traces keep      *)
(* arriving in any month (late, current, backfilled, or future-dated).     *)
(*                                                                         *)
(* Months are ordinals of the client's calendar.  What a close does INSIDE *)
(* its month is BillingClose's and SnapshotPublish's business; here it is  *)
(* its guards and the guarded flip.                                        *)
(***************************************************************************)
EXTENDS MonthCalendar, FiniteSetsExt

CONSTANTS
  OverAtStart,    \* how many of them are over when the scheduler is deployed
  Runbooks,       \* `make billing-close` invocations
  MaxReopens,     \* bound: audited reopens
  MaxArrivals,    \* bound: traces that arrive after the start
  MaxFailures     \* bound: commits that do not fit, cycles that throw, restarts

Scheduler == "scheduler"

ASSUME SchedulerAssumption ==
  /\ OverAtStart \in 0..LastMonth
  /\ {MaxReopens, MaxArrivals, MaxFailures} \subseteq Nat
  /\ Scheduler \notin Runbooks

Doors == Runbooks \cup {Scheduler}

VARIABLES
  due,        \* how many months have been over for delayMs
  pending,    \* months with a pending_price trace
  version,    \* billing_periods: snapshotVersion
  walk,       \* local state of the scheduler's cycle
  call,       \* local state of the close() calls, by door
  left        \* what is left of the bounds

calendar == <<ended, due>>
store    == <<traced, pending>>
periods  == <<doc, version>>
vars     == <<calendar, store, periods, walk, call, left>>

-----------------------------------------------------------------------------
WalkStates ==
  [pc : {"idle", "list", "walk", "closing"}, month : 1..NoMonth, now : 0..LastMonth,
   closed : SUBSET Months, reopened : SUBSET Months, held : SUBSET Months]

CallStates ==
  [pc : {"idle", "find", "earliest", "list", "probe", "pending", "version",
         "publish", "done"},
   outcome : {"none", "closed", "state", "blocked"},
   month : Months, cursor : 1..NoMonth, closed : SUBSET Months,
   known : Nat, version : Nat, owed : SUBSET Months]

TypeOK ==
  /\ CalendarTypeOK
  /\ due \in 0..ended
  /\ pending \in SUBSET traced
  /\ version \in [Months -> Nat]
  /\ walk \in WalkStates
  /\ call \in [Doors -> CallStates]
  /\ left \in [reopens : Nat, arrivals : Nat, failures : Nat]

\* The month of earliestTraceAt, when there is one.
Earliest == Min(traced \cup {NoMonth})

Resting == [pc |-> "idle", month |-> 1, now |-> 0, closed |-> {}, reopened |-> {},
            held |-> {}]

Quiet == [pc |-> "idle", outcome |-> "none", month |-> 1, cursor |-> 1,
          closed |-> {}, known |-> 0, version |-> 0, owed |-> {}]

Init ==
  /\ CalendarInit
  /\ ended = OverAtStart
  /\ due = ended
  /\ pending \in SUBSET traced
  /\ version = [m \in Months |-> 0]
  /\ walk = Resting
  /\ call = [d \in Doors |-> Quiet]
  /\ left = [reopens |-> MaxReopens, arrivals |-> MaxArrivals, failures |-> MaxFailures]

-----------------------------------------------------------------------------
(* The surroundings: the calendar, ingestion, price registration. *)

TimePasses ==
  /\ MonthEnds
  /\ UNCHANGED <<due, pending, version, walk, call, left>>

DelayPasses ==
  /\ due < ended
  /\ due' = due + 1
  /\ UNCHANGED <<ended, store, periods, walk, call, left>>

\* A trace lands, priced or not.
Ingest(m) ==
  /\ left.arrivals > 0
  /\ Arrive(m)
  /\ left' = [left EXCEPT !.arrivals = @ - 1]
  /\ pending' \in {pending, pending \cup {m}}
  /\ UNCHANGED <<due, version, walk, call>>

\* A registered price stamps the month's pending traces; a closed month's wait.
Stamp(m) ==
  /\ m \in pending \ Closed
  /\ pending' = pending \ {m}
  /\ UNCHANGED <<calendar, traced, periods, walk, call, left>>

Reopen(m) ==
  /\ left.reopens > 0
  /\ ReopenMonth(m)
  /\ left' = [left EXCEPT !.reopens = @ - 1]
  /\ UNCHANGED <<due, pending, version, walk, call>>

-----------------------------------------------------------------------------
(* close(year, month), from either door. *)

\* Months the call must not overtake: older, with traces, not closed.
Overtaken(m) == {o \in traced \ Closed : o < m}

\* The call returns or throws: its locals go out of scope.
Finished(outcome) == [Quiet EXCEPT !.pc = "done", !.outcome = outcome]

\* Faulty: the end check compares the start of the month.
HasStarted(m) == m <= ended + 1

HasEnded(m) == m <= ended

\* A month that has not ended is refused at once.
Starting(m) ==
  IF HasEnded(m) THEN [Quiet EXCEPT !.pc = "find", !.month = m, !.owed = Overtaken(m)]
  ELSE Finished("state")

RunbookClose(d, m) ==
  /\ d \in Runbooks
  /\ call[d].pc = "idle"
  /\ call' = [call EXCEPT ![d] = Starting(m)]
  /\ UNCHANGED <<calendar, store, periods, walk, left>>

\* Past the close-order guard.
Guarded(s) == [s EXCEPT !.pc = "pending", !.cursor = 1, !.closed = {}]

\* A month already closed gets its reconciliation repaired, and a refusal.
Find(d) ==
  /\ call[d].pc = "find"
  /\ call' = [call EXCEPT ![d] =
       IF doc[@.month] = "closed" THEN Finished("state")
       ELSE [@ EXCEPT !.pc = "earliest", !.known = version[call[d].month]]]
  /\ UNCHANGED <<calendar, store, periods, walk, left>>

\* Faulty: the guard walks from the earliest month with a period document.
EarliestDocument(d) == Min({m \in Months : doc[m] # "absent"} \cup {NoMonth})

GuardAnchor(d) == Earliest

\* assertOlderMonthsClosed: nothing older than the target, nothing to check.
ReadEarliest(d) ==
  /\ call[d].pc = "earliest"
  /\ call' = [call EXCEPT ![d] =
       IF GuardAnchor(d) >= @.month THEN Guarded(@)
       ELSE [@ EXCEPT !.cursor = GuardAnchor(d), !.pc = "list"]]
  /\ UNCHANGED <<calendar, store, periods, walk, left>>

ListClosed(d) ==
  /\ call[d].pc = "list"
  /\ call' = [call EXCEPT ![d].closed = Closed, ![d].pc = "probe"]
  /\ UNCHANGED <<calendar, store, periods, walk, left>>

\* Faulty: a month without traffic blocks like any other.
BlocksEmpty(d, o) == o \notin call[d].closed

\* Not closed by the list, and the hasTraces probe finds a trace.
Blocks(d, o) == o \notin call[d].closed /\ o \in traced

ProbeOlder(d) ==
  LET cursor == call[d].cursor IN
  /\ call[d].pc = "probe"
  /\ call' = [call EXCEPT ![d] =
       IF Blocks(d, cursor) THEN Finished("blocked")
       ELSE IF cursor + 1 = @.month THEN Guarded(@)
       ELSE [@ EXCEPT !.cursor = cursor + 1]]
  /\ UNCHANGED <<calendar, store, periods, walk, left>>

\* Every pending trace of the window blocks, quarantined or not.
CheckPending(d) ==
  /\ call[d].pc = "pending"
  /\ call' = [call EXCEPT ![d] =
       IF @.month \in pending THEN Finished("blocked")
       ELSE [@ EXCEPT !.pc = "version"]]
  /\ UNCHANGED <<calendar, store, periods, walk, left>>

\* findCurrent: headers and period documents advance together.
ReadVersion(d) ==
  /\ call[d].pc = "version"
  /\ call' = [call EXCEPT
       ![d].version = Max({call[d].known, version[call[d].month]}) + 1, ![d].known = 0,
       ![d].pc = "publish"]
  /\ UNCHANGED <<calendar, store, periods, walk, left>>

\* The unique header index and the guarded flip of the publish transaction.
MayPublish(d) ==
  /\ doc[call[d].month] # "closed"
  /\ version[call[d].month] < call[d].version

\* A close of m settles what the other calls owed to it.
Settled(d, m) ==
  [e \in Doors |-> IF e = d THEN Finished("closed")
                   ELSE [call[e] EXCEPT !.owed = @ \ {m}]]

Publish(d) ==
  LET m == call[d].month IN
  /\ call[d].pc = "publish"
  /\ MayPublish(d)
  /\ doc' = [doc EXCEPT ![m] = "closed"]
  /\ version' = [version EXCEPT ![m] = call[d].version]
  /\ call' = Settled(d, m)
  /\ UNCHANGED <<calendar, store, walk, left>>

LosePublish(d) ==
  /\ call[d].pc = "publish"
  /\ ~MayPublish(d)
  /\ call' = [call EXCEPT ![d] = Finished("state")]
  /\ UNCHANGED <<calendar, store, periods, walk, left>>

\* TransactionTooLargeForCache is a BillingPeriodStateError too, with the month
\* still open; any other failure of a scheduled close is CycleFails.
CommitTooLarge(d) ==
  /\ call[d].pc = "publish"
  /\ left.failures > 0
  /\ left' = [left EXCEPT !.failures = @ - 1]
  /\ call' = [call EXCEPT ![d] = Finished("state")]
  /\ UNCHANGED <<calendar, store, periods, walk>>

CloseStep(d) ==
  \/ Find(d) \/ ReadEarliest(d) \/ ListClosed(d) \/ ProbeOlder(d)
  \/ CheckPending(d) \/ ReadVersion(d) \/ Publish(d) \/ LosePublish(d)

-----------------------------------------------------------------------------
(* runCycle, over and over. *)

\* now, then earliestTraceAt; an empty store ends the cycle at once.  held is
\* history: months with traces by now and, from the listing on, reopened.
StartCycle ==
  /\ walk.pc = "idle"
  /\ traced # {}
  /\ walk' = [Resting EXCEPT !.pc = "list", !.now = due, !.month = Earliest,
                             !.held = traced]
  /\ UNCHANGED <<calendar, store, periods, call, left>>

\* Faulty: a reopened month is an open month like any other.
NoneReopened == {}

ReopenedKeys == Reopened

ListPeriods ==
  /\ walk.pc = "list"
  /\ walk' = [walk EXCEPT !.pc = "walk", !.closed = Closed, !.reopened = ReopenedKeys,
                          !.held = @ \cap Reopened]
  /\ UNCHANGED <<calendar, store, periods, call, left>>

\* Faulty: the eligibility check is left to close() alone.
StopsAtHold(m) == m \in walk.reopened

\* The next candidate is not due, or a reopened month holds everything newer.
StopsAt(m) == m > walk.now \/ m \in walk.reopened

EndWalk ==
  /\ walk.pc = "walk"
  /\ StopsAt(walk.month)
  /\ walk' = Resting
  /\ UNCHANGED <<calendar, store, periods, call, left>>

\* Neither closed by the list nor a gap: the first due month standing.
ToClose(m) == m \notin walk.closed /\ m \in traced

SkipMonth ==
  /\ walk.pc = "walk"
  /\ ~StopsAt(walk.month)
  /\ ~ToClose(walk.month)
  /\ walk' = [walk EXCEPT !.month = @ + 1]
  /\ UNCHANGED <<calendar, store, periods, call, left>>

Attempt ==
  /\ walk.pc = "walk"
  /\ ~StopsAt(walk.month)
  /\ ToClose(walk.month)
  /\ walk' = [walk EXCEPT !.pc = "closing"]
  /\ call' = [call EXCEPT ![Scheduler] = Starting(walk.month)]
  /\ UNCHANGED <<calendar, store, periods, left>>

\* Closed, or BillingPeriodStateError taken for "closed by the other door":
\* keep walking.  BillingCloseBlockedError: the bill waits, the cycle is over.
Answered ==
  /\ walk.pc = "closing"
  /\ call[Scheduler].pc = "done"
  /\ walk' = IF call[Scheduler].outcome = "blocked" THEN Resting
             ELSE [walk EXCEPT !.pc = "walk", !.month = @ + 1]
  /\ call' = [call EXCEPT ![Scheduler] = Quiet]
  /\ UNCHANGED <<calendar, store, periods, left>>

\* Any other error reaches the loop's catch and its backoff; a restart of the
\* container loses the same locals.
CycleFails ==
  /\ walk.pc # "idle"
  /\ left.failures > 0
  /\ left' = [left EXCEPT !.failures = @ - 1]
  /\ walk' = Resting
  /\ call' = [call EXCEPT ![Scheduler] = Quiet]
  /\ UNCHANGED <<calendar, store, periods>>

CycleStep ==
  \/ StartCycle \/ ListPeriods \/ EndWalk \/ SkipMonth \/ Attempt \/ Answered
  \/ CloseStep(Scheduler)

-----------------------------------------------------------------------------
Surroundings ==
  \/ TimePasses \/ DelayPasses
  \/ \E m \in Months : Ingest(m) \/ Stamp(m) \/ Reopen(m)

Next ==
  \/ Surroundings
  \/ CycleStep
  \/ CycleFails
  \/ \E d \in Doors : CommitTooLarge(d)
  \/ \E d \in Runbooks : CloseStep(d) \/ (\E m \in Months : RunbookClose(d, m))

Spec == Init /\ [][Next]_vars

\* The sidecar's loop runs until it is told to stop; nobody else must act.
FairSpec == Spec /\ WF_vars(CycleStep)

-----------------------------------------------------------------------------
(* Oldest first: when a close has passed the guard, every older month that *)
(* carried money when the call began has been closed by somebody at some   *)
(* point of the call.  (A month whose first trace arrives later may still  *)
(* be overtaken, and a reopen may follow: the guard is a point-in-time     *)
(* check, billing-period-model.ts says so.)                                *)
OldestFirst ==
  \A d \in Doors :
    call[d].pc \in {"pending", "version", "publish"} => call[d].owed = {}

(* A month that was reopened when the cycle listed the periods holds that  *)
(* month and everything newer for the whole cycle, whatever the runbook    *)
(* does meanwhile, provided it carried traces when the cycle began.        *)
HoldIsRespected ==
  [][\A m \in Months :
       (/\ doc[m] # "closed" /\ doc'[m] = "closed"
        /\ call[Scheduler].pc = "publish" /\ call'[Scheduler].pc = "done")
       => \A o \in walk.held : o > m]_vars

(* Whatever the doors, the guards and the failures, the lifecycle stays    *)
(* within MonthCalendar: only months that are over get closed, only closed *)
(* ones get reopened, and a month changes hands one step at a time.        *)
ImplementsCalendar == CalendarSpec

(* Without anybody's help every due month with traces ends up closed, past *)
(* gaps, restarts and failed cycles, unless it or an older month waits for *)
(* a price or was reopened.                                                *)
Waits(m) ==
  \E o \in Months : o <= m /\ (o \in pending \ Closed \/ o \in Reopened)

EveryDueMonthCloses ==
  \A m \in Months :
    <>[](m \in Closed \/ m \notin traced \/ m > due \/ Waits(m))

(* What the source says of the hold (close-due-billing-periods-db-use-     *)
(* case.ts: "The scheduler NEVER re-closes it").                           *)
NeverReclosed ==
  [][\A m \in Months :
       (/\ call[Scheduler].pc = "publish" /\ call[Scheduler].month = m
        /\ doc[m] # "closed" /\ doc'[m] = "closed" /\ call'[Scheduler].pc = "done")
       => version[m] = 0]_vars
=============================================================================
