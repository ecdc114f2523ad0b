---------------------------- MODULE BillingClose ----------------------------
(***************************************************************************)
(* What the close of a month does to its traces, while ingestion keeps     *)
(* writing into it: CloseBillingPeriodDbUseCase from its pending guard to  *)
(* the end of reconcileQuarantineAfterClose, its repair path, the audited  *)
(* reopen, ingestSourceTrace's quarantine decision, and the reprocess      *)
(* sweep.  The publish itself is MonthLedger's atomic Close, which         *)
(* SnapshotPublish implements.                                             *)
(*                                                                         *)
(* One month, one model.  A process that crashes is one that takes no      *)
(* further step; nothing here is fair, so every crash is a behaviour.      *)
(***************************************************************************)
EXTENDS Naturals

CONSTANTS
  Traces,        \* traces of the source dated inside the month
  Unmeasured,    \* those with a model and no token count (decision 128)
  Closers,       \* calls of close(year, month), runbook or scheduler
  Reopeners,     \* calls of reopen(year, month, reason)
  Ingests,       \* ingestSourceTrace calls of the worker and of a manual sync
  Sweeps,        \* runs of the reprocess sweep
  NumPages,      \* day pages of the month
  PageOf         \* the page a trace's startedAt falls in

ASSUME MonthAssumption ==
  /\ Unmeasured \subseteq Traces
  /\ NumPages \in Nat
  /\ PageOf \in [Traces -> 1..NumPages]

VARIABLES
  ended,       \* is the month over, on the wall clock?
  priced,      \* is a price effective in the month registered for the model?
  trace,       \* the traces collection
  closed,      \* billing_periods: status = 'closed'
  version,     \* billing_periods: snapshotVersion
  bills,       \* billing_snapshots with their usage rows
  closer, reopener, ingest, sweep,     \* local state of the calls
  decidedAt,   \* history: version when an ingest decided "not quarantined"
  flaggedBy,   \* history: version whose reconciliation flagged the trace, or 0
  scanned,     \* history: month scans of completed reconciliations, by version
  asked        \* history: traces in the store at the pending guard, by closer

ledger == <<closed, version, bills>>
calls  == <<closer, reopener, ingest, sweep>>
past   == <<decidedAt, flaggedBy, scanned, asked>>
vars   == <<ended, priced, trace, ledger, calls, past>>

Ledger == INSTANCE MonthLedger WITH Records <- Traces

-----------------------------------------------------------------------------
Statuses == {"absent", "pending", "stamped", "unmeasured"}

TraceDocs == [status : Statuses, flagged : BOOLEAN, absorbed : Nat]

ClosePhases == {"find", "guard", "version", "read", "published",
                "flag", "absorb", "done"}

CloserStates ==
  [pc : ClosePhases, known : Nat, version : Nat, page : 1..(NumPages + 1),
   billed : SUBSET Traces, month : SUBSET Traces, todo : SUBSET Traces]

IngestStates ==
  [pc : {"cycle", "price", "fresh", "insert", "done"}, seen : BOOLEAN,
   quarantined : BOOLEAN, status : Statuses, trace : Traces, decided : Nat]

TypeOK ==
  /\ ended \in BOOLEAN /\ priced \in BOOLEAN /\ closed \in BOOLEAN
  /\ trace \in [Traces -> TraceDocs]
  /\ version \in Nat
  /\ bills \in [1..version -> SUBSET Traces]
  /\ closer \in [Closers -> CloserStates]
  /\ reopener \in [Reopeners -> {"find", "mark", "done"}]
  /\ ingest \in [Ingests -> IngestStates]
  /\ sweep \in [Sweeps -> {"start", "open", "done"}]
  /\ decidedAt \in [Traces -> Nat]
  /\ flaggedBy \in [Traces -> Nat]
  /\ scanned \in [1..version -> SUBSET Traces]
  /\ asked \in [Closers -> SUBSET Traces]

Stored == {t \in Traces : trace[t].status # "absent"}

\* billingQuarantine.reason set, absorbedInSnapshotVersion absent.
Unresolved == {t \in Stored : trace[t].flagged /\ trace[t].absorbed = 0}

\* A call that is over keeps no locals.
Over == [pc |-> "done", known |-> 0, version |-> 0, page |-> 1,
         billed |-> {}, month |-> {}, todo |-> {}]

-----------------------------------------------------------------------------
Init ==
  /\ ended = FALSE
  /\ priced = FALSE
  /\ trace = [t \in Traces |-> [status |-> "absent", flagged |-> FALSE, absorbed |-> 0]]
  /\ Ledger!Init
  /\ closer = [c \in Closers |-> [Over EXCEPT !.pc = "find"]]
  /\ reopener = [x \in Reopeners |-> "find"]
  /\ ingest \in [Ingests ->
       [pc : {"cycle"}, seen : {FALSE}, quarantined : {FALSE}, status : {"absent"},
        trace : Traces, decided : {0}]]
  /\ sweep = [s \in Sweeps |-> "start"]
  /\ decidedAt = [t \in Traces |-> 0]
  /\ flaggedBy = [t \in Traces |-> 0]
  /\ scanned = [v \in 1..0 |-> {}]
  /\ asked = [c \in Closers |-> {}]

MonthEnds ==
  /\ ~ended
  /\ ended' = TRUE
  /\ UNCHANGED <<priced, trace, ledger, calls, past>>

\* A price version effective in the month, backdated or not.
RegisterPrice ==
  /\ ~priced
  /\ priced' = TRUE
  /\ UNCHANGED <<ended, trace, ledger, calls, past>>

-----------------------------------------------------------------------------
(* Ingestion of one source trace. *)

\* The cycle reads the closed months once, before its batch.
StartCycle(i) ==
  /\ ingest[i].pc = "cycle"
  /\ ingest' = [ingest EXCEPT ![i].pc = "price", ![i].seen = closed]
  /\ UNCHANGED <<ended, priced, trace, ledger, closer, reopener, sweep, past>>

\* stampTokens' three arms.
StampStatus(t) ==
  IF t \in Unmeasured THEN "unmeasured"
  ELSE IF priced THEN "stamped" ELSE "pending"

\* findEffectivePrices, the stamp and ingestedAt = new Date(): only a trace of
\* a PAST month that the cycle's set calls open is worth the second look.
PriceAndClock(i) ==
  /\ ingest[i].pc = "price"
  /\ ingest' = [ingest EXCEPT
       ![i].status = StampStatus(ingest[i].trace),
       ![i].quarantined = ingest[i].seen,
       ![i].decided = version,
       ![i].pc = IF ingest[i].seen \/ ~ended THEN "insert" ELSE "fresh"]
  /\ UNCHANGED <<ended, priced, trace, ledger, closer, reopener, sweep, past>>

\* Faulty: the double check trusts the cycle's set.
TrustCycle(i) == ingest[i].seen

FreshlyClosed(i) == closed

Freshness(i) ==
  /\ ingest[i].pc = "fresh"
  /\ ingest' = [ingest EXCEPT
       ![i].quarantined = FreshlyClosed(i), ![i].decided = version, ![i].pc = "insert"]
  /\ UNCHANGED <<ended, priced, trace, ledger, closer, reopener, sweep, past>>

\* Faulty: the write is an upsert.
NeverStored(t) == FALSE

AlreadyStored(t) == t \in Stored

\* insertIfAbsent: a stored trace is skipped (its attribution refresh changes
\* neither its status nor its flag).
Insert(i) ==
  LET t == ingest[i].trace IN
  /\ ingest[i].pc = "insert"
  /\ IF AlreadyStored(t)
     THEN UNCHANGED <<trace, decidedAt>>
     ELSE /\ trace' = [trace EXCEPT ![t].status = ingest[i].status,
                                    ![t].flagged = ingest[i].quarantined]
          /\ decidedAt' = [decidedAt EXCEPT ![t] = ingest[i].decided]
  /\ ingest' = [ingest EXCEPT ![i] =
       [@ EXCEPT !.pc = "done", !.seen = FALSE, !.quarantined = FALSE,
                 !.status = "absent", !.decided = 0]]
  /\ UNCHANGED <<ended, priced, ledger, closer, reopener, sweep, flaggedBy, scanned, asked>>

-----------------------------------------------------------------------------
(* The reprocess sweep: the closed months once, then trace by trace. *)

SweepStart(s) ==
  /\ sweep[s] = "start"
  /\ sweep' = [sweep EXCEPT ![s] = IF closed THEN "done" ELSE "open"]
  /\ UNCHANGED <<ended, priced, trace, ledger, closer, reopener, ingest, past>>

\* stampPendingTrace's CAS on the pending status.
SweepStamp(s, t) ==
  /\ sweep[s] = "open"
  /\ priced
  /\ trace[t].status = "pending"
  /\ trace' = [trace EXCEPT ![t].status = "stamped"]
  /\ UNCHANGED <<ended, priced, ledger, calls, past>>

-----------------------------------------------------------------------------
(* Closing. *)

\* The month must be over; a closed month goes to the repair path, which reads
\* the ids the current version billed and reconciles again before refusing.
Find(c) ==
  /\ closer[c].pc = "find"
  /\ ended
  /\ closer' = [closer EXCEPT ![c] =
       IF closed
       THEN [@ EXCEPT !.pc = "published", !.version = version, !.billed = bills[version]]
       ELSE [@ EXCEPT !.pc = "guard", !.known = version]]
  /\ UNCHANGED <<ended, priced, trace, ledger, reopener, ingest, sweep, past>>

\* Faulty: unresolved quarantine is exempt, as on a closed month's screen.
ExemptQuarantined(t) == trace[t].status = "pending" /\ t \notin Unresolved

BlocksClose(t) == trace[t].status = "pending"

PendingGuard(c) ==
  /\ closer[c].pc = "guard"
  /\ IF \E t \in Traces : BlocksClose(t)
     THEN /\ closer' = [closer EXCEPT ![c] = Over]
          /\ UNCHANGED asked
     ELSE /\ closer' = [closer EXCEPT ![c].pc = "version"]
          /\ asked' = [asked EXCEPT ![c] = Stored]
  /\ UNCHANGED <<ended, priced, trace, ledger, reopener, ingest, sweep,
                 decidedAt, flaggedBy, scanned>>

\* findCurrent; the version is one above everything seen.
ChooseVersion(c) ==
  /\ closer[c].pc = "version"
  /\ closer' = [closer EXCEPT
       ![c].version = (IF closer[c].known > version THEN closer[c].known ELSE version) + 1,
       ![c].pc = "read"]
  /\ UNCHANGED <<ended, priced, trace, ledger, reopener, ingest, sweep, past>>

\* Faulty: one page too many.
PagesOffByOne(c) == closer[c].page <= NumPages + 1

PagesLeft(c) == closer[c].page <= NumPages

\* fetchUsageRecords of one day: the stamped traces, flagged or not.
ReadPage(c) ==
  /\ closer[c].pc = "read"
  /\ PagesLeft(c)
  /\ closer' = [closer EXCEPT
       ![c].billed = @ \cup {t \in Traces : /\ trace[t].status = "stamped"
                                            /\ PageOf[t] = closer[c].page},
       ![c].page = @ + 1]
  /\ UNCHANGED <<ended, priced, trace, ledger, reopener, ingest, sweep, past>>

\* The atomic publish of SnapshotPublish: one bill, or nothing at all.
Publish(c) ==
  /\ closer[c].pc = "read"
  /\ ~PagesLeft(c)
  /\ IF ~closed /\ closer[c].version = version + 1
     THEN /\ Ledger!Close(closer[c].billed)
          /\ closer' = [closer EXCEPT ![c].pc = "published"]
          /\ scanned' = [v \in 1..(version + 1) |->
                           IF v = version + 1 THEN {} ELSE scanned[v]]
          /\ UNCHANGED asked
     ELSE /\ closer' = [closer EXCEPT ![c] = Over]
          /\ asked' = [asked EXCEPT ![c] = {}]
          /\ UNCHANGED <<ledger, scanned>>
  /\ UNCHANGED <<ended, priced, trace, reopener, ingest, sweep, decidedAt, flaggedBy>>

\* Faulty: the scan leaves out what is not stamped.
StampedNotBilled(billed) == {t \in Traces : trace[t].status = "stamped"} \ billed

NotBilled(billed) == Stored \ billed

\* Pass 1, the projected scan of the month and the client-side difference.
ScanMonth(c) ==
  /\ closer[c].pc = "published"
  /\ closer' = [closer EXCEPT ![c].pc = "flag", ![c].month = Stored,
                              ![c].todo = NotBilled(closer[c].billed)]
  /\ UNCHANGED <<ended, priced, trace, ledger, reopener, ingest, sweep, past>>

\* Pass 1, the chunked updateMany, document by document (it is not atomic
\* across documents): marks only what carries no reason.
FlagNext(c) ==
  /\ closer[c].pc = "flag"
  /\ \/ /\ closer[c].todo = {}
        /\ closer' = [closer EXCEPT ![c].pc = "absorb", ![c].todo = closer[c].billed]
        /\ UNCHANGED <<trace, flaggedBy>>
     \/ \E t \in closer[c].todo :
          /\ IF trace[t].flagged
             THEN UNCHANGED <<trace, flaggedBy>>
             ELSE /\ trace' = [trace EXCEPT ![t].flagged = TRUE]
                  /\ flaggedBy' = [flaggedBy EXCEPT ![t] = closer[c].version]
          /\ closer' = [closer EXCEPT ![c].todo = @ \ {t}]
  /\ UNCHANGED <<ended, priced, ledger, reopener, ingest, sweep, decidedAt, scanned, asked>>

\* Faulty: the filter does not ask for a mark.
AnyTrace(t) == TRUE

\* Faulty: the filter of pass 1.
Unmarked(t) == ~trace[t].flagged

\* Pass 2's filter: a trace that carries a reason.
Marked(t) == trace[t].flagged

\* Pass 2, document by document.
AbsorbNext(c) ==
  /\ closer[c].pc = "absorb"
  /\ \/ /\ closer[c].todo = {}
        /\ closer' = [closer EXCEPT ![c] = Over]
        /\ asked' = [asked EXCEPT ![c] = {}]
        /\ scanned' = [scanned EXCEPT ![closer[c].version] = @ \cup closer[c].month]
        /\ UNCHANGED trace
     \/ \E t \in closer[c].todo :
          /\ trace' = IF Marked(t)
                      THEN [trace EXCEPT ![t].absorbed = closer[c].version] ELSE trace
          /\ closer' = [closer EXCEPT ![c].todo = @ \ {t}]
          /\ UNCHANGED <<asked, scanned>>
  /\ UNCHANGED <<ended, priced, ledger, reopener, ingest, sweep, decidedAt, flaggedBy>>

-----------------------------------------------------------------------------
(* The audited reopen: find, then the guarded update. *)

ReopenFind(x) ==
  /\ reopener[x] = "find"
  /\ reopener' = [reopener EXCEPT ![x] = IF closed THEN "mark" ELSE "done"]
  /\ UNCHANGED <<ended, priced, trace, ledger, closer, ingest, sweep, past>>

MarkReopened(x) ==
  /\ reopener[x] = "mark"
  /\ IF closed THEN Ledger!Reopen ELSE UNCHANGED ledger
  /\ reopener' = [reopener EXCEPT ![x] = "done"]
  /\ UNCHANGED <<ended, priced, trace, closer, ingest, sweep, past>>

-----------------------------------------------------------------------------
CloserStep(c) ==
  \/ Find(c)
  \/ PendingGuard(c)
  \/ ChooseVersion(c)
  \/ ReadPage(c)
  \/ Publish(c)
  \/ ScanMonth(c)
  \/ FlagNext(c)
  \/ AbsorbNext(c)

IngestStep(i) ==
  \/ StartCycle(i)
  \/ PriceAndClock(i)
  \/ Freshness(i)
  \/ Insert(i)

Next ==
  \/ MonthEnds
  \/ RegisterPrice
  \/ \E c \in Closers : CloserStep(c)
  \/ \E i \in Ingests : IngestStep(i)
  \/ \E x \in Reopeners : ReopenFind(x) \/ MarkReopened(x)
  \/ \E s \in Sweeps : SweepStart(s)
  \/ \E s \in Sweeps, t \in Traces : SweepStamp(s, t)

Spec == Init /\ [][Next]_vars

-----------------------------------------------------------------------------
(* Properties *)

\* Whatever was in the store when the close asked "is anything pending?" is on
\* the bill it publishes, except what no bill ever charges: a trace that was
\* priced, flagged or reopened in between is not lost (T6, decision 89).
CloseBillsWhatItSaw ==
  \A c \in Closers :
    closer[c].pc \in {"published", "flag", "absorb"} =>
      asked[c] \ Unmeasured \subseteq closer[c].billed

\* A completed reconciliation leaves no trace of its month scan in between:
\* each is on that version's bill or carries the quarantine mark (decision 100).
AdjudicatedByScan ==
  \A v \in 1..version : \A t \in scanned[v] :
    t \in bills[v] \/ trace[t].flagged

\* A trace that entered a closed month unflagged and unbilled was decided
\* before that close committed; one decided after it always carries the mark,
\* however old the ingestion cycle's set of closed months was.
LateIsFlagged ==
  closed => \A t \in Stored \ bills[version] :
    trace[t].flagged \/ decidedAt[t] < version

\* Once the current version is reconciled, a trace it bills stays unresolved
\* only if an OLDER version's reconciliation, still running, marked it.
ResolvedOnceBilled ==
  closed => \A t \in bills[version] \cap scanned[version] :
    t \in Unresolved => flaggedBy[t] \in 1..(version - 1)

\* An absorption resolves a mark, and names a version that bills the trace.
AbsorptionNamesItsBill ==
  \A t \in Traces : trace[t].absorbed # 0 =>
    /\ trace[t].flagged
    /\ trace[t].absorbed \in 1..version
    /\ t \in bills[trace[t].absorbed]

\* A re-close never drops what an earlier version billed, whichever calls the
\* reopen and the two closes raced with.
RecloseKeepsBilled ==
  \A v \in 1..version : v + 1 \in 1..version => bills[v] \subseteq bills[v + 1]

(* What comments promise, and the runs named after them refute. *)

\* The daily chart of a closed, reconciled month sums to its frozen total: it
\* charts the stamped traces without unresolved quarantine.
ClosedDaysSumToBill ==
  closed /\ scanned[version] # {} =>
    {t \in Traces : trace[t].status = "stamped"} \ Unresolved = bills[version]

\* A trace the reconciled current version bills is not counted as outside it.
BilledIsResolved ==
  closed => \A t \in bills[version] \cap scanned[version] : t \notin Unresolved

\* The traces a close's first pass marks are stragglers: they were not in the
\* store when that close looked.
OnlyStragglersFlagged ==
  \A c \in Closers : closer[c].pc \in {"flag", "absorb"} =>
    \A t \in asked[c] : flaggedBy[t] # closer[c].version
=============================================================================
