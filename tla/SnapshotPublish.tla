-------------------------- MODULE SnapshotPublish --------------------------
(***************************************************************************)
(* The close write of one billing month: the staged, two-phase publish of  *)
(* MongoDbBillingSnapshotRepository, the guarded period flip of            *)
(* MongoDbBillingPeriodRepository and the version choice of                *)
(* CloseBillingPeriodDbUseCase, run by any number of concurrent close and  *)
(* reopen calls, each of which may fail or be killed between any two       *)
(* database round trips.                                                   *)
(*                                                                         *)
(* Every key of the code is scoped to one (year, month), so a single month *)
(* is modelled.  An attempt's write token (MongoDb.generateUUID) is the    *)
(* attempt itself.  A usage record is abstracted to its identity; which    *)
(* traces become usage records is BillingClose's subject.                  *)
(***************************************************************************)
EXTENDS Naturals, Sequences

CONSTANTS
  Attempts,          \* calls of close(year, month); each carries its own token
  Reopens,           \* calls of reopen(year, month, reason)
  Records,           \* usage records the month may come to hold
  NumPages,          \* day pages of the month (usagePageWindows)
  PageOf             \* the page a record's startedAt falls in

ASSUME PagesAssumption ==
  /\ NumPages \in Nat
  /\ PageOf \in [Records -> 1..NumPages]

VARIABLES
  usage,      \* records fetchUsageRecords returns now (stamped traces only grow)
  period,     \* the billing_periods document of the month
  audit,      \* its append-only audit trail
  headers,    \* billing_snapshots: [version, token, statement]
  rows,       \* billing_snapshot_usage: [version, token, record]
  attempt,    \* local state of every close call
  reopen      \* local state of every reopen call

vars == <<usage, period, audit, headers, rows, attempt, reopen>>

-----------------------------------------------------------------------------
(* Types and readers *)

Periods  == [status : {"absent", "open", "closed"}, snapshotVersion : Nat]
Audits   == [action : {"close", "reopen"}, snapshotVersion : Nat]
Headers  == [version : Nat, token : Attempts, statement : SUBSET Records]
Rows     == [version : Nat, token : Attempts, record : Records]

Phases == {"idle", "version", "fetch", "stage", "discard", "sweep", "done", "dead"}
Outcomes == {"none", "closed", "conflict", "refused", "failed"}

AttemptStates ==
  [pc : Phases, outcome : Outcomes, version : Nat, known : Nat, page : 1..(NumPages + 1),
   buffer : SUBSET Records, folded : SUBSET Records, cleaned : BOOLEAN]

ReopenStates == [pc : {"idle", "found", "done"}, previous : Nat]

TypeOK ==
  /\ usage \in SUBSET Records
  /\ period \in Periods
  /\ audit \in Seq(Audits)
  /\ headers \in SUBSET Headers
  /\ rows \in SUBSET Rows
  /\ attempt \in [Attempts -> AttemptStates]
  /\ reopen \in [Reopens -> ReopenStates]

\* findCurrent: the highest version with a header, 0 when there is none.
HighestVersion ==
  IF headers = {} THEN 0
  ELSE CHOOSE v \in {h.version : h \in headers} :
         \A h \in headers : h.version <= v

\* findUsageRecords / findUsageTraceIds resolve the rows THROUGH the header:
\* version -> usageWriteToken -> rows staged under that token's key.
PublishedRows(v) ==
  {r \in Records :
     \E h \in headers :
       /\ h.version = v
       /\ [version |-> v, token |-> h.token, record |-> r] \in rows}
-----------------------------------------------------------------------------
(* Close attempts.  Begin .. sweep are the awaits of close() and of        *)
(* insertWithPeriodCloseStaged, in order.                                  *)

Idle == [pc |-> "idle", outcome |-> "none", version |-> 0, known |-> 0,
         page |-> 1, buffer |-> {}, folded |-> {}, cleaned |-> FALSE]

Init ==
  /\ usage = {}
  /\ period = [status |-> "absent", snapshotVersion |-> 0]
  /\ audit = << >>
  /\ headers = {}
  /\ rows = {}
  /\ attempt = [a \in Attempts |-> Idle]
  /\ reopen = [x \in Reopens |-> [pc |-> "idle", previous |-> 0]]

\* find(year, month): a closed month is refused (reopen first).
Begin(a) ==
  /\ attempt[a].pc = "idle"
  /\ attempt' = [attempt EXCEPT ![a] =
       IF period.status = "closed"
       THEN [@ EXCEPT !.pc = "done", !.outcome = "refused", !.cleaned = TRUE]
       ELSE [@ EXCEPT !.pc = "version", !.known = period.snapshotVersion]]
  /\ UNCHANGED <<usage, period, audit, headers, rows, reopen>>

\* Faulty: the period's counter is reused instead of being advanced.
SameVersion(known, highest) == IF known > highest THEN known ELSE highest

\* Math.max(period.snapshotVersion ?? 0, currentSnapshot.version ?? 0) + 1
NextVersion(known, highest) == (IF known > highest THEN known ELSE highest) + 1

ChooseVersion(a) ==
  /\ attempt[a].pc = "version"
  /\ attempt' = [attempt EXCEPT
       ![a].version = NextVersion(attempt[a].known, HighestVersion),
       ![a].pc = "fetch"]
  /\ UNCHANGED <<usage, period, audit, headers, rows, reopen>>

\* Faulty: one page too many.
MorePagesOffByOne(a) == attempt[a].page <= NumPages + 1

MorePages(a) == attempt[a].page <= NumPages

\* One day page: read it, fold it into the statement; an empty page is skipped.
FetchPage(a) ==
  LET page == {r \in usage : PageOf[r] = attempt[a].page} IN
  /\ attempt[a].pc = "fetch"
  /\ MorePages(a)
  /\ attempt' = [attempt EXCEPT
       ![a].folded = @ \cup page,
       ![a].buffer = page,
       ![a].page = @ + 1,
       ![a].pc = IF page = {} THEN "fetch" ELSE "stage"]
  /\ UNCHANGED <<usage, period, audit, headers, rows, reopen>>

\* Faulty: the discard names the area of the next version.
NextArea(v, a) == {r \in rows : r.version = v + 1 /\ r.token = a}

\* Faulty: the staging area is keyed by version alone.
SharedArea(v, a) == {r \in rows : r.version = v}

\* The rows of one attempt's staging area (usageStagingKey).
Area(v, a) == {r \in rows : r.version = v /\ r.token = a}

\* insertUsageChunk: one insertMany of part of the page, outside any transaction.
StageChunk(a) ==
  /\ attempt[a].pc = "stage"
  /\ \E chunk \in SUBSET attempt[a].buffer :
       /\ chunk # {}
       /\ rows' = rows \cup
            [version : {attempt[a].version}, token : {a}, record : chunk]
       /\ attempt' = [attempt EXCEPT
            ![a].buffer = @ \ chunk,
            ![a].pc = IF attempt[a].buffer = chunk THEN "fetch" ELSE "stage"]
  /\ UNCHANGED <<usage, period, audit, headers, reopen>>

-----------------------------------------------------------------------------
(* Phase 2: the two-document transaction. *)

\* Faulty: no unique index.
NoUniqueIndex(v) == FALSE

HeaderExists(v) == \E h \in headers : h.version = v

\* Faulty: the flip has no guard on the status.
FlipAlways(p) == TRUE

\* applyMarkClosed's filter: only a non-closed (or absent) period flips.
Flippable(p) == p.status # "closed"

ReadyToPublish(a) ==
  /\ attempt[a].pc = "fetch"
  /\ ~MorePages(a)

\* What the committed transaction writes: header, period flip, audit entry.
CommitBy(a) ==
  LET v == attempt[a].version IN
  /\ ~HeaderExists(v)
  /\ Flippable(period)
  /\ headers' = headers \cup
       {[version |-> v, token |-> a, statement |-> attempt[a].folded]}
  /\ period' = [status |-> "closed", snapshotVersion |-> v]
  /\ audit' = Append(audit, [action |-> "close", snapshotVersion |-> v])
  /\ UNCHANGED <<usage, rows, reopen>>

Publish(a) ==
  /\ ReadyToPublish(a)
  /\ CommitBy(a)
  /\ attempt' = [attempt EXCEPT ![a].pc = "sweep", ![a].outcome = "closed"]

\* The unique (year, month, version) index rejects the header.
RefusedByHeader(a) ==
  /\ ReadyToPublish(a)
  /\ HeaderExists(attempt[a].version)
  /\ attempt' = [attempt EXCEPT ![a].pc = "discard", ![a].outcome = "refused"]
  /\ UNCHANGED <<usage, period, audit, headers, rows, reopen>>

\* The guarded flip matches nothing: the transaction aborts, header included.
LosesFlip(a) ==
  /\ ReadyToPublish(a)
  /\ ~HeaderExists(attempt[a].version)
  /\ ~Flippable(period)
  /\ attempt' = [attempt EXCEPT ![a].pc = "discard", ![a].outcome = "conflict"]
  /\ UNCHANGED <<usage, period, audit, headers, rows, reopen>>

\* The call returns or throws: its locals go out of scope.
Returned(s, cleaned) ==
  [Idle EXCEPT !.pc = "done", !.outcome = s.outcome, !.known = s.known,
               !.cleaned = cleaned]

\* Any other error before the commit (read, chunk insert, transaction abort,
\* TransactionTooLargeForCache).  Before the version is known nothing was staged.
Fail(a) ==
  /\ attempt[a].pc \in {"version", "fetch", "stage"}
  /\ attempt' = [attempt EXCEPT
       ![a] = IF attempt[a].pc = "version"
              THEN [Returned(@, TRUE) EXCEPT !.outcome = "failed"]
              ELSE [@ EXCEPT !.outcome = "failed", !.pc = "discard"]]
  /\ UNCHANGED <<usage, period, audit, headers, rows, reopen>>

\* discardStaging: best effort, a failed deleteMany is only logged.
Discard(a) ==
  /\ attempt[a].pc = "discard"
  /\ \/ /\ rows' = rows \ Area(attempt[a].version, a)
        /\ attempt' = [attempt EXCEPT ![a] = Returned(@, TRUE)]
     \/ /\ rows' = rows
        /\ attempt' = [attempt EXCEPT ![a] = Returned(@, FALSE)]
  /\ UNCHANGED <<usage, period, audit, headers, reopen>>

\* Faulty: the $ne on the published area is missing.
SweepWhole(v, a) == {r \in rows : r.version = v}

\* sweepSupersededStaging's range: this version's areas but the published one.
Superseded(v, a) == {r \in rows : r.version = v /\ r.token # a}

\* The sweep: best effort too, after the header is durable.
Sweep(a) ==
  /\ attempt[a].pc = "sweep"
  /\ \/ /\ rows' = rows \ Superseded(attempt[a].version, a)
        /\ attempt' = [attempt EXCEPT ![a] = Returned(@, TRUE)]
     \/ /\ rows' = rows
        /\ attempt' = [attempt EXCEPT ![a] = Returned(@, FALSE)]
  /\ UNCHANGED <<usage, period, audit, headers, reopen>>

\* The process is killed: local state is gone, staged rows stay.
Crash(a) ==
  /\ attempt[a].pc \in Phases \ {"idle", "done", "dead"}
  /\ attempt' = [attempt EXCEPT ![a] = [Idle EXCEPT !.pc = "dead"]]
  /\ UNCHANGED <<usage, period, audit, headers, rows, reopen>>

-----------------------------------------------------------------------------
(* Reopening: find, then the guarded update; two awaits. *)

ReopenFind(x) ==
  /\ reopen[x].pc = "idle"
  /\ reopen' = [reopen EXCEPT ![x] =
       IF period.status = "closed"
       THEN [pc |-> "found", previous |-> period.snapshotVersion]
       ELSE [pc |-> "done", previous |-> 0]]
  /\ UNCHANGED <<usage, period, audit, headers, rows, attempt>>

\* Faulty: markReopened trusts the earlier find.
ReopenAlways(p) == TRUE

\* markReopened's filter.
Reopenable(p) == p.status = "closed"

\* status returns to open, snapshotVersion and every header stay; the audit
\* entry carries the version the find saw.  A lost race changes nothing.
MarkReopened(x) ==
  /\ reopen[x].pc = "found"
  /\ IF Reopenable(period)
     THEN /\ period' = [period EXCEPT !.status = "open"]
          /\ audit' = Append(audit, [action |-> "reopen",
                                     snapshotVersion |-> reopen[x].previous])
     ELSE UNCHANGED <<period, audit>>
  /\ reopen' = [reopen EXCEPT ![x].pc = "done"]
  /\ UNCHANGED <<usage, headers, rows, attempt>>

\* A trace of the month is stamped (ingest or reprocess): never unstamped.
UsageArrives(r) ==
  /\ r \notin usage
  /\ usage' = usage \cup {r}
  /\ UNCHANGED <<period, audit, headers, rows, attempt, reopen>>

-----------------------------------------------------------------------------

AttemptStep(a) ==
  \/ Begin(a)
  \/ ChooseVersion(a)
  \/ FetchPage(a)
  \/ StageChunk(a)
  \/ Publish(a)
  \/ RefusedByHeader(a)
  \/ LosesFlip(a)
  \/ Fail(a)
  \/ Discard(a)
  \/ Sweep(a)
  \/ Crash(a)

ReopenStep(x) == ReopenFind(x) \/ MarkReopened(x)

Next ==
  \/ \E a \in Attempts : AttemptStep(a)
  \/ \E x \in Reopens : ReopenStep(x)
  \/ \E r \in Records : UsageArrives(r)

Spec == Init /\ [][Next]_vars

(* The same system under a driver that may lose the answer to a commit. *)

\* withTransaction gives up on an unanswered commit that the server applied
\* (UnknownTransactionCommitResult past its retry limit): the catch block
\* runs as for any other error.
PublishAnswerLost(a) ==
  /\ ReadyToPublish(a)
  /\ CommitBy(a)
  /\ attempt' = [attempt EXCEPT ![a].pc = "discard", ![a].outcome = "failed"]

LossySpec ==
  Init /\ [][Next \/ \E a \in Attempts : PublishAnswerLost(a)]_vars

-----------------------------------------------------------------------------
(* Properties *)

\* A published bill keeps exactly the rows its statement was folded from:
\* no other attempt's discard or sweep, and no shared staging area, ever adds
\* or removes one ("a reader can never observe an incomplete snapshot").
PublishedIntact ==
  \A h \in headers : PublishedRows(h.version) = h.statement

\* Bills are numbered 1, 2, 3, ... with no gap and no duplicate, and the
\* period names the newest one, whatever the close attempts overtook.
VersionsGapless ==
  /\ {h.version : h \in headers} = 1..period.snapshotVersion
  /\ \A g, h \in headers : g.version = h.version => g = h

\* The audit trail alternates close and reopen, its close entries are the bills
\* in order, and its length says whether the month is closed: two racing
\* closes, or two racing reopens, leave one entry.
AuditTellsLifecycle ==
  LET bills == period.snapshotVersion IN
  /\ Len(audit) = IF period.status = "closed" THEN 2 * bills - 1 ELSE 2 * bills
  /\ \A v \in 1..bills :
       audit[2 * v - 1] = [action |-> "close", snapshotVersion |-> v]
  /\ \A v \in 1..bills :
       2 * v <= Len(audit) => audit[2 * v].action = "reopen"

\* A close that returns without publishing leaves no row on disk, unless its
\* cleanup itself failed (the interface's "leaves no trace on disk").
NoLeftovers ==
  \A a \in Attempts :
    /\ attempt[a].pc = "done"
    /\ attempt[a].outcome \in {"conflict", "refused", "failed"}
    /\ attempt[a].cleaned
    => \A r \in rows : r.token # a

\* A close that saw an open month is refused only because another close
\* published meanwhile: what a crashed or failed attempt left behind never
\* wedges the next one (audit B-2).
NoWedge ==
  \A a \in Attempts :
    attempt[a].outcome \in {"conflict", "refused"} =>
      period.snapshotVersion > attempt[a].known

\* The staged protocol implements the atomic ledger, as its readers see it.
Ledger == INSTANCE MonthLedger WITH
  Records <- Records,
  closed  <- period.status = "closed",
  version <- period.snapshotVersion,
  bills   <- [v \in 1..period.snapshotVersion |-> PublishedRows(v)]

ImplementsLedger == Ledger!Spec
=============================================================================
