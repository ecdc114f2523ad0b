# Usage billing: TLA+ models, checks and proofs

A verification development of the usage component (`packages/connector`,
`packages/core`, `packages/module`): how traces are read from the source, priced
and stored, how they become the bill of a month, and how a month is closed,
reopened and closed again. `PROJECT.json` holds the machine-readable side: the
components, the runs, one mutant of the code per property, the map from
definitions to source lines, the hazards and the theorems.

## 1. The system

One deployment serves one client. Four kinds of process share one MongoDB and
nothing else; every interaction below is a read or a write of a collection, so
every `await` is a point where another process may act.

| process | entry point | what it does |
|---|---|---|
| ingestion worker | `run-trace-ingestion-loop.ts` | drains the source's ClickHouse in batches behind a watermark; between batches reprocesses unpriced traces |
| auto-close sidecar | `run-billing-close-scheduler.ts` | every few minutes closes the months that are due |
| API | `main/index.ts` | bills, summaries, series, traces, sessions; MCP tools that close, reopen and register prices |
| operator jobs | `make billing-close`, `billing-reopen`, `sync`, `reprocess`, rebuilds, migrations | the same use cases, run by hand beside the others |

| component | state | operations | interacts with | hard because |
|---|---|---|---|---|
| snapshot publish | `billing_snapshots`, `billing_snapshot_usage`, `billing_periods` | stage a page, publish (two-document transaction), discard, sweep, reopen | close use case | staged rows live outside the transaction; crash, race or lost answer between any two calls |
| close, reopen, reconcile | the month's `traces` and its period | pending guard, version, paged read, publish, two reconciliation passes, repair | ingestor, sweep, publish | ingestion never stops while a month closes; a crash after the commit leaves work undone |
| scheduler and close order | walk of one cycle, period documents | list, walk, attempt; the close-order guard | both close doors, ingestion | everything is read once and used several awaits later |
| bill list | none (four reads) | list | periods, traces, snapshots | the reads are at different instants |
| continuous ingestion | `sync_state` cursor, `ingest_failures`, `poison_rows` | fetch, lanes, dead letter, bookmark | source, ingestor | source rows become visible late and keep changing; two drainers at a deploy |
| trace ingestor | `traces` | insert if absent, quarantine decision, stamp, attribution refresh | periods, prices, projections | its set of closed months is a cycle old |
| windowed sync | none (the archive) | page a fixed window, salvage, clip, store | source, ingestor | the source moves under the pages; a page is two queries; a run may die |
| price registry | `price_versions` | register, effective-on-date | stamping, reprocess | backdated versions; a cache per batch |
| stamping, reprocess sweep | `pricingStatus` of a trace | stamp, sweep pending | registry, periods | compare-and-set against an attribution refresh |
| session summaries, filter counters | `session_summaries`, `trace_filter_counters` | recompute, increment, rebuild | ingestor, rebuild jobs | the summary is recomputed outside the insert's transaction; a rebuild swaps the collection under its writers |
| statement engine, views | none | fold of usage records; cards, donuts, chart, exports | close, summary | order independence; money split and rounded at each turn |
| billing readers | none (several reads) | summary, series, daily lens, projection | periods, traces, snapshots | must agree with the list and with frozen bills |
| MCP confirmation | none (signed token) | preview, confirm | close, reopen, register | the state may change between preview and action |
| authentication | one cached key set | verify, refresh | identity provider | single flight, rotation, two doors |
| trace and session queries | none | lists, facets, details | the two read-models, traces | a facet must promise what the list answers |
| migrations, connection | `migrations` | run once, in order | all | at least once, never exactly once |
| HTTP adapter, configuration, deployment | none | | | not modelled, see section 8 |

Correctness, component by component: a published bill is whole and never
changes, versions are gapless and the audit agrees with them (publish); a bill
holds everything its guard vouched for, everything else in the month is marked,
and a mark is resolved exactly by the version that bills the trace (close);
months close oldest first, a reopened month is left to its operator, every due
month closes in the end (scheduler); no month with money is missing from a list
(bill list); nothing behind the watermark is lost, the watermark never
regresses, stored content is final, sessions stay in order, every row lands
(ingestion); a stamp is final, is the price of the model beside it on the trace's
date, and every priced trace of an open month is stamped in the end (stamping); a
trace is archived whole or accounted for (windowed sync); a facet's count is what
the list answers, a listed session is what its detail shows (read-models); a closed
statement is the live one, to the cent and in order, and everything derived from it
closes with it (statement); a month has one total, whoever reads it (readers); a
confirmed write is the one previewed, on the same numbers (MCP); a good token is
served what it is entitled to and no more, across key rotations (authentication).

## 2. Modules

| module | models | uses |
|---|---|---|
| `MonthLedger` | abstract: what the close of one month promises | |
| `SnapshotPublish` | the staged publish and the period store | implements `MonthLedger` |
| `BillingClose` | one month: close, reconcile, reopen against ingestion and the sweep | `MonthLedger` for the publish |
| `MonthCalendar` | abstract: months end, fill up, close, reopen, in any order | |
| `CloseScheduler` | the walk, both doors, the close-order guard | implements `MonthCalendar` |
| `BillList` | one call of `list()` | runs over `MonthCalendar` |
| `BatchSync` | the continuous ingestion | |
| `PriceSweep` | price registry, stamping, reprocess sweep, attribution refresh | |
| `WindowSync` | the windowed sync, from source rows to the archive | |
| `Projections` | facet cube, session summaries, their rebuilds, the queries over them | |
| `BillingReaders` | summary, series, daily lens, projection, totals of the list | |
| `StatementFold` | the statement engine | |
| `StatementViews` | view model, exports and chart over a statement | `StatementFold` |
| `WriteTools` | the MCP previews, tokens, confirmations and writes | |
| `SessionDoor` | token verification at both doors, key rotation, what a caller reaches | |
| `*_proofs` | theorems about the module of the same name | that module |
| `Statement_proofs` | theorems about how a statement is published and what it adds up to | `SnapshotPublish`, `StatementFold`, `StatementViews` |
| `Archive_proofs` | theorems about the archive and what is derived from it | `WindowSync`, `Projections` |
| `Serving_proofs` | theorems about what the API serves, and to whom | `BillList`, `BillingReaders`, `WriteTools`, `SessionDoor` |
| `OrderLemmas` | lemmas several of them share | |
| `MC*` | values for TLC; `MCServing` puts seven modules in one run | |

The composition is layered by two abstract specifications. `SnapshotPublish`
shows that the machinery of a publish is one atomic `Close` of `MonthLedger`;
`BillingClose` then uses that atomic step, so its state space is spent on the
traces. `CloseScheduler` shows that the doors and their guards only take steps of
`MonthCalendar`; `BillList` needs nothing else of the lifecycle, so what it shows
holds "whatever the lifecycle history", as the source puts it. The other modules
have the lifecycle as part of their own environment, as coarse as their question
allows: `BillingReaders` keeps publish and absorption apart, because a reader may
come between; `WriteTools` needs only the guarded flips.

Conventions. A process is a record of its locals with a `pc` naming the await it
has reached; one action is the code from one await to the next, its guard the
conditions and early returns on the way. A call that is over drops its locals. A
process that crashes in a specification without fairness is one that takes no
further step; where a crash also changes state (a restart that loses locals, a
failed cycle) it is an action. Definitions introduced by `Faulty:` are the
mutants: a plausible mistake in the definition that follows them. Variables
called history are read by properties only.

### SnapshotPublish (`mongodb-billing-snapshot-repository.ts`, `mongodb-billing-period-repository.ts`)

`usage` is what `fetchUsageRecords` would return, `rows` the staged usage rows
(keyed by version and write token), `headers` the snapshots, `period` and `audit`
the period document. A close is `Begin`, `ChooseVersion`, then `FetchPage` and
`StageChunk` in turns, then one of `Publish` (header, guarded flip and audit in
one transaction), `RefusedByHeader` (the unique index) and `LosesFlip` (the
`status: {$ne: 'closed'}` filter), then `Sweep` or `Discard`, both best effort.
`Fail` and `Crash` may strike anywhere. A reopen is two awaits. `PublishAnswerLost`
(a commit whose answer never comes) exists only in the specification of the run
that refutes the comment about it.

### BillingClose (`close-billing-period-db-use-case.ts`, `mongodb-trace-repository.ts`, `trace-ingestor.ts`)

`trace` is the month's part of `traces`: status, mark, absorbing version. A close
is `Find`, `PendingGuard`, `ChooseVersion`, one `ReadPage` per day page,
`Publish`, `ScanMonth`, `FlagNext` and `AbsorbNext` document by document (an
`updateMany` is not atomic across documents); a closed month goes from `Find` to
the repair of the same two passes. An ingestion reads the closed months at the
start of its cycle, prices and decides the quarantine, looks again only for a past
month it believes open, and inserts if absent. The sweep reads the closed months
once and stamps one trace at a time.

### CloseScheduler (`close-due-billing-periods-db-use-case.ts`, `run-billing-close-scheduler.ts`, `assertOlderMonthsClosed`)

`ended` and `due` are the two clocks (end of a month; end plus `delayMs`),
`traced` and `pending` what the store holds per month, `doc` and `version` the
period documents, `walk` the scheduler's cycle, `call` one `close()` per door. A
cycle reads the earliest trace, then lists the periods, then walks: stop at a
month that is not due or reopened, skip the closed and the empty, attempt the
rest; the answer decides whether to go on. A call is the end check and `find`, the
three reads of the close-order guard (one probe per month), the pending guard, the
version and the guarded publish, which may also fail with the "transaction too
large" error that the walk takes for a lost race.

### BillList (`list-bills-db-use-case.ts`, `firstOpenMonthStart`)

The documents and the earliest trace are read in either order (`Promise.all`),
then the live scan runs from the bound, then the reopened months without a row
are probed one by one; closed ones come from their snapshot. Only which months
appear is modelled.

### BatchSync (`sync-batches-db-use-case.ts`, `run-in-lanes.ts`, `clickhouse-langwatch-client.ts`, `mongodb-sync-state-repository.ts`)

A drainer reads the cursor, the source's clock, one page of settled rows, runs
them in per-session lanes with bounded concurrency, and stores the cursor with a
guarded update, a create, and a guarded retry. Poison rows are recorded, failed
traces dead-lettered, a systemic failure or an all-failed batch aborts. The source
is external: it shows a row at most `Lag` after its timestamp and updates it again
within `Gap`, and the model ASSUMEs what the code's quiet period is chosen for,
`Lag + Gap <= Quiet`.

### PriceSweep (`price-stamper.ts`, `reprocess-pending-db-use-case.ts`, `mongodb-price-version-repository.ts`, `mongodb-trace-repository.ts`, `run-trace-ingestion-loop.ts`)

`registry` is a set of versions by model, type and effective date; the price of a
trace is the latest version not after its date, for every type it used, unless that
one is of a kind nothing resolves (`Computed`). A batch cuts a model's time into
intervals at one instant (`CutIntervals`) and asks for the prices of an interval at
another, with the date of the trace that asks first (`AskPrices`); `Decide` stamps,
leaves pending or excludes, `Insert` and `Refresh` store. A run of the sweep (the
worker's chunk, a registration's targeted and capped run, the runbook's uncapped
one) reads the closed months once, pages through the pending traces by a keyset and
stamps with a filter that pins the model it priced; a refresh may replace that model
between the page and the stamp. The worker's pacing is part of it: `pace` has the
cursor a capped chunk hands back, which a restart forgets. `asOf`, beside each
stamp, is history: the registry its prices were looked up in, or `Torn`.

### WindowSync (`sync-traces-db-use-case.ts`, `clickhouse-langwatch-client.ts`, `clickhouse-row-mapper.ts`, `token-salvage-gate.ts`, `content-size-guard.ts`)

A row of the source is a sequence of writes, each the whole of what the source says
after it. `StartSync` clamps the window; `QueryPage` reads summary rows behind the
keyset, `FetchSpans` their spans, with the parse, the salvage and its gate;
`IngestTrace` and `RecordTruncation` store one trace; `EndPage` applies the
breakers and moves the cursor. Rows, pages and spans are sets of records; their order
is the query's (`Later`), and a page is worked through along it (`FirstOfPage`).
`SyncAborts` may strike between any two. The source
is external: what it promises, that a trace in progress is never silent for longer
than the quiet period, is the guard of `SourceClockTicks`.

### Projections (`mongodb-filter-counter-repository.ts`, `mongodb-session-summary-repository.ts`, `guard-concurrent-rebuild.ts`, the query repositories)

A trace write and its cube delta are one action (one transaction). The recompute
that follows is `MergeRead` and `MergeWrite`, because `$merge` reads and writes at
two instants; `MergeRaced` is its retry, `TouchLost` the recompute that is swallowed
or dies. A rebuild is `Sample`, `Aggregate`, `Swap`, `Verify`. `doubt` and `drift`
are histories: the sessions and the kinds of writes one of the accidents the code
names has touched. The queries are operators over the state: `FindTraces`,
`FilterOptions` (cube or live), `FindSessions`, `FindSessionDetail`.

### BillingReaders (`get-billing-summary-db-use-case.ts`, `get-billing-series-db-use-case.ts`, `get-billing-projection-db-use-case.ts`)

`purse` counts a month's traces by pricing and quarantine, `frozen` the totals of
its snapshots. One reader makes one call, one action per await; `during` is the
history its answer is compared with: the live sums and frozen totals of the months
it may still show, since it began.

### StatementFold, StatementViews (`statement-engine.ts`, `billing-view-model.ts`, `export-statement-controller.ts`, series view)

A fold has the set of records it was fed and its accumulator, whose groups are in
insertion order, as a JavaScript `Map` has them. `FinishStatement` is a pure
operator: sorts, agent groups, mixes, percentages and the largest-remainder
reconciliation of cents. A list is worked on by its columns and positions: a sum is a
sum over positions, a filter keeps positions (`Kept`), a `Map` is the positions of
each key in the order the keys came (`Grouped`), and a stable sort puts a position
behind those that come before it by the comparator's terms or, on a tie, stood before
it (`Arranged`). Money is in micro-units of which `Unit` make a cent, so that halves
and ties occur. The views are operators over the finished statement.

### WriteTools (`confirmation.ts`, `billing-lifecycle-tools.ts`, `price-write-tools.ts`, `write-support.ts`)

A preview mints a token that binds caller, action, id, etag and content. A
confirming call is: signature, fields and window before any read (`Admit`), the
fresh read and the etag (`ReadBills`), the use case (`Perform*`). Tokens may be
presented by anyone with any request, and edited ones without a valid signature.

### SessionDoor (`session-claims-verifier.ts`, `jwks-key-source.ts`, `auth-gate.ts`, MCP surface)

A visit goes through `current()`, verification, and, once, a forced refresh when
the key is unknown; `fetch` is the one request in flight, which everybody joins and
whose answer is the key set of the instant the issuer answered. What the claims
open is pure: `Entitled` for the API by the app of the audience, for MCP by the
tools, prompts and resources registered for this caller.

## 3. Runs

| run | instance | shows |
|---|---|---|
| `snapshot_publish` | 3 closes, 2 reopens, 2 records on 2 pages | bills whole, gapless, immutable; audit truthful; nothing left behind by a clean return; no close wedged by a crash; implements `MonthLedger` |
| `billing_close` | 3 traces (one unmeasured) on 2 pages, 2 closes, 1 reopen, 2 ingestions, 1 sweep | what a bill holds, what gets marked, what a re-close absorbs |
| `batch_sync` | 3 rows (two of one session, one broken), 2 drainers, batches of 2, 1 fault | watermark, finality, order, and that every row lands |
| `close_scheduler` | 3 months (2 over at the start), 1 operator, 1 reopen, 1 late trace, 1 failure | oldest first, holds, `MonthCalendar`, every due month closes |
| `price_sweep` | 2 traces, 2 models, 2 types, pages of 2, chunks of 1, one correction, one version on sale, one that nothing resolves, 1 fault | a stamp is final, is the price as of the date, and comes in the end |
| `serving` | seven parts, see below | the properties of `BillList`, `BillingReaders`, `Projections`, `WriteTools`, `SessionDoor`, `StatementViews`, `WindowSync` |
| `lost_commit_answer` | as `snapshot_publish` | refutes "nothing was published on this path" |
| `late_straggler`, `stale_reconcile`, `unmeasured_flagged` | as `billing_close` | refute three comments about the quarantine |
| `scheduler_recloses` | as `close_scheduler` | refutes "the scheduler never re-closes a reopened month" |
| `rebuild_guard` | as the projections part | refutes "two independent signals ... if either moved it throws" |

`serving` is a union, not a product: `part` is chosen in the first state, only that
part takes steps and the others keep their initial values, so its state space is
the sum of theirs. The parts share no variable; the modules can be checked one by
one with the same constants. What each is given:

| part | instance | properties |
|---|---|---|
| list | 3 months, any number over, any lifecycle | `TypeOK`, `ListComplete` |
| readers | 2 months, 2 traces, 2 closes each, at most 2 events during a query, a chart of 2 months | `OneTotalPerMonth` |
| projections | 2 traces (one corrected by hand and without a session, one waiting for its price), 2 agents, a channel or none, 2 writers, one rebuild at a time, a list horizon of 2 and a chain of 1 | `CubeExact`, `SummaryFresh`, `RebuildLosesNoInsert` |
| tools | 2 months and the current one, a price with two terms, 2 callers, 2 calls, one token | `ConfirmedAsPreviewed` |
| door | 1 key that comes and goes, 2 visits at once, requests of every kind of caller by both doors | `DoorHonest` |
| fold | 3 records, a live and a frozen fold, every order | `ClosedEqualsLive` |
| window | 5 rows (growing, salvaged, beyond rescue, without roll-up, oversized, undated), pages of 2, 2 runs | `WindowHonest` |

Bounds. Two closes are needed for every race between closers; the third in
`snapshot_publish` lets a crashed attempt's rows meet a loser and a winner of the
same version. Two records on two pages distinguish "this page" from "the bill" and
let a page be staged while another is read. One reopen gives two versions of a
bill, which every property about versions compares; the publish run has two. In
`batch_sync` a batch of two over three rows gives a full page, a partial page and a
second batch; row 2 is broken and stands between two rows of one session. Three
months are an older, a middle (gap or reopened) and a newest one; in the list the
current month comes on top of them. No safety property
rests on its bounds, being proved. Two traces in `price_sweep` are one in a month
that may close and one behind it. For a reader, two closes of a month give it two
bills to confuse, and two events while it runs are a reopen and a re-close, or a
publish and its absorption. Two writers are what a lost update of a summary takes,
and two agents what an attribution moves between. One key suffices for rotation,
since a set without it is what the door has missed; two visits share a fetch. The
window's margin is 0 and its spans lie at its edge. One failure and one late arrival may strike at any
step. `MaxReopens`, `MaxArrivals`, `MaxFailures`, `MaxFaults`,
`MaxSlips`, `LastWrite`, `MaxTraces`, `MaxVersions`, `MaxMeanwhile`, `MaxCount`,
`MaxClock`, `MaxVersion`, `MaxPerMonth`, `MaxNow`, `MaxTime` and `MaxRuns` are the
only counters that are capped. A behaviour of `BillingReaders` ends with the answer
(`Unanswered` is a guard of `ReadersNext`): nothing after it is asked about. Symmetry is used for calls (they differ by
local state only) and never in a run with a liveness property.

`CHECK_DEADLOCK FALSE` is set everywhere: the calls of an instance are finite in
number, and in `batch_sync`, `close_scheduler` and `price_sweep` an idle loop
re-reads the same state.

## 4. Fairness

`batch_sync`: `runWorker` never leaves its loop on an error and its container is
restarted, so each drainer's progress is weakly fair; the source's clock runs.
Faults are neither fair nor unbounded. `close_scheduler`: the sidecar's loop is
`while (!stopping)` with a catch around the cycle, so one cycle step is weakly
fair; nobody else must act, neither the operator nor the person who registers a
price. Hence `EveryDueMonthCloses` excuses a month that waits for a price or is
reopened, or stands behind one that does. `price_sweep`: the same worker loop, so
its cycle is weakly fair, and `PricedIsStamped` is about prices that stay. The other
parts state no fairness: their questions are about what is answered, not whether.

## 5. Proofs

What a theorem states of every value of the constants, a run checks on a small
instance. The inductive invariants of the close, the readers and the read-models were
checked by TLC on such instances, too, before they were proved.

`Statement_proofs`, on the publish, proves for every number of closes, reopens, records and
pages, type correctness, all safety properties of its run and that the protocol
implements `MonthLedger`. The properties are not inductive: that a bill is whole
depends on what each attempt still holds in memory. The invariant adds that an
attempt's chosen version is at most one above the newest bill and above what it
saw (so a duplicate header means a concurrent close), that a header's attempt is
past its commit (so nobody stages or discards under it), that an attempt's rows lie
under its own key, and that while no header of its version exists its rows are
exactly what it folded and does not still hold (so a commit publishes a whole
bill). Each invariant conjunct is a lemma with one step per action.

`BillingClose_proofs` proves every safety property of `billing_close`, for any number of
traces, pages, closes, reopens, ingestions and sweeps. A bill that holds all its guard
saw rests on the pages read before: a call that reads has, of the pages behind it, all
that it was asked for and all that the newest bill charges, unless a newer bill makes
its version lose (`Reading`). A reconciliation works for a published version: pass 1
leaves what that bill charges alone, pass 2 touches nothing else (`Reconciling`). An
ingestion on its way to an unmarked insert decided before the close that closed the
month (`Ingesting`), which is why the late entries it can make are the ones
`LateIsFlagged` excepts. Closes, reconciliations, ingestions and sweeps overlap freely,
so the proof states once what each may count on of the others (`Later`: bills and
stamps stay, marks on what the newest bill charges come from older versions only) and
shows that every step keeps it. The only assumption is `MonthAssumption`.

`Serving_proofs`, on the bill list, proves `ListComplete` for any number of months. The lemma
`BoundKeepsOpenMonths` is the property the comment of `firstOpenMonthStart`
claims, proved from its code: an open month not older than the earliest trace is
not behind the bound. The invariant carries it across the awaits: what was there
when the call began is still there (traces are never deleted), is not in the
future, and is not older than the anchor read later; at the scan every such month
is either closed in the documents or at or after the bound. The only assumption is that there is at least one month.

`CloseScheduler_proofs` proves `OldestFirst`, `HoldIsRespected` and
`ImplementsCalendar` for any number of months, operators, reopens and failures.
`OldestFirst` says nothing about a call that is still in its guard; the invariant
adds that what such a call owes lies below its month, at or after its cursor, and
outside the list of closed months it read: so a cursor that neither blocks nor is
past the month has passed nothing owed. For the hold it adds that what a cycle
holds lies at or after the walk's month and is among the reopened keys, and that
the scheduler's call is for the month the walk stands at. For the calendar it adds
that a call in progress works on a month that is over. The assumptions are that
the start lies in the calendar and that the scheduler is not one of the operators.

`Serving_proofs`, on the other readers, proves `OneTotalPerMonth` for any number of
months, traces, versions and events meanwhile. The history of a query must hold
whatever may still be answered: for a month that will be shown by stamps its present
sum, for a month that will be shown by its bill the present bill, and nothing at all
for a month before the earliest trace there was when the anchor was read (`Followed`).
That a bill and the stamps agree needs `Balanced`: the bill of a closed month is what
it charges unmarked once its stragglers are absorbed, and until then lies between
that and the whole. `Undisturbed` says what the two reads of a summary have in common
when nothing happened in between. The assumption is `ReadersAssumption`.

`Archive_proofs`, on the read-models, proves `CubeExact`, `SummaryFresh` and
`RebuildLosesNoInsert` for any number of traces, agents, channels, sessions and
writers. The cube is the archive's own while no swap has dropped a write, and as long
as none has dropped an insert it counts at least every trace, even where a decrement
found nothing to take (`CubeInv`, of the copy a rebuild is about to swap in too); a
dropped insert has moved the archive past the count the job sampled (`JobInv`). A
merge whose read is out of date has someone behind it who reads, or has read, later
(`MergeInv`), so a session nobody is working on has its summary, unless an accident
put it in doubt. `MapThenSumSet` is a recursive function over subsets: its existence,
what moves a sum (`SumMoves`) and that a sum of counts per key counts what has one of
the keys (`SumOfCounts`) are proved by a smallest counterexample (`SmallestSet`), for
induction over data is out of reach. `ProjectionsAssumption` names what is used; that
agents and channels are finitely many is part of it, as a collection holds finitely
many values.

`Serving_proofs` proves `ConfirmedAsPreviewed` for any number of months, callers,
calls and terms. The invariant says that a token's etag is the row its preview
showed and that every admitted call carries a minted token binding its caller and
request. The two lemmas about fields are the point: the comparison before the read
leaves the etag open and nothing else, and a price's token, compared in full, has
none. That a preview finds no token outstanding is part of the model, not of the
code: each token is judged by itself, and no property relates two.

`Serving_proofs` proves `DoorHonest` for any number of keys, visits, requests and
any app configuration. What was served was entitled (`EntitledDeserves`, from the
tables of needs: a playbook needs at least what the tools it names need). What was
refused had cause: the invariant follows the keys a visit may count on from the
issuer into the answer of the fetch it waits for and into the set of its last
verification, and uses that claims only get older.

`Archive_proofs`, on the windowed sync, proves `WindowHonest` for any number of rows,
writes, windows and runs and any page, breaker and document size. That a row is final
when it is read rests on the quiet period alone: a row still growing was heard of
within it (`SourceInv`, what the source promises), and the query admits none heard of
since the ceiling (`SettledIsComplete`); the spans, read later and in one window for
the batch, are then all there (`AllSpansFetched`). That nothing is left out rests on
the pages: what a page does not hold is behind all of it, and then the page is full
(`PageOfFirst`), so at every step of a run an owed row is accounted for, in the page,
or beyond it (`RunInv`), and the cursor never passes a row that is beyond; a page
whose cursor cannot be read is a short one, because no trace came of it and the
breaker did not trip. Two things make it inductive: a trace in the archive is the
final one (`ArchiveInv`), so the second run's divergence check is silent, and a row
whose truncation is about to be recorded counts as accounted for. The assumption is
`WindowAssumption`; its last conjunct, that spans lie within the margin of their
trace, is what section 6 notes the code does not ensure.

`PriceSweep_proofs` proves `StampedAsOf`, `StampIsFinal` and the types, for any number
of traces, models, token types, versions and faults and any page, chunk and cap. A
stamp says nothing of the two steps before it, so the invariant adds what is in
flight: an answer of the cache that no registration tore was looked up in a registry
whose dates are the batch's cuts, at some date of its interval; a document on its way
to the insert is as honest as a stored one; and a sweep about to stamp holds the
prices of the model and date of the head of its page. `SamePrices` is the claim of the
cache's comment, that the traces of one interval get one answer: two dates with as
many cuts behind them have the same ones (a subset of equal cardinality). That a page
fits its cap needs that a finite set has a last element in keyset order
(`LastExists`). The assumption is `PriceAssumption`:
finite sets, dates that are positive numbers, positive limits.

`BatchSync_proofs` proves every safety property of the ingestion for any number of rows,
sessions, drainers, lanes, faults and any batch size. A watermark that moves rests on
a page read several awaits before, so the invariant follows it back: a drainer that is
about to store a watermark, and the stored one, have every visible row at or before it
landed, and no such row may still change (it was silent for the quiet period, which is
where `Lag + Gap <= Quiet` enters: the source can show or touch nothing so old, lemma
`CoveredLater`); a batch in its lanes has each of its traces landed, in a lane or
waiting for one, unless it broke, and a broken batch moves nothing; lanes share no
session with each other or with what waits; and nothing waits while no lane works, so
a batch that ends has finished its page. `PageHasNoGap` says that a page with a row has
every candidate before it, `SomeLaneStarts` that a refill never starves. `HeldLater` is
why drainers do not disturb each other: what one relies on survives time, the source
and a watermark moved by another. The assumptions are `BatchAssumption` (the rows of
the source are finitely many, limits positive) and `QuietAssumption`.

`Statement_proofs`, on the statement, proves `ClosedEqualsLive` for any set of usage
records, any number of folds, any order of feeding them and any unit, cent and whole.
Only the first part of it is about steps. What a fold has accumulated is a function
of the set of traces it has seen (`FoldInv`): the ledger has one line for every key
stamped, which sums the stamps of that key; the cache figures are sums over the traces,
the reads bucketed by each trace's own input price (`CacheOf`); the price versions are
those used, each once. The rest is about the operators, in this order.

1. Order. Two lists of the same elements sort to the same list if the comparator's
   terms tell the elements apart (`SameSorted`), and `CompareLines` tells keys apart
   (`CompareTotal`; without its price term it does not, which is the mutant). So folds
   that have seen the same traces finish to the same statement (`SameStatement`).
2. Cents and shares. The floors of n parts miss their sum by less than n units, and
   the largest remainder rounds up as many as are missing (`LargestCloses`). Hence the
   cents of the lines add up to the displayed total (`ReconcileCloses`) and the shares
   of anything that is not nothing to the whole (`SharesClose`).
3. Groups. The positions of a `Map` share out the list (`GroupedIs`), a sum may be
   taken part by part (`SumOfParts`) and in any order (`SumAlong`): every column of the
   summary, the cards and both exports closes (`StatementCloses`).
4. Bars. Parts rounded one by one miss the whole by half a unit each (`PartsTile`), so
   segments, cards and the chart tile within that and not exactly (`StatementDrawn`,
   `ChartIs`).
5. Two readings of a month. The bar of an open month is computed from the stamps
   (`RollupBar`), that of a closed one from the groups and lines of its snapshot
   (`SnapshotBar`); both are `BarOf` the traces.
6. Comparison. Its rows are keyed by the agents of both months, each agent under one
   key (`KeysSplit`), so its columns sum to the two totals and their difference; the
   displayed difference may miss that of the displayed totals by a cent (`DeltaNear`).

Sums are again handled by a smallest counterexample (`OneLess`, `OneMore`). The
assumptions are `FoldAssumption`, that the units are positive, and `UsageAssumption`,
that a record has natural numbers and at most one cost per token type, which is how
the stamper makes them.

`OrderLemmas` holds what several proofs need: that a set of naturals has a minimum (from
the library's well-founded induction theorems), what the earliest trace bounds,
that a finite set has a last element under a total order, and what the recursion of
`MapThenSumSet` computes, by smallest counterexamples.

Only model-checked: the liveness properties `EveryRowLands`, `EveryDueMonthCloses` and
`PricedIsStamped` (fairness and ENABLED are out of reach). Every safety property of
every passing run is proved.

## 6. What the runs found

Each refuted statement is quoted with its line in `PROJECT.json` under findings.

- A commit whose answer is lost makes the catch block delete the rows of a
  durable header (`lost_commit_answer`).
- An ingestion that decided before the close committed and inserts after the
  reconciliation's scan stays unmarked, and the closed month's chart no longer
  sums to its bill (`late_straggler`).
- A reconciliation still running after a reopen and a re-close marks what the newer
  version billed (`stale_reconcile`).
- A trace without measured usage is marked as a straggler by the first close and
  never absorbed (`unmeasured_flagged`).
- A month closed and reopened by hand while the scheduler's cycle is under way is
  not in the cycle's list of reopened months, and is closed again
  (`scheduler_recloses`). `HoldIsRespected` is what does hold: a hold the cycle saw.
- The guard around a rebuild reads the worker's watermark under `trace-cursor`, the
  connector stores it under `trace-sync`: only the trace count is watched
  (`rebuild_guard`). `RebuildLosesNoInsert` is what does hold; a dropped attribution
  goes unreported.

Observations without a run of their own, made while translating the code:

- `batch-price-cache.ts:47`: boundaries and prices of a model are read at two
  instants; a registration between them is cached under an interval that is no longer
  one, and a trace of it may be stamped with a version that begins after the trace.
  `PriceSweep` has both reads; `StampedAsOf` excepts such a stamp, marked `Torn`.
- `billing-lifecycle-tools.ts:343`: the etag is compared, then the use case runs; and
  it covers status, version and numbers, so close, reopen and close may bring back
  the row a token was minted for. `ConfirmedAsPreviewed` is stated at the instant of
  the look.
- `jwks-key-source.ts`: the cached set has no lifetime; a retired key is accepted
  until some token names an unknown one. `DoorHonest` does not forbid it.
- The summary (and the export's ETag) takes the snapshot version from the period read
  first and the statement from a later read, so a re-close between them mixes two.
- `monthlyRollup` aggregates twice; a month's split by model need not sum to its total.
- A trace stamped between the statement and `pendingPriceSummary` is in neither.
- From a publish to its reconciliation the days of a month do not sum to its bill.
- `export-statement-controller.ts:252`: a closed month's export is `immutable` for a
  day under a URL without the version: a re-close is not noticed by a browser.
- Facets ignore the list's quarantine filter (`buildCounterMatch`), against
  "each count is a what-if".
- A corrupt zero duration, with a span later than the margin, makes a batch's span
  window too short; a poison span among readable ones is salvaged around. Both
  undercount, and `WindowAssumption` excludes the first.
- `SERVER_INSTRUCTIONS` tells every MCP caller to begin with `get_overview`, which a
  caller of tracing only does not have.

## 7. Plan

Done, in this order: publish, close, ingestion, scheduler and list; the sweep, the
windowed sync, the read-models, the readers, the statement, the write tools and the
door; the proofs of publish, close, ingestion, windowed sync, scheduler, list, sweep,
readers, read-models, write tools, door and statement. Next: the migration runner.

## 8. Not modelled

The HTTP adapter, parameter and error translation, OpenAPI: stateless. Sorting, skip
paging and the query language of the lists, and the seconds-long cache of facet
answers (`TtlCache`): `CubeExact` is about the answer that is computed. Environment parsing, logging, heartbeat files,
backoff lengths: nothing the modelled state depends on. The calendar under daylight
saving: months are ordinals. The field-by-field mapping of a source row's content,
and signature and hash functions, taken as perfect. The refusal to re-close under
another `CLIENT_TIMEZONE`: a deployment has one zone. The storage-only snapshot
insert: used by tests and tooling. The migration runner: each migration is written to
be repeatable, and what it does is data. Deployment, images, scripts and the load
test: outside the program.
