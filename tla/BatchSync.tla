------------------------------ MODULE BatchSync ------------------------------
(***************************************************************************)
(* The continuous ingestion of the trace source: SyncBatchesDbUseCase's    *)
(* batch (cursor, source clock, page, lanes, bookmark), runInLanes, the    *)
(* page and its cursor in ClickHouseLangwatchClient, and the three-step    *)
(* compare-and-set of MongoDbSyncStateRepository, run by several drainers  *)
(* at once (the worker and an orphaned container of an older deploy).      *)
(*                                                                         *)
(* The source is external: it gives every summary row the time of its last *)
(* update and shows the row at most Lag later; a trace that is still being *)
(* built is updated again within Gap.  Time is the source's clock.         *)
(***************************************************************************)
EXTENDS Integers, FiniteSets

CONSTANTS
  Rows,          \* summary rows; a number is a row's TraceId
  SessionOf,     \* the session of a row
  Poison,        \* rows the boundary rejects (validation, mapping, salvage)
  Broken,        \* those without a usable (updatedAtMs, traceId)
  Drainers,      \* processes that run syncNextBatch in a loop
  BatchSize,     \* TRACE_INGESTION_BATCH_SIZE
  Concurrency,   \* traces in flight per batch
  BreakerMin,    \* POISON_BREAKER_MIN_ROWS and ALL_FAILED_BREAKER_MIN_TRACES
  Quiet,         \* quietPeriodMs
  Lag, Gap,      \* the source's behaviour, see above
  LastWrite,     \* bound: no source update after this time
  MaxFaults      \* bound: failed inserts, store outages and crashes in a run

ASSUME BatchAssumption ==
  /\ Rows \subseteq Nat \ {0} /\ IsFiniteSet(Rows)
  /\ Broken \subseteq Poison /\ Poison \subseteq Rows
  /\ BatchSize \in Nat \ {0} /\ Concurrency \in Nat \ {0} /\ BreakerMin \in Nat \ {0}
  /\ Lag \in Nat /\ Gap \in Nat /\ Quiet \in Nat /\ LastWrite \in Nat /\ MaxFaults \in Nat

\* What decision 61 takes the quiet period for: a trace that was silent for
\* that long is complete, and visible.
ASSUME QuietAssumption == Lag + Gap <= Quiet

VARIABLES
  clock,         \* the source's clock
  written,       \* UpdatedAt of each visible row, 0 while the row is not there
  stored,        \* UpdatedAt of the content in the traces collection, 0 if none
  parked,        \* traces with an ingest_failures record
  poisonTrail,   \* rows with a poison_rows record
  cursor,        \* sync_state: the stored watermark
  drainer,       \* local state of every drainer
  faults         \* faults so far

vars == <<clock, written, stored, parked, poisonTrail, cursor, drainer, faults>>

-----------------------------------------------------------------------------
MaxClock == LastWrite + Quiet + 1

\* A row as a page carries it, and a watermark: UpdatedAt, then TraceId.
Entries == [at : 0..MaxClock, row : Rows \cup {0}]

\* No stored document, and the start of a fetch without a cursor.
NoCursor == [at |-> 0, row |-> 0]

Before(e, f) == e.at < f.at \/ (e.at = f.at /\ e.row < f.row)

AtOrBefore(e, f) == e = f \/ Before(e, f)

Least(S) == CHOOSE e \in S : \A f \in S : AtOrBefore(e, f)

Greatest(S) == CHOOSE e \in S : \A f \in S : AtOrBefore(f, e)

Idle == [pc |-> "idle", now |-> 0, read |-> NoCursor, next |-> NoCursor,
         traces |-> {}, todo |-> {}, running |-> {}, failed |-> 0, broke |-> FALSE]

Pcs == {"idle", "clock", "fetch", "lanes", "advance", "create", "retry", "settled"}

DrainerStates ==
  [pc : Pcs, now : 0..MaxClock, read : Entries, next : Entries,
   traces : SUBSET Entries, todo : SUBSET Entries, running : SUBSET SUBSET Entries,
   failed : Nat, broke : BOOLEAN]

Init ==
  /\ clock = 1
  /\ written = [r \in Rows |-> 0]
  /\ stored = [r \in Rows |-> 0]
  /\ parked = {}
  /\ poisonTrail = {}
  /\ cursor = NoCursor
  /\ drainer = [d \in Drainers |-> Idle]
  /\ faults = 0

-----------------------------------------------------------------------------
(* The source. *)

Tick ==
  /\ clock < MaxClock
  /\ clock' = clock + 1
  /\ UNCHANGED <<written, stored, parked, poisonTrail, cursor, drainer, faults>>

\* A row appears, or is updated again, at most Lag after its UpdatedAt.
SourceWrite(r) ==
  \E u \in 1..LastWrite :
    /\ u <= clock /\ clock <= u + Lag
    /\ written[r] = 0 \/ (written[r] < u /\ u <= written[r] + Gap)
    /\ written' = [written EXCEPT ![r] = u]
    /\ UNCHANGED <<clock, stored, parked, poisonTrail, cursor, drainer, faults>>

-----------------------------------------------------------------------------
(* One batch. *)

ReadCursor(d) ==
  /\ drainer[d].pc = "idle"
  /\ drainer' = [drainer EXCEPT ![d].pc = "clock", ![d].read = cursor]
  /\ UNCHANGED <<clock, written, stored, parked, poisonTrail, cursor, faults>>

\* Faulty: the worker's own clock, ahead of the source.
WorkerClock == clock + Quiet

NowOf == clock

\* sourceNow
ReadClock(d) ==
  /\ drainer[d].pc = "clock"
  /\ drainer' = [drainer EXCEPT ![d].pc = "fetch", ![d].now = NowOf]
  /\ UNCHANGED <<clock, written, stored, parked, poisonTrail, cursor, faults>>

\* Faulty: a row exactly at the ceiling is taken.
NotAfter(at, now) == at + Quiet <= now

\* UpdatedAt < now - quietPeriod
Silent(at, now) == at + Quiet < now

\* The rows strictly after the cursor, and the first BatchSize of them.
Candidates(s) ==
  {e \in {[at |-> written[r], row |-> r] : r \in {q \in Rows : written[q] # 0}} :
     Before(s.read, e) /\ Silent(e.at, s.now)}

FirstOf(S, n) == {e \in S : Cardinality({f \in S : Before(f, e)}) < n}

\* Faulty: only the last row of the page is looked at.
CursorOfLast(page) ==
  IF page = {} \/ Greatest(page).row \in Broken THEN NoCursor ELSE Greatest(page)

\* nextCursorOf: the last row that carries usable cursor fields.
CursorOf(page) ==
  LET usable == {e \in page : e.row \notin Broken} IN
  IF usable = {} THEN NoCursor ELSE Greatest(usable)

\* runInLanes: lanes of one session each, in the order of their first trace.
\* Faulty: every trace is a lane of its own.
TraceLane(e) == e.row

LaneKey(e) == SessionOf[e.row]

Lanes(S) == {{f \in S : LaneKey(f) = LaneKey(e)} : e \in S}

FirstLanes(S, n) ==
  {L \in Lanes(S) : Cardinality({M \in Lanes(S) : Before(Least(M), Least(L))}) < n}

\* Idle lane workers take the next lanes, up to Concurrency; after a failure
\* nothing new starts.
Refill(s) ==
  LET taken == FirstLanes(s.todo, Concurrency - Cardinality(s.running)) IN
  IF s.broke THEN s
  ELSE [s EXCEPT !.running = @ \cup taken, !.todo = @ \ UNION taken]

\* The trace a running lane has in flight is over: the lane goes on, or ends.
Advance(s, lane) ==
  LET rest == lane \ {Least(lane)} IN
  Refill([s EXCEPT !.running =
            (@ \ {lane}) \cup (IF rest = {} \/ s.broke THEN {} ELSE {rest})])

\* fetchBatch and toSourceTraces: poison rows are recorded and left out.  An
\* all-poison page, or a cursor that does not advance, aborts the batch.
Fetch(d) ==
  LET s == drainer[d]
      page == FirstOf(Candidates(s), BatchSize)
      poison == {e \in page : e.row \in Poison}
      next == CursorOf(page)
      refused == \/ Cardinality(page) >= BreakerMin /\ page = poison
                 \/ next # NoCursor /\ ~Before(s.read, next)
  IN
  /\ s.pc = "fetch"
  /\ poisonTrail' = poisonTrail \cup {e.row : e \in poison}
  /\ drainer' = [drainer EXCEPT ![d] =
       IF refused THEN Idle
       ELSE Refill([s EXCEPT !.pc = "lanes", !.next = next,
                             !.traces = page \ poison, !.todo = page \ poison])]
  /\ UNCHANGED <<clock, written, stored, parked, cursor, faults>>

\* insertIfAbsent: a stored trace keeps its content.
Ingest(d, lane) ==
  LET e == Least(lane) IN
  /\ drainer[d].pc = "lanes" /\ lane \in drainer[d].running
  /\ stored' = [stored EXCEPT ![e.row] = IF @ = 0 THEN e.at ELSE @]
  /\ drainer' = [drainer EXCEPT ![d] = Advance(@, lane)]
  /\ UNCHANGED <<clock, written, parked, poisonTrail, cursor, faults>>

\* A trace-shaped failure: dead-lettered, the batch goes on.
DeadLetter(d, lane) ==
  /\ drainer[d].pc = "lanes" /\ lane \in drainer[d].running
  /\ faults < MaxFaults
  /\ faults' = faults + 1
  /\ parked' = parked \cup {Least(lane).row}
  /\ drainer' = [drainer EXCEPT ![d] = Advance([drainer[d] EXCEPT !.failed = @ + 1], lane)]
  /\ UNCHANGED <<clock, written, stored, poisonTrail, cursor>>

\* A systemic failure, or a dead-letter write that fails: rethrown.
Systemic(d, lane) ==
  /\ drainer[d].pc = "lanes" /\ lane \in drainer[d].running
  /\ faults < MaxFaults
  /\ faults' = faults + 1
  /\ drainer' = [drainer EXCEPT ![d] = Advance([drainer[d] EXCEPT !.broke = TRUE], lane)]
  /\ UNCHANGED <<clock, written, stored, parked, poisonTrail, cursor>>

\* Faulty: a rethrown failure is swallowed by the lanes.
NeverAborts(s) == FALSE

\* The first failure rethrown by runInLanes, or assertNotAllFailed.
Aborts(s) ==
  \/ s.broke
  \/ Cardinality(s.traces) >= BreakerMin /\ s.failed = Cardinality(s.traces)

EndLanes(d) ==
  LET s == drainer[d] IN
  /\ s.pc = "lanes" /\ s.running = {}
  /\ drainer' = [drainer EXCEPT ![d] =
       IF Aborts(s) \/ s.next = NoCursor THEN Idle
       ELSE [Idle EXCEPT !.pc = "advance", !.next = s.next]]
  /\ UNCHANGED <<clock, written, stored, parked, poisonTrail, cursor, faults>>

-----------------------------------------------------------------------------
(* setTraceCursor: guarded update, create, guarded retry; three awaits. *)

\* Faulty: a blind upsert.
Blind(next) == cursor # NoCursor

NotAhead(next) == cursor # NoCursor /\ AtOrBefore(cursor, next)

\* Faulty: the loser of the creation race does not try again.
GiveUp(s) == [s EXCEPT !.pc = "settled"]

TryAgain(s) == [s EXCEPT !.pc = "retry"]

AdvanceCursor(d) ==
  LET s == drainer[d] IN
  /\ s.pc = "advance"
  /\ cursor' = IF NotAhead(s.next) THEN s.next ELSE cursor
  /\ drainer' = [drainer EXCEPT ![d].pc = IF NotAhead(s.next) THEN "settled" ELSE "create"]
  /\ UNCHANGED <<clock, written, stored, parked, poisonTrail, faults>>

CreateCursor(d) ==
  LET s == drainer[d] IN
  /\ s.pc = "create"
  /\ cursor' = IF cursor = NoCursor THEN s.next ELSE cursor
  /\ drainer' = [drainer EXCEPT ![d] =
       IF cursor = NoCursor THEN [s EXCEPT !.pc = "settled"] ELSE TryAgain(s)]
  /\ UNCHANGED <<clock, written, stored, parked, poisonTrail, faults>>

RetryCursor(d) ==
  LET s == drainer[d] IN
  /\ s.pc = "retry"
  /\ cursor' = IF NotAhead(s.next) THEN s.next ELSE cursor
  /\ drainer' = [drainer EXCEPT ![d].pc = "settled"]
  /\ UNCHANGED <<clock, written, stored, parked, poisonTrail, faults>>

\* The batch is reported; the worker's loop starts over.
Report(d) ==
  /\ drainer[d].pc = "settled"
  /\ drainer' = [drainer EXCEPT ![d] = Idle]
  /\ UNCHANGED <<clock, written, stored, parked, poisonTrail, cursor, faults>>

\* The process is killed, or a read or the bookmark write fails: the loop
\* starts over with nothing in memory.
Crash(d) ==
  /\ drainer[d].pc # "idle"
  /\ faults < MaxFaults
  /\ faults' = faults + 1
  /\ drainer' = [drainer EXCEPT ![d] = Idle]
  /\ UNCHANGED <<clock, written, stored, parked, poisonTrail, cursor>>

-----------------------------------------------------------------------------
Progress(d) ==
  \/ ReadCursor(d)
  \/ ReadClock(d)
  \/ Fetch(d)
  \/ \E lane \in drainer[d].running : Ingest(d, lane)
  \/ EndLanes(d)
  \/ AdvanceCursor(d)
  \/ CreateCursor(d)
  \/ RetryCursor(d)
  \/ Report(d)

Fault(d) ==
  \/ \E lane \in drainer[d].running : DeadLetter(d, lane) \/ Systemic(d, lane)
  \/ Crash(d)

Next ==
  \/ Tick
  \/ \E r \in Rows : SourceWrite(r)
  \/ \E d \in Drainers : Progress(d) \/ Fault(d)

Spec == Init /\ [][Next]_vars

\* runWorker never leaves its loop on an error, and its container is restarted;
\* the source's clock runs.
FairSpec ==
  /\ Spec
  /\ WF_vars(Tick)
  /\ \A d \in Drainers : WF_vars(Progress(d))

-----------------------------------------------------------------------------
(* Properties *)

TypeOK ==
  /\ clock \in 1..MaxClock
  /\ written \in [Rows -> 0..LastWrite]
  /\ stored \in [Rows -> 0..LastWrite]
  /\ parked \in SUBSET Rows
  /\ poisonTrail \in SUBSET Rows
  /\ cursor \in Entries
  /\ drainer \in [Drainers -> DrainerStates]
  /\ faults \in 0..MaxFaults

Landed(r) == stored[r] # 0 \/ r \in parked \/ r \in poisonTrail

\* No fetch ever looks behind the watermark, so every row at or before it is
\* in the archive or in one of the two recovery trails, whatever crashed,
\* failed or raced, and however late the source showed the row.
NothingBehindCursor ==
  \A r \in Rows :
    written[r] # 0 /\ AtOrBefore([at |-> written[r], row |-> r], cursor) => Landed(r)

\* What is stored is the source's final content: a trace stored while it was
\* still being built would freeze a partial, immutable stamp.
StoredIsFinal ==
  \A r \in Rows : stored[r] # 0 => stored[r] = written[r]

\* The watermark never moves backwards, whichever drainer writes it.
CursorNeverRegresses == [][AtOrBefore(cursor, cursor')]_vars

\* When setTraceCursor returns, the stored watermark is at or past the batch's
\* own cursor, even for the loser of the creation race.
BookmarkSettles ==
  \A d \in Drainers :
    drainer[d].pc = "settled" => AtOrBefore(drainer[d].next, cursor)

\* Two traces of one session are never in flight together in a batch, and
\* none starts before an earlier one of its session is over (decision 80's
\* summaries are recomputed outside the insert transaction).
SessionInOrder ==
  \A d \in Drainers :
    LET s == drainer[d]
        waiting == s.todo \cup UNION {lane \ {Least(lane)} : lane \in s.running}
        flying == {Least(lane) : lane \in s.running}
    IN \A e \in flying : \A f \in waiting \cup flying :
         SessionOf[f.row] = SessionOf[e.row] => AtOrBefore(e, f)

\* In the end every row the source showed is in the archive or in a recovery
\* trail: a broken row, a lost race or an aborted batch delays it, never loses it.
EveryRowLands == <>[](\A r \in Rows : written[r] # 0 => Landed(r))
=============================================================================
