----------------------------- MODULE WindowSync -----------------------------
(***************************************************************************)
(* The windowed sync (make sync -- --from --to): a backfill of the archive *)
(* read from the source in pages.  The source is still being written while *)
(* the run reads it: a row grows as its spans arrive, and a trace archived *)
(* half way would keep a partial stamp for ever.  A page is one query for  *)
(* its summary rows and a later one for their spans; each row is parsed,   *)
(* its usage rebuilt from its spans where the summary has none, refused    *)
(* where nothing can rebuild it, clipped to the document cap, and stored   *)
(* once.  A run may die anywhere and be run again.                         *)
(* Pricing and quarantine, which the ingestion of both syncs shares, are   *)
(* the subject of PriceSweep and BillingClose.                             *)
(***************************************************************************)
EXTENDS Integers, Sequences, FiniteSets, FiniteSetsExt

CONSTANTS
  NRows,       \* source rows 1..NRows, by TraceId
  StartOf,     \* OccurredAt of each row
  WritesOf,    \* what the source says of each row, write after write: shape,
               \* duration and token counts of its summary, and its spans
  BytesOf,     \* each trace's bytes: spans, content, errors and the rest
  Windows,     \* the windows an operator asks for
  NoModel,     \* a trace of several models, or of none
  Quiet,       \* quietPeriodMs
  Margin,      \* SPAN_WINDOW_MARGIN_MS
  PageSize,    \* WINDOW_PAGE_SIZE
  BreakerMin,  \* POISON_BREAKER_MIN_ROWS, ALL_FAILED_BREAKER_MIN_TRACES
  Cap,         \* MAX_TRACE_DOCUMENT_BYTES
  MaxTime,     \* bound: the source's clock
  MaxRuns      \* bound: runs

SourceRows == 1..NRows

\* A batch's window holds all the spans of its traces (spanWindowOf).
ASSUME WindowAssumption ==
  /\ {NRows, PageSize, BreakerMin, MaxTime, MaxRuns, Cap} \subseteq Nat \ {0}
  /\ Quiet \in Nat /\ Margin \in Nat
  /\ BreakerMin <= PageSize
  /\ StartOf \in [SourceRows -> 0..MaxTime]
  /\ \A window \in Windows : window.from \in Nat /\ window.to \in Nat
  /\ \A r \in SourceRows :
       /\ Len(WritesOf[r]) \in Nat \ {0}
       /\ \A n \in 1..Len(WritesOf[r]) :
            /\ WritesOf[r][n].lasts \in Nat
            /\ \A span \in WritesOf[r][n].spans :
                 span.at \in (StartOf[r] - Margin)..(StartOf[r] + WritesOf[r][n].lasts + Margin)

Types == {"input", "output"}

VARIABLES
  sourceTime,  \* the source's clock
  source,      \* per row: how many of its writes happened, and UpdatedAt
  archive,     \* traces, or Unarchived
  poison,      \* poison_rows
  parked,      \* ingest_failures
  run          \* the sync run

windowVars == <<sourceTime, source, archive, poison, parked, run>>

Unarchived == [stored |-> FALSE]

NoRun == [pc |-> "none"]

-----------------------------------------------------------------------------
(* From a raw row to a source trace. *)

Final(r) == Len(WritesOf[r])
Complete(r) == source[r].writes = Final(r)

\* declared: zero is a roll-up that has not happened, below it a corrupt count.
IsDeclared(count) == count > 0
Corrupt(summary) == {t \in Types : summary[t] < 0}

\* mapSpan: what a span measured, zero where it says nothing usable.
MapSpan(span) == [t \in Types |-> IF span[t] > 0 THEN span[t] ELSE 0]

SumSpanTokens(spans, t) == MapThenSumSet(LAMBDA span : MapSpan(span)[t], spans)

TokensFrom(summary, spans) ==
  [t \in Types |-> IF IsDeclared(summary[t]) THEN summary[t] ELSE SumSpanTokens(spans, t)]

\* The one model of the spans; several would be priced as the wrong one.
SingleModelOf(spans) ==
  LET models == {span.model : span \in spans} \ {NoModel}
  IN IF Cardinality(models) = 1 THEN CHOOSE m \in models : TRUE ELSE NoModel

MapSummaryTrace(x, spans) ==
  [row |-> x.row, corrupt |-> Corrupt(x.says), tokens |-> TokensFrom(x.says, spans),
   model |-> SingleModelOf(spans)]

SumTokens(tokens) == MapThenSumSet(LAMBDA t : tokens[t], Types)

\* The spans of a batch are read in one query over one window, from the
\* earliest of its starts to the latest of its ends.
InSpanWindow(batch, at) ==
  /\ \E x \in batch : StartOf[x.row] - Margin <= at
  /\ \E x \in batch : at <= StartOf[x.row] + x.says.lasts + Margin

\* tokenSalvageIsSafe: every corrupt count was rebuilt.
SalvageIsSafe(x) == \A t \in x.corrupt : x.tokens[t] > 0

\* truncateOversizedContent: spans go first, then the trace's own content,
\* then the spans' error messages, each only while the rest is too large.
Passes == <<{}, {"spans"}, {"spans", "content"}, {"spans", "content", "errors"}>>

SizeWithout(r, clipped) ==
  MapThenSumSet(LAMBDA part : BytesOf[r][part], {"spans", "content", "errors", "rest"} \ clipped)

Fits(r, clipped) == SizeWithout(r, clipped) <= Cap

Unstorable(r) == ~\E i \in DOMAIN Passes : Fits(r, Passes[i])

Clipped(r) == Passes[CHOOSE i \in DOMAIN Passes :
                       Fits(r, Passes[i]) /\ \A j \in 1..(i - 1) : ~Fits(r, Passes[j])]

\* mapToTrace: the document that is stored, and never measured again.
MapToTrace(x) ==
  [stored |-> TRUE, tokens |-> x.tokens, total |-> SumTokens(x.tokens), model |-> x.model,
   clipped |-> Clipped(x.row)]

\* A trace met again whose total differs kept growing after it was stored.
Diverges(x) == archive[x.row].stored /\ archive[x.row].total # SumTokens(x.tokens)

\* One record per kind and id, however often it is met.
Poisoned(kind, rows) == {kind} \X rows
Parked(kind, r) == parked \cup {<<kind, r>>}

-----------------------------------------------------------------------------
WindowInit ==
  /\ sourceTime = 0
  /\ source = [r \in SourceRows |-> [writes |-> 0, updatedAt |-> 0]]
  /\ archive = [r \in SourceRows |-> Unarchived]
  /\ poison = {}
  /\ parked = {}
  /\ run = NoRun

(* The source. A trace still being built is never silent for longer than   *)
(* the quiet period: what decision 61 takes for granted of LangWatch.      *)

SourceClockTicks ==
  /\ sourceTime < MaxTime
  /\ \A r \in SourceRows :
       0 < source[r].writes /\ ~Complete(r) => source[r].updatedAt + Quiet > sourceTime
  /\ sourceTime' = sourceTime + 1
  /\ UNCHANGED <<source, archive, poison, parked, run>>

SourceWrites(r) ==
  /\ ~Complete(r)
  /\ StartOf[r] <= sourceTime
  /\ source' = [source EXCEPT ![r] = [writes |-> @.writes + 1, updatedAt |-> sourceTime]]
  /\ UNCHANGED <<sourceTime, archive, poison, parked, run>>

-----------------------------------------------------------------------------
(* The run. *)

Runs == IF run = NoRun THEN 0 ELSE run.number
Finished == run.pc \in {"none", "done", "failed"}

\* Half-open on both axes: started inside the window, silent since the ceiling.
Eligible(r, from, to, ceiling) ==
  /\ source[r].writes > 0
  /\ StartOf[r] \in from..(to - 1)
  /\ source[r].updatedAt < ceiling

\* clampWindowToQuietPeriod: nothing is fetched of a window inside it.
StartSync(window) ==
  /\ Finished
  /\ Runs < MaxRuns
  /\ LET ceiling == sourceTime - Quiet
         to == IF window.to <= ceiling THEN window.to ELSE ceiling
         empty == window.to > ceiling /\ window.from >= ceiling
     IN run' = [number |-> Runs + 1, pc |-> IF empty THEN "done" ELSE "query",
                from |-> window.from, to |-> to, ceiling |-> ceiling,
                at |-> -1, id |-> 0, raw |-> {}, page |-> {},
                fetched |-> 0, failed |-> 0, truncated |-> 0,
                owed |-> {r \in SourceRows : ~empty /\ Eligible(r, window.from, to, ceiling)}]
  /\ UNCHANGED <<sourceTime, source, archive, poison, parked>>

Later(r, s) == StartOf[r] > StartOf[s] \/ (StartOf[r] = StartOf[s] /\ r > s)

\* WHERE (OccurredAt, TraceId) > (after...)
AfterCursor(r) == StartOf[r] > run.at \/ (StartOf[r] = run.at /\ r > run.id)

\* Faulty: the quiet period holds on OccurredAt only.
SettledByStart(r) == source[r].writes > 0 /\ StartOf[r] \in run.from..(run.to - 1)

InWindow(r) == Eligible(r, run.from, run.to, run.ceiling)

FirstRows(rows, n) == {r \in rows : Cardinality({s \in rows : Later(r, s)}) < n}

QueryPage ==
  /\ run.pc = "query"
  /\ LET page == FirstRows({r \in SourceRows : InWindow(r) /\ AfterCursor(r)}, PageSize)
     IN run' = IF page = {} THEN [run EXCEPT !.pc = "done"]
               ELSE [run EXCEPT !.pc = "spans",
                       !.raw = {[row |-> r, says |-> WritesOf[r][source[r].writes]] : r \in page}]
  /\ UNCHANGED <<sourceTime, source, archive, poison, parked>>

\* What the batch's rows and spans hold at the time of this query.
SpansFetched(batch, r) ==
  {span \in WritesOf[r][source[r].writes].spans : InSpanWindow(batch, span.at)}

Readable(spans) == {span \in spans : span.readable}

\* toSourceTraces: rows that do not parse, spans that do not, then the gate
\* on corrupt counts.
FetchSpans ==
  /\ run.pc = "spans"
  /\ LET parsed == {x \in run.raw : x.says.shape = "whole"}
         fetched(x) == SpansFetched(parsed, x.row)
         mapped == {MapSummaryTrace(x, Readable(fetched(x))) : x \in parsed}
         traces == {x \in mapped : SalvageIsSafe(x)}
         rows(xs) == {x.row : x \in xs}
     IN /\ poison' = poison
             \cup Poisoned("summary", rows(run.raw \ parsed) \cup rows(mapped \ traces))
             \cup Poisoned("summary_salvaged", rows({x \in traces : x.corrupt # {}}))
             \cup Poisoned("span", rows({x \in parsed : Readable(fetched(x)) # fetched(x)}))
        /\ run' = IF Cardinality(run.raw) >= BreakerMin /\ traces = {}
                  THEN [run EXCEPT !.pc = "failed"]
                  ELSE [run EXCEPT !.pc = "ingest", !.page = traces,
                                   !.fetched = Cardinality(traces), !.failed = 0]
  /\ UNCHANGED <<sourceTime, source, archive, parked>>

\* The page is worked through in the order of the query.
FirstOfPage == CHOOSE x \in run.page : \A y \in run.page : y = x \/ Later(y.row, x.row)

\* ingestSourceTrace and the sync loop's catch: stored once, dead-lettered
\* when it has no storable form (a store that refuses the trace is alike).
IngestTrace ==
  /\ run.pc = "ingest"
  /\ run.page # {}
  /\ LET x == FirstOfPage
         rest == [run EXCEPT !.page = @ \ {x}]
     IN IF Unstorable(x.row)
        THEN /\ parked' = Parked("oversized_unstorable", x.row)
             /\ run' = [rest EXCEPT !.failed = @ + 1]
             /\ UNCHANGED archive
        ELSE /\ archive' = IF archive[x.row].stored THEN archive
                           ELSE [archive EXCEPT ![x.row] = MapToTrace(x)]
             /\ run' = IF Clipped(x.row) = {} THEN rest
                       ELSE [rest EXCEPT !.pc = "truncation", !.truncated = x.row]
             /\ UNCHANGED parked
  /\ UNCHANGED <<sourceTime, source, poison>>

\* recordTruncation, after the store call and never before it.
RecordTruncation ==
  /\ run.pc = "truncation"
  /\ parked' = Parked("content_truncation", run.truncated)
  /\ run' = [run EXCEPT !.pc = "ingest", !.truncated = 0]
  /\ UNCHANGED <<sourceTime, source, archive, poison>>

\* windowCursorOf: the last row of the page whose instant can be read.
Dated(raw) == {x \in raw : x.says.shape # "undated"}

LastOf(raw) == CHOOSE x \in raw : \A y \in raw : y = x \/ Later(x.row, y.row)

EndPage ==
  /\ run.pc = "ingest"
  /\ run.page = {}
  /\ LET last == LastOf(Dated(run.raw)).row
         next == [run EXCEPT !.at = StartOf[last], !.id = last, !.pc = "query", !.raw = {}]
     IN run' = IF run.fetched >= BreakerMin /\ run.failed = run.fetched
               THEN [run EXCEPT !.pc = "failed"]
               ELSE IF Cardinality(run.raw) < PageSize \/ Dated(run.raw) = {}
               THEN [run EXCEPT !.pc = "done"]
               ELSE IF ~AfterCursor(last) THEN [run EXCEPT !.pc = "failed"]
               ELSE next
  /\ UNCHANGED <<sourceTime, source, archive, poison, parked>>

\* The process is killed, or isSystemicStoreError aborts the run.
SyncAborts ==
  /\ ~Finished
  /\ run' = [run EXCEPT !.pc = "failed"]
  /\ UNCHANGED <<sourceTime, source, archive, poison, parked>>

WindowNext ==
  \/ SourceClockTicks
  \/ \E r \in SourceRows : SourceWrites(r)
  \/ \E window \in Windows : StartSync(window)
  \/ QueryPage \/ FetchSpans \/ IngestTrace \/ RecordTruncation \/ EndPage \/ SyncAborts

WindowSpec == WindowInit /\ [][WindowNext]_windowVars

-----------------------------------------------------------------------------
\* What the source finally says of a trace: nothing arrives after it.
FinalTrace(r) ==
  LET last == WritesOf[r][Final(r)] IN MapSummaryTrace([row |-> r, says |-> last], Readable(last.spans))

(* "Ingesting it mid-flight freezes an undercharged stamp forever"         *)
(* (quiet-period.ts): whatever the run read while the source was growing,  *)
(* a trace in the archive carries its final usage and the model it is      *)
(* priced by, no later run finds it to have grown, and no count the source *)
(* corrupted is archived as zero. A run that ends without an error has     *)
(* accounted for every row that was ready when it began, whatever earlier  *)
(* runs left half done: archived, recorded as poison or dead-lettered, a   *)
(* salvage and a truncation with their record.                             *)
WindowHonest ==
  /\ \A r \in SourceRows : archive[r].stored =>
       /\ archive[r].tokens = FinalTrace(r).tokens /\ archive[r].model = FinalTrace(r).model
       /\ \A t \in FinalTrace(r).corrupt : archive[r].tokens[t] > 0
  /\ run.pc = "ingest" => \A x \in run.page : ~Diverges(x)
  /\ run.pc = "done" => \A r \in run.owed :
       IF archive[r].stored
       THEN /\ FinalTrace(r).corrupt # {} => <<"summary_salvaged", r>> \in poison
            /\ archive[r].clipped # {} => <<"content_truncation", r>> \in parked
       ELSE \/ <<"summary", r>> \in poison
            \/ <<"oversized_unstorable", r>> \in parked
=============================================================================
