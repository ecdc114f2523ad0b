----------------------------- MODULE PriceSweep -----------------------------
(***************************************************************************)
(* From a registered price to an immutable stamp.  The price registry with *)
(* its as-of lookup, ingestion's batch with BatchPriceCache, the refresh   *)
(* of a stored trace's attribution, and ReprocessPendingDbUseCase: the     *)
(* worker's paced chunks, the targeted run of a registration and the       *)
(* runbook's uncapped run, all over the traces collection at once.         *)
(*                                                                         *)
(* Dates are ordinals; a trace's month follows from its date.  A version's *)
(* amount is its identity: the registry holds one per model, token type    *)
(* and date.  BillingClose has the close itself; here a month just freezes.*)
(***************************************************************************)
EXTENDS Integers, FiniteSets, FiniteSetsExt

CONSTANTS
  Traces,        \* trace ids, compared as numbers
  DateOf,        \* startedAt
  UsedOf,        \* token types with a count above zero
  MonthOf,       \* billing month of a date
  CurrentMonth,  \* the month of the wall clock
  Models, TokenTypes,
  Says,          \* the models the source may first give a trace
  Corrections,   \* <<trace, old, new>>: how it may correct it later
  Seed,          \* versions registered before
  Computed,      \* those of Seed whose pricingType nothing here resolves
  OnSale,        \* versions an operator may register
  PageSize,      \* REPROCESS_PAGE_SIZE
  ChunkSize,     \* reprocessMaxTracesPerCycle
  TargetSize,    \* HTTP_REPROCESS_CAP
  MaxSlips       \* bound: failed stamps, failed chunks and restarts in a run

Runners == {"worker", "operator"}
NoModel == "no model"
NoVersion == [model |-> NoModel, type |-> "none", from |-> 0]
Dates == {DateOf[t] : t \in Traces}
Months == {MonthOf[d] : d \in Dates}
Refs == Models \cup {NoModel}
Versions == Seed \cup OnSale

ASSUME PriceAssumption ==
  /\ Traces \subseteq Nat \ {0} /\ IsFiniteSet(Traces)
  /\ DateOf \in [Traces -> Nat \ {0}]
  /\ UsedOf \in [Traces -> SUBSET TokenTypes]
  /\ NoModel \notin Models
  /\ Says \in [Traces -> SUBSET Refs]
  /\ Versions \subseteq [model : Models, type : TokenTypes, from : Nat \ {0}]
  /\ IsFiniteSet(Versions)
  /\ Computed \subseteq Seed
  /\ PageSize \in Nat \ {0} /\ ChunkSize \in Nat \ {0} /\ TargetSize \in Nat \ {0}
  /\ MaxSlips \in Nat

VARIABLES
  registry,    \* price_versions
  archive,     \* traces
  frozen,      \* billing_periods: the closed months
  source,      \* what the source says of each trace: its model, or "unseen"
  news,        \* traces of the source past the cursor
  batch,       \* the worker's batch in progress
  run,         \* sweeps in progress: the worker's chunk, an operator's run
  pace,        \* SweepState: the round's cursor, and is a new round due?
  slips        \* faults so far

vars == <<registry, archive, frozen, source, news, batch, run, pace, slips>>

-----------------------------------------------------------------------------
(* The registry. *)

Of(reg, m) == {v \in reg : v.model = m}

InEffect(reg, m, k, d) == {v \in Of(reg, m) : v.type = k /\ v.from <= d}

\* The latest version in effect; a latest one nothing resolves hides the
\* older ones.
EffectiveVersion(reg, m, k, d) ==
  LET inEffect == InEffect(reg, m, k, d)
      latest == CHOOSE v \in inEffect : \A w \in inEffect : w.from <= v.from
  IN IF inEffect = {} \/ latest \in Computed THEN NoVersion ELSE latest

\* findEffectivePrices; a trace without a model is not looked up.
EffectivePrices(reg, m, d) == [k \in TokenTypes |-> EffectiveVersion(reg, m, k, d)]

-----------------------------------------------------------------------------
(* The stamp. *)

NoStamp == [k \in TokenTypes |-> NoVersion]

\* findMissingPriceTokenTypes
Missing(t, prices) == {k \in UsedOf[t] : prices[k] = NoVersion}

\* stampTokens' arms; only a full stamp applies a price.
StampStatus(t, m, prices) ==
  CASE m # NoModel /\ UsedOf[t] = {} -> "no_measured_usage"
    [] Missing(t, prices) # {} -> "pending_price"
    [] OTHER -> "stamped"

\* asOf is history: what the registry held when the prices were looked up,
\* or "torn" if the batch's intervals were cut before that.
Stamp(t, m, prices, asOf) ==
  LET status == StampStatus(t, m, prices) IN
  [model |-> m, status |-> status,
   applied |-> IF status = "stamped" THEN [k \in TokenTypes |-> IF k \in UsedOf[t] THEN prices[k] ELSE NoVersion]
               ELSE NoStamp,
   asOf |-> IF status = "stamped" THEN asOf ELSE {}]

Absent == [model |-> NoModel, status |-> "absent", applied |-> NoStamp, asOf |-> {}]

Pending == {t \in Traces : archive[t].status = "pending_price"}

\* A stamp whose intervals and prices come from different registries.
Torn == {NoVersion}

-----------------------------------------------------------------------------
(* The worker's batch. *)

NoFlight == [step |-> "out", doc |-> Absent, quarantined |-> FALSE]
Unread == {0}        \* the cut dates of a model not asked for yet
NotAsked == [prices |-> NoStamp, asOf |-> Torn, asked |-> FALSE]

Intervals == Models \X (0..Cardinality(Versions))

NoBatch == [open |-> FALSE, models |-> [t \in Traces |-> NoModel], closed |-> {},
            cuts |-> [m \in Models |-> Unread],
            cache |-> [i \in Intervals |-> NotAsked],
            flight |-> [t \in Traces |-> NoFlight]]

Idle == [pc |-> "idle", closed |-> {}, only |-> Refs, cap |-> 0, examined |-> 0,
         after |-> 0, page |-> {}, short |-> FALSE, prices |-> NoStamp, asOf |-> {}]

Init ==
  /\ registry = Seed
  /\ archive = [t \in Traces |-> Absent]
  /\ frozen \in SUBSET (Months \ {CurrentMonth})
  /\ source = [t \in Traces |-> "unseen"]
  /\ news = {}
  /\ batch = NoBatch
  /\ run = [w \in Runners |-> Idle]
  /\ pace = [turn |-> "drain", cursor |-> 0, due |-> TRUE]
  /\ slips = 0

\* The source first shows a trace, or corrects its model.
SourceSays(t, m) ==
  /\ \/ source[t] = "unseen" /\ m \in Says[t]
     \/ <<t, source[t], m>> \in Corrections
  /\ source' = [source EXCEPT ![t] = m]
  /\ news' = news \cup {t}
  /\ UNCHANGED <<registry, archive, frozen, batch, run, pace, slips>>

\* fetchBatch and closedMonthKeys; a new BatchPriceCache.
StartBatch ==
  /\ pace.turn = "drain" /\ ~batch.open /\ news # {}
  /\ batch' = [NoBatch EXCEPT
       !.open = TRUE, !.closed = frozen,
       !.models = [t \in Traces |-> IF t \in news THEN source[t] ELSE NoModel],
       !.flight = [t \in Traces |-> IF t \in news THEN [NoFlight EXCEPT !.step = "price"] ELSE NoFlight]]
  /\ news' = {}
  /\ UNCHANGED <<registry, archive, frozen, source, run, pace, slips>>

InFlight(t, step) == batch.flight[t].step = step

\* boundariesOf: one listAllVersions of the model for the whole batch.
CutIntervals(m) ==
  /\ batch.open /\ batch.cuts[m] = Unread
  /\ \E t \in Traces : InFlight(t, "price") /\ batch.models[t] = m
  /\ batch' = [batch EXCEPT !.cuts[m] = {v.from : v \in Of(registry, m)}]
  /\ UNCHANGED <<registry, archive, frozen, source, news, run, pace, slips>>

\* Faulty: a date equal to a version's first day counts as before it.
IntervalBefore(cuts, d) == Cardinality({c \in cuts : c < d})

\* How many version dates are in effect at d.
IntervalOf(cuts, d) == Cardinality({c \in cuts : c <= d})

Slot(t) == <<batch.models[t], IntervalOf(batch.cuts[batch.models[t]], DateOf[t])>>

\* The first trace of an interval asks for all of them, with its own date.
AskPrices(t) ==
  LET m == batch.models[t] IN
  /\ InFlight(t, "price") /\ m # NoModel /\ batch.cuts[m] # Unread
  /\ ~batch.cache[Slot(t)].asked
  /\ batch' = [batch EXCEPT !.cache[Slot(t)] =
       [prices |-> EffectivePrices(registry, m, DateOf[t]), asked |-> TRUE,
        asOf |-> IF batch.cuts[m] = {v.from : v \in Of(registry, m)} THEN Of(registry, m) ELSE Torn]]
  /\ UNCHANGED <<registry, archive, frozen, source, news, run, pace, slips>>

\* Stamp, and the quarantine decision: the batch's set of closed months, and
\* for a past month it calls open a fresh look.
Decide(t) ==
  LET m == batch.models[t]
      found == IF m = NoModel THEN [prices |-> NoStamp, asked |-> TRUE, asOf |-> {}]
               ELSE batch.cache[Slot(t)]
      month == MonthOf[DateOf[t]]
  IN
  /\ InFlight(t, "price")
  /\ m # NoModel => batch.cuts[m] # Unread
  /\ found.asked
  /\ batch' = [batch EXCEPT !.flight[t] =
       [step |-> "insert", doc |-> Stamp(t, m, found.prices, found.asOf),
        quarantined |-> month \in batch.closed \/ (month # CurrentMonth /\ month \in frozen)]]
  /\ UNCHANGED <<registry, archive, frozen, source, news, run, pace, slips>>

\* insertIfAbsent; only a trace that was there already, outside a closed
\* month, has its attribution refreshed.
Insert(t) ==
  /\ InFlight(t, "insert")
  /\ archive' = IF archive[t] = Absent THEN [archive EXCEPT ![t] = batch.flight[t].doc] ELSE archive
  /\ batch' = [batch EXCEPT !.flight[t] =
       IF archive[t] = Absent \/ batch.flight[t].quarantined THEN NoFlight
       ELSE [NoFlight EXCEPT !.step = "refresh"]]
  /\ UNCHANGED <<registry, frozen, source, news, run, pace, slips>>

\* Faulty: the model follows the source whatever the stamp says.
FollowsSource(doc) == TRUE

\* A stamped trace keeps the model its price was resolved for.
ModelMayMove(doc) == doc.status # "stamped"

\* updateAttribution, one transaction.
Refresh(t) ==
  LET m == batch.models[t] IN
  /\ InFlight(t, "refresh")
  /\ archive' = IF m # NoModel /\ ModelMayMove(archive[t])
                THEN [archive EXCEPT ![t].model = m] ELSE archive
  /\ batch' = [batch EXCEPT !.flight[t] = NoFlight]
  /\ UNCHANGED <<registry, frozen, source, news, run, pace, slips>>

EndBatch ==
  /\ batch.open /\ \A t \in Traces : InFlight(t, "out")
  /\ batch' = NoBatch
  /\ UNCHANGED <<registry, archive, frozen, source, news, run, pace, slips>>

\* A batch that does not reach its bookmark is delivered again.
Undelivered == news \cup {t \in Traces : batch.flight[t].step # "out"}

\* A systemic error ends the drain, not the cycle.
BatchFails ==
  /\ batch.open /\ slips < MaxSlips
  /\ slips' = slips + 1
  /\ news' = Undelivered
  /\ batch' = NoBatch
  /\ pace' = [pace EXCEPT !.turn = "sweep"]
  /\ UNCHANGED <<registry, archive, frozen, source, run>>

\* Caught up: the cycle goes on to its sweep chunk.
DrainOver ==
  /\ pace.turn = "drain" /\ ~batch.open /\ news = {}
  /\ pace' = [pace EXCEPT !.turn = "sweep"]
  /\ UNCHANGED <<registry, archive, frozen, source, news, batch, run, slips>>

-----------------------------------------------------------------------------
(* reprocess() *)

\* The keyset order of findPendingPrice.
Precedes(t, u) == DateOf[t] < DateOf[u] \/ (DateOf[t] = DateOf[u] /\ t < u)

After(cursor, t) == cursor = 0 \/ Precedes(cursor, t)

FirstTraces(S, n) == {t \in S : Cardinality({u \in S : Precedes(u, t)}) < n}

Earliest(S) == CHOOSE t \in S : \A u \in S : t = u \/ Precedes(t, u)

Latest(S) == CHOOSE t \in S : \A u \in S : t = u \/ Precedes(u, t)

\* Faulty: the cap is looked at between pages only.
WholePage(s) == PageSize

PageLimit(s) == Min({PageSize, s.cap - s.examined})

Reprocess(closed, only, cap, after) ==
  [Idle EXCEPT !.pc = "page", !.closed = closed, !.only = only, !.cap = cap, !.after = after]

Paged(s) == {e.trace : e \in s.page}

\* One findPendingPrice: the model the prices will be resolved for is pinned.
ReadPage(w) ==
  LET s == run[w]
      size == PageLimit(s)
      found == FirstTraces({t \in Pending : archive[t].model \in s.only /\ After(s.after, t)}, size)
  IN
  /\ s.pc = "page"
  /\ run' = [run EXCEPT ![w] =
       IF found = {} THEN [s EXCEPT !.pc = "report", !.short = TRUE]
       ELSE [s EXCEPT !.pc = "trace", !.after = Latest(found), !.short = Cardinality(found) < size,
                      !.examined = @ + Cardinality(found),
                      !.page = {[trace |-> t, model |-> archive[t].model] : t \in found}]]
  /\ UNCHANGED <<registry, archive, frozen, source, news, batch, pace, slips>>

Head(s) == CHOOSE e \in s.page : e.trace = Earliest(Paged(s))

\* The head of the page is settled: the next one, the next page, or the end.
Settle(s) ==
  LET rest == s.page \ {Head(s)} IN
  [s EXCEPT !.page = rest, !.prices = NoStamp, !.asOf = {},
            !.pc = IF rest # {} THEN "trace"
                   ELSE IF s.short \/ s.examined >= s.cap THEN "report" ELSE "page"]

\* A closed month's trace is walked past; so is one that stays pending.
LookUp(w) ==
  LET s == run[w]
      e == Head(s)
      prices == IF e.model = NoModel THEN NoStamp ELSE EffectivePrices(registry, e.model, DateOf[e.trace])
  IN
  /\ s.pc = "trace"
  /\ run' = [run EXCEPT ![w] =
       IF MonthOf[DateOf[e.trace]] \in s.closed \/ StampStatus(e.trace, e.model, prices) # "stamped"
       THEN Settle(s) ELSE [s EXCEPT !.pc = "stamp", !.prices = prices, !.asOf = Of(registry, e.model)]]
  /\ UNCHANGED <<registry, archive, frozen, source, news, batch, pace, slips>>

\* Faulty: the filter does not pin the model.
StillPending(e) == archive[e.trace].status = "pending_price"

\* The filter of stampPendingTrace.
Matches(e) == archive[e.trace].status = "pending_price" /\ archive[e.trace].model = e.model

StampPending(w) ==
  LET s == run[w]
      e == Head(s)
  IN
  /\ s.pc = "stamp"
  /\ archive' = IF Matches(e)
       THEN [archive EXCEPT ![e.trace] = [Stamp(e.trace, e.model, s.prices, s.asOf) EXCEPT !.model = archive[e.trace].model]]
       ELSE archive
  /\ run' = [run EXCEPT ![w] = Settle(s)]
  /\ UNCHANGED <<registry, frozen, source, news, batch, pace, slips>>

\* One throwing trace is counted as failed and walked past.
TraceFails(w) ==
  /\ run[w].pc \in {"trace", "stamp"} /\ slips < MaxSlips
  /\ slips' = slips + 1
  /\ run' = [run EXCEPT ![w] = Settle(@)]
  /\ UNCHANGED <<registry, archive, frozen, source, news, batch, pace>>

-----------------------------------------------------------------------------
(* Who runs it. *)

\* runSweepCycle, once a cycle: a round in progress goes on where its last
\* chunk stopped, a new one starts when the interval is over.
StartChunk ==
  /\ pace.turn = "sweep" /\ run["worker"].pc = "idle"
  /\ IF pace.cursor # 0 \/ pace.due
     THEN /\ run' = [run EXCEPT !["worker"] = Reprocess(frozen, Models, ChunkSize, pace.cursor)]
          /\ UNCHANGED pace
     ELSE /\ pace' = [pace EXCEPT !.turn = "drain"]
          /\ UNCHANGED run
  /\ UNCHANGED <<registry, archive, frozen, source, news, batch, slips>>

IntervalElapses ==
  /\ ~pace.due
  /\ pace' = [pace EXCEPT !.due = TRUE]
  /\ UNCHANGED <<registry, archive, frozen, source, news, batch, run, slips>>

\* Faulty: every chunk starts from the head of the queue.
FromTheHead(s) == [turn |-> "drain", cursor |-> 0, due |-> FALSE]

\* afterSweepChunk: a capped chunk hands back where it stopped.
AfterChunk(s) ==
  IF s.short THEN [turn |-> "drain", cursor |-> 0, due |-> FALSE]
  ELSE [pace EXCEPT !.turn = "drain", !.cursor = s.after]

ChunkOver ==
  /\ run["worker"].pc = "report"
  /\ pace' = AfterChunk(run["worker"])
  /\ run' = [run EXCEPT !["worker"] = Idle]
  /\ UNCHANGED <<registry, archive, frozen, source, news, batch, slips>>

\* A page read or the closing count fails: the same chunk next cycle.
ChunkFails ==
  /\ run["worker"].pc \in {"page", "report"} /\ slips < MaxSlips
  /\ slips' = slips + 1
  /\ run' = [run EXCEPT !["worker"] = Idle]
  /\ pace' = [pace EXCEPT !.turn = "drain"]
  /\ UNCHANGED <<registry, archive, frozen, source, news, batch>>

\* The worker restarts, mid-batch or mid-chunk; its cursor was in memory.
Restart ==
  /\ slips < MaxSlips
  /\ batch.open \/ run["worker"].pc # "idle"
  /\ slips' = slips + 1
  /\ news' = Undelivered
  /\ batch' = NoBatch
  /\ run' = [run EXCEPT !["worker"] = Idle]
  /\ pace' = [turn |-> "drain", cursor |-> 0, due |-> TRUE]
  /\ UNCHANGED <<registry, archive, frozen, source>>

\* insertVersion (a duplicate is refused and changes nothing), then a capped
\* run over the model's own traces.
Register(v) ==
  /\ v \in OnSale \ registry
  /\ run["operator"].pc = "idle"
  /\ registry' = registry \cup {v}
  /\ run' = [run EXCEPT !["operator"] = Reprocess(frozen, {v.model}, TargetSize, 0)]
  /\ UNCHANGED <<archive, frozen, source, news, batch, pace, slips>>

\* npm run reprocess: everything, uncapped.
RunbookSweep ==
  /\ run["operator"].pc = "idle" /\ Pending # {}
  /\ run' = [run EXCEPT !["operator"] = Reprocess(frozen, Refs, Cardinality(Traces) + 1, 0)]
  /\ UNCHANGED <<registry, archive, frozen, source, news, batch, pace, slips>>

OperatorDone ==
  /\ run["operator"].pc = "report"
  /\ run' = [run EXCEPT !["operator"] = Idle]
  /\ UNCHANGED <<registry, archive, frozen, source, news, batch, pace, slips>>

\* The close's pending guard: no trace of the month awaits a price.
Freeze(m) ==
  /\ m \in Months \ (frozen \cup {CurrentMonth})
  /\ \A t \in Pending : MonthOf[DateOf[t]] # m
  /\ frozen' = frozen \cup {m}
  /\ UNCHANGED <<registry, archive, source, news, batch, run, pace, slips>>

Unfreeze(m) ==
  /\ m \in frozen
  /\ frozen' = frozen \ {m}
  /\ UNCHANGED <<registry, archive, source, news, batch, run, pace, slips>>

-----------------------------------------------------------------------------
Sweep(w) == ReadPage(w) \/ LookUp(w) \/ StampPending(w)

Ingest ==
  \/ StartBatch
  \/ \E m \in Models : CutIntervals(m)
  \/ \E t \in Traces : AskPrices(t) \/ Decide(t) \/ Insert(t) \/ Refresh(t)
  \/ EndBatch \/ DrainOver

WorkerCycle == Sweep("worker") \/ StartChunk \/ ChunkOver \/ Ingest

Next ==
  \/ \E t \in Traces, m \in Refs : SourceSays(t, m)
  \/ WorkerCycle
  \/ IntervalElapses
  \/ BatchFails \/ ChunkFails \/ Restart
  \/ \E w \in Runners : TraceFails(w)
  \/ \E v \in OnSale : Register(v)
  \/ Sweep("operator") \/ RunbookSweep \/ OperatorDone
  \/ \E m \in Months : Freeze(m) \/ Unfreeze(m)

Spec == Init /\ [][Next]_vars

\* The worker's loop has no exit but a signal, and time passes.
Fairness ==
  /\ WF_vars(WorkerCycle)
  /\ WF_vars(IntervalElapses)

FairSpec == Spec /\ Fairness

-----------------------------------------------------------------------------
(* Properties *)

RunStates ==
  [pc : {"idle", "page", "trace", "stamp", "report"}, closed : SUBSET Months, only : SUBSET Refs,
   cap : Nat, examined : Nat, after : Traces \cup {0}, page : SUBSET [trace : Traces, model : Refs],
   short : BOOLEAN, prices : [TokenTypes -> Versions \cup {NoVersion}], asOf : SUBSET Versions]

Docs == [model : Refs, status : {"absent", "pending_price", "stamped", "no_measured_usage"},
         applied : [TokenTypes -> Versions \cup {NoVersion}], asOf : SUBSET (Versions \cup {NoVersion})]

Asked == [prices : [TokenTypes -> Versions \cup {NoVersion}], asOf : SUBSET (Versions \cup {NoVersion}),
          asked : BOOLEAN]

Flights == [step : {"out", "price", "insert", "refresh"}, doc : Docs, quarantined : BOOLEAN]

BatchStates ==
  [open : BOOLEAN, models : [Traces -> Refs], closed : SUBSET Months, cuts : [Models -> SUBSET Nat],
   cache : [Intervals -> Asked], flight : [Traces -> Flights]]

TypeOK ==
  /\ registry \in SUBSET Versions
  /\ archive \in [Traces -> Docs]
  /\ frozen \in SUBSET Months
  /\ source \in [Traces -> Refs \cup {"unseen"}]
  /\ news \in SUBSET Traces
  /\ batch \in BatchStates
  /\ run \in [Runners -> RunStates]
  /\ pace \in [turn : {"drain", "sweep"}, cursor : Traces \cup {0}, due : BOOLEAN]
  /\ slips \in 0..MaxSlips
  /\ \A w \in Runners : run[w].examined <= run[w].cap

\* A stamp holds, for every token type the trace used and for no other, the
\* version of the STORED model in effect on the trace's date, as the registry
\* stood when the prices were looked up: whatever model the trace had before,
\* and whichever trace of the batch asked first.  (A registration between the
\* cache's two reads tears the batch's prices: asOf is then Torn, and the
\* stamp may even apply a version that begins after the trace.)
StampedAsOf ==
  \A t \in Traces :
    archive[t].status = "stamped" /\ archive[t].asOf # Torn =>
      \A k \in TokenTypes :
        LET v == archive[t].applied[k] IN
        IF k \notin UsedOf[t] THEN v = NoVersion
        ELSE /\ v \in archive[t].asOf \ Computed
             /\ v.model = archive[t].model /\ v.type = k /\ v.from <= DateOf[t]
             /\ \A w \in archive[t].asOf :
                  w.type = k /\ w.model = v.model => w.from <= v.from \/ w.from > DateOf[t]

\* A stamped trace is never stamped again, and never moves to a model whose
\* price it did not pay, in open months and in frozen ones.
StampIsFinal ==
  [][\A t \in Traces : archive[t].status = "stamped" => archive'[t] = archive[t]]_vars

\* Could be stamped now.
Stampable(t) ==
  /\ t \in Pending
  /\ archive[t].model # NoModel
  /\ MonthOf[DateOf[t]] \notin frozen
  /\ Missing(t, EffectivePrices(registry, archive[t].model, DateOf[t])) = {}

\* Every trace a price has been found for is stamped in the end, however many
\* blocked or unpriced traces sit before it in the queue, and whatever chunk
\* failed or restart forgot the cursor.
PricedIsStamped == []<>(\A t \in Traces : ~Stampable(t))
=============================================================================
