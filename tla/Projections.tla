---------------------------- MODULE Projections ----------------------------
(***************************************************************************)
(* The two read-models derived from the trace archive, and the jobs that   *)
(* rebuild them.  The facet cube is kept by deltas, inside the transaction *)
(* of the trace write; the session summaries are recomputed from the       *)
(* traces after that transaction, outside it, and a recompute that fails is*)
(* swallowed.  A rebuild aggregates the archive and swaps the collection   *)
(* ($out) while the writers run; a guard around it samples the archive and *)
(* the ingestion watermark before and after.                               *)
(*                                                                         *)
(* A trace is its place in (startedAt, traceId) order; of its facet tuple  *)
(* two dimensions are kept, the agent, which an attribution may move, and  *)
(* the channel, which it does not.                                         *)
(***************************************************************************)
EXTENDS Integers, FiniteSetsExt, Functions

CONSTANTS
  NTraces,       \* traces 1..NTraces
  Agents,        \* facet values of the first dimension
  Channels, NoChannel,
  ChannelOf,     \* [1..NTraces -> Channels \cup {NoChannel}]
  Sessions, NoSession,
  SessionOf,     \* [1..NTraces -> Sessions \cup {NoSession}]
  Corrected,     \* traces an operator corrected by hand (attributionCorrectedAt)
  Unpriced,      \* traces whose model has no price yet when they arrive
  Writers,       \* worker, manual sync, sweep: anything that writes traces
  Horizon,       \* MAX_PAGINATION_SKIP
  ChainLimit,    \* SESSION_CHAIN_LIMIT
  MaxCount       \* bound: a tuple that drifts stops growing here

Traces == 1..NTraces

ASSUME ProjectionsAssumption ==
  /\ NTraces \in Nat /\ MaxCount \in Nat /\ Horizon \in Nat /\ ChainLimit \in Nat \ {0}
  /\ IsFiniteSet(Agents) /\ IsFiniteSet(Channels)
  /\ NoSession \notin Sessions \cup Agents /\ NoChannel \notin Channels
  /\ ChannelOf \in [Traces -> Channels \cup {NoChannel}]
  /\ SessionOf \in [Traces -> Sessions \cup {NoSession}]
  /\ Corrected \subseteq Traces /\ Unpriced \subseteq Traces

VARIABLES
  stored,     \* traces collection: agent and pricing status, or Absent
  cube,       \* trace_filter_counters: count per facet tuple
  summaries,  \* session_summaries
  touch,      \* each writer's recompute of the session it touched
  job,        \* the rebuild job that is running
  doubt,      \* history: sessions whose last recompute an accident spoiled
  drift       \* history: kinds of writes the last swap of the cube dropped

stores == <<stored, cube, summaries>>
projections == <<stores, touch, job, doubt, drift>>

Absent == [agent |-> NoSession, status |-> "absent"]
IsStored(t) == stored[t] # Absent

-----------------------------------------------------------------------------
(* The two derivations, each stated once in the code. *)

Tuples == Agents \X (Channels \cup {NoChannel})

CubeOf(docs) == [u \in Tuples |-> Cardinality({t \in Traces : <<docs[t].agent, ChannelOf[t]>> = u})]

Members(s) == {t \in Traces : IsStored(t) /\ SessionOf[t] = s}

NoSummary == [traceCount |-> 0, pendingPriceCount |-> 0, agent |-> NoSession]

\* The agent is the one of the earliest trace.
SummaryOf(s) ==
  IF Members(s) = {} THEN NoSummary
  ELSE [traceCount |-> Cardinality(Members(s)),
        pendingPriceCount |-> Cardinality({t \in Members(s) : stored[t].status = "pending_price"}),
        agent |-> stored[Min(Members(s))].agent]

-----------------------------------------------------------------------------
Idle == [pc |-> "idle", session |-> NoSession, seen |-> NoSummary,
         behind |-> {}, overtaken |-> FALSE]

NoJob == [pc |-> "idle", of |-> "cube", count |-> 0, moved |-> {},
          cube |-> [u \in Tuples |-> 0], summaries |-> [s \in Sessions |-> NoSummary],
          since |-> {}, wrote |-> {}, ok |-> FALSE]

\* The id of the sync_state document the connector advances, and of the one
\* whose advancedAt the guard reads.
WorkerKey == "trace-sync"
GuardKey == "trace-cursor"

Summaries == [traceCount : 0..NTraces, pendingPriceCount : 0..NTraces, agent : Agents \cup {NoSession}]

ProjectionsTypeOK ==
  /\ stored \in [Traces -> {Absent} \cup [agent : Agents, status : {"pending_price", "stamped"}]]
  /\ cube \in [Tuples -> Nat]
  /\ summaries \in [Sessions -> Summaries]
  /\ touch \in [Writers -> [pc : {"idle", "touch", "merge"}, session : Sessions \cup {NoSession},
                            seen : Summaries, behind : SUBSET Writers, overtaken : BOOLEAN]]
  /\ job \in [pc : {"idle", "sampled", "read", "swapped", "done"}, of : {"cube", "sessions"},
              count : 0..NTraces, moved : SUBSET {WorkerKey, GuardKey}, cube : [Tuples -> Nat],
              summaries : [Sessions -> Summaries], since : SUBSET Sessions,
              wrote : SUBSET {"insert", "attribution"}, ok : BOOLEAN]
  /\ doubt \in SUBSET Sessions
  /\ drift \in SUBSET {"insert", "attribution"}

ProjectionsInit ==
  /\ stored = [t \in Traces |-> Absent]
  /\ cube = [u \in Tuples |-> 0]
  /\ summaries = [s \in Sessions |-> NoSummary]
  /\ touch = [w \in Writers |-> Idle]
  /\ job = NoJob
  /\ doubt = {}
  /\ drift = {}

-----------------------------------------------------------------------------
(* Trace writes.  The document and its count commit together; what follows *)
(* is the recompute of the session the write touched.                      *)

Touching(s) == IF s = NoSession THEN Idle ELSE [Idle EXCEPT !.pc = "touch", !.session = s]

\* A cube write while the job sits between its aggregation and its swap.
Written(kind) ==
  IF job.pc = "read" /\ job.of = "cube" THEN [job EXCEPT !.wrote = @ \cup {kind}] ELSE job

Increment(u) == [cube EXCEPT ![u] = @ + 1]

\* Faulty: the decrement takes no look at the count.
DeltaUnguarded(u, v) == [cube EXCEPT ![u] = @ - 1, ![v] = @ + 1]

\* A drifted tuple is left at zero, never below.
Delta(u, v) == [cube EXCEPT ![u] = IF @ > 0 THEN @ - 1 ELSE @, ![v] = @ + 1]

ArrivalStatus(t) == IF t \in Unpriced THEN "pending_price" ELSE "stamped"

\* insertIfAbsent of a trace not stored yet; one that is, is skipped.
InsertTrace(w, t, a) ==
  /\ touch[w].pc = "idle"
  /\ ~IsStored(t)
  /\ cube[<<a, ChannelOf[t]>>] < MaxCount
  /\ stored' = [stored EXCEPT ![t] = [agent |-> a, status |-> ArrivalStatus(t)]]
  /\ cube' = Increment(<<a, ChannelOf[t]>>)
  /\ touch' = [touch EXCEPT ![w] = Touching(SessionOf[t])]
  /\ job' = Written("insert")
  /\ UNCHANGED <<summaries, doubt, drift>>

\* updateAttribution: a corrected trace is left alone; a source that says
\* what is stored writes nothing, and its session is recomputed all the same.
Attribute(w, t, a) ==
  /\ touch[w].pc = "idle"
  /\ IsStored(t) /\ t \notin Corrected
  /\ touch' = [touch EXCEPT ![w] = Touching(SessionOf[t])]
  /\ IF stored[t].agent = a
     THEN UNCHANGED <<stored, cube, job>>
     ELSE /\ cube[<<a, ChannelOf[t]>>] < MaxCount
          /\ stored' = [stored EXCEPT ![t].agent = a]
          /\ cube' = Delta(<<stored[t].agent, ChannelOf[t]>>, <<a, ChannelOf[t]>>)
          /\ job' = Written("attribution")
  /\ UNCHANGED <<summaries, doubt, drift>>

StampTrace(w, t) ==
  /\ touch[w].pc = "idle"
  /\ stored[t].status = "pending_price"
  /\ stored' = [stored EXCEPT ![t].status = "stamped"]
  /\ touch' = [touch EXCEPT ![w] = Touching(SessionOf[t])]
  /\ UNCHANGED <<cube, summaries, job, doubt, drift>>

\* The end of a batch moves the watermark, under a job that has sampled it.
AdvanceWatermark(w) ==
  /\ touch[w].pc = "idle"
  /\ job.pc \in {"sampled", "read", "swapped"}
  /\ job' = [job EXCEPT !.moved = @ \cup {WorkerKey}]
  /\ UNCHANGED <<stores, touch, doubt, drift>>

-----------------------------------------------------------------------------
(* recompute(): one $merge command, whose read and write are two instants. *)

Merging(s) == {w \in Writers : touch[w].pc = "merge" /\ touch[w].session = s}

\* Every merge under way has read before this one.
MergeRead(w) ==
  LET s == touch[w].session IN
  /\ touch[w].pc = "touch"
  /\ touch' = [v \in Writers |->
                 IF v = w THEN [touch[w] EXCEPT !.pc = "merge", !.seen = SummaryOf(s),
                                                !.behind = {}, !.overtaken = FALSE]
                 ELSE IF v \in Merging(s) THEN [touch[v] EXCEPT !.behind = @ \cup {w}]
                 ELSE touch[v]]
  /\ UNCHANGED <<stores, job, doubt, drift>>

\* Merges a later reader's write, or a lost touch, leaves behind the store.
Overtake(s, by) ==
  [v \in Writers |->
     IF v \in by THEN Idle
     ELSE IF v \in Merging(s)
       THEN [touch[v] EXCEPT !.overtaken = @ \/ touch[v].behind \cap by # {},
                             !.behind = @ \ by]
     ELSE touch[v]]

Since(s) == IF job.pc = "read" /\ job.of = "sessions" THEN [job EXCEPT !.since = @ \cup {s}] ELSE job

\* Faulty: the summary kept is the first one.
MergedOnce(w) == IF summaries[touch[w].session] = NoSummary THEN touch[w].seen
                 ELSE summaries[touch[w].session]

Merged(w) == touch[w].seen

\* The count of traces that follows finds one: traces are never deleted.
MergeWrite(w) ==
  LET s == touch[w].session IN
  /\ touch[w].pc = "merge"
  /\ summaries' = [summaries EXCEPT ![s] = Merged(w)]
  /\ doubt' = IF touch[w].overtaken THEN doubt \cup {s} ELSE doubt \ {s}
  /\ touch' = Overtake(s, {w})
  /\ job' = Since(s)
  /\ UNCHANGED <<stored, cube, drift>>

\* Two first touches race into E11000: one retry, which reads again.
MergeRaced(w) ==
  LET s == touch[w].session IN
  /\ touch[w].pc = "merge"
  /\ summaries[s] # NoSummary
  /\ \E v \in Writers \ {w} : w \in touch[v].behind \/ touch[w].overtaken
  /\ touch' = [touch EXCEPT ![w] = Touching(s)]
  /\ UNCHANGED <<stores, job, doubt, drift>>

\* The recompute throws and is swallowed, or the process dies after the commit.
TouchLost(w) ==
  LET s == touch[w].session IN
  /\ touch[w].pc # "idle"
  /\ doubt' = doubt \cup {s}
  /\ touch' = [v \in Writers |-> IF v = w THEN Idle
                                 ELSE IF v \in Merging(s) THEN [touch[v] EXCEPT !.overtaken = TRUE]
                                 ELSE touch[v]]
  /\ job' = Since(s)
  /\ UNCHANGED <<stores, drift>>

-----------------------------------------------------------------------------
(* The rebuild jobs, inside guardConcurrentRebuild. *)

StoredCount == Cardinality({t \in Traces : IsStored(t)})

Sample(kind) ==
  /\ job.pc = "idle"
  /\ job' = [NoJob EXCEPT !.pc = "sampled", !.of = kind, !.count = StoredCount]
  /\ UNCHANGED <<stores, touch, doubt, drift>>

Aggregate ==
  /\ job.pc = "sampled"
  /\ job' = IF job.of = "cube" THEN [job EXCEPT !.pc = "read", !.cube = CubeOf(stored)]
            ELSE [job EXCEPT !.pc = "read", !.summaries = [s \in Sessions |-> SummaryOf(s)]]
  /\ UNCHANGED <<stores, touch, doubt, drift>>

\* $out renames its temporary collection over the target: what was written
\* there since the aggregation's read is gone.
Swap ==
  /\ job.pc = "read"
  /\ job' = [job EXCEPT !.pc = "swapped", !.cube = NoJob.cube,
                        !.summaries = NoJob.summaries, !.since = {}]
  /\ IF job.of = "cube"
     THEN cube' = job.cube /\ drift' = job.wrote /\ UNCHANGED <<summaries, doubt>>
     ELSE summaries' = job.summaries /\ doubt' = job.since /\ UNCHANGED <<cube, drift>>
  /\ UNCHANGED <<stored, touch>>

\* Faulty: the second sample looks at the watermark only.
MarkUnmoved == GuardKey \notin job.moved

Unmoved == job.count = StoredCount /\ GuardKey \notin job.moved

\* The job reports success, or throws: re-run it with the worker stopped.
Verify ==
  /\ job.pc = "swapped"
  /\ job' = [NoJob EXCEPT !.pc = "done", !.of = job.of, !.wrote = job.wrote, !.ok = Unmoved]
  /\ UNCHANGED <<stores, touch, doubt, drift>>

JobDies ==
  /\ job.pc # "idle"
  /\ job' = NoJob
  /\ UNCHANGED <<stores, touch, doubt, drift>>

-----------------------------------------------------------------------------
ProjectionsNext ==
  \/ \E w \in Writers, t \in Traces :
       \/ \E a \in Agents : InsertTrace(w, t, a) \/ Attribute(w, t, a)
       \/ StampTrace(w, t)
  \/ \E w \in Writers : AdvanceWatermark(w) \/ MergeRead(w) \/ MergeWrite(w) \/ MergeRaced(w) \/ TouchLost(w)
  \/ \E kind \in {"cube", "sessions"} : Sample(kind)
  \/ Aggregate \/ Swap \/ Verify \/ JobDies

ProjectionsSpec == ProjectionsInit /\ [][ProjectionsNext]_projections

-----------------------------------------------------------------------------
(* What the API reads: facets from the cube, or from the traces when the   *)
(* filter is not a dimension of it; sessions from the summaries in a list, *)
(* from the traces in a detail.  A filter is OR within a field, AND across.*)

Everything == [agents |-> Agents, channels |-> Channels \cup {NoChannel}, search |-> {}]

\* One field of the filter bar set, or the search.
Filters ==
  {Everything} \cup {[Everything EXCEPT !.agents = {a}] : a \in Agents}
               \cup {[Everything EXCEPT !.channels = {c}] : c \in Channels}
               \cup {[Everything EXCEPT !.search = {<<"session", s>>}] : s \in Sessions}

Capped(n) == IF n > Horizon THEN Horizon ELSE n

\* The search is the id of a trace or of a session.
Matches(f, t) ==
  /\ IsStored(t)
  /\ stored[t].agent \in f.agents /\ ChannelOf[t] \in f.channels
  /\ f.search # {} => f.search \cap {<<"trace", t>>, <<"session", SessionOf[t]>>} # {}

FindTraces(f) ==
  LET found == {t \in Traces : Matches(f, t)}
  IN [items |-> {t \in found : Cardinality({u \in found : u > t}) < Horizon},
      total |-> Capped(Cardinality(found)), totalCapped |-> Cardinality(found) > Horizon]

\* The options of a dropdown: the values some trace has, nulls out.
Options(values, Count(_)) ==
  {[value |-> v, count |-> Count(v)] : v \in {u \in values : Count(u) > 0}}

FilterOptionsLive(f) ==
  LET Count(g) == Cardinality({t \in Traces : Matches(g, t)}) IN
  [agents |-> Options(Agents, LAMBDA a : Count([f EXCEPT !.agents = {a}])),
   channels |-> Options(Channels, LAMBDA c : Count([f EXCEPT !.channels = {c}]))]

\* Each dropdown honours every filter but its own (the quarantine filter of
\* the list, which no dropdown looks at, is left out of Filters).
FilterOptions(f) ==
  LET Sum(agents, channels) == MapThenSumSet(LAMBDA u : cube[u], agents \X channels) IN
  IF f.search # {} THEN FilterOptionsLive(f)
  ELSE [agents |-> Options(Agents, LAMBDA a : Sum({a}, f.channels)),
        channels |-> Options(Channels, LAMBDA c : Sum(f.agents, {c}))]

FindSessions(agents) ==
  {[id |-> s, summary |-> summaries[s]] :
     s \in {q \in Sessions : summaries[q] # NoSummary /\ summaries[q].agent \in agents}}

FindSessionFilterOptions ==
  Options(Agents, LAMBDA a : Cardinality({s \in Sessions : summaries[s].agent = a}))

\* The chain is cut, never silently.
FindSessionDetail(s) ==
  [summary |-> SummaryOf(s),
   chain |-> {t \in Members(s) : Cardinality({u \in Members(s) : u < t}) < ChainLimit},
   chainTruncated |-> Cardinality(Members(s)) > ChainLimit]

-----------------------------------------------------------------------------
(* "Each count is a what-if: traces matching that value combined with the  *)
(* other fields' active filters" (trace-query-repository.ts): picking an   *)
(* option lists as many traces as the dropdown said, up to the horizon, and*)
(* every listed trace's own values are among the options, whatever the     *)
(* writers interleave, unless the last rebuild swapped over a write. As    *)
(* long as no insert was among what a swap dropped, a drifted cube inflates*)
(* a facet but never loses a trace, and no tuple goes negative.            *)
CubeExact ==
  /\ drift = {} /\ StoredCount > 0 =>
       \A f \in Filters : \A options \in {FilterOptions(f)} :
         /\ \A o \in options.agents : Capped(o.count) = FindTraces([f EXCEPT !.agents = {o.value}]).total
         /\ \A o \in options.channels : Capped(o.count) = FindTraces([f EXCEPT !.channels = {o.value}]).total
         /\ {stored[t].agent : t \in FindTraces(f).items} \subseteq {o.value : o \in options.agents}
  /\ "insert" \notin drift /\ StoredCount > 0 =>
       (\A u \in Tuples : cube[u] >= 0) /\ MapThenSumSet(LAMBDA u : cube[u], Tuples) >= StoredCount

(* A session that no recompute is working on is listed as its detail page  *)
(* shows it, under the agent its chain starts with and no other, unless the*)
(* last recompute or rebuild met one of the accidents the repository names:*)
(* a swallowed failure or crash, a later reader that wrote first, a swap   *)
(* over a concurrent recompute. In particular the next touch heals them.   *)
SummaryFresh ==
  \A s \in Sessions \ doubt :
    (\A w \in Writers : touch[w].session # s) =>
      LET detail == FindSessionDetail(s) IN
      /\ {f.summary : f \in {g \in FindSessions(Agents) : g.id = s}} = {detail.summary} \ {NoSummary}
      /\ \A a \in Agents : (\E f \in FindSessions({a}) : f.id = s) <=>
                             detail.chain # {} /\ stored[Min(detail.chain)].agent = a

(* A rebuild of the cube that reports success has dropped no count of an   *)
(* inserted trace: the traces it saw are the traces there are.             *)
RebuildLosesNoInsert == job.pc = "done" /\ job.ok => "insert" \notin job.wrote

(* "It samples two independent 'did ingestion advance?' signals before and *)
(* after the rebuild, and if either moved it throws"                       *)
(* (guard-concurrent-rebuild.ts): a job that reports success ran while the *)
(* worker's watermark stood still.  It does not hold: the guard reads the  *)
(* watermark under an id nobody writes.                                    *)
BothSignalsWatched == job.pc = "swapped" /\ Unmoved => WorkerKey \notin job.moved
=============================================================================
