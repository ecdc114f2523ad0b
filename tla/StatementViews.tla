--------------------------- MODULE StatementViews ---------------------------
(***************************************************************************)
(* What the API answers of a month's money: the summary's cards, donuts,   *)
(* cache panel and comparison, its exports, and the chart of the months.   *)
(* They are derived from a statement (StatementFold), or for the bar of an *)
(* open month straight from the stamps, and money is split and rounded     *)
(* again at each turn.  Geometry is in basis points of its track; the float*)
(* division the view rounds is taken as exact.                             *)
(***************************************************************************)
EXTENDS StatementFold, FiniteSetsExt

AgentsOf(s) == [i \in DOMAIN s |-> s[i].agent]

PartOf(cost, whole) == IF whole > 0 THEN HalfUp(cost * FullBp, whole) ELSE 0

\* The segments of a bar over a track, one for every type that cost anything.
ToSegments(byType, track) ==
  LET kinds == Kept(TokenTypes, {i \in DOMAIN TokenTypes : /\ TokenTypes[i] \in DOMAIN byType
                                                           /\ byType[TokenTypes[i]] > 0})
  IN [i \in DOMAIN kinds |-> PartOf(byType[kinds[i]], track)]

-----------------------------------------------------------------------------
(* toBillingSummaryView. *)

\* The most expensive agent spans the track; under the card, the agent's own
\* lines.
AgentGroupView(s, g) ==
  LET widest == s.agents[1].cost
  IN [cents |-> g.cents, tokens |-> g.tokens,
      bar |-> PartOf(g.cost, widest), segments |-> ToSegments(g.byType, widest),
      lines |-> LinesOf(s.lines, g)]

AgentGroupViews(s) == [i \in DOMAIN s.agents |-> AgentGroupView(s, s.agents[i])]

\* Versions of one agent merged into a donut slice, largest first.
AgentMixView(agents) ==
  LET owned == Grouped(AgentsOf(agents))
      slices == AsTuple([g \in DOMAIN owned |->
        [agent |-> agents[CHOOSE i \in owned[g] : TRUE].agent,
         cents |-> SumFunctionOnSet(CentsOf(agents), owned[g]),
         cost |-> SumFunctionOnSet(CostOf(agents), owned[g]),
         bp |-> SumFunctionOnSet(BpOf(agents), owned[g])]])
  IN SortedBy(slices, [g \in DOMAIN slices |-> <<-slices[g].cost>>])

\* A donut: each slice starts where the one before it ends.
Slices(bps) ==
  LET until == [i \in DOMAIN bps |-> SumFunctionOnSet(bps, 1..i)]
  IN [i \in DOMAIN bps |-> [start |-> until[i] - bps[i], end |-> until[i]]]

ModelMixCents(mix) == ReconcileDisplayCents(CostOf(mix))

\* The cents of one agent's models are those of the lines already on screen.
AgentModelDisplayCents(lines, m) ==
  [i \in DOMAIN m.models |->
     SumFunctionOnSet(CentsOf(lines), {j \in Holding(AgentKeysOf(lines), <<m.agent, m.version>>) :
                                         lines[j].model = m.models[i].model})]

CacheSavingsView(cache) ==
  LET actual == HalfUp(cache.readCost, PerCent)
      asInput == HalfUp(cache.asInput, PerCent)
      write == HalfUp(cache.writeCost, PerCent)
  IN [actual |-> actual, asInput |-> asInput, write |-> write,
      savings |-> asInput - actual, net |-> asInput - actual - write]

-----------------------------------------------------------------------------
(* comparison(): a month beside the one before it. *)

NoComparison == [byAgent |-> <<>>, delta |-> 0]

\* One row per agent of either month, in the order the two lists name them.
Comparison(now, before) ==
  LET keys == AgentKeysOf(now.agents) \o AgentKeysOf(before.agents)
      owned == Grouped(keys)
      costIn(s, k) == SumFunctionOnSet(CostOf(s.agents), Holding(AgentKeysOf(s.agents), k))
      rows == AsTuple([i \in DOMAIN owned |->
                 LET k == keys[CHOOSE j \in owned[i] : TRUE] IN
                 [key |-> k, cost |-> costIn(now, k), previous |-> costIn(before, k),
                  delta |-> costIn(now, k) - costIn(before, k)]])
  IN IF now.count = 0 /\ before.count = 0 THEN NoComparison
     ELSE [byAgent |-> SortedBy(rows, [i \in DOMAIN rows |-> <<-rows[i].cost>>]),
           delta |-> now.total - before.total]

\* The sign is that of the exact amount; only the size is rounded.
DeltaView(delta) ==
  LET size == HalfUp(IF delta < 0 THEN -delta ELSE delta, PerCent)
  IN [direction |-> IF delta > 0 THEN "up" ELSE IF delta < 0 THEN "down" ELSE "flat",
      cents |-> IF delta < 0 THEN -size ELSE size]

ComparisonView(c) ==
  [total |-> DeltaView(c.delta),
   byAgent |-> [i \in DOMAIN c.byAgent |-> DeltaView(c.byAgent[i].delta)]]

-----------------------------------------------------------------------------
(* The series: a closed month from its snapshot, an open one from the      *)
(* stamps; as functions of agent, model and type, orders aside.            *)

\* The agents of the snapshot are per version: their costs by type are added up.
FromSnapshotOf(s) ==
  LET byTypeOf(g, t) == IF t \in DOMAIN s.agents[g].byType THEN s.agents[g].byType[t] ELSE 0
      merged(own) ==
        [cost |-> SumFunctionOnSet(CostOf(s.agents), own),
         byType |-> [t \in UNION {DOMAIN s.agents[g].byType : g \in own} |->
                       SumFunctionOnSet([g \in own |-> byTypeOf(g, t)], own)]]
  IN [total |-> s.total,
      byType |-> CostByType(s.lines, DOMAIN s.lines),
      byAgent |-> [a \in Range(AgentsOf(s.agents)) |-> merged(Holding(AgentsOf(s.agents), a))],
      byModel |-> [m \in Range(ModelsOf(s.mix)) |->
        [cost |-> SumFunctionOnSet(CostOf(s.mix), Holding(ModelsOf(s.mix), m)),
         byType |-> CostByType(s.lines, Holding(ModelsOf(s.lines), m))]]]

\* The stamped costs of the traces of a month, unwound.
Unwound(traces) ==
  [s \in UNION {{x} \X DOMAIN UsageOf[x].costs : x \in traces} |-> StampedLines(UsageOf[s[1]])[s[2]]]

\* One aggregation by agent and type, another by model and type; the total
\* and the split of the month are assembled from the first.
RollupOf(traces) ==
  LET stamps == Unwound(traces)
      cells(keys) == [k \in Range(keys) |->
                        [cost |-> SumFunctionOnSet(CostOf(stamps), Holding(keys, k)),
                         byType |-> CostByType(stamps, Holding(keys, k))]]
      byAgent == cells(AgentsOf(stamps))
      ofType(t) == [a \in {b \in DOMAIN byAgent : t \in DOMAIN byAgent[b].byType} |->
                      byAgent[a].byType[t]]
  IN [total |-> Total(CostOf(byAgent)),
      byType |-> [t \in UNION {DOMAIN byAgent[a].byType : a \in DOMAIN byAgent} |-> Total(ofType(t))],
      byAgent |-> byAgent,
      byModel |-> cells(ModelsOf(stamps))]

NoBar == [cost |-> 0, byType |-> [t \in {} |-> 0]]

\* Every series over one scale: the tallest month of the answer.
SeriesView(months) ==
  LET tallest == Max({0} \cup {months[i].total : i \in DOMAIN months})
      point(x) == [height |-> PartOf(x.cost, tallest), segments |-> ToSegments(x.byType, x.cost)]
      entry(f, k) == IF k \in DOMAIN f THEN f[k] ELSE NoBar
      agents == UNION {DOMAIN months[i].byAgent : i \in DOMAIN months}
      models == UNION {DOMAIN months[i].byModel : i \in DOMAIN months}
  IN [total |-> [i \in DOMAIN months |-> point([cost |-> months[i].total, byType |-> months[i].byType])],
      agents |-> [a \in agents |-> [i \in DOMAIN months |-> point(entry(months[i].byAgent, a))]],
      models |-> [x \in models |-> [i \in DOMAIN months |-> point(entry(months[i].byModel, x))]]]

-----------------------------------------------------------------------------
(* The answer of the summary, and its exports. *)

SummaryView(s) ==
  [totalCents |-> s.totalCents, tokens |-> s.tokens, lines |-> s.lines,
   agents |-> AgentGroupViews(s), agentMix |-> AgentMixView(s.agents),
   modelMix |-> ModelMixCents(s.mix),
   modelsOf |-> [i \in DOMAIN s.mixByAgent |-> AgentModelDisplayCents(s.lines, s.mixByAgent[i])],
   cache |-> CacheSavingsView(s.cache)]

StatementCsv(view) ==
  [rows |-> [i \in DOMAIN view.lines |-> [tokens |-> view.lines[i].tokens, cents |-> view.lines[i].cents]],
   footer |-> [tokens |-> view.tokens, cents |-> view.totalCents]]

StatementPrintHtml(view) ==
  [hero |-> view.totalCents,
   agents |-> [i \in DOMAIN view.agents |-> [tokens |-> view.agents[i].tokens, cents |-> view.agents[i].cents]],
   lines |-> [i \in DOMAIN view.lines |-> view.lines[i].cents]]

-----------------------------------------------------------------------------
\* Rounded parts miss a rounded whole by half a basis point each at most.
Tiles(parts, whole) ==
  LET gap == 2 * (whole - Total(parts))
      most == Cardinality(DOMAIN parts) + 1
  IN gap \in -most..most

\* Everything shown in cents adds up to the total shown, on the screen and in
\* an export, and the shares to the whole.
Closes(s, view) ==
  LET csv == StatementCsv(view)
      page == StatementPrintHtml(view)
      cache == view.cache
  IN /\ Total(CentsOf(csv.rows)) = csv.footer.cents
     /\ Total(TokensOf(csv.rows)) = csv.footer.tokens
     /\ Total(CentsOf(page.agents)) = page.hero
     /\ Total(TokensOf(page.agents)) = view.tokens
     /\ Total(CentsOf(view.agentMix)) = view.totalCents
     /\ Total(view.modelMix) = view.totalCents
     /\ \A i \in DOMAIN view.agents : Total(view.modelsOf[i]) = view.agents[i].cents
     /\ s.total > 0 => Total(BpOf(s.agents)) = FullBp
     /\ s.total > 0 => Total([i \in DOMAIN s.mix |-> s.mix[i].costBp]) = FullBp
     /\ s.tokens > 0 => Total([i \in DOMAIN s.mix |-> s.mix[i].tokenBp]) = FullBp
     /\ Total(CostOf(s.agents)) = s.total
     /\ cache.net + cache.write + cache.actual = cache.asInput

\* Cards and donuts: a card's lines are its cents and its segments its bar,
\* the widest bar is the track, a donut is closed.
Drawn(s, view) ==
  LET donut == Slices(BpOf(view.agentMix))
  IN s.total > 0 =>
       /\ view.agents[1].bar = FullBp
       /\ \A i \in DOMAIN view.agents : /\ Total(CentsOf(view.agents[i].lines)) = view.agents[i].cents
                                        /\ Tiles(view.agents[i].segments, view.agents[i].bar)
       /\ donut[Cardinality(DOMAIN donut)].end = FullBp

\* A comparison accounts for the whole of either month and of their
\* difference, which is a cent at most off the totals shown.
Accounts(now, before) ==
  LET c == Comparison(now, before)
      rows == c.byAgent
      shown == ComparisonView(c).total.cents - (now.totalCents - before.totalCents)
  IN /\ Total(CostOf(rows)) = now.total
     /\ Total([i \in DOMAIN rows |-> rows[i].previous]) = before.total
     /\ Total([i \in DOMAIN rows |-> rows[i].delta]) = c.delta
     /\ shown \in -1..1

\* The bars of a chart: types tile their bar, agents and models the month's.
Charted(months) ==
  LET v == SeriesView(months)
      heights(series, i) == [k \in DOMAIN series |-> series[k][i].height]
  IN \A i \in DOMAIN months :
       /\ months[i].total > 0 => Tiles(v.total[i].segments, FullBp)
       /\ Tiles(heights(v.agents, i), v.total[i].height)
       /\ Tiles(heights(v.models, i), v.total[i].height)
       /\ (\A j \in DOMAIN months : months[j].total <= months[i].total) /\ months[i].total > 0
            => v.total[i].height = FullBp

(* "closed = live-at-close-time" (statement-engine.ts): two folds that have *)
(* seen the same traces, in whatever order, produce the same statement,    *)
(* down to the cent of every line and the order of every list; a month's   *)
(* bar, split by agent, model and type, is the same from its snapshot as   *)
(* from its stamps; and what a statement, its exports, its comparison and  *)
(* its chart show closes with its totals.                                  *)
ClosedEqualsLive ==
  \A f \in {x \in Folds : fold[x].fed # {}} :
    \A statement \in {FinishStatement(fold[f])} :
      /\ \A view \in {SummaryView(statement)} : Closes(statement, view) /\ Drawn(statement, view)
      /\ \A bar \in {FromSnapshotOf(statement)} :
           /\ bar = RollupOf(fold[f].fed)
           /\ \A g \in Folds \ {f} : Charted(<<bar, RollupOf(fold[g].fed)>>)
      /\ \A g \in Folds \ {f} :
           \A other \in {FinishStatement(fold[g])} :
             /\ fold[f].fed = fold[g].fed => statement = other
             /\ Accounts(statement, other)
=============================================================================
