--------------------------- MODULE StatementFold ---------------------------
(***************************************************************************)
(* statement-engine.ts: the billing calculation as an accumulator.  The    *)
(* live read folds a month in the order the store returns it, the close    *)
(* folds it day page by day page; Maps keep insertion order, sorts are     *)
(* stable and largest-remainder ties go to the lowest index, so an         *)
(* incomplete comparator makes the frozen bill differ from the live one.   *)
(* Ids, versions, models and dates are numbered in code order, null is 0.  *)
(***************************************************************************)
EXTENDS Integers, Sequences, FiniteSets, Functions

CONSTANTS
  Usages,      \* the stamped traces of the month
  UsageOf,     \* their usage records
  Folds,       \* the folds compared: live and frozen
  Unit,        \* TOKENS_PER_PRICE_UNIT
  PerCent,     \* MICROCENTS_PER_CENT
  FullBp       \* 10000 basis points

ASSUME FoldAssumption == {Unit, PerCent, FullBp} \subseteq Nat \ {0}

TokenTypes == <<"input", "output", "cache_read", "cache_write">>

StampedCost == [type : Range(TokenTypes), tokens : Nat, price : Nat, from : Nat]

\* The stamper goes through TOKEN_TYPES: a record has at most one cost per type.
ASSUME UsageAssumption ==
  /\ UsageOf \in [Usages -> [agent : Nat, version : Nat, model : Nat, costs : Seq(StampedCost)]]
  /\ \A x \in Usages : IsInjective([i \in DOMAIN UsageOf[x].costs |-> UsageOf[x].costs[i].type])

VARIABLE fold      \* what each fold has accumulated

-----------------------------------------------------------------------------
(* Lists: their columns, sums, sorts and groups. *)

\* The sequence itself; TLC keeps it as a tuple instead of evaluating each
\* element again at every use.
AsTuple(s) == s \o <<>>

Total(column) == SumFunction(column)

CostOf(s) == [i \in DOMAIN s |-> s[i].cost]
TokensOf(s) == [i \in DOMAIN s |-> s[i].tokens]
CentsOf(s) == [i \in DOMAIN s |-> s[i].cents]
BpOf(s) == [i \in DOMAIN s |-> s[i].bp]
ModelsOf(s) == [i \in DOMAIN s |-> s[i].model]
AgentKeysOf(s) == [i \in DOMAIN s |-> <<s[i].agent, s[i].version>>]

\* The positions of a key in a column of keys.
Holding(keys, k) == {i \in DOMAIN keys : keys[i] = k}

\* Comparators are chains of terms: the first term that differs decides.
Before(s, t) == \E i \in DOMAIN s : s[i] < t[i] /\ \A j \in 1..(i - 1) : s[j] = t[j]

\* Array.sort is stable: the positions in I in the order of their terms,
\* those of equal terms as they stood.
Arranged(I, terms) ==
  LET place(i) == Cardinality({j \in I : \/ Before(terms[j], terms[i])
                                         \/ ~Before(terms[i], terms[j]) /\ j <= i})
  IN AsTuple([p \in 1..Cardinality(I) |-> CHOOSE i \in I : place(i) = p])

SortedBy(s, terms) ==
  LET order == Arranged(DOMAIN s, terms) IN AsTuple([p \in DOMAIN order |-> s[order[p]]])

\* A filter: the elements at the positions in I, as they stood.
Kept(s, I) ==
  LET order == Arranged(I, [i \in I |-> <<>>]) IN AsTuple([p \in DOMAIN order |-> s[order[p]]])

\* A Map: the positions of each key, keys in the order they first came.
Grouped(keys) ==
  LET firsts == {i \in DOMAIN keys : \A j \in Holding(keys, keys[i]) : i <= j}
      order == Arranged(firsts, [i \in firsts |-> <<>>])
  IN AsTuple([g \in DOMAIN order |-> Holding(keys, keys[order[g]])])

-----------------------------------------------------------------------------
(* money.ts, and the shares of the engine. *)

HalfUp(n, d) == (n + d \div 2) \div d

CostMicrocents(tokens, price) == HalfUp(tokens * price, Unit)

\* Integer parts of `whole`, in proportion to `scaled`, ties to the lowest index.
LargestRemainder(scaled, unit, whole) ==
  LET floors == [i \in DOMAIN scaled |-> scaled[i] \div unit]
      rest == [i \in DOMAIN scaled |-> scaled[i] % unit]
      ahead(i) == {j \in DOMAIN scaled : rest[j] > rest[i] \/ (rest[j] = rest[i] /\ j < i)}
      deficit == whole - Total(floors)
  IN AsTuple([i \in DOMAIN scaled |->
                floors[i] + (IF Cardinality(ahead(i)) < deficit THEN 1 ELSE 0)])

ReconcileDisplayCents(parts) == LargestRemainder(parts, PerCent, HalfUp(Total(parts), PerCent))

ShareBasisPoints(weights, whole) ==
  IF Total(weights) = 0 THEN [i \in DOMAIN weights |-> 0]
  ELSE LargestRemainder([i \in DOMAIN weights |-> weights[i] * whole], Total(weights), whole)

-----------------------------------------------------------------------------
(* The accumulators: one record at a time. *)

TypeRank(type) == CHOOSE i \in DOMAIN TokenTypes : TokenTypes[i] = type

LineKey(l) == <<l.agent, l.version, l.model, l.type, l.price, l.from>>

\* Faulty: "completing the comparators into total orders" undone.
CompareLinesPartially(l) == <<l.agent, l.version, l.model, TypeRank(l.type), l.from>>

\* Total over LineKey: every field the accumulator groups by is a term.
CompareLines(l) == <<l.agent, l.version, l.model, TypeRank(l.type), l.from, l.price>>

\* The stamped costs of a usage record, as lines.
StampedLines(u) ==
  [i \in DOMAIN u.costs |->
     [agent |-> u.agent, version |-> u.version, model |-> u.model,
      type |-> u.costs[i].type, price |-> u.costs[i].price, from |-> u.costs[i].from,
      tokens |-> u.costs[i].tokens,
      cost |-> CostMicrocents(u.costs[i].tokens, u.costs[i].price), cents |-> 0]]

AddRecordLines(lines, u) ==
  LET new == StampedLines(u)
      same(l) == {i \in DOMAIN new : LineKey(new[i]) = LineKey(l)}
      fresh == {i \in DOMAIN new : \A j \in DOMAIN lines : LineKey(lines[j]) # LineKey(new[i])}
  IN [j \in DOMAIN lines |->
        [lines[j] EXCEPT !.tokens = @ + SumFunctionOnSet(TokensOf(new), same(lines[j])),
                         !.cost = @ + SumFunctionOnSet(CostOf(new), same(lines[j]))]]
     \o Kept(new, fresh)

VersionTerms(v) == <<v.model, TypeRank(v.type), v.from, v.price>>

VersionOf(l) == [model |-> l.model, type |-> l.type, price |-> l.price, from |-> l.from]

AddRecordPriceVersions(seen, u) ==
  LET used == [i \in DOMAIN u.costs |-> VersionOf(StampedLines(u)[i])]
  IN seen \o Kept(used, {i \in DOMAIN used : used[i] \notin Range(seen)})

NoCache == [read |-> 0, readCost |-> 0, writeCost |-> 0, unpriceable |-> 0,
            atInput |-> [p \in {} |-> 0]]

\* Cache reads are bucketed by the input price of the SAME trace; a trace
\* without one is counted apart.
AddCache(c, u) ==
  LET new == StampedLines(u)
      has(type) == \E i \in DOMAIN new : new[i].type = type
      of(type) == new[CHOOSE i \in DOMAIN new : new[i].type = type]
      read == of("cache_read")
      p == of("input").price
      paid == IF has("cache_write") THEN [c EXCEPT !.writeCost = @ + of("cache_write").cost] ELSE c
      seen == [paid EXCEPT !.read = @ + read.tokens, !.readCost = @ + read.cost]
  IN IF ~has("cache_read") \/ read.tokens = 0 THEN paid
     ELSE IF ~has("input") THEN [seen EXCEPT !.unpriceable = @ + 1]
     ELSE [seen EXCEPT !.atInput =
            [q \in DOMAIN @ \cup {p} |->
               (IF q \in DOMAIN @ THEN @[q] ELSE 0) + (IF q = p THEN read.tokens ELSE 0)]]

FinishCache(c) ==
  LET asInput == Total([p \in DOMAIN c.atInput |-> CostMicrocents(c.atInput[p], p)])
  IN [read |-> c.read, readCost |-> c.readCost, writeCost |-> c.writeCost,
      asInput |-> asInput, savings |-> asInput - c.readCost,
      net |-> asInput - c.readCost - c.writeCost, unpriceable |-> c.unpriceable]

-----------------------------------------------------------------------------
(* finishStatement. *)

\* What some lines, the positions in `own`, cost by token type.
CostByType(lines, own) ==
  [t \in {lines[i].type : i \in own} |->
     SumFunctionOnSet(CostOf(lines), {i \in own : lines[i].type = t})]

BuildAgentGroups(lines) ==
  LET owned == Grouped(AgentKeysOf(lines))
      groups == AsTuple([g \in DOMAIN owned |->
        LET own == owned[g]
            first == lines[CHOOSE i \in own : TRUE]
        IN [agent |-> first.agent, version |-> first.version,
            tokens |-> SumFunctionOnSet(TokensOf(lines), own),
            cost |-> SumFunctionOnSet(CostOf(lines), own),
            cents |-> SumFunctionOnSet(CentsOf(lines), own),
            bp |-> 0, byType |-> CostByType(lines, own)]])
      sorted == SortedBy(groups, [g \in DOMAIN groups |->
                                    <<-groups[g].cost, groups[g].agent, groups[g].version>>])
      shares == ShareBasisPoints(CostOf(sorted), FullBp)
  IN AsTuple([i \in DOMAIN sorted |-> [sorted[i] EXCEPT !.bp = shares[i]]])

\* Cost and token shares close at 100 % independently of each other.
BuildModelShares(lines) ==
  LET owned == Grouped(ModelsOf(lines))
      shares == AsTuple([m \in DOMAIN owned |->
        [model |-> lines[CHOOSE i \in owned[m] : TRUE].model,
         tokens |-> SumFunctionOnSet(TokensOf(lines), owned[m]),
         cost |-> SumFunctionOnSet(CostOf(lines), owned[m]), costBp |-> 0, tokenBp |-> 0]])
      sorted == SortedBy(shares, [m \in DOMAIN shares |-> <<-shares[m].cost, shares[m].model>>])
      costs == ShareBasisPoints(CostOf(sorted), FullBp)
      tokens == ShareBasisPoints(TokensOf(sorted), IF Total(TokensOf(lines)) = 0 THEN 0 ELSE FullBp)
  IN AsTuple([i \in DOMAIN sorted |->
                [sorted[i] EXCEPT !.costBp = costs[i], !.tokenBp = tokens[i]]])

BlendedPerMillion(agent) ==
  IF agent.tokens = 0 THEN 0 ELSE HalfUp(agent.cost * Unit, agent.tokens)

LinesOf(lines, agent) == Kept(lines, Holding(AgentKeysOf(lines), <<agent.agent, agent.version>>))

BuildModelMixByAgent(lines, agents) ==
  [a \in DOMAIN agents |->
     [agent |-> agents[a].agent, version |-> agents[a].version,
      models |-> BuildModelShares(LinesOf(lines, agents[a])),
      blended |-> BlendedPerMillion(agents[a])]]

\* The lines of a statement, sorted, each with the cents it shows.
DisplayLines(lines) ==
  LET sorted == SortedBy(lines, [i \in DOMAIN lines |-> CompareLines(lines[i])])
      cents == ReconcileDisplayCents(CostOf(sorted))
  IN AsTuple([i \in DOMAIN sorted |-> [sorted[i] EXCEPT !.cents = cents[i]]])

FinishStatement(acc) ==
  LET lines == DisplayLines(acc.lines)
      agents == BuildAgentGroups(lines)
      total == Total(CostOf(lines))
  IN [total |-> total, totalCents |-> HalfUp(total, PerCent),
      count |-> Cardinality(acc.fed), tokens |-> Total(TokensOf(lines)),
      lines |-> lines, agents |-> agents,
      mix |-> BuildModelShares(lines), mixByAgent |-> BuildModelMixByAgent(lines, agents),
      cache |-> FinishCache(acc.cache),
      versions |-> SortedBy(acc.versions,
                            [i \in DOMAIN acc.versions |-> VersionTerms(acc.versions[i])])]

-----------------------------------------------------------------------------
(* Folding. *)

Nothing == [lines |-> <<>>, cache |-> NoCache, versions |-> <<>>, fed |-> {}]

FoldInit == fold = [f \in Folds |-> Nothing]

AddUsage(f, x) ==
  /\ x \in Usages \ fold[f].fed
  /\ fold' = [fold EXCEPT ![f] =
       [lines |-> AddRecordLines(@.lines, UsageOf[x]),
        cache |-> AddCache(@.cache, UsageOf[x]),
        versions |-> AddRecordPriceVersions(@.versions, UsageOf[x]),
        fed |-> @.fed \cup {x}]]

FoldNext == \E f \in Folds, x \in Usages : AddUsage(f, x)

FoldSpec == FoldInit /\ [][FoldNext]_fold
=============================================================================
