---------------------------- MODULE MarketShares ----------------------------
(***************************************************************************)
(* What the competitive engines compute from vehicle registrations: the    *)
(* identity of a registration, the peer universes of the models asked for  *)
(* (competitive_context), the share of every entity in every month         *)
(* (competitive_share_trajectory), the features of each pair of a target   *)
(* and a peer (competitive_signal_backtest), the pairs that compete        *)
(* (competitive_relation) and how their shares moved against one another   *)
(* (competitive_inverse_share_movement).                                   *)
(*                                                                         *)
(* Shares are fractions <<units, total>>.  Names, ranks, geography, means  *)
(* and deviations are left out; a raw text stands for its normal form.     *)
(***************************************************************************)
EXTENDS Integers, Sequences, FiniteSets, FiniteSetsExt, SequencesExt, TLC

CONSTANTS
  MonthLength,           \* days of a month
  Aliases,               \* [id, brand, model, version, status, modelId, brandId] of rvm_raw
  BrandOfModel,          \* the canonical brand of each model of the master
  OriginOf,              \* the origin group of a brand, canonical or raw
  Portfolio,             \* the live models of CIDEF
  Dfm,                   \* the raw brand of CIDEF
  MaxMedianGapPp, MinJointMonths, MinCrossings,  \* COMPETITIVE_RELATION_RULE
  Missing                \* an absent value

MonthOf(date) == date \div MonthLength
UnitsOf(events) == MapThenSumSet(LAMBDA e : e.units, events)

\* -------------------------------------------------- identity_resolution
StatusRank(alias) == CASE alias.status = "RESUELTO" -> 1 [] alias.status = "AMBIGUO" -> 2 [] OTHER -> 3
Preferred(aliases) ==
  CHOOSE a \in aliases : \A b \in aliases \ {a} :
    StatusRank(a) < StatusRank(b) \/ (StatusRank(a) = StatusRank(b) /\ a.id < b.id)

\* The alias known for the very version of a row, or else the one of its model.
AliasesOf(row, version) ==
  {a \in Aliases : a.brand = row.brand /\ a.model = row.model /\ a.version = version}
AliasOf(row) ==
  LET contextual == IF row.version = Missing THEN {} ELSE AliasesOf(row, row.version)
      candidates == IF contextual # {} THEN contextual ELSE AliasesOf(row, Missing)
  IN IF candidates = {} THEN [status |-> "NO_RESUELTO"] ELSE Preferred(candidates)

Identified(row) ==
  LET alias == AliasOf(row)
  IN [id |-> row.id, date |-> row.date, universe |-> row.universe, units |-> row.units,
      rawBrand |-> row.brand, rawModel |-> row.model,
      status |-> IF alias.status \in {"RESUELTO", "AMBIGUO"} THEN alias.status ELSE "NO_RESUELTO",
      model |-> IF alias.status = "RESUELTO" THEN alias.modelId ELSE Missing,
      brand |-> IF alias.status = "RESUELTO" THEN alias.brandId ELSE Missing]

Events(rows, from, to) == {Identified(r) : r \in {x \in rows : from <= x.date /\ x.date <= to}}

\* ---------------------------------------------------------- peer universes
\* scope: [targets, from, to, origin].
TargetsFound(scope) == scope.targets \cap Portfolio
TargetEvents(events, scope) ==
  {e \in events : e.model \in TargetsFound(scope) /\ e.rawBrand = Dfm}
PeerUniverses(events, scope) == {e.universe : e \in TargetEvents(events, scope)}
TargetsIn(events, scope, universe) ==
  {e.model : e \in {x \in TargetEvents(events, scope) : x.universe = universe}}

\* Mutant of EntityOf: whatever is resolved counts as its model.
EntityByModel(event, targets) ==
  IF event.model # Missing THEN <<"MODEL", event.model, Missing>>
  ELSE <<"RAW", event.rawBrand, event.rawModel>>

\* A target sold under another brand is not the target.
EntityOf(event, targets) ==
  IF event.model # Missing /\ ~(event.model \in targets /\ event.rawBrand # Dfm)
  THEN <<"MODEL", event.model, Missing>>
  ELSE <<"RAW", event.rawBrand, event.rawModel>>

IsModel(entity) == entity[1] = "MODEL"
BrandName(entity) == IF IsModel(entity) THEN BrandOfModel[entity[2]] ELSE entity[2]
Allowed(entity, origin) == origin = Missing \/ OriginOf[BrandName(entity)] = origin

\* The rows of a universe as SQL groups them: by entity and by the model resolved, so an entity may
\* have two rows where a target goes under another brand.
Cells(events, targets) ==
  {[entity |-> EntityOf(e, targets), source |-> e.model,
    units |-> UnitsOf({x \in events : /\ EntityOf(x, targets) = EntityOf(e, targets)
                                      /\ x.model = e.model})] : e \in events}

Fraction(n, d) == IF d > 0 THEN <<n, d>> ELSE <<-n, -d>>
Less(p, q) == p[1] * q[2] < q[1] * p[2]
Same(p, q) == p[1] * q[2] = q[1] * p[2]
SignOf(n) == IF n > 0 THEN 1 ELSE IF n < 0 THEN -1 ELSE 0
Size(n) == IF n < 0 THEN -n ELSE n

\* ------------------------------------------------ competitive_context_v01
ContextUniverse(events, scope, u) ==
  LET inside == {e \in events : e.universe = u}
      cells == Cells(inside, TargetsIn(events, scope, u))
      chosen == {c \in cells : Allowed(c.entity, scope.origin)}
  IN [targets |-> TargetsIn(events, scope, u), total |-> UnitsOf(chosen),
      models |-> Cardinality(chosen), brands |-> {BrandName(c.entity) : c \in chosen},
      unknown |-> UnitsOf({c \in cells : OriginOf[BrandName(c.entity)] = "UNKNOWN"}),
      units |-> UnitsOf(inside)]

CompetitiveContext(rows, scope) ==
  LET events == Events(rows, scope.from, scope.to)
      universes == [u \in PeerUniverses(events, scope) |-> ContextUniverse(events, scope, u)]
  IN [universes |-> universes,
      observed |-> [m \in {e.model : e \in TargetEvents(events, scope)} |->
                     UnitsOf({e \in TargetEvents(events, scope) : e.model = m})],
      ok |-> /\ scope.targets \subseteq Portfolio
             /\ scope.origin # Missing =>
                  /\ \A m \in TargetsFound(scope) : OriginOf[BrandOfModel[m]] = scope.origin
                  /\ \A u \in DOMAIN universes : universes[u].unknown = 0]

\* ---------------------------------------- competitive_share_trajectory_v01
MonthsOfScope(scope) == MonthOf(scope.from) .. MonthOf(scope.to)

\* Rows of one entity and month overwrite one another, and the query sends the fewest units last.
LastRead(cells) == CHOOSE c \in cells : \A d \in cells : c.units <= d.units

\* A universe month by month, every entity in every month.
MonthlyUniverse(events, scope, u) ==
  LET months == MonthsOfScope(scope)
      targets == TargetsIn(events, scope, u)
      At(m) == {e \in events : e.universe = u /\ MonthOf(e.date) = m}
      read == [m \in months |->
                {c \in Cells(At(m), targets) : Allowed(c.entity, scope.origin)}]
      entities == UNION {{c.entity : c \in read[m]} : m \in months}
      Of(m, e) == {c \in read[m] : c.entity = e}
      units == [m \in months |-> [e \in entities |->
                 IF Of(m, e) = {} THEN 0 ELSE LastRead(Of(m, e)).units]]
  IN [months |-> months, targets |-> targets, entities |-> entities, units |-> units,
      active |-> [m \in months |-> {e \in entities : Of(m, e) # {}}],
      total |-> [m \in months |-> MapThenSumSet(LAMBDA e : units[m][e], entities)]]

MonthlyShares(rows, scope) ==
  LET events == Events(rows, scope.from, scope.to)
      All == [u \in PeerUniverses(events, scope) |-> MonthlyUniverse(events, scope, u)]
  IN [u \in {v \in DOMAIN All : All[v].entities # {}} |-> All[u]]

ShareAt(universe, month, entity) ==
  IF universe.total[month] = 0 THEN Missing
  ELSE Fraction(universe.units[month][entity], universe.total[month])

\* summarizeTrajectory: an entity from the first month to the last.
Trend(universe, entity) ==
  [first |-> ShareAt(universe, Min(universe.months), entity),
   last |-> ShareAt(universe, Max(universe.months), entity),
   months |-> Cardinality({m \in universe.months : universe.units[m][entity] # 0}),
   units |-> MapThenSumSet(LAMBDA m : universe.units[m][entity], universe.months)]

\* ---------------------------------------- competitive_signal_backtest_v01
\* Each target of a universe that has months of its own, with each of the other entities.
TargetEntity(model) == <<"MODEL", model, Missing>>
MissingTargets(universe) == {m \in universe.targets : TargetEntity(m) \notin universe.entities}
Pairs(universe) ==
  UNION {{[target |-> TargetEntity(m), peer |-> e] : e \in universe.entities \ {TargetEntity(m)}} :
           m \in universe.targets \ MissingTargets(universe)}

\* pairMonthlyEvidence: the gap of a month, when there is a total, and whether both have rows.
Evidence(universe, pair) ==
  [m \in universe.months |->
    [joint |-> {pair.target, pair.peer} \subseteq universe.active[m],
     known |-> universe.total[m] # 0,
     signed |-> IF universe.total[m] = 0 THEN Missing
                ELSE Fraction(universe.units[m][pair.target] - universe.units[m][pair.peer],
                              universe.total[m])]]

Above(evidence, m) == SignOf(evidence[m].signed[1])
Gap(evidence, m) == <<Size(evidence[m].signed[1]), evidence[m].signed[2]>>
Compared(evidence, m) == evidence[m].joint /\ evidence[m].known

\* Who is above changes, with nothing but ties of months both are in between.
Crossings(evidence) ==
  {p \in (DOMAIN evidence) \X (DOMAIN evidence) :
     /\ p[1] < p[2] /\ \A m \in p[1] .. p[2] : Compared(evidence, m)
     /\ Above(evidence, p[1]) * Above(evidence, p[2]) = -1
     /\ \A m \in (p[1] + 1) .. (p[2] - 1) : Above(evidence, m) = 0}

\* gapRuns: where the gap moved from one month to the next, and the longest stretches one way.
Direction(evidence, m) ==
  IF \/ m - 1 \notin DOMAIN evidence \/ ~Compared(evidence, m - 1) \/ ~Compared(evidence, m)
     \/ Same(Gap(evidence, m - 1), Gap(evidence, m))
  THEN "NONE"
  ELSE IF Less(Gap(evidence, m), Gap(evidence, m - 1)) THEN "CONVERGING" ELSE "DIVERGING"

Stretches(months) ==
  {p \in months \X months :
     p[1] .. p[2] \subseteq months /\ p[1] <= p[2] /\ {p[1] - 1, p[2] + 1} \cap months = {}}
GapRuns(evidence, direction) ==
  {<<p[1] - 1, p[2]>> :
    p \in Stretches({m \in DOMAIN evidence : Direction(evidence, m) = direction})}
ActiveSpans(universe, entities) ==
  Stretches({m \in universe.months : entities \subseteq universe.active[m]})

\* The k-th smallest gap of the months with a share, the two in the middle halved.
KthGap(evidence, months, k) ==
  Gap(evidence, CHOOSE m \in months :
    /\ Cardinality({n \in months : Less(Gap(evidence, n), Gap(evidence, m))}) < k
    /\ Cardinality({n \in months : ~Less(Gap(evidence, m), Gap(evidence, n))}) >= k)
MedianGap(evidence) ==
  LET months == {m \in DOMAIN evidence : evidence[m].known}
      n == Cardinality(months)
      low == KthGap(evidence, months, (n + 1) \div 2)
      high == KthGap(evidence, months, n \div 2 + 1)
  IN IF n = 0 THEN Missing ELSE <<low[1] * high[2] + high[1] * low[2], 2 * low[2] * high[2]>>

JointMonths(evidence) == {m \in DOMAIN evidence : evidence[m].joint}

PairSummary(universe, pair) ==
  LET evidence == Evidence(universe, pair)
  IN [pair |-> pair, months |-> Cardinality(universe.months),
      joint |-> Cardinality(JointMonths(evidence)), median |-> MedianGap(evidence),
      crossings |-> Cardinality(Crossings(evidence))]

\* ---------------------------------------------- competitive_relation_v01
Related(summary) ==
  /\ summary.median # Missing /\ 100 * summary.median[1] <= MaxMedianGapPp * summary.median[2]
  /\ summary.joint >= MinJointMonths
  /\ summary.crossings >= MinCrossings

Summaries(universe) == {PairSummary(universe, pair) : pair \in Pairs(universe)}
Relations(universe) == {s.pair : s \in {x \in Summaries(universe) : Related(x)}}

\* ------------------------------- competitive_inverse_share_movement_v01
Moved(universe, entity, m) ==
  LET before == ShareAt(universe, m - 1, entity)
      after == ShareAt(universe, m, entity)
  IN SignOf(after[1] * before[2] - before[1] * after[2])

Movement(subject, other) ==
  CASE subject > 0 /\ other < 0 -> "TARGET_GAIN_PEER_LOSS"
    [] subject < 0 /\ other > 0 -> "TARGET_LOSS_PEER_GAIN"
    [] subject * other > 0 -> "SAME_DIRECTION"
    [] OTHER -> "FLAT_OR_ONE_SIDED"

Evaluable(evidence, m) ==
  m - 1 \in DOMAIN evidence /\ Compared(evidence, m - 1) /\ Compared(evidence, m)

PairMovement(universe, pair) ==
  LET evidence == Evidence(universe, pair)
      evaluable == {m \in universe.months : Evaluable(evidence, m)}
      movement == [m \in evaluable |-> Movement(Moved(universe, pair.target, m),
                                                Moved(universe, pair.peer, m))]
      Times(kind) == Cardinality({m \in evaluable : movement[m] = kind})
      inverse == Times("TARGET_GAIN_PEER_LOSS") + Times("TARGET_LOSS_PEER_GAIN")
  IN [pair |-> pair, movement |-> movement, evaluable |-> Cardinality(evaluable),
      gain |-> Times("TARGET_GAIN_PEER_LOSS"), loss |-> Times("TARGET_LOSS_PEER_GAIN"),
      inverse |-> inverse,
      gains |-> {m \in evaluable : Moved(universe, pair.target, m) > 0},
      losses |-> {m \in evaluable : Moved(universe, pair.target, m) < 0}]

\* By rate with the unrated last, by inverse months, by evidence; then by key, here an order chosen.
MovesBefore(a, b) ==
  \/ a.evaluable > 0 /\ b.evaluable = 0
  \/ a.inverse * b.evaluable > b.inverse * a.evaluable
  \/ a.inverse * b.evaluable = b.inverse * a.evaluable
     /\ (a.evaluable > 0 <=> b.evaluable > 0)
     /\ (a.inverse > b.inverse \/ (a.inverse = b.inverse /\ a.evaluable > b.evaluable))

Movements(universe, minEvaluable) ==
  SetToSortSeq({r \in {PairMovement(universe, p) : p \in Relations(universe)} :
                  r.evaluable >= minEvaluable}, MovesBefore)

PageOf(rows, offset, limit) ==
  LET page == SubSeq(rows, offset + 1, IF offset + limit < Len(rows) THEN offset + limit ELSE Len(rows))
  IN [rows |-> page, next |-> IF offset + Len(page) < Len(rows) THEN offset + Len(page) ELSE Missing]
=============================================================================
