--------------------------- MODULE MarketTransfers ---------------------------
(***************************************************************************)
(* Whose share fell when the subject's rose (competitive_share_transfer):  *)
(* registrations of the certified universe (rvm_universe), the subject and *)
(* its peers over months, quarters, years or rolling years against the     *)
(* year before, and a month to date from the preliminary register against  *)
(* the same days of the consolidated one.                                  *)
(*                                                                         *)
(* Dates are numbers; a year has YearMonths months and a quarter           *)
(* QuarterMonths.  Versions in the historical rules are left out, and      *)
(* growth percentages, which no ranking uses.                              *)
(***************************************************************************)
EXTENDS MarketShares

CONSTANTS YearMonths, QuarterMonths,
          HistoricalRules,   \* certified [brand, model, from, to, brandId, organization]
          MasterOrigin       \* the origin group of each brand of the master

YearLength == YearMonths * MonthLength
MonthStart(date) == MonthOf(date) * MonthLength

\* ------------------------------------------------------- rvm_universe_v01
\* A row of the register: a registration with data_status and snapshot_date.
RulesFor(event) ==
  {r \in HistoricalRules : /\ r.from <= event.date /\ event.date <= r.to
                           /\ r.brand \in {Missing, event.rawBrand}
                           /\ r.model \in {Missing, event.rawModel}}

ScopeBrand(event) ==
  LET brands == {r.brandId : r \in RulesFor(event)}
  IN IF event.brand # Missing THEN event.brand
     ELSE IF Cardinality(brands) = 1 THEN CHOOSE b \in brands : TRUE ELSE Missing

OriginOfBrand(brand) == IF brand = Missing THEN Missing ELSE MasterOrigin[brand]

MarketEvent(event) ==
  [id |-> event.id, date |-> event.date, month |-> MonthOf(event.date), units |-> event.units,
   universe |-> event.universe, status |-> event.status, model |-> event.model,
   brand |-> ScopeBrand(event), origin |-> OriginOfBrand(ScopeBrand(event)),
   dfm |-> event.rawBrand = Dfm,
   aggregate |-> \E r \in RulesFor(event) : r.organization = "CIDEF"]

RvmUniverse(rows, from, to, dataStatus, snapshot) ==
  {MarketEvent(e) : e \in Events({r \in rows : /\ r.dataStatus = dataStatus
                                               /\ snapshot \in {Missing, r.snapshot}}, from, to)}

\* The preliminary snapshots that have rows in a range of dates, ...
SnapshotInventory(rows, from, to) ==
  LET inside == {r \in rows : /\ r.dataStatus = "PRELIMINARY"
                              /\ from <= r.date /\ r.date <= to}
      Dates(s) == {r.date : r \in {x \in inside : x.snapshot = s}}
  IN {[snapshot |-> s, min |-> Min(Dates(s)), max |-> Max(Dates(s)),
       units |-> UnitsOf({x \in inside : x.snapshot = s})] : s \in {r.snapshot : r \in inside}}

\* ... and the one to use: the only one there is, if it is of the cutoff and reaches it.
SelectedSnapshot(inventory, from, cutoff) ==
  LET valid == {i \in inventory : i.snapshot = cutoff /\ i.max = cutoff /\ i.min >= from}
  IN IF Cardinality(inventory) = 1 /\ valid # {} THEN (CHOOSE i \in valid : TRUE).snapshot
     ELSE Missing

\* --------------------------------------------------------------- a request
\* [mode, level, subject, scope, competitors, basis, ranking, from, to, cutoff,
\*  minPeriods, minPct]; from and to of a history, cutoff of a month to date.
AcceptsTransfer(q) ==
  /\ q.scope = "MODEL_COMPARABLE_SET" => q.level = "MODEL" /\ q.competitors = "MODEL"
  /\ q.mode = "CURRENT_MTD" => q.basis = "MONTHLY_YOY" /\ q.ranking = "CURRENT_MTD"
  /\ q.mode = "HISTORICAL" =>
       LET Span == CASE q.basis = "CALENDAR_YEAR_YOY" -> YearLength
                     [] q.basis = "QUARTER_YOY" -> QuarterMonths * MonthLength
                     [] OTHER -> MonthLength
       IN /\ q.ranking # "CURRENT_MTD"
          /\ q.from <= q.to /\ q.from % Span = 0 /\ (q.to + 1) % Span = 0
  /\ (q.minPeriods = Missing) <=> (q.minPct = Missing)

HistoricalFrom(q) ==
  IF q.basis = "ROLLING_12" THEN MonthStart(q.from) - (2 * YearMonths - 1) * MonthLength
  ELSE q.from - YearLength

\* ------------------------------------------- the subject, its peers, the market
\* Rows of CIDEF: raw DFM, but for its total, over history, the brands of the certified rules.
Own(e, q) == IF q.mode = "HISTORICAL" /\ q.level = "CIDEF_TOTAL" THEN e.aggregate ELSE e.dfm
Subject(e, q) == /\ Own(e, q)
                 /\ q.level = "BRAND" => e.brand = q.subject
                 /\ q.level = "MODEL" => e.model = q.subject

ComparableSets(events, q) ==
  {<<e.universe, e.origin>> : e \in {x \in events : Subject(x, q)}}

InScope(e, q, sets) ==
  /\ q.scope = "CHINESE_MARKET" => e.origin = "CHINESE"
  /\ q.scope = "MODEL_COMPARABLE_SET" =>
       /\ e.model # Missing /\ (e.model = q.subject => e.dfm)
       /\ <<e.universe, Missing>> \in sets \/ <<e.universe, e.origin>> \in sets

CompetitorKey(e, q) ==
  IF q.competitors = "BRAND" THEN e.brand ELSE e.model
Competitor(e, q) ==
  IF Own(e, q) \/ (q.level = "MODEL" /\ q.competitors = "MODEL" /\ e.model = q.subject)
  THEN Missing ELSE CompetitorKey(e, q)

Dataset(events, q) ==
  LET sets == ComparableSets(events, q)
      scoped == {e \in events : InScope(e, q, sets)}
      protected == {CompetitorKey(e, q) : e \in {x \in events : Own(x, q)}}
      PeerOf(e) == IF Competitor(e, q) \in protected THEN Missing ELSE Competitor(e, q)
  IN [scoped |-> scoped, subject |-> {e \in scoped : Subject(e, q)},
      peers |-> [k \in {PeerOf(e) : e \in scoped} \ {Missing} |->
                  {e \in scoped : PeerOf(e) = k}]]

\* ---------------------------------------------------------------- periods
PeriodOf(month, basis) ==
  CASE basis = "CALENDAR_YEAR_YOY" -> month \div YearMonths
    [] basis = "QUARTER_YOY" -> month \div QuarterMonths
    [] OTHER -> month
MonthsOfPeriod(period, basis) ==
  CASE basis = "CALENDAR_YEAR_YOY" -> (period * YearMonths) .. (period * YearMonths + YearMonths - 1)
    [] basis = "QUARTER_YOY" ->
         (period * QuarterMonths) .. (period * QuarterMonths + QuarterMonths - 1)
    [] basis = "ROLLING_12" -> (period - YearMonths + 1) .. period
    [] OTHER -> {period}

Current(events, period, basis) ==
  UnitsOf({e \in events : e.month \in MonthsOfPeriod(period, basis)})
Comparable(events, period, basis) ==
  UnitsOf({e \in events : e.month + YearMonths \in MonthsOfPeriod(period, basis)})

\* The change of a share of the market, in fractions of it; Missing without a market to compare.
ShareChange(events, market, period, basis) ==
  LET now == Current(market, period, basis)
      then == Comparable(market, period, basis)
  IN IF now = 0 \/ then = 0 THEN Missing
     ELSE Fraction(Current(events, period, basis) * then - Comparable(events, period, basis) * now,
                   now * then)
UnitsChange(events, period, basis) == Current(events, period, basis) - Comparable(events, period, basis)

Smaller(p, q) == IF Less(p, q) THEN p ELSE q
Absolute(p) == <<Size(p[1]), p[2]>>

TransferMetrics(data, peer, period, basis) ==
  LET subject == ShareChange(data.subject, data.scoped, period, basis)
      other == ShareChange(data.peers[peer], data.scoped, period, basis)
      kind == IF subject = Missing THEN Missing
              ELSE Movement(SignOf(subject[1]), SignOf(other[1]))
      units == UnitsChange(data.subject, period, basis)
      peerUnits == UnitsChange(data.peers[peer], period, basis)
      inverse == kind \in {"TARGET_GAIN_PEER_LOSS", "TARGET_LOSS_PEER_GAIN"}
  IN [period |-> period, subject |-> subject, other |-> other, movement |-> kind,
      inverse |-> inverse,
      magnitude |-> IF inverse THEN Smaller(Absolute(subject), Absolute(other)) ELSE <<0, 1>>,
      unitsMagnitude |-> IF units * peerUnits >= 0 THEN Missing
                         ELSE IF Size(units) < Size(peerUnits) THEN Size(units) ELSE Size(peerUnits)]

Persistence(q, observed, inverse) ==
  CASE q.basis = "ROLLING_12" -> "NOT_APPLICABLE"
    [] q.minPeriods # Missing /\ inverse >= q.minPeriods /\ observed > 0
         /\ 100 * inverse >= q.minPct * observed -> "PERSISTENT"
    [] inverse = 0 -> "NONE"
    [] inverse = 1 -> "SINGLE_OBSERVATION"
    [] OTHER -> "REPEATED_OBSERVATION"

PeerSummary(data, q, peer, periods) ==
  LET detail == {TransferMetrics(data, peer, p, q.basis) : p \in periods}
      evaluable == {d \in detail : d.movement # Missing}
      inverse == {d \in evaluable : d.inverse}
      Times(kind) == Cardinality({d \in evaluable : d.movement = kind})
      byUnits == {d.unitsMagnitude : d \in inverse} \ {Missing}
  IN [peer |-> peer, detail |-> detail, observed |-> Cardinality(evaluable),
      inverse |-> Cardinality(inverse),
      status |-> Persistence(q, Cardinality(evaluable), Cardinality(inverse)),
      gain |-> Times("TARGET_GAIN_PEER_LOSS"), loss |-> Times("TARGET_LOSS_PEER_GAIN"),
      magnitude |-> IF inverse = {} THEN <<0, 1>>
                    ELSE CHOOSE f \in {d.magnitude : d \in inverse} :
                           \A d \in inverse : ~Less(f, d.magnitude),
      unitsMagnitude |-> IF byUnits = {} THEN -1 ELSE Max(byUnits),
      unitsTimes |-> Cardinality({d \in inverse : d.unitsMagnitude # Missing})]

\* ---------------------------------------------------------------- rankings
\* The measures a ranking compares, one after the other; then the key, here an order chosen.
RatioOf(s, q) == IF q.basis = "ROLLING_12" \/ s.observed = 0 THEN <<-1, 1>>
                 ELSE <<s.inverse, s.observed>>
InversePeriods(s, q) == IF q.basis = "ROLLING_12" THEN 0 ELSE s.inverse
Measures(s, q) ==
  CASE q.ranking = "CONSISTENCY" ->
         <<RatioOf(s, q), <<InversePeriods(s, q), 1>>, <<s.observed, 1>>>>
    [] q.ranking = "SHARE_MAGNITUDE" ->
         <<s.magnitude, <<InversePeriods(s, q), 1>>, RatioOf(s, q)>>
    [] q.ranking = "VIN_MAGNITUDE" ->
         <<<<s.unitsMagnitude, 1>>, <<s.unitsTimes, 1>>, s.magnitude>>
    [] OTHER -> <<<<s.inverse, 1>>, s.magnitude, <<s.unitsMagnitude, 1>>>>

RanksBefore(a, b, q) ==
  \E i \in 1..3 : /\ Less(Measures(b, q)[i], Measures(a, q)[i])
                  /\ \A j \in 1..(i - 1) : Same(Measures(a, q)[j], Measures(b, q)[j])

ShareTransfer(events, q, periods) ==
  LET data == Dataset(events, q)
      summaries == {PeerSummary(data, q, k, periods) : k \in DOMAIN data.peers}
      Ranked(chosen) == SetToSortSeq(chosen, LAMBDA a, b : RanksBefore(a, b, q))
  IN [data |-> data, summaries |-> summaries, periods |-> periods,
      losing |-> Ranked({s \in summaries : s.gain > 0}),
      gaining |-> Ranked({s \in summaries : s.loss > 0}),
      source |-> UnitsOf(events),
      originUnknown |-> UnitsOf({e \in events : e.origin = Missing}),
      modelUnknown |-> UnitsOf({e \in events : e.model = Missing})]

HistoricalTransfer(rows, q) ==
  ShareTransfer(RvmUniverse(rows, HistoricalFrom(q), q.to, "CONSOLIDATED", Missing), q,
                {PeriodOf(m, q.basis) : m \in MonthOf(q.from) .. MonthOf(q.to)})

ComparisonTo(cutoff) == cutoff - YearLength

\* The month to date: three queries, each of which finds the register as it is then.
MonthToDate(currentRows, comparisonRows, q, snapshot) ==
  ShareTransfer(
    RvmUniverse(currentRows, MonthStart(q.cutoff), q.cutoff, "PRELIMINARY", snapshot)
      \cup RvmUniverse(comparisonRows, MonthStart(ComparisonTo(q.cutoff)), ComparisonTo(q.cutoff),
                       "CONSOLIDATED", Missing),
    q, {MonthOf(q.cutoff)})
=============================================================================
