---------------------------- MODULE MarketGrowth ----------------------------
(***************************************************************************)
(* How CIDEF's sales grew beside the registrations of the market           *)
(* (competitive_growth_matrix).  Sales count in commercial months, from    *)
(* the second day of a month to the first of the next; registrations in    *)
(* calendar months; years and months to date are ranges of dates.  Each    *)
(* source is read from the first day its comparisons need.                 *)
(*                                                                         *)
(* Months have one length, so the same day of another month always         *)
(* exists.  Names, percentages and rankings are left out.                  *)
(***************************************************************************)
EXTENDS MarketTransfers

CONSTANT CompanySales   \* recognized sales [id, date, brand, model, status] of the COMPANY universe

\* ------------------------------------------------------------------- dates
CommercialMonth(date) == (date - 1) \div MonthLength
CommercialStart(month) == month * MonthLength + 1
CommercialEnd(month) == (month + 1) * MonthLength
YearStart(date) == (date \div YearLength) * YearLength
YearBefore(date) == date - YearLength

\* -------------------------------------------------------------- a request
\* [scopes, comparisons, from, to, cutoff, brands, models]; no cutoff, no month to date.
Monthlies == {"YOY_MONTH", "ROLLING_12_YOY", "MOM"}
AcceptsGrowth(q) ==
  /\ q.from <= q.to /\ q.scopes # {} /\ q.comparisons # {}
  /\ q.comparisons \cap Monthlies # {} => q.from % MonthLength = 0 /\ (q.to + 1) % MonthLength = 0
  /\ "CALENDAR_YEAR_YOY" \in q.comparisons => q.from % YearLength = 0 /\ (q.to + 1) % YearLength = 0
  /\ "YTD_YOY" \in q.comparisons => q.from = YearStart(q.to)

\* The months a comparison reads before the first one asked for.
Back(comparison) ==
  CASE comparison = "MOM" -> 1 [] comparison = "YOY_MONTH" -> YearMonths [] OTHER -> 2 * YearMonths - 1
ByMonths(q) == q.comparisons \cap Monthlies
ByYears(q) == IF ByMonths(q) = q.comparisons THEN {} ELSE {YearStart(q.from) - YearLength}
YearBeforeCutoff(q) == IF q.cutoff = Missing THEN {} ELSE {YearBefore(q.cutoff)}

HistoricalSourceStart(q) ==
  Min({q.from} \cup {(MonthOf(q.from) - Back(c)) * MonthLength : c \in ByMonths(q)}
        \cup ByYears(q) \cup {MonthStart(d) : d \in YearBeforeCutoff(q)})
VentasSourceStart(q) ==
  Min({CommercialStart(MonthOf(q.from) - Back(c)) : c \in ByMonths(q)} \cup ByYears(q)
        \cup {CommercialStart(CommercialMonth(d)) : d \in YearBeforeCutoff(q)})
VentasCutoff(q) ==
  Max({IF ByMonths(q) = {} THEN q.to ELSE CommercialEnd(MonthOf(q.to))}
        \cup ({q.cutoff} \ {Missing}))
ConsolidatedEnd(q) == Max({q.to} \cup YearBeforeCutoff(q))

\* ----------------------------------------------------- the series of a source
SalesEvents(from, to) ==
  {[id |-> s.id, date |-> s.date, period |-> CommercialMonth(s.date), units |-> 1,
    brand |-> s.brand, model |-> s.model, status |-> s.status,
    origin |-> OriginOfBrand(s.brand)] :
    s \in {x \in CompanySales : from <= x.date /\ x.date <= to}}
MarketSeries(rows, from, to, dataStatus, snapshot) ==
  {[id |-> e.id, date |-> e.date, period |-> e.month, units |-> e.units, brand |-> e.brand,
    model |-> e.model, status |-> e.status, origin |-> e.origin] :
    e \in RvmUniverse(rows, from, to, dataStatus, snapshot)}

HasModel(e) == e.brand # Missing /\ e.model # Missing /\ e.status = "RESUELTO"
Belongs(e, entity) ==
  CASE entity[1] = "TOTAL_MARKET" -> TRUE
    [] entity[1] = "CHINESE_MARKET" -> e.origin = "CHINESE"
    [] entity[1] = "BRAND" -> e.brand = entity[2]
    [] entity[1] = "MODEL" -> HasModel(e) /\ <<e.brand, e.model>> = <<entity[2], entity[3]>>
OfEntity(events, entity) == {e \in events : Belongs(e, entity)}

\* The entities compared are those of the sales.
GrowthEntities(sales, q) ==
  LET Asked(chosen, id) == chosen = {} \/ id \in chosen
      branded == {e \in sales : e.brand # Missing /\ Asked(q.brands, e.brand)}
  IN {x \in {<<s, Missing, Missing>> : s \in {"TOTAL_MARKET", "CHINESE_MARKET"}}
            \cup {<<"BRAND", e.brand, Missing>> : e \in branded}
            \cup {<<"MODEL", e.brand, e.model>> :
                    e \in {y \in branded : HasModel(y) /\ Asked(q.models, y.model)}} :
        x[1] \in q.scopes}

FirstObserved(sales, entity) == Min({e.period : e \in OfEntity(sales, entity)})

\* --------------------------------------------------------------- the values
\* A month or range beyond what the source was seen to cover has no value.
HasMonth(events, month) ==
  (\E e \in events : e.period <= month) /\ (\E e \in events : month <= e.period)
MonthValue(events, entity, month) ==
  IF HasMonth(events, month) THEN UnitsOf({e \in OfEntity(events, entity) : e.period = month})
  ELSE Missing
RollingValue(events, entity, month) ==
  LET months == (month - YearMonths + 1) .. month
  IN IF \A m \in months : HasMonth(events, m)
     THEN UnitsOf({e \in OfEntity(events, entity) : e.period \in months}) ELSE Missing
RangeValue(events, entity, from, to) ==
  IF /\ \E e \in events : MonthOf(e.date) <= MonthOf(from)
     /\ \E e \in events : MonthOf(to) <= MonthOf(e.date)
  THEN UnitsOf({e \in OfEntity(events, entity) : from <= e.date /\ e.date <= to})
  ELSE Missing

PreviousPeriod(comparison, period) ==
  CASE comparison = "MOM" -> period - 1 [] comparison \in Monthlies -> period - YearMonths
    [] OTHER -> period - 1
HistoricalValue(events, entity, comparison, period) ==
  CASE comparison = "ROLLING_12_YOY" -> RollingValue(events, entity, period)
    [] comparison = "CALENDAR_YEAR_YOY" ->
         RangeValue(events, entity, period * YearLength, period * YearLength + YearLength - 1)
    [] OTHER -> MonthValue(events, entity, period)
HistoricalValues(events, entity, comparison, period) ==
  <<HistoricalValue(events, entity, comparison, period),
    HistoricalValue(events, entity, comparison, PreviousPeriod(comparison, period))>>
YearToDate(events, entity, to) ==
  <<RangeValue(events, entity, YearStart(to), to),
    RangeValue(events, entity, YearStart(YearBefore(to)), YearBefore(to))>>

\* ----------------------------------------------------------------- the rows
Known(values) == Missing \notin {values[1], values[2]}
PercentStatus(values, unavailable) ==
  IF ~Known(values) THEN unavailable ELSE IF values[2] = 0 THEN "ZERO_BASE" ELSE "EVALUABLE"
Worst(statuses) ==
  LET order == <<"NO_COMPATIBLE_SNAPSHOT", "PRE_LAUNCH", "INCOMPATIBLE_CUTOFF", "MISSING_PERIOD",
                 "ZERO_BASE", "EVALUABLE">>
  IN order[Min({i \in DOMAIN order : order[i] \in statuses})]

\* The last period of the row is the one a model must have been sold by; "hidden" keeps what the
\* row of a model sold only later does not show.
RowFor(sales, entity, comparison, period, last, cidefValues, benchmarkValues, otherwise) ==
  LET preLaunch == entity[1] = "MODEL" /\ last < FirstObserved(sales, entity)
      unavailable == IF preLaunch THEN "PRE_LAUNCH" ELSE otherwise
      cidef == IF preLaunch THEN <<Missing, Missing>> ELSE cidefValues
      benchmark == IF preLaunch THEN <<Missing, Missing>> ELSE benchmarkValues
  IN [comparison |-> comparison, period |-> period, last |-> last, entity |-> entity,
      cidef |-> cidef, benchmark |-> benchmark, hidden |-> IF preLaunch THEN cidefValues ELSE <<0, 0>>,
      status |-> IF Known(cidef) /\ Known(benchmark) THEN "EVALUABLE" ELSE unavailable,
      differential |-> Worst({PercentStatus(cidef, unavailable), PercentStatus(benchmark, unavailable)}),
      movement |-> IF Known(cidef) /\ Known(benchmark)
                   THEN [market |-> SignOf(benchmark[1] - benchmark[2]),
                         cidef |-> SignOf(cidef[1] - cidef[2])]
                   ELSE Missing]

HistoricalRows(sales, market, q) ==
  UNION {
    CASE c = "YTD_YOY" ->
           {RowFor(sales, x, c, q.to \div YearLength, MonthOf(q.to), YearToDate(sales, x, q.to),
                   YearToDate(market, x, q.to), "MISSING_PERIOD") : x \in GrowthEntities(sales, q)}
      [] c = "CALENDAR_YEAR_YOY" ->
           {RowFor(sales, x, c, y, y * YearMonths + YearMonths - 1, HistoricalValues(sales, x, c, y),
                   HistoricalValues(market, x, c, y), "MISSING_PERIOD") :
             x \in GrowthEntities(sales, q), y \in (q.from \div YearLength) .. (q.to \div YearLength)}
      [] OTHER ->
           {RowFor(sales, x, c, m, m, HistoricalValues(sales, x, c, m),
                   HistoricalValues(market, x, c, m), "MISSING_PERIOD") :
             x \in GrowthEntities(sales, q), m \in MonthOf(q.from) .. MonthOf(q.to)} :
    c \in q.comparisons}

\* The month to date ends on the last day everything was seen.
EffectiveCutoff(preliminary, q) ==
  Min({q.cutoff, VentasCutoff(q)}
        \cup (IF preliminary = {} THEN {} ELSE {Max({e.date : e \in preliminary})}))
CurrentMtdRows(sales, market, preliminary, q) ==
  LET to == EffectiveCutoff(preliminary, q)
      month == CommercialMonth(to)
  IN {RowFor(sales, x, "CURRENT_MTD", MonthOf(to), month,
             <<RangeValue(sales, x, CommercialStart(month), to),
               RangeValue(sales, x, CommercialStart(month - YearMonths), YearBefore(to))>>,
             <<RangeValue(preliminary, x, MonthStart(to), to),
               RangeValue(market, x, MonthStart(YearBefore(to)), YearBefore(to))>>,
             "MISSING_PERIOD") : x \in GrowthEntities(sales, q)}
UnevaluableMtdRows(sales, q, status) ==
  {RowFor(sales, x, "CURRENT_MTD", MonthOf(q.cutoff), MonthOf(q.cutoff), <<Missing, Missing>>,
          <<Missing, Missing>>, status) : x \in GrowthEntities(sales, q)}

\* The register as the history and, where a snapshot was selected, the month to date found it.
GrowthSales(q) == SalesEvents(VentasSourceStart(q), VentasCutoff(q))
GrowthMarket(rows, q) ==
  MarketSeries(rows, HistoricalSourceStart(q), ConsolidatedEnd(q), "CONSOLIDATED", Missing)
MtdRows(rows, currentRows, snapshot, q) ==
  LET sales == GrowthSales(q)
      preliminary == MarketSeries(currentRows, MonthStart(q.cutoff), q.cutoff, "PRELIMINARY", snapshot)
  IN IF snapshot = Missing THEN UnevaluableMtdRows(sales, q, "NO_COMPATIBLE_SNAPSHOT")
     ELSE IF EffectiveCutoff(preliminary, q) < MonthStart(q.cutoff)
          THEN UnevaluableMtdRows(sales, q, "INCOMPATIBLE_CUTOFF")
     ELSE CurrentMtdRows(sales, GrowthMarket(rows, q), preliminary, q)
=============================================================================
