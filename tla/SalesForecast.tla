---------------------------- MODULE SalesForecast ----------------------------
(***************************************************************************)
(* The forecast of the close of a month (src/lib/daily-close-backtest,     *)
(* daily-close-forecast, predictability-day, current-month-forecast,       *)
(* intramonth-sales-history).  The backtest does not recognize sales with  *)
(* the rule of SalesRecognition: it turns the rows into a series of events *)
(* (a sale replaces the previous one of its VIN) and keeps counters day by *)
(* day, which start empty every month.  What share of a month was sold by  *)
(* a day is learned from the closed months before.                         *)
(*                                                                         *)
(* A quotient is a pair <<numerator, denominator>>, the denominator        *)
(* positive; None stands for a value that could not be computed.           *)
(***************************************************************************)
EXTENDS SalesContribution

CONSTANT BacktestStart       \* the first month the live forecast is tried on

None == <<0, 0>>
Less(p, q) == p[1] * q[2] < q[1] * p[2]
Same(p, q) == (p = None <=> q = None) /\ p[1] * q[2] = q[1] * p[2]
Distance(a, b) == IF a < b THEN b - a ELSE a - b

\* The value in place k, from 0, of the values sorted.
Kth(rows, Of(_), k) ==
  CHOOSE v \in {Of(r) : r \in rows} :
    /\ Cardinality({r \in rows : Less(Of(r), v)}) <= k
    /\ k < Cardinality({r \in rows : ~Less(v, Of(r))})

\* Linear between the two values around the position (n - 1) * p.
Percentile(rows, Of(_), p) ==
  LET position == (Cardinality(rows) - 1) * p[1]
      low == Kth(rows, Of, position \div p[2])
      high == Kth(rows, Of, (position \div p[2]) + 1)
      weight == position % p[2]
  IN CASE rows = {} -> None
       [] rows # {} /\ weight = 0 -> low
       [] OTHER -> <<low[1] * high[2] * (p[2] - weight) + high[1] * low[2] * weight,
                     p[2] * low[2] * high[2]>>
Median(rows, Of(_)) == Percentile(rows, Of, <<1, 2>>)

-----------------------------------------------------------------------------
(* The incremental recognition.                                            *)

NoSale == [id |-> 0]
Days == 1 .. MonthLength
DateOf(month, day) == month * MonthLength + day + 1
InMonths(row, months) ==
  Dated(row) /\ DateOf(months.start, 1) <= row.date /\ row.date <= ClosesOn(months.end)

\* One row a day of a VIN, the lowest id; each replaces the one before.
RecognitionEvents(rows, months) ==
  LET inside == {r \in rows : InMonths(r, months)}
      Steps(v) == {LowestId({r \in RowsOf(inside, v) : r.date = d}) :
                     d \in {r.date : r \in RowsOf(inside, v)}}
      Previous(r) == LET earlier == {s \in Steps(r.vin) : s.date < r.date}
                     IN IF earlier = {} THEN NoSale ELSE Last(earlier)
  IN {[previous |-> NoSale, next |-> r] : r \in {s \in inside : s.vin = NoVin}}
       \cup {[previous |-> Previous(r), next |-> r] :
               r \in UNION {Steps(v) : v \in VinsOf(inside)}}

\* The store and the seller of a sale by its own keys, not by vehiculo_canonico.
Placed(sale, masters) ==
  LET event == [sale |-> sale, universe |-> "COMPANY", certifiedStore |-> NoId]
      store == StoreOf(event, masters)
  IN [sale |-> sale, month |-> CommercialMonth(sale.date), store |-> store,
      seller |-> SellerOf(event, store, masters)]
Owned(placed) == placed.store.channel = "CIDEF"
StoreKey(placed) == placed.store.store
SellerKey(placed) == <<placed.store.store, placed.seller.person>>

\* The sales replaced in a month were counted in it only if they were of it.
\* Mutant of Replaced: whatever the month of the sale that is replaced.
ReplacedOfAny(events, month) == {e.previous : e \in {x \in events : x.previous # NoSale}}

Replaced(events, month) ==
  {e.previous : e \in {x \in events : x.previous # NoSale
                                        /\ CommercialMonth(x.previous.date) = month}}

\* The counters of a month after its day: a sale adds one where it is, and
\* takes one from where the sale it replaces was, if that was this month.
Snapshot(events, masters, month, day) ==
  LET mine == {e \in events : CommercialMonth(e.next.date) = month
                                /\ CommercialDay(e.next.date) <= day}
      added == {Placed(e.next, masters) : e \in mine}
      removed == {Placed(s, masters) : s \in Replaced(mine, month)}
      Net(Is(_)) == Cardinality({p \in added : Is(p)}) - Cardinality({p \in removed : Is(p)})
      Counters(Key(_), Is(_)) ==
        [k \in {x \in {Key(p) : p \in {q \in added : Is(q)}} :
                  Net(LAMBDA p : Is(p) /\ Key(p) = x) > 0}
           |-> Net(LAMBDA p : Is(p) /\ Key(p) = k)]
  IN [recognized |-> Net(LAMBDA p : TRUE), cidef |-> Net(Owned),
      unresolved |-> Net(LAMBDA p : p.store.status = "NO_RESUELTA"),
      ambiguous |-> Net(LAMBDA p : p.store.status = "AMBIGUA"),
      stores |-> Counters(StoreKey, Owned),
      sellers |-> Counters(SellerKey, LAMBDA p : Owned(p) /\ p.seller.eligible)]

Snapshots(rows, masters, months) ==
  LET events == RecognitionEvents(rows, months)
  IN [m \in months.start .. months.end |->
        [d \in Days |-> Snapshot(events, masters, m, d)]]

\* What was seen on each day of what the month closed with, by unit; a unit
\* that closed with nothing is not observed.
Observations(snapshots, Units(_)) ==
  UNION {UNION {{[month |-> m, day |-> d, unit |-> u,
                  observed |-> At(Units(snapshots[m][d]), u),
                  actual |-> Units(snapshots[m][MonthLength])[u]] :
                    u \in DOMAIN Units(snapshots[m][MonthLength])} :
                  d \in Days} : m \in DOMAIN snapshots}
Company(snapshot) == [u \in {"CIDEF_PROPIO"} |-> snapshot.cidef]
Stores(snapshot) == snapshot.stores
Sellers(snapshot) == snapshot.sellers

-----------------------------------------------------------------------------
(* What is learned, and how well it would have forecast.                   *)

Completion(o) == <<o.observed, o.actual>>
Labelled(observations, day) == {o \in observations : o.day = day /\ o.actual > 0}

LearnedCompletion(observations, day) == Median(Labelled(observations, day), Completion)
Evaluable(learned) == learned # None /\ learned[1] > 0
Forecast(observed, learned) ==
  IF Evaluable(learned) THEN <<observed * learned[2], learned[1]>> ELSE None

\* Each closed month is forecast from the months strictly before it.
WalkForward(observations, months) ==
  {[month |-> o.month, day |-> o.day, unit |-> o.unit, observed |-> o.observed,
    actual |-> o.actual,
    learned |-> LearnedCompletion({p \in observations : p.month < o.month}, o.day)] :
     o \in {q \in observations : months.start <= q.month /\ q.month <= months.end}}

AbsoluteError(row) ==
  LET close == Forecast(row.observed, row.learned)
  IN <<Distance(close[1], row.actual * close[2]), row.actual * close[2]>>
EvaluableRows(forecasts, day) ==
  {r \in forecasts : r.day = day /\ r.actual > 0 /\ Evaluable(r.learned)}

AtMostPct(value, pct) == 100 * value[1] <= pct * value[2]
Passes(forecasts, day, thresholds) ==
  LET rows == EvaluableRows(forecasts, day)
  IN /\ rows # {}
     /\ AtMostPct(Percentile(rows, AbsoluteError, <<1, 2>>), thresholds.median)
     /\ AtMostPct(Percentile(rows, AbsoluteError, <<9, 10>>), thresholds.p90)

\* The first day that meets both thresholds with every later day that can be evaluated.
DefaultThresholds == [median |-> 20, p90 |-> 40]
NoDayFound == MonthLength + 1
PredictabilityDay(forecasts, thresholds) ==
  Min({NoDayFound} \cup
      {d \in Days : /\ Passes(forecasts, d, thresholds)
                    /\ \A later \in d .. MonthLength :
                         EvaluableRows(forecasts, later) # {} => Passes(forecasts, later, thresholds)})

\* ------------------------------------------ daily_close_backtest_context_v01
FirstMonthThrough(rows, end) ==
  Min({CalendarMonth(r.date) : r \in {s \in rows : Dated(s) /\ CalendarMonth(s.date) <= end}})
HasHistory(rows, end) == \E r \in rows : Dated(r) /\ CalendarMonth(r.date) <= end

BacktestContext(rows, masters, end) ==
  LET months == [start |-> FirstMonthThrough(rows, end), end |-> end]
      snapshots == Snapshots(rows, masters, months)
  IN [months |-> months, snapshots |-> snapshots,
      company |-> Observations(snapshots, Company),
      stores |-> Observations(snapshots, Stores),
      sellers |-> Observations(snapshots, Sellers)]

\* --------------- current_month_close_forecast_v01: the history behind a day
HistoricalState(rows, masters, target, day) ==
  LET context == BacktestContext(rows, masters, target - 1)
      tried == [start |-> BacktestStart, end |-> target - 1]
      Grain(observations) ==
        [learned |-> LearnedCompletion(observations, day),
         training |-> Cardinality(Labelled(observations, day)),
         predictable |-> PredictabilityDay(WalkForward(observations, tried), DefaultThresholds)]
  IN [company |-> Grain(context.company), stores |-> Grain(context.stores)]

\* The stores of the masters, those without sales at zero.
DenseStores(masters, daily) ==
  [s \in {x.store : x \in {y \in masters.stores : y.channel = "CIDEF"}} |->
     At(daily.stores, s)]

DailyOrganization(rows, masters, day) ==
  LET context == VentasContext(rows, [type |-> "date", value |-> day])
  IN DailyStores({Placed(s, masters) : s \in context.sales}, CommercialMonth(day))

LiveForecastAccepts(rows, cutoff, today) ==
  cutoff <= today /\ HasHistory(rows, CommercialMonth(cutoff) - 1)
LiveForecast(rows, masters, cutoff) ==
  LET daily == DailyOrganization(rows, masters, cutoff)
      day == CommercialDay(cutoff)
      history == HistoricalState(rows, masters, CommercialMonth(cutoff), day)
      Line(observed, grain) == [observed |-> observed, close |-> Forecast(observed, grain.learned),
                                predictable |-> grain.predictable <= day]
      dense == DenseStores(masters, daily)
  IN [history |-> history,
      company |-> Line(daily.cidef, history.company),
      stores |-> [s \in DOMAIN dense |-> Line(dense[s], history.stores)]]

\* ------------------------------------------------- daily_close_forecast_v01
\* The same with the calendar: its month and its day of month.  The backtest
\* refuses a month the commercial calendar has not closed.
CalendarDay(day) == ((day - 1) % MonthLength) + 1
DailyCloseAccepts(rows, cutoff, today) ==
  /\ cutoff <= today /\ CalendarMonth(cutoff) = CalendarMonth(today)
  /\ CalendarMonth(cutoff) - 1 < CommercialMonth(today)
  /\ HasHistory(rows, CalendarMonth(cutoff) - 1)
DailyCloseForecast(rows, masters, cutoff) ==
  LET daily == DailyOrganization(rows, masters, cutoff)
      training == BacktestContext(rows, masters, CalendarMonth(cutoff) - 1)
      day == CalendarDay(cutoff)
      Owners == {k \in DOMAIN daily.stores : k \in DOMAIN DenseStores(masters, daily)}
  IN [company |-> Forecast(daily.cidef, LearnedCompletion(training.company, day)),
      stores |-> [s \in Owners |->
                    Forecast(daily.stores[s], LearnedCompletion(training.stores, day))]]

\* ------------------------------------ intramonth_sales_history_context_v01
\* A month still open shows the days gone by and no close.
History(rows, masters, months, today) ==
  LET open == CommercialMonth(today)
      observable == {r \in rows : Dated(r) /\ r.date <= IF months.end = open THEN today
                                                       ELSE ClosesOn(months.end)}
      snapshots == Snapshots(observable, masters, months)
      visible == {p \in (months.start .. months.end) \X Days :
                    p[1] = open => p[2] <= CommercialDay(today)}
  IN [daily |-> [p \in visible |-> snapshots[p[1]][p[2]]],
      companyClose |-> [m \in months.start .. months.end |->
                          IF m < open THEN <<snapshots[m][MonthLength].cidef, 1>> ELSE None]]

\* Months that can be evaluated, and the share of the close reached by a day.
MilestoneRatios(history, open, day) ==
  {[month |-> m, ratio |-> <<history.daily[<<m, day>>].cidef, history.companyClose[m][1]>>] :
     m \in {x \in DOMAIN history.companyClose : x < open /\ history.companyClose[x][1] > 0}}
MilestoneSummary(history, open, day) ==
  LET rows == MilestoneRatios(history, open, day)
  IN [sample |-> Cardinality(rows), median |-> Median(rows, LAMBDA r : r.ratio)]
=============================================================================
