------------------------- MODULE SalesDeterioration -------------------------
(***************************************************************************)
(* When the sales of a store or a seller get worse, and what a month was   *)
(* expected to sell (src/lib/deterioration, observation-semantics,         *)
(* expectation).  A month is judged by the rows known when it closed,      *)
(* against a baseline of the rows known when the month before closed.  A   *)
(* month in which a unit sold nothing is unknown, unless a sales note shows *)
(* that the store was open.                                                *)
(*                                                                         *)
(* A series is unit -> month -> units sold; a snapshot set, one series for *)
(* each monthly cutoff.  Quotients are those of SalesForecast.             *)
(***************************************************************************)
EXTENDS SalesForecast

CONSTANTS YearLength,         \* the months of a year: 12
          ErrorHistory,       \* the errors a deviation needs behind it: 3
          StatusWindow,       \* the months of the certified baseline: 12
          Expectations        \* the candidates to expect a month, by name

ASSUME SeriesAssumption ==
  /\ {YearLength, ErrorHistory, StatusWindow} \subseteq Nat \ {0}

-----------------------------------------------------------------------------
(* The series.                                                             *)

StatusOf(placed, grain) == IF grain = "tienda" THEN placed.store.status ELSE placed.seller.status
UnitOf(placed, grain) == IF grain = "tienda" THEN placed.store.store ELSE placed.seller.person

AtClose(month) == [type |-> "month", value |-> month]
SeriesAt(rows, masters, grain, cutoff) ==
  LET known == {p \in {Placed(s, masters) : s \in VentasContext(rows, AtClose(cutoff)).sales} :
                  StatusOf(p, grain) = "RESUELTA"}
  IN [u \in {UnitOf(p, grain) : p \in known} |->
        CountBy({p \in known : UnitOf(p, grain) = u}, LAMBDA p : p.month)]

\* Snapshots start the month before the first one with sales, as the last cutoff sees it.
FirstDataMonth(rows, months) ==
  LET monthly == VentasContext(rows, AtClose(months.end)).monthly
  IN IF DOMAIN monthly = {} THEN months.start ELSE Min(DOMAIN monthly)
CutoffSnapshots(rows, masters, grain, months) ==
  [c \in FirstDataMonth(rows, months) - 1 .. months.end |-> SeriesAt(rows, masters, grain, c)]

\* A sales note counts for the only store its branch is an alias of, in its calendar month.
NoteMonths(notes) ==
  UNION {{<<s, CalendarMonth(n.date)>> : s \in n.stores} :
           n \in {x \in notes : Cardinality(x.stores) = 1 /\ Dated(x)}}

Seen(snapshots) == UNION {DOMAIN snapshots[c] : c \in DOMAIN snapshots}
MonthsOf(series, unit) == IF unit \in DOMAIN series THEN series[unit] ELSE <<>>

ActiveMonths(noted, unit, cutoff) == {n[2] : n \in {k \in noted : k[1] = unit /\ k[2] <= cutoff}}

\* A noted month without sales is a zero; only units that sold once have any.
WithActiveZeros(snapshots, noted) ==
  [c \in DOMAIN snapshots |->
     [u \in DOMAIN snapshots[c] \cup {n[1] : n \in {k \in noted : k[1] \in Seen(snapshots)}} |->
        [m \in DOMAIN MonthsOf(snapshots[c], u) \cup ActiveMonths(noted, u, c) |->
           At(MonthsOf(snapshots[c], u), m)]]]

\* From its first month on, a unit without sales sold zero.
ZeroFilled(index, last) ==
  IF DOMAIN index = {} THEN <<>> ELSE [m \in Min(DOMAIN index) .. last |-> At(index, m)]

-----------------------------------------------------------------------------
(* What a month was expected to sell.                                      *)

Behind(month, from, count) == {month - from - k : k \in 0 .. count - 1}
SumAt(index, months) == MapThenSumSet(LAMBDA m : index[m], months)

BaselineValue(baseline, index, month) ==
  LET lastYear == {month - YearLength}
      recent == Behind(month, 1, baseline.window)
      before == Behind(month - YearLength, 1, baseline.window)
      Known(months) == months \subseteq DOMAIN index
  IN CASE baseline.kind = "last_year" /\ Known(lastYear) -> <<index[month - YearLength], 1>>
       [] baseline.kind = "adjusted_last_year" /\ Known(lastYear \cup recent \cup before)
            /\ SumAt(index, before) # 0
            -> <<index[month - YearLength] * SumAt(index, recent), SumAt(index, before)>>
       [] baseline.kind = "moving_average" /\ Known(recent)
            -> <<SumAt(index, recent), baseline.window>>
       [] baseline.kind = "median" /\ Known(recent) -> Median(recent, LAMBDA m : <<index[m], 1>>)
       [] OTHER -> None

LastYear == [kind |-> "last_year", window |-> 1]
MovingAverage(window) == [kind |-> "moving_average", window |-> window]

\* expected_monthly_candidates_v01: the month after a cutoff.
ExpectedAfter(context, cutoff) ==
  [b \in Expectations |-> BaselineValue(b, context.monthly, cutoff + 1)]

\* expected_monthly_backtest_v01: the months that every candidate can expect.
ExpectedRows(monthly) ==
  {[month |-> m, actual |-> monthly[m],
    expected |-> [b \in Expectations |-> BaselineValue(b, monthly, m)]] :
     m \in {k \in DOMAIN monthly : \A b \in Expectations : BaselineValue(b, monthly, k) # None}}

Plus(p, q) == <<p[1] * q[2] + q[1] * p[2], p[2] * q[2]>>
AddUp(rows, Of(_)) == MapThenFoldSet(Plus, <<0, 1>>, Of, LAMBDA s : CHOOSE x \in s : TRUE, rows)
Missed(row, b) == <<row.expected[b][1] - row.actual * row.expected[b][2], row.expected[b][2]>>
Absolute(p) == <<Distance(0, p[1]), p[2]>>

\* All candidates are tried on the same months, so WAPE and MAE order them alike.
Metrics(rows, b) ==
  [error |-> AddUp(rows, LAMBDA r : Absolute(Missed(r, b))),
   bias |-> Absolute(AddUp(rows, LAMBDA r : Missed(r, b)))]
Winners(rows) ==
  LET Better(a, b) == \/ Less(Metrics(rows, a).error, Metrics(rows, b).error)
                      \/ /\ Same(Metrics(rows, a).error, Metrics(rows, b).error)
                         /\ Less(Metrics(rows, a).bias, Metrics(rows, b).bias)
  IN {b \in Expectations : \A a \in Expectations : ~Better(a, b)}

\* expected_monthly_stability_v01: the same by year, and from a year on.
Year(month) == month \div YearLength
YearsOf(rows) == {Year(r.month) : r \in rows}
InYear(rows, year) == {r \in rows : Year(r.month) = year}
Rolling(rows, year) == {r \in rows : Year(r.month) >= year}

-----------------------------------------------------------------------------
(* The rows of a backtest, and how far each month was from its baseline.   *)

BacktestRow(snapshots, unit, month, baseline, index) ==
  LET value == BaselineValue(baseline, index, month)
      sales == At(MonthsOf(snapshots[month], unit), month)
  IN [unit |-> unit, month |-> month, baseline |-> baseline, sales |-> sales, value |-> value,
      error |-> <<sales * value[2] - value[1], value[2]>>]

\* The present semantics: an unknown month has no row.
SparseRows(snapshots, first, end, baselines) ==
  LET SoldIn(m) == {u \in Seen(snapshots) : m \in DOMAIN MonthsOf(snapshots[m], u)}
  IN {r \in UNION {{BacktestRow(snapshots, u, m, b, MonthsOf(snapshots[m - 1], u)) :
                      u \in SoldIn(m), b \in baselines} : m \in first .. end} :
        r.value # None}

\* The former one: after its first month, a unit without sales sold zero.
DenseRows(snapshots, first, end, baselines) ==
  {r \in {BacktestRow(snapshots, u, m, b, ZeroFilled(MonthsOf(snapshots[m - 1], u), m - 1)) :
            u \in Seen(snapshots), m \in first .. end, b \in baselines} :
     r.value # None}

Mine(rows, r) == {p \in rows : p.unit = r.unit /\ p.baseline = r.baseline}
Prior(rows, r) == {p \in Mine(rows, r) : p.month < r.month}
Error(r) == r.error
Spread(prior) ==
  LET center == Median(prior, Error)
  IN Median(prior, LAMBDA p : <<Distance(p.error[1] * center[2], center[1] * p.error[2]),
                                p.error[2] * center[2]>>)

CanJudge(rows, r, method) ==
  CASE method = "relative" -> r.value[1] > 0
    [] method = "scaled_mad" -> /\ Cardinality(Prior(rows, r)) >= ErrorHistory
                                /\ Spread(Prior(rows, r))[1] > 0
    [] method = "historical_percentile" -> Cardinality(Prior(rows, r)) >= ErrorHistory

\* Half of the errors that are the same count as below.
UnderMedian(rows, r) ==
  LET prior == Prior(rows, r)
  IN 2 * Cardinality({p \in prior : Less(p.error, r.error)})
       + Cardinality({p \in prior : Same(p.error, r.error)}) < Cardinality(prior)

Adverse(rows, r, method) ==
  /\ CanJudge(rows, r, method)
  /\ IF method = "historical_percentile" THEN UnderMedian(rows, r) ELSE r.error[1] < 0

-----------------------------------------------------------------------------
(* When it persists.                                                       *)

Deepening(size) == [kind |-> "deepening", need |-> size, size |-> size]

\* The months a rule rests on when it holds at a row, or none.
Evidence(rows, r, method, rule) ==
  LET window == {p \in Mine(rows, r) : r.month - rule.size < p.month /\ p.month <= r.month}
      hits == {p \in window : Adverse(rows, p, method)}
      holds == CASE rule.kind = "consecutive" -> hits = window
                 [] rule.kind = "frequency" -> Cardinality(hits) >= rule.need /\ r \in hits
                 [] rule.kind = "deepening"
                      -> /\ hits = window
                         /\ \A p, q \in window : p.month < q.month => Less(q.error, p.error)
  IN IF Cardinality(window) = rule.size /\ holds THEN {p.month : p \in hits} ELSE {}

Unbroken(rows, unit, baseline, method, from, to) ==
  \A m \in from .. to : \E p \in rows : /\ p.unit = unit /\ p.baseline = baseline /\ p.month = m
                                        /\ Adverse(rows, p, method)

\* What followed, if it is known.
Followed(rows, r, count) ==
  LET later == {p \in Mine(rows, r) : r.month < p.month /\ p.month <= r.month + count}
  IN IF Cardinality(later) < count THEN "unknown"
     ELSE IF \A p \in later : p.error[1] < 0 THEN "persisted" ELSE "reverted"

\* An episode is confirmed once; another needs a month that is not adverse, or unknown, between.
Confirms(rows, r, candidate) ==
  /\ Evidence(rows, r, candidate.method, candidate.rule) # {}
  /\ \A p \in Prior(rows, r) :
       Evidence(rows, p, candidate.method, candidate.rule) # {} =>
         ~Unbroken(rows, r.unit, r.baseline, candidate.method, p.month, r.month)

Episode(rows, r, candidate) ==
  LET months == Evidence(rows, r, candidate.method, candidate.rule)
  IN [unit |-> r.unit, onset |-> Min(months), confirmation |-> r.month, evidence |-> months]
Episodes(rows, candidate, months) ==
  {Episode(rows, r, candidate) :
     r \in {p \in rows : /\ p.baseline = candidate.baseline
                         /\ months.start <= p.month /\ p.month <= months.end
                         /\ Confirms(rows, p, candidate)}}

\* The rows shown before the onset: contiguous, and no more than asked for.
ContextBefore(rows, episode, baseline, limit) ==
  LET RowsAt(m) == {p \in rows : p.unit = episode.unit /\ p.baseline = baseline /\ p.month = m}
  IN UNION {RowsAt(m) : m \in {k \in episode.onset - limit .. episode.onset - 1 :
                                 \A j \in k .. episode.onset - 1 : RowsAt(j) # {}}}

\* ------------------------------------- org_sales_deterioration_backtest_v01
Runtime(rows, masters, notes, grain, months, baselines) ==
  LET plain == CutoffSnapshots(rows, masters, grain, months)
      snapshots == IF grain = "tienda" THEN WithActiveZeros(plain, NoteMonths(notes)) ELSE plain
      first == FirstDataMonth(rows, months)
  IN [first |-> first, plain |-> plain, snapshots |-> snapshots,
      rows |-> SparseRows(snapshots, first, months.end, baselines)]

UnitSummary(runtime, candidate, months, unit) ==
  LET mine == {r \in runtime.rows : /\ r.unit = unit /\ r.baseline = candidate.baseline
                                    /\ months.start <= r.month /\ r.month <= months.end}
      judged == {r \in mine : CanJudge(runtime.rows, r, candidate.method)}
      episodes == {e \in Episodes(runtime.rows, candidate, months) : e.unit = unit}
  IN [rows |-> Cardinality(mine), judged |-> Cardinality(judged),
      signals |-> {r.month : r \in {s \in mine : Adverse(runtime.rows, s, candidate.method)}},
      confirmed |-> {e.confirmation : e \in episodes}]

\* --------------------------------------- org_sales_deterioration_status_v01
StatusCandidate == [baseline |-> MovingAverage(StatusWindow),
                    method |-> "historical_percentile", rule |-> Deepening(2)]
NoEpisode == [unit |-> NoId, onset |-> -1, confirmation |-> -1, evidence |-> {}]

\* The engine walks the months of a unit and keeps the episode that is active.
ActiveEpisode(rows, unit, first, cutoff) ==
  LET RowsAt(m) == {r \in rows : r.unit = unit /\ r.month = m}
      active[m \in first - 1 .. cutoff] ==
        IF m < first \/ RowsAt(m) = {} THEN NoEpisode
        ELSE LET r == CHOOSE p \in RowsAt(m) : TRUE
                 found == Evidence(rows, r, StatusCandidate.method, StatusCandidate.rule)
             IN IF found # {} /\ active[m - 1] = NoEpisode
                THEN Episode(rows, r, StatusCandidate)
                ELSE IF found = {} /\ ~Adverse(rows, r, StatusCandidate.method) THEN NoEpisode
                ELSE active[m - 1]
  IN active[cutoff]

DeteriorationStatus(rows, masters, notes, cutoff) ==
  LET months == [start |-> cutoff, end |-> cutoff]
      runtime == Runtime(rows, masters, notes, "tienda", months, {StatusCandidate.baseline})
      series == runtime.snapshots[cutoff]
      Of(unit) ==
        LET current == {r \in runtime.rows : r.unit = unit /\ r.month = cutoff}
            episode == ActiveEpisode(runtime.rows, unit, runtime.first, cutoff)
            Unknown(reason) == [status |-> "UNKNOWN", reason |-> reason, episode |-> NoEpisode]
        IN CASE cutoff \notin DOMAIN series[unit] -> Unknown("UNKNOWN_ACTUAL")
             [] cutoff \in DOMAIN series[unit] /\ current = {} -> Unknown("BASELINE_UNAVAILABLE")
             [] \E r \in current : ~CanJudge(runtime.rows, r, StatusCandidate.method)
                  -> Unknown("DEVIATION_UNAVAILABLE")
             [] OTHER -> IF episode = NoEpisode
                         THEN [status |-> "NOT_DETERIORATING", reason |-> "NO_ACTIVE_EPISODE",
                               episode |-> NoEpisode]
                         ELSE [status |-> "DETERIORATING", reason |-> "ACTIVE_EPISODE",
                               episode |-> episode]
  IN [u \in DOMAIN series |-> Of(u)]

\* ---------------------------------- org_sales_observation_semantics_audit_v01
\* What the present semantics changes with respect to the former one.
AuditedCandidate == [baseline |-> LastYear, method |-> "relative", rule |-> Deepening(2)]
ObservationAudit(rows, masters, notes, months) ==
  LET runtime == Runtime(rows, masters, notes, "tienda", months, {LastYear})
      former == DenseRows(runtime.plain, runtime.first, months.end, {LastYear})
      unitMonths == Seen(runtime.plain) \X (months.start .. months.end)
      Snapshot0(set, m) == IF m \in DOMAIN set THEN set[m] ELSE <<>>
      positive == {k \in unitMonths : k[2] \in DOMAIN MonthsOf(Snapshot0(runtime.plain, k[2]), k[1])}
      present == {k \in unitMonths : k[2] \in DOMAIN MonthsOf(Snapshot0(runtime.snapshots, k[2]), k[1])}
  IN [units |-> Seen(runtime.plain), former |-> former, rows |-> runtime.rows,
      plain |-> runtime.plain, snapshots |-> runtime.snapshots,
      formerEpisodes |-> Episodes(former, AuditedCandidate, months),
      episodes |-> Episodes(runtime.rows, AuditedCandidate, months),
      positive |-> positive, activeZero |-> present \ positive, unknown |-> unitMonths \ present,
      zeroDetail |-> {k \in unitMonths : k \notin positive /\ k \in NoteMonths(notes)}]
=============================================================================
