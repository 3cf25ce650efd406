---------------------------- MODULE MarketReports ----------------------------
(***************************************************************************)
(* Competitive reports drawn from the vehicle register while it is being   *)
(* imported.  A report of shares takes two queries, the context of the     *)
(* whole period and the months (buildCompetitiveTrajectory); a transfer    *)
(* over history takes one; one of a month to date asks which preliminary   *)
(* snapshots there are and then, in two queries sent together, for the     *)
(* rows of the one selected and for those of the year before               *)
(* (buildCompetitiveShareTransfer); growth asks for the history and then,  *)
(* if it wants the month to date, for the snapshots and the rows           *)
(* (buildCompetitiveGrowthMatrix).  Nothing holds the register still       *)
(* between them.                                                           *)
(*                                                                         *)
(* A behaviour asks for one report.  What a report says is a function of   *)
(* what its queries found.                                                 *)
(***************************************************************************)
EXTENDS RvmImport, MarketGrowth

CONSTANTS
  RegistrationsOf,   \* the registrations in each row (or batch) of each document
  LoadedFirst,       \* for each scenario, the sets of documents it may start with
  ReportsIn          \* for each scenario, the reports that may be asked for

VARIABLES
  asked,   \* the report asked for; of kind NONE before and ENDED after
  read     \* what each query answered so far found: the register and where the imports were

reportVars == <<asked, read>>
marketVars == <<final, stage, active, statement, todo, sent, before, alone, asked, read>>

\* ---------------------------------------------------------------- the register
Register(rows) ==
  UNION {{[id |-> <<x, g.id>>, date |-> g.date, universe |-> g.universe, brand |-> g.brand,
           model |-> g.model, version |-> g.version, units |-> g.units, dataStatus |-> x.status,
           snapshot |-> IF x.status = "PRELIMINARY" THEN SnapshotDate[x.doc] ELSE Missing] :
            g \in RegistrationsOf[x.src][x.row]} : x \in rows}

MarketInit ==
  /\ RequestsAtRest
  /\ \E docs \in LoadedFirst[active] : final = FiledWhole(docs)
  /\ asked = [kind |-> "NONE"] /\ read = <<>>

\* ------------------------------------------------------------------ the reports
\* A report of shares: [kind, targets, from, to, origin, minEvaluable]; transfers, growth: the request.
NoMore == [kind |-> "ENDED"]
Asking == asked.kind \notin {"NONE", "ENDED"}
Accepted(q) ==
  CASE q.kind = "SHARES" -> q.from <= q.to /\ q.targets \cap Portfolio # {}
    [] q.kind = "GROWTH" -> AcceptsGrowth(q)
    [] OTHER -> AcceptsTransfer(q)

Queries(q) ==
  CASE q.kind = "SHARES" -> {"context", "monthly"}
    [] q.kind = "GROWTH" -> {"history"} \cup (IF q.cutoff = Missing THEN {} ELSE {"inventory", "current"})
    [] q.mode = "HISTORICAL" -> {"history"}
    [] OTHER -> {"inventory", "current", "comparison"}
After(name) ==
  CASE name = "monthly" -> {"context"}
    [] name \in {"current", "comparison"} -> {"inventory"}
    [] name = "inventory" /\ asked.kind = "GROWTH" -> {"history"}
    [] OTHER -> {}

Inventory(rows) ==
  SnapshotInventory(Register(rows), MonthStart(asked.cutoff), asked.cutoff)
Selected == SelectedSnapshot(Inventory(read["inventory"].rows), MonthStart(asked.cutoff), asked.cutoff)
Unselected == "inventory" \in DOMAIN read /\ Selected = Missing

Ask(q) ==
  /\ asked.kind = "NONE" /\ Accepted(q)
  /\ asked' = q
  /\ UNCHANGED <<read, rvmVars>>

\* A query is answered with the register as it is; without a snapshot to use a transfer ends there
\* and a report of growth asks no more.
Find(name) ==
  /\ Asking /\ name \in Queries(asked) \ DOMAIN read /\ After(name) \subseteq DOMAIN read
  /\ ~Unselected
  /\ IF name = "inventory" /\ asked.kind = "TRANSFER"
        /\ SelectedSnapshot(Inventory(final), MonthStart(asked.cutoff), asked.cutoff) = Missing
     THEN asked' = NoMore /\ read' = <<>>
     ELSE read' = (name :> [rows |-> final, at |-> statement]) @@ read /\ UNCHANGED asked
  /\ UNCHANGED rvmVars

\* A query fails and the report with it, or the report is complete and delivered.
End ==
  /\ Asking
  /\ asked' = NoMore /\ read' = <<>>
  /\ UNCHANGED rvmVars

Import == RvmNext /\ UNCHANGED reportVars

MarketNext ==
  \/ Import
  \/ \E q \in ReportsIn[active] : Ask(q)
  \/ \E name \in {"context", "monthly", "history", "inventory", "current", "comparison"} : Find(name)
  \/ End

MarketSpec == MarketInit /\ [][MarketNext]_marketVars
----------------------------------------------------------------------------

Complete ==
  Asking /\ DOMAIN read = Queries(asked) \ (IF Unselected THEN {"current"} ELSE {})
Drawn(kind) == Complete /\ asked.kind = kind

Context == CompetitiveContext(Register(read["context"].rows), asked)
Monthly == MonthlyShares(Register(read["monthly"].rows), asked)
Unmoved == read["context"].rows = read["monthly"].rows

\* The query of the months sends no two rows of one entity and month.
OneRowEach(u) ==
  \A m \in MonthsOfScope(asked) :
    LET inside == {e \in Events(Register(read["monthly"].rows), asked.from, asked.to) :
                     e.universe = u /\ MonthOf(e.date) = m}
        cells == Cells(inside, Monthly[u].targets)
    IN \A c \in cells, d \in cells : c.entity = d.entity => c = d

\* With nothing written between its queries, a report of shares counts in its months the units of
\* the whole period, those of a target being the ones registered as CIDEF's, under any origin.
MonthsAddUp ==
  Drawn("SHARES") /\ Unmoved =>
    \A u \in DOMAIN Monthly :
      LET shares == Monthly[u]
      IN OneRowEach(u) =>
           /\ MapThenSumSet(LAMBDA m : shares.total[m], shares.months) = Context.universes[u].total
           /\ \A t \in shares.targets \ MissingTargets(shares) :
                Trend(shares, TargetEntity(t)).units =
                  UnitsOf({e \in TargetEvents(Events(Register(read["monthly"].rows),
                                                     asked.from, asked.to), asked) :
                             e.model = t /\ e.universe = u})

\* Where one entity gains share another loses it.
GainsAreLosses ==
  Drawn("SHARES") =>
    \A u \in DOMAIN Monthly : LET shares == Monthly[u] IN
      \A m \in shares.months \ {Min(shares.months)} :
        shares.total[m - 1] > 0 /\ shares.total[m] > 0 =>
          ((\E e \in shares.entities : Moved(shares, e, m) > 0) <=>
             \E e \in shares.entities : Moved(shares, e, m) < 0)

\* Crossings stay within a span of months of both, and in each span they are as many as it takes
\* to lead from who was above first to who was above last; every month in which the gap moved is in
\* one run, and a run ends on the side its direction says.
PairsReconcile ==
  Drawn("SHARES") =>
    \A u \in DOMAIN Monthly : \A pair \in Pairs(Monthly[u]) :
      LET shares == Monthly[u]
          evidence == Evidence(shares, pair)
          spans == {p \in ActiveSpans(shares, {pair.target, pair.peer}) :
                      \A m \in p[1] .. p[2] : evidence[m].known}
          Within(span) == {c \in Crossings(evidence) : span[1] <= c[1] /\ c[2] <= span[2]}
          Apart(span) == {m \in span[1] .. span[2] : Above(evidence, m) # 0}
          moving == {m \in shares.months : Direction(evidence, m) # "NONE"}
          runs == GapRuns(evidence, "CONVERGING") \cup GapRuns(evidence, "DIVERGING")
      IN /\ \A c \in Crossings(evidence) : \E p \in ActiveSpans(shares, {pair.target, pair.peer}) :
              p[1] <= c[1] /\ c[2] <= p[2]
         /\ \A p \in spans : Apart(p) # {} =>
              ((Cardinality(Within(p)) % 2 = 1) <=>
                 Above(evidence, Min(Apart(p))) # Above(evidence, Max(Apart(p))))
         /\ \A m \in moving : Cardinality({r \in runs : r[1] < m /\ m <= r[2]}) = 1
         /\ \A r \in GapRuns(evidence, "CONVERGING") :
              Less(Gap(evidence, r[2]), Gap(evidence, r[1]))

\* A pair that competes has crossed, so some move of its shares can be evaluated and its rate is
\* never missing; and the pages of the movements list each of them once.
RelationsAreRated ==
  Drawn("SHARES") =>
    \A u \in DOMAIN Monthly :
      LET listed == Movements(Monthly[u], asked.minEvaluable)
          starts == {o \in 0 .. Len(listed) : o % 2 = 0}
          Page(o) == PageOf(listed, o, 2)
      IN /\ \A pair \in Relations(Monthly[u]) : PairMovement(Monthly[u], pair).evaluable > 0
         /\ FlattenSeq([i \in 1 .. Cardinality(starts) |-> Page(2 * (i - 1)).rows]) = listed
         /\ \A o \in starts : Page(o).next \in starts \cup {Missing}

\* ----------------------------------------------------------- the transfers
History == HistoricalTransfer(Register(read["history"].rows), asked)
ToDate == MonthToDate(Register(read["current"].rows), Register(read["comparison"].rows), asked, Selected)
Report == IF asked.mode = "HISTORICAL" THEN History ELSE ToDate

\* Nobody is counted twice, and if everyone in the scope is the subject or a peer then a subject
\* that gains share has somebody listed who loses it.
TransfersReconcile ==
  Drawn("TRANSFER") =>
    LET report == Report
        data == report.data
        everyone == data.subject \cup UNION {data.peers[k] : k \in DOMAIN data.peers}
        Gained(p) == ShareChange(data.subject, data.scoped, p, asked.basis)
    IN /\ UnitsOf(data.subject) + MapThenSumSet(LAMBDA k : UnitsOf(data.peers[k]), DOMAIN data.peers)
            = UnitsOf(everyone)
       /\ everyone = data.scoped =>
            \A p \in report.periods : Gained(p) # Missing =>
              /\ Gained(p)[1] > 0 => report.losing # <<>>
              /\ Gained(p)[1] < 0 => report.gaining # <<>>

\* The months asked for are all that the periods and their comparisons need: over the whole
\* consolidated register the subject's share changes by as much, and the twelve months that end a
\* year compare as that year does.
HistoryIsEnough ==
  Drawn("TRANSFER") /\ asked.mode = "HISTORICAL" /\ asked.scope # "MODEL_COMPARABLE_SET" =>
    LET data == History.data
        rows == Register(read["history"].rows)
        all == Dataset(RvmUniverse(rows, 0, Max({0} \cup {r.date : r \in rows}), "CONSOLIDATED", Missing),
                       asked)
        Change(d, p, basis) == ShareChange(d.subject, d.scoped, p, basis)
        Equal(a, b) == a = b \/ (a # Missing /\ b # Missing /\ Same(a, b))
    IN \A p \in History.periods :
         /\ Equal(Change(data, p, asked.basis), Change(all, p, asked.basis))
         /\ asked.basis = "ROLLING_12" /\ p % YearMonths = YearMonths - 1 =>
              Equal(Change(data, p, "ROLLING_12"), Change(all, p \div YearMonths, "CALENDAR_YEAR_YOY"))

\* No preliminary load was under way, or had failed or stopped, while the month was read.
NoLoading ==
  LET Loading(name) == {r \in active \cap Months : read[name].at[r] \notin {"idle", "done"}}
  IN /\ Loading("inventory") = {} /\ Loading("current") = {}
     /\ read["inventory"].at = read["current"].at
\* The units are those of one whole file of this cutoff.
OfOneFile(units) ==
  \E f \in DOMAIN BatchesOf :
    SnapshotDate[f] = asked.cutoff /\ units = UnitsOf(UNION {RegistrationsOf[f][i] : i \in 1 .. BatchesOf[f]})

\* A month to date drawn while no preliminary load is under way, none having failed or stopped,
\* counts the whole of one file, its comparison ending on the same day of the month.
MonthToDateIsWhole ==
  Drawn("TRANSFER") /\ asked.mode = "CURRENT_MTD" =>
    LET current == RvmUniverse(Register(read["current"].rows), MonthStart(asked.cutoff), asked.cutoff,
                               "PRELIMINARY", Selected)
        compared == Report.data.scoped \ current
    IN /\ NoLoading => OfOneFile(UnitsOf(current))
       /\ \A e \in compared : e.date - MonthStart(e.date) <= asked.cutoff - MonthStart(asked.cutoff)

\* ------------------------------------------------------------------ growth
Sales == GrowthSales(asked)
Market == GrowthMarket(Register(read["history"].rows), asked)
ThisMonth ==
  IF asked.cutoff = Missing THEN {}
  ELSE MtdRows(Register(read["history"].rows),
               IF Unselected THEN {} ELSE Register(read["current"].rows), Selected, asked)

\* The days read are enough: a value given is the one all sales and all consolidated registrations
\* give.  What a model is not evaluated for because it had not been sold hides no sale.
SourcesAreEnough(rows) ==
  LET dates == {s.date : s \in CompanySales} \cup {r.date : r \in Register(read["history"].rows)}
      sales == SalesEvents(Min({0} \cup dates), Max({0} \cup dates))
      market == MarketSeries(Register(read["history"].rows), Min({0} \cup dates), Max({0} \cup dates),
                             "CONSOLIDATED", Missing)
      Wholly(events, row) ==
        IF row.comparison = "YTD_YOY" THEN YearToDate(events, row.entity, asked.to)
        ELSE HistoricalValues(events, row.entity, row.comparison, row.period)
      Given(values, whole) == \A i \in 1..2 : values[i] \in {Missing, whole[i]}
  IN \A row \in rows : /\ Given(row.cidef, Wholly(sales, row))
                       /\ Given(row.benchmark, Wholly(market, row))
                       /\ row.hidden[1] \in {0, Missing} /\ row.hidden[2] \in {0, Missing}

\* Of one period and comparison, the models of a brand are within it, and the brands and the
\* Chinese market within the market, in both measures and whether or not each has been read.
PartsAreWithin(rows) ==
  LET Value(row, side, i) == IF row[side][i] = Missing THEN 0 ELSE row[side][i]
      Parent(x) == IF x[1] = "MODEL" THEN <<"BRAND", x[2], Missing>>
                   ELSE <<"TOTAL_MARKET", Missing, Missing>>
  IN \A whole \in rows : \A scope \in {"MODEL", "BRAND", "CHINESE_MARKET"} :
       LET parts == {r \in rows : /\ r.entity[1] = scope /\ Parent(r.entity) = whole.entity
                                 /\ r.comparison = whole.comparison /\ r.period = whole.period}
       IN \A side \in {"cidef", "benchmark"}, i \in 1..2 :
            MapThenSumSet(LAMBDA r : Value(r, side, i), parts) <= Value(whole, side, i)

\* The twelve months that end a year count the registrations of that year; the sales among them
\* differ by those of the first days of January, which belong to the month before.
YearEndsAgree(rows) ==
  LET On(day, entity) == Cardinality({e \in OfEntity(Sales, entity) : e.date = day})
  IN \A y \in rows, m \in rows :
       /\ y.comparison = "CALENDAR_YEAR_YOY" /\ m.comparison = "ROLLING_12_YOY"
       /\ y.entity = m.entity /\ m.period = y.last /\ y.status # "PRE_LAUNCH"
       => /\ y.benchmark = m.benchmark
          /\ \A i \in 1..2 : LET start == (y.period + 1 - i) * YearLength IN
               Missing \notin {y.cidef[i], m.cidef[i]} =>
                 m.cidef[i] = y.cidef[i] + On(start + YearLength, y.entity) - On(start, y.entity)

GrowthReconciles ==
  Drawn("GROWTH") =>
    LET rows == HistoricalRows(Sales, Market, asked)
        total == {r \in ThisMonth : r.entity[1] = "TOTAL_MARKET"}
    IN /\ SourcesAreEnough(rows) /\ PartsAreWithin(rows \cup ThisMonth) /\ YearEndsAgree(rows)
       /\ asked.cutoff # Missing /\ ~Unselected /\ NoLoading =>
            \A r \in total : OfOneFile(r.benchmark[1])

\* What competitive reports say when they are delivered adds up: months, pairs, movements,
\* transfers and growth.
ReportsReconcile ==
  [][Complete /\ asked'.kind = "ENDED" =>
       /\ MonthsAddUp /\ GainsAreLosses /\ PairsReconcile /\ RelationsAreRated
       /\ TransfersReconcile /\ HistoryIsEnough /\ MonthToDateIsWhole /\ GrowthReconciles]_marketVars
=============================================================================
