---------------------------- MODULE SalesReports ----------------------------
(***************************************************************************)
(* Reports on sales.  A report loads ventas_raw, vehiculo_canonico, the    *)
(* operational masters and the evidence on SKUs with queries of their own, *)
(* all under way at once (Promise.all), while the importers and editors    *)
(* rewrite those tables; then it computes everything in memory.  Nothing   *)
(* is kept from one report to the next.                                    *)
(***************************************************************************)
EXTENDS SalesAudits, SalesDeterioration

CONSTANTS SalesTables,       \* what an import may leave in ventas_raw
          Canonicals,        \* what a refresh may leave in vehiculo_canonico
          MasterTables,      \* what the editors may leave in the masters
          EvidenceTables,    \* [notes, vehicles] the evidence engine may find
          Aliases, Registered, Skus, Cutoffs, Windows, Thresholds,
          ForecastDays,      \* the days a forecast may be asked for, or on
          Signals,           \* [grain, baseline, method, rule] of a backtest
          NotRead,
          MaxChanges         \* bound: the changes of the tables during a report

ASSUME TablesAssumption ==
  /\ \A t \in SalesTables : /\ IsFiniteSet(t) /\ NoSale \notin t
                             /\ \A r \in t : r.id \in Nat /\ r.date \in Nat
  /\ \A m \in MasterTables : \A x \in m.roles \cup m.assignments :
       x.from \in Int /\ x.to \in Int /\ x.current \in BOOLEAN
  /\ \A c \in Cutoffs : c = NoCutoff \/ (c.type \in {"month", "date"} /\ c.value \in Int)
  /\ ForecastDays \subseteq Int
  /\ NotRead \notin SalesTables /\ NotRead \notin Canonicals /\ NotRead \notin MasterTables

VARIABLES sales, canonical, masters, request, report, changes

vars == <<sales, canonical, masters, request, report, changes>>
NoReport == [kind |-> "none"]
NoRequest == [kind |-> "none"]
Parts == {"rows", "canonical", "masters", "evidence"}

Init ==
  /\ sales \in SalesTables /\ canonical \in Canonicals /\ masters \in MasterTables
  /\ request = NoRequest /\ report = NoReport /\ changes = 0

-----------------------------------------------------------------------------
(* The tables change under the reports.  Whatever they hold is an initial  *)
(* state, so a change matters only while a report is being read.           *)

Changing == /\ request # NoRequest /\ changes < MaxChanges /\ changes' = changes + 1
            /\ UNCHANGED <<request, report>>

\* One import leaves a table that differs from the last in one row.
ImportSales ==
  /\ Changing /\ UNCHANGED <<canonical, masters>>
  /\ sales' \in {t \in SalesTables : Cardinality((t \ sales) \cup (sales \ t)) = 1}
RefreshCanonical ==
  /\ Changing /\ UNCHANGED <<sales, masters>>
  /\ canonical' \in Canonicals \ {canonical}
EditMasters ==
  /\ Changing /\ UNCHANGED <<sales, canonical>>
  /\ masters' \in MasterTables \ {masters}

-----------------------------------------------------------------------------
(* A report.                                                               *)

Idle == request = NoRequest /\ report = NoReport
Deliver == report # NoReport /\ report' = NoReport
           /\ UNCHANGED <<sales, canonical, masters, request, changes>>

Ask(cutoff) ==
  /\ Idle
  /\ request' = [kind |-> "universes", cutoff |-> cutoff, rows |-> NotRead,
                 canonical |-> NotRead, masters |-> NotRead, evidence |-> NotRead]
  /\ UNCHANGED <<sales, canonical, masters, report, changes>>

Read(part, value) ==
  /\ request # NoRequest /\ request[part] = NotRead
  /\ request' = [request EXCEPT ![part] = value]
  /\ UNCHANGED <<sales, canonical, masters, report, changes>>

ReadSales == Read("rows", sales)
ReadCanonical == Read("canonical", canonical)
ReadMasters == Read("masters", masters)
ReadEvidence == Read("evidence", [rows |-> sales, canonical |-> canonical])

\* buildVentasUniverses computes every universe from what was read once (UniversesTold).
Compute ==
  /\ request # NoRequest /\ \A part \in Parts : request[part] # NotRead
  /\ report' = request
  /\ request' = NoRequest /\ changes' = 0 /\ UNCHANGED <<sales, canonical, masters>>

\* The audits of the recognition rule read the rows as they are, without cutoff.
Audit(window, found) ==
  /\ Idle
  /\ report' = [kind |-> "audits", window |-> window, rows |-> sales,
                notes |-> found.notes, vehicles |-> found.vehicles]
  /\ UNCHANGED <<sales, canonical, masters, request, changes>>

\* The forecasts read the rows and the masters.  Any two readings are a state
\* the tables may be in together, so one step reads both.
ForecastClose(cutoff, today) ==
  /\ Idle /\ LiveForecastAccepts(sales, cutoff, today)
  /\ report' = [kind |-> "forecast", cutoff |-> cutoff, today |-> today,
                rows |-> sales, masters |-> masters]
  /\ UNCHANGED <<sales, canonical, masters, request, changes>>

\* So do the engines of deterioration, which also read the sales notes.
DetectDeterioration(months, found) ==
  /\ Idle
  /\ report' = [kind |-> "signals", months |-> months, rows |-> sales, masters |-> masters,
                notes |-> found.notes]
  /\ UNCHANGED <<sales, canonical, masters, request, changes>>

Next ==
  \/ ImportSales \/ RefreshCanonical \/ EditMasters
  \/ \E cutoff \in Cutoffs : Ask(cutoff)
  \/ ReadSales \/ ReadCanonical \/ ReadMasters \/ ReadEvidence \/ Compute \/ Deliver
  \/ \E window \in Windows, found \in EvidenceTables :
       Audit(window, found) \/ DetectDeterioration(window, found)
  \/ \E cutoff, today \in ForecastDays : ForecastClose(cutoff, today)

Spec == Init /\ [][Next]_vars

-----------------------------------------------------------------------------
(* What each report tells, computed from what it read, and only from that. *)
(* The properties speak of what is told when a report is delivered.        *)

Resources ==
  [masters |-> report.masters, aliases |-> Aliases,
   evidence |-> [k \in Skus |-> SkuEvidence(report.evidence.rows, report.evidence.canonical,
                                           Registered, k)]]
UniversesTold ==
  LET context == VentasContext(report.rows, report.cutoff)
      UniverseOf(universe) ==
        VentasUniverse(context, CommercialContext(context.sales, report.canonical, universe),
                       Resources)
  IN [context |-> context, masters |-> report.masters, company |-> UniverseOf("COMPANY"),
      own |-> UniverseOf("OWN_STORES"), dealers |-> UniverseOf("DEALERS")]

AuditsTold ==
  [window |-> report.window,
   context |-> VentasContext(report.rows, NoCutoff),
   dedup |-> DedupSensitivity(report.rows, report.window),
   hybrid |-> HybridSensitivity(report.rows, report.window),
   audit |-> CrossMonthAudit(report.rows, report.window),
   evidence |-> UnresolvedEvidence(report.rows, report.notes, report.vehicles, report.window)]

ForecastTold ==
  [cutoff |-> report.cutoff, today |-> report.today, rows |-> report.rows,
   masters |-> report.masters,
   live |-> LiveForecast(report.rows, report.masters, report.cutoff),
   close |-> IF DailyCloseAccepts(report.rows, report.cutoff, report.today)
             THEN DailyCloseForecast(report.rows, report.masters, report.cutoff) ELSE NotRead,
   history |-> History(report.rows, report.masters,
                       [start |-> 0, end |-> CommercialMonth(report.today)], report.today)]

SignalsTold ==
  [months |-> report.months, rows |-> report.rows, masters |-> report.masters,
   notes |-> report.notes,
   status |-> DeteriorationStatus(report.rows, report.masters, report.notes, report.months.end),
   episodes |-> [c \in Signals |->
     Episodes(Runtime(report.rows, report.masters, report.notes, c.grain, report.months,
                      {c.baseline}).rows, c, report.months)]]

Delivered(kind) == report.kind = kind /\ report' = NoReport

-----------------------------------------------------------------------------
(* The audits.                                                             *)

\* First or last, a VIN is one unit: every way of counting gives the units recognized.
SameUnits(told) ==
  /\ told.context.ok
  /\ \A total \in {Total(told.dedup.first), Total(told.dedup.last), Total(told.hybrid.a),
                   Total(told.hybrid.b), told.dedup.expectedAssignable} :
       total = Cardinality(told.context.sales)

\* The four engines find the same VINs between two months, and resolve the same ones.
SameCrossMonthVins(told) ==
  /\ {told.hybrid.cross, told.audit.universe, told.evidence.cross,
      told.context.stats.crossMonthVins} = {told.dedup.different}
  /\ told.hybrid.ok
  /\ told.hybrid.resolved = told.evidence.resolved
  /\ told.hybrid.inWindow = told.evidence.unresolved

\* A window takes a VIN in or leaves it out, and what is said of those inside covers them all.
WindowsPartition(told) ==
  /\ told.audit.window + told.audit.bothOutside = told.audit.universe
  /\ told.audit.firstOutside + told.audit.lastOutside <= told.audit.window
  /\ told.audit.toDifferentLast + told.audit.toSameLast = told.audit.covered
  /\ \A split \in {told.audit.special[c] : c \in SpecialCustomers} :
       Total(split) = told.audit.window
  /\ \A split \in {told.evidence.notes, told.evidence.vehicles} :
       Total(split) = told.evidence.unresolved

\* Whatever the rows (repeated, undated, tied, without VIN), the engines that audit the
\* recognition rule agree with the rule and with each other, each from a reading of its own.
AuditsAgree ==
  [][Delivered("audits") =>
       LET told == AuditsTold
       IN SameUnits(told) /\ SameCrossMonthVins(told) /\ WindowsPartition(told)]_vars

-----------------------------------------------------------------------------
(* The universes and what is explained of their change.                    *)

Months(told) == {CommercialMonth(s.date) : s \in told.context.sales}
Span(told) == IF Months(told) = {} THEN [start |-> 0, end |-> 0]
              ELSE [start |-> Min(Months(told)), end |-> Max(Months(told))]
Organization(told) == OrganizationalContext(told.own, Span(told))

\* Whatever moment each table was read at, the reports of one request add up: every sale of the
\* company is of the own stores, of the dealers or of neither, and of one of them only.
UniversesPartition(told) ==
  LET In(universe) == {e.scoped.sale : e \in universe.events}
      neither == {e.scoped.sale : e \in {f \in told.company.events : f.class = "UNRESOLVED"}}
  IN /\ In(told.own) \cap In(told.dealers) = {}
     /\ In(told.company) = told.context.sales
     /\ In(told.company) = In(told.own) \cup In(told.dealers) \cup neither

\* Those that pushed sales up are ranked from 1 on, and so are those that pulled them down.
RanksInOrder(rows) ==
  LET up == {k \in DOMAIN rows : rows[k].delta > 0}
      down == {k \in DOMAIN rows : rows[k].delta < 0}
  IN /\ {SupportRank(rows, k) : k \in up} = 1 .. Cardinality(up)
     /\ {DragRank(rows, k) : k \in down} = 1 .. Cardinality(down)

\* The change between any two months is explained to the last unit, by stores, by the sellers
\* of each store and by models, with the residuals the engines report.
ChangesAddUp(told) ==
  /\ \A u \in {told.company, told.own, told.dealers} : u.reconciles
  /\ Organization(told).reconciles
  /\ \A a, b \in Months(told) : a < b =>
       LET stores == StoreChange(Organization(told), a, b)
       IN /\ stores.reconciles /\ RanksInOrder(stores.stores)
          /\ SellerChange(Organization(told), stores, a, b).reconciles
          /\ \A u \in {told.company, told.own} : ProductChange(u, a, b).reconciles
  /\ \A m \in Months(told) : DailyStores(told.company.events, m).reconciles
  /\ \A t \in Thresholds : /\ Concentration(told.company.events, t).reached
                           /\ Concentration(told.company.events, t).reconciles
  /\ SumOver({a.model : a \in Aliases}, LAMBDA m : ProductSales(told.company, m, Span(told)).units)
       = ProductSales(told.company, NoId, Span(told)).resolved

RuntimeOf(told, signal, months) ==
  Runtime(told.rows, told.masters, told.notes, signal.grain, months, {signal.baseline})

\* The months of a store divide into those with sales, those only noted and the unknown ones; the
\* episodes of the units are those of the backtest; where no month is unknown, the former
\* semantics says the same; the errors of the years are those of all the months; and what the
\* backtest of expectations tries is what would have been said, where no resale moved a month.
SignalsAddUp(told) ==
  LET audit == ObservationAudit(told.rows, told.masters, told.notes, told.months)
      certain == {u \in audit.units : \A c \in DOMAIN audit.plain :
                    DOMAIN MonthsOf(audit.snapshots[c], u)
                      = DOMAIN ZeroFilled(MonthsOf(audit.plain[c], u), c)}
      rows == ExpectedRows(VentasContext(told.rows, AtClose(told.months.end)).monthly)
  IN /\ audit.activeZero = audit.zeroDetail
     /\ {r \in audit.former : r.unit \in certain} = {r \in audit.rows : r.unit \in certain}
     /\ {e \in audit.formerEpisodes : e.unit \in certain}
          = {e \in audit.episodes : e.unit \in certain}
     /\ \A signal \in Signals :
          LET runtime == RuntimeOf(told, signal, told.months)
              Summary(u) == UnitSummary(runtime, signal, told.months, u)
          IN /\ SumOver(Seen(runtime.snapshots), LAMBDA u : Cardinality(Summary(u).confirmed))
                  = Cardinality(told.episodes[signal])
             /\ \A u \in Seen(runtime.snapshots) : Summary(u).confirmed \subseteq Summary(u).signals
             \* A deviation from the baseline that persists is one episode.
             /\ signal.method = "relative" =>
                  \A e, later \in told.episodes[signal] :
                    /\ e.unit = later.unit /\ e.confirmation < later.confirmation
                    /\ later.confirmation <= e.confirmation + 2
                    => \A r \in runtime.rows : r.unit = e.unit /\ r.month = e.confirmation =>
                         Followed(runtime.rows, r, 2) # "persisted"
     /\ \A b \in Expectations, y \in YearsOf(rows) :
          Same(Metrics(Rolling(rows, y), b).error,
               AddUp({z \in YearsOf(rows) : z >= y}, LAMBDA z : Metrics(InYear(rows, z), b).error))
     \* What wins every year is beaten by none over them all.
     /\ \A b \in Expectations : (\A y \in YearsOf(rows) : b \in Winners(InYear(rows, y))) =>
          \A a \in Expectations : ~Less(Metrics(rows, a).error, Metrics(rows, b).error)

ExpectationsWereSaid(told) ==
  LET Known(c) == VentasContext(told.rows, AtClose(c)).monthly
      end == Known(told.months.end)
  IN \A r \in ExpectedRows(end) :
       (\A m \in DOMAIN Known(r.month - 1) : At(end, m) = Known(r.month - 1)[m]) =>
         ExpectedAfter([monthly |-> Known(r.month - 1)], r.month - 1) = r.expected

\* An entry of the masters holds within its dates; one open at both ends, while it is current.
Held(entry, day) == /\ entry.from = NoDay \/ entry.from <= day
                    /\ entry.to = NoDay \/ day <= entry.to
SettledAt(told, event, day) ==
  \E role \in told.masters.roles, post \in told.masters.assignments :
    /\ role.person = event.seller.person /\ post.person = event.seller.person
    /\ post.store = event.certifiedStore
    /\ \E s \in told.masters.stores : s.store = post.store /\ s.channel = "CIDEF"
    /\ Held(role, day) /\ Held(post, day)
    /\ \/ role.current /\ post.current
       \/ {role.from, role.to, post.from, post.to} # {NoDay}

\* A sale counts for a seller only at the store that vehiculo_canonico certifies, and exactly
\* when a role and an assignment to that store both held on the day of the sale.
SellersWereThere ==
  [][Delivered("universes") =>
       LET told == UniversesTold
       IN \A e \in told.own.events :
            e.seller.eligible <=> /\ e.seller.status = "RESUELTA" /\ e.certifiedStore # NoId
                                  /\ SettledAt(told, e, e.scoped.sale.date)]_vars

-----------------------------------------------------------------------------
(* The forecasts.                                                          *)

\* The counters kept day by day are what the recognition rule and the daily report would have
\* said on that day, with the rows there were then; and the counters close as the month does.
CountsAsOf(told, snapshot, month, day) ==
  LET cutoff == [type |-> "date", value |-> DateOf(month, day)]
      context == VentasContext(told.rows, cutoff)
      daily == DailyOrganization(told.rows, told.masters, DateOf(month, day))
      placed == {p \in {Placed(s, told.masters) : s \in context.sales} :
                   p.month = month /\ Owned(p)}
  IN /\ snapshot.recognized = DailyActual(context).sales
     /\ snapshot.unresolved = daily.unresolved /\ snapshot.ambiguous = daily.ambiguous
     /\ snapshot.cidef = daily.cidef
     /\ snapshot.stores = CountBy(placed, StoreKey)
     /\ snapshot.sellers = CountBy({p \in placed : p.seller.eligible}, SellerKey)
SnapshotsAreExact(told, learned) ==
  /\ \A m \in DOMAIN learned.snapshots :
       /\ \A d \in Days : CountsAsOf(told, learned.snapshots[m][d], m, d)
       /\ learned.snapshots[m][MonthLength].recognized
            = MonthlyActual(VentasContext(told.rows, [type |-> "month", value |-> m]), m).sales
  /\ \A p \in DOMAIN told.history.daily :
       CountsAsOf(told, told.history.daily[p], p[1], p[2])

\* By the last day of a month the whole of its close has been reached.
MonthsAreReached(told) ==
  LET reached == MilestoneSummary(told.history, CommercialMonth(told.today), MonthLength)
  IN reached.sample > 0 => reached.median[1] = reached.median[2]

\* A forecast as of a day says what it would have said that day: nothing dated later counts.
NoHindsight(told) ==
  LET then == ThroughCutoff(told.rows, [type |-> "date", value |-> told.cutoff])
  IN /\ told.live = LiveForecast(then, told.masters, told.cutoff)
     /\ told.close # NotRead =>
          told.close = DailyCloseForecast(then, told.masters, told.cutoff)

\* The backtest tries on each month what the live forecast would have learned before it.
BacktestIsWhatLiveSaid(told, learned) ==
  \A m \in DOMAIN learned.snapshots : HasHistory(told.rows, m - 1) =>
    LET before == BacktestContext(told.rows, told.masters, m - 1)
        target == [start |-> m, end |-> m]
    IN /\ \A r \in WalkForward(learned.company, target) :
            Same(r.learned, LearnedCompletion(before.company, r.day))
       /\ \A r \in WalkForward(learned.stores, target) :
            Same(r.learned, LearnedCompletion(before.stores, r.day))

ForecastsWereKnown(told) ==
  LET learned == BacktestContext(told.rows, told.masters, CommercialMonth(told.cutoff) - 1)
  IN /\ SnapshotsAreExact(told, learned) /\ MonthsAreReached(told)
     /\ NoHindsight(told) /\ BacktestIsWhatLiveSaid(told, learned)

\* A forecast rests on nothing that was not known on its day, and what it learns from are the
\* figures the company would have read then ("cutoff-safe", "no post-cutoff evidence").
ForecastsAreLive == [][Delivered("forecast") => ForecastsWereKnown(ForecastTold)]_vars

-----------------------------------------------------------------------------
(* The signals of deterioration.                                           *)

StoreSignal == [grain |-> "tienda", baseline |-> StatusCandidate.baseline,
                method |-> StatusCandidate.method, rule |-> StatusCandidate.rule]

\* What a store is said to be going through is the last episode a backtest of its whole history
\* confirms, if no month since was unknown or back to normal.
StatusIsLastEpisode(told) ==
  LET runtime == RuntimeOf(told, StoreSignal, [start |-> told.months.end, end |-> told.months.end])
      found == Episodes(runtime.rows, StoreSignal, [start |-> runtime.first, end |-> told.months.end])
  IN \A u \in DOMAIN told.status :
       {e \in found : e.unit = u /\ Unbroken(runtime.rows, u, StoreSignal.baseline, StoreSignal.method,
                                            e.confirmation, told.months.end)}
         = {told.status[u].episode} \ {NoEpisode}

\* The rows of a month are those the engine had when the month closed, before any later sale or
\* note, for the units it knew then (while the first month with sales is the same).
RowsWereKnown(told, signal) ==
  LET runtime == RuntimeOf(told, signal, told.months)
  IN \A c \in runtime.first .. told.months.end :
       LET then == Runtime(ThroughCutoff(told.rows, AtClose(c)), told.masters,
                           {n \in told.notes : Dated(n) /\ n.date <= ClosesOn(c)}, signal.grain,
                           [start |-> c, end |-> c], {signal.baseline})
       IN then.first = runtime.first =>
            {r \in runtime.rows : r.month <= c /\ r.unit \in Seen(then.snapshots)} = then.rows

\* An episode rests on months in each of which its unit is known to have been at work, by a sale
\* of that month as it closed or, for a store, by a note.
AtWork(told, signal, unit, month) ==
  \/ \E s \in VentasContext(told.rows, AtClose(month)).sales :
       LET p == Placed(s, told.masters)
       IN p.month = month /\ StatusOf(p, signal.grain) = "RESUELTA" /\ UnitOf(p, signal.grain) = unit
  \/ signal.grain = "tienda" /\ <<unit, month>> \in NoteMonths(told.notes)
EpisodesAreObserved(told) ==
  \A signal \in Signals : \A e \in told.episodes[signal] :
    /\ \A m \in e.onset .. e.confirmation : AtWork(told, signal, e.unit, m)
    /\ \A r \in ContextBefore(RuntimeOf(told, signal, told.months).rows, e, signal.baseline, 2) :
         r.month < e.onset /\ AtWork(told, signal, e.unit, r.month)

\* The reports of one request, and the signals of one backtest, add up; and a signal rests on
\* nothing that was not known when its month closed ("unknown_not_zero_filled",
\* "persistence_breaks_on_unknown").
ReportsAreSound ==
  [][/\ Delivered("universes") => LET told == UniversesTold
                                  IN UniversesPartition(told) /\ ChangesAddUp(told)
     /\ Delivered("signals") =>
          LET told == SignalsTold
          IN /\ SignalsAddUp(told) /\ ExpectationsWereSaid(told)
             /\ StatusIsLastEpisode(told) /\ EpisodesAreObserved(told)
             /\ \A signal \in Signals : RowsWereKnown(told, signal)]_vars

-----------------------------------------------------------------------------
\* What was recognized at a cutoff stays: an import that only adds or corrects rows dated after
\* it changes neither the sales nor their months ("evidence after cutoff is excluded").
Unmoved(cutoff) ==
  LET before == VentasContext(sales, cutoff)
      after == VentasContext(sales', cutoff)
  IN before.sales = after.sales /\ before.monthly = after.monthly
ClosedSalesStay ==
  [][sales' = sales \/
     \A cutoff \in Cutoffs \ {NoCutoff} :
       (\A r \in (sales' \ sales) \cup (sales \ sales') :
          Dated(r) => r.date > CutoffEnd(cutoff)) => Unmoved(cutoff)]_vars
=============================================================================
