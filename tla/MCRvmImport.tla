---------------------------- MODULE MCRvmImport ----------------------------
(***************************************************************************)
(* A document of three rows, one of another market, and one of one row;    *)
(* two whole imports and two chunks that share a row; two preliminary      *)
(* loads of one file of two batches and one of the shorter file before it. *)
(*                                                                         *)
(* Reports are drawn beside a whole import and beside the preliminary      *)
(* loads, from few registrations, and from richer registers at rest: a     *)
(* year of four months of two days, CIDEF's model Rex beside a close       *)
(* competitor, with ties, months without one of them, Rex under another    *)
(* brand and under two readings of one name, and a second universe.        *)
(***************************************************************************)
EXTENDS MarketReports

CONSTANTS full, again, head, tail, early, twin, late,
          january, february, week1, week2, lastYear, close, apart, crowded, years

MCDocuments == <<january, february>>
MCDocOf == [r \in {head, tail} |-> january]
MCRangeOf == [r \in {head, tail} |-> IF r = head THEN 2..3 ELSE 3..4]
MCFileOf == [r \in {early, twin, late} |-> IF r = early THEN week1 ELSE week2]
MCBatchesOf == [f \in {week1, week2} |-> IF f = week1 THEN 1 ELSE 2]
MCRowsOf ==
  [d \in {january, february, lastYear, close, apart, crowded, years} |->
    IF d = january THEN <<2, 3, 4>> ELSE <<2>>]
MCScenarios ==
  {{}, {full}, {early}, {late}, {full, again}, {full, head}, {head, tail}, {late, twin}, {early, late}, {full, late}}

\* Registrations: of a name under a brand, one for each month from the first on that has any.
Named(brand, model, version, universe, first, units) ==
  {[id |-> <<brand, model, version, universe, i>>, date |-> 2 * (first + i - 1), universe |-> universe,
    brand |-> brand, model |-> model, version |-> version, units |-> units[i]] :
    i \in {j \in DOMAIN units : units[j] # 0}}
Rex(first, units) == Named("DFM", "rex", Missing, "suv", first, units)
Rival(first, units) == Named("ACME", "fox", Missing, "suv", first, units)
OnDay(registrations, day) == {[g EXCEPT !.date = @ + day] : g \in registrations}

Close == Rex(8, <<50, 51, 50, 49, 51, 52, 50>>) \cup Rival(8, <<51, 50, 50, 51, 49, 49, 51>>)
Apart == Rex(8, <<50, 51, 52, 49, 51, 52, 50, 48>>) \cup Rival(8, <<51, 50, 50, 0, 53, 49, 51, 50>>)
Crowded ==
  UNION {Rex(8, <<5, 6, 0, 7, 6, 5, 9>>), OnDay(Rival(8, <<6, 5, 5, 0, 7, 7, 8>>), 1),
         Named("ZNA", "rex", Missing, "suv", 8, <<1, 0, 2, 3, 1, 0, 2>>),
         Named("ZNA", "rex", "long", "suv", 8, <<0, 0, 1, 1, 2>>),
         Named("BETA", "bee", Missing, "suv", 9, <<4, 3>>),
         Named("DFM", "rex", "van", "van", 10, <<2, 1, 3>>),
         Named("BETA", "bee", Missing, "van", 10, <<2, 2, 1>>)}
Years ==
  UNION {Rex(1, <<3, 4, 2, 5, 4, 4, 3, 5, 2, 6, 4, 1, 3>>),
         Rival(1, <<5, 4, 4, 3, 5, 2, 6, 4, 4, 4, 1, 6, 5>>),
         Named("ZNA", "oak", Missing, "suv", 1, <<1, 2, 0, 1, 1, 0, 2, 2, 1, 0, 1, 2, 1>>),
         Named("BETA", "bee", Missing, "suv", 1, <<2, 2, 1, 2, 1, 3, 1, 2, 2, 2, 3, 1, 2>>)}

MCRegistrationsOf ==
  (january :> [i \in 2..4 |-> IF i = 2 THEN Rex(8, <<3, 2>>) ELSE Rival(8, <<2, 3>>)]) @@
  (february :> [i \in {2} |-> Rex(10, <<1, 0, 1>>) \cup Rival(10, <<2>>)]) @@
  (week1 :> [i \in {1} |-> Rex(12, <<2>>) \cup Rival(12, <<1>>)]) @@
  (week2 :> [i \in 1..2 |-> IF i = 1 THEN OnDay(Rex(12, <<4>>), 1) ELSE Rival(12, <<3>>)]) @@
  (lastYear :> [i \in {2} |-> UNION {Rex(8, <<1>>), Rival(8, <<2>>),
                                      OnDay(Named("DFM", "rex", "late", "suv", 8, <<2>>), 1)}]) @@
  (close :> [i \in {2} |-> Close]) @@ (apart :> [i \in {2} |-> Apart]) @@
  (crowded :> [i \in {2} |-> Crowded]) @@ (years :> [i \in {2} |-> Years])

\* The preliminary files are of the month of days 24 and 25; a row of february has registrations of it.
MCSnapshotDate == (week1 :> 24) @@ (week2 :> 25)
OfTheMonth(registrations) == {g \in registrations : g.date \in {24, 25}}
MCMonthRows ==
  [d \in DOMAIN MCRowsOf |-> {i \in DOMAIN MCRegistrationsOf[d] : OfTheMonth(MCRegistrationsOf[d][i]) # {}}]
MCQuantityOf ==
  [d \in DOMAIN MCRowsOf |->
    [i \in MCMonthRows[d] |-> MapThenSumSet(LAMBDA g : g.units, OfTheMonth(MCRegistrationsOf[d][i]))]]
MCLoadedFirst ==
  [s \in MCScenarios |->
    IF s = {} THEN {{close}, {apart}, {crowded}, {years}, {apart, crowded}, {close, years}}
    ELSE IF s \in {{early}, {late}, {early, late}} THEN {{lastYear}} ELSE {{}}]

MCBrandOfModel == [m \in {"Rex", "Fox"} |-> IF m = "Rex" THEN "DFM" ELSE "ACME"]
\* Aliases of rvm_raw: what is known of a version goes before what is known of a model.
Alias(id, brand, model, version, status, canonical) ==
  [id |-> id, brand |-> brand, model |-> model, version |-> version, status |-> status,
   modelId |-> canonical, brandId |-> IF canonical = Missing THEN Missing ELSE MCBrandOfModel[canonical]]
MCAliases ==
  {Alias(1, "DFM", "rex", Missing, "RESUELTO", "Rex"), Alias(2, "ACME", "fox", Missing, "RESUELTO", "Fox"),
   Alias(3, "ZNA", "rex", Missing, "RESUELTO", "Rex"), Alias(4, "ZNA", "rex", "long", "AMBIGUO", Missing),
   Alias(5, "ACME", "fox", Missing, "AMBIGUO", Missing)}
MCOriginOf ==
  [b \in {"DFM", "ACME", "ZNA", "BETA"} |-> IF b = "BETA" THEN "UNKNOWN" ELSE "CHINESE"]
MCMasterOrigin == [b \in {"DFM", "ACME", "ZNA"} |-> "CHINESE"]
MCHistoricalRules ==
  {[brand |-> "ZNA", model |-> Missing, from |-> 0, to |-> 21, brandId |-> "ZNA",
    organization |-> "CIDEF"]}

Shares(from, to, origin, least) ==
  [kind |-> "SHARES", targets |-> {"Rex"}, from |-> from, to |-> to, origin |-> origin,
   minEvaluable |-> least]
Transfer(mode, level, subject, scope, competitors, basis, ranking, from, to) ==
  [kind |-> "TRANSFER", mode |-> mode, level |-> level, subject |-> subject, scope |-> scope,
   competitors |-> competitors, basis |-> basis, ranking |-> ranking, from |-> from, to |-> to,
   cutoff |-> to, minPeriods |-> 1, minPct |-> 50]

Subjects == {<<"CIDEF_TOTAL", Missing>>, <<"BRAND", "DFM">>, <<"MODEL", "Rex">>}
Spans == {<<"MONTHLY_YOY", "CONSISTENCY", 16, 27>>, <<"QUARTER_YOY", "SHARE_MAGNITUDE", 16, 23>>,
          <<"CALENDAR_YEAR_YOY", "VIN_MAGNITUDE", 16, 23>>, <<"ROLLING_12", "CONSISTENCY", 18, 25>>}
OfSpan(s, x, scope, competitors) ==
  Transfer("HISTORICAL", s[1], s[2], scope, competitors, x[1], x[2], x[3], x[4])
AtRest ==
  {Shares(16, 29, origin, least) : origin \in {Missing, "CHINESE"}, least \in {0, 6}} \cup
  {Shares(17, 27, Missing, 0), Shares(20, 26, Missing, 0)} \cup
  {OfSpan(s, x, scope, competitors) :
    s \in Subjects, x \in Spans, scope \in {"TOTAL_MARKET", "CHINESE_MARKET", "MODEL_COMPARABLE_SET"},
    competitors \in {"BRAND", "MODEL"}}
ToDateAt(s, cutoff) ==
  Transfer("CURRENT_MTD", s[1], s[2], "TOTAL_MARKET", "BRAND", "MONTHLY_YOY", "CURRENT_MTD", cutoff, cutoff)

\* Sales: of Rex and Oak on first days and others, one of a brand alone, one of nobody known.
Sold(name, brand, model, status, dates) ==
  {[id |-> <<name, d>>, date |-> d, brand |-> brand, model |-> model, status |-> status] : d \in dates}
MCCompanySales ==
  UNION {Sold(1, "DFM", "Rex", "RESUELTO", {3, 5, 7, 8, 9, 13, 15, 16, 17, 19, 22, 24, 25, 27}),
         Sold(2, "DFM", "Rex", "RESUELTO", {8, 12, 16, 21, 24}),
         Sold(3, "ZNA", "Oak", "RESUELTO", {20, 22, 23, 26}),
         Sold(4, "ZNA", Missing, "AMBIGUO", {6, 16, 24}),
         Sold(5, Missing, Missing, "NO_RESUELTO", {11, 24})}

Growth(comparisons, scopes, from, to, cutoff) ==
  [kind |-> "GROWTH", comparisons |-> comparisons, scopes |-> scopes, from |-> from, to |-> to,
   cutoff |-> cutoff, brands |-> {}, models |-> {}]
AllScopes == {"TOTAL_MARKET", "CHINESE_MARKET", "BRAND", "MODEL"}
GrowthAtRest ==
  {Growth({"YOY_MONTH", "ROLLING_12_YOY", "MOM", "CALENDAR_YEAR_YOY", "YTD_YOY"}, AllScopes, 16, 23, Missing),
   Growth({"ROLLING_12_YOY", "CALENDAR_YEAR_YOY"}, AllScopes, 8, 23, Missing),
   Growth({"YOY_MONTH", "MOM"}, AllScopes, 18, 27, Missing), Growth({"MOM"}, AllScopes, 16, 21, 25),
   Growth({"YTD_YOY"}, AllScopes, 24, 26, 27),
   [Growth({"YTD_YOY", "YOY_MONTH"}, AllScopes, 16, 19, Missing) EXCEPT !.brands = {"DFM"}, !.models = {"Oak"}]}
ToDateGrowth(cutoff) == Growth({"MOM"}, AllScopes, 22, 23, cutoff)

MCReportsIn ==
  [s \in MCScenarios |->
    CASE s = {} -> AtRest \cup GrowthAtRest
      [] s = {full} -> {Shares(16, 21, Missing, 0)}
      [] s = {early} -> {ToDateAt(<<"CIDEF_TOTAL", Missing>>, 24), ToDateGrowth(24)}
      [] s = {early, late} -> {ToDateAt(<<"MODEL", "Rex">>, 25)}
      [] s = {late} -> {ToDateGrowth(25)}
      [] OTHER -> {}]
=============================================================================
