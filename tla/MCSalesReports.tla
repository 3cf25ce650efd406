--------------------------- MODULE MCSalesReports ---------------------------
(* Three VINs over three months of three days, a row of each awkward kind. *)
EXTENDS SalesReports

Row(id, vin, date, client, store, seller, sku) ==
  [id |-> id, vin |-> vin, date |-> date, client |-> client, store |-> store,
   seller |-> seller, sku |-> sku, brand |-> 1, operation |-> id, invoice |-> NoValue]

Always == {Row(1, "v1", 2, 1, 1, 1, 1), Row(2, NoVin, 4, 2, 2, 2, 1),
           Row(3, "v1", 3, 2, 2, 2, 1),         \* the VIN again, the next day
           Row(5, "v2", 4, 1, 1, 2, 2)}
Sometimes == {Row(4, "v1", 5, 2, 1, 1, 1),      \* and in the next month
              Row(6, "v1", Undated, 1, 1, 1, 1),\* and undated
              Row(7, "v2", 4, 3, 2, 1, 3),      \* a tie
              Row(8, "v3", 8, 3, 3, 2, 3),
              Row(9, "v2", 9, 2, 1, 2, 3)}
\* Five months of a store that loses sales month after month, with a sale made again elsewhere.
Long == {Row(11, "v1", 5, 1, 1, 1, 1), Row(12, NoVin, 6, 1, 1, 1, 1), Row(13, NoVin, 7, 2, 1, 2, 2),
         Row(14, NoVin, 8, 1, 1, 1, 1), Row(15, NoVin, 9, 1, 1, 1, 2), Row(16, "v2", 13, 2, 2, 2, 1),
         Row(17, "v3", 15, 1, 2, 2, 3)}
Longer == {Row(18, "v1", 10, 2, 2, 2, 1)}
\* A store and its seller at work in every one of five months: 1, 3, 4, 2 and 2 sales.
FullDays == <<2, 5, 6, 7, 8, 9, 9, 10, 11, 12, 14, 15>>
Full == {Row(20 + k, NoVin, FullDays[k], 1, 1, 1, 1) : k \in DOMAIN FullDays}
MCSalesTables == {Always \cup some : some \in SUBSET Sometimes}
                   \cup {Long, Long \cup Longer, Full}

Vehicle(channel, store, dealer, model) ==
  [channel |-> channel, store |-> store, dealer |-> dealer, model |-> model]
MCCanonicals ==
  {[v \in {"v1", "v2"} |-> IF v = "v1" THEN Vehicle("TIENDA_PROPIA", 1, NoId, 1)
                           ELSE Vehicle("DEALER", NoId, 7, 2)],
   [v \in {"v1", "v2", "v3"} |-> CASE v = "v1" -> Vehicle("TIENDA_PROPIA", 2, NoId, 1)
                                   [] v = "v2" -> Vehicle("TIENDA_PROPIA", 1, NoId, 3)
                                   [] OTHER -> Vehicle("TIENDA_PROPIA", NoId, NoId, NoId)]}

Store(key, store, channel) == [key |-> key, store |-> store, channel |-> channel]
Person(key, person) == [key |-> key, person |-> person]
Role(person, from, to, current) == [person |-> person, from |-> from, to |-> to, current |-> current]
Post(person, store, from, to, current) ==
  [person |-> person, store |-> store, from |-> from, to |-> to, current |-> current]
MCMasterTables ==
  {[stores |-> {Store(1, 1, "CIDEF"), Store(2, 2, "CIDEF"), Store(3, 3, "DEALER")},
    people |-> {Person(1, 1), Person(2, 2)},
    roles |-> {Role(1, 1, NoDay, TRUE), Role(2, NoDay, NoDay, TRUE)},
    assignments |-> {Post(1, 1, NoDay, 4, FALSE), Post(1, 2, 5, NoDay, TRUE),
                     Post(2, 1, 4, 8, FALSE), Post(2, 2, NoDay, NoDay, FALSE)}],
   [stores |-> {Store(1, 1, "CIDEF"), Store(2, 2, "CIDEF"), Store(2, 3, "CIDEF")},
    people |-> {Person(1, 1), Person(1, 3), Person(2, 2)},
    roles |-> {Role(2, 4, 6, FALSE)},
    assignments |-> {Post(2, 1, NoDay, NoDay, FALSE), Post(2, 2, NoDay, NoDay, TRUE)}]}

MCEvidenceTables ==
  {[notes |-> {}, vehicles |-> {}],
   [notes |-> {[vin |-> "v1", operation |-> 4, invoice |-> NoValue, date |-> 2, stores |-> {1}],
               [vin |-> "v2", operation |-> NoValue, invoice |-> NoValue, date |-> 9,
                stores |-> {1, 2}],
               [vin |-> "v4", operation |-> 9, invoice |-> NoValue, date |-> 11, stores |-> {1}],
               [vin |-> "v5", operation |-> 9, invoice |-> NoValue, date |-> 6, stores |-> {2}]},
    vehicles |-> {[vin |-> "v2", invoice |-> NoValue, date |-> 4]}]}

MCAliases == {[sku |-> 2, model |-> 2, version |-> 20], [sku |-> 1, model |-> 1, version |-> NoId]}
MCRegistered == [v \in {"v2", "v3"} |-> [models |-> IF v = "v2" THEN {2} ELSE {3, 4},
                                         ambiguous |-> FALSE]]
MCCutoffs == {NoCutoff, [type |-> "month", value |-> 0], [type |-> "date", value |-> 8]}
MCWindows == {[start |-> 0, end |-> 0], [start |-> 1, end |-> 4]}

Signal(grain, baseline, method, rule) ==
  [grain |-> grain, baseline |-> baseline, method |-> method, rule |-> rule]
Baseline(kind, window) == [kind |-> kind, window |-> window]
MCSignals ==
  {Signal("tienda", Baseline("moving_average", 1), "historical_percentile", Deepening(2)),
   Signal("tienda", Baseline("last_year", 1), "relative",
          [kind |-> "frequency", need |-> 1, size |-> 2]),
   Signal("vendedor", Baseline("median", 1), "scaled_mad",
          [kind |-> "consecutive", need |-> 1, size |-> 1])}
MCExpectations == {Baseline("last_year", 1), Baseline("moving_average", 1),
                   Baseline("moving_average", 2), Baseline("adjusted_last_year", 1)}
=============================================================================
