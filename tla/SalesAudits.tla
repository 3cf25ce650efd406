----------------------------- MODULE SalesAudits -----------------------------
(***************************************************************************)
(* The four engines that measure how much the choice between the first and *)
(* the last row of a VIN matters (src/lib/motors/ventas-monthly-dedup-     *)
(* sensitivity, -hybrid-unresolved-sensitivity, -cross-month-first-last-   *)
(* audit and -unresolved-recognition-evidence).  Each reads ventas_raw     *)
(* with a query of its own and classifies the VINs with code of its own.   *)
(* All four use the calendar month of a row.                               *)
(***************************************************************************)
EXTENDS SalesRecognition

CONSTANTS DominantCustomers,      \* the first customers whose last row counts
          Attributes,             \* the columns compared between the two rows
          SpecialCustomers,       \* the customers that are followed by name
          TopCustomers,           \* how many first customers are called dominant
          NoValue                 \* a blank operation or invoice

InWindow(month, window) == window.start <= month /\ month <= window.end
FirstMonth(rows, vin) == CalendarMonth(First(RowsOf(rows, vin)).date)
LastMonth(rows, vin) == CalendarMonth(Last(RowsOf(rows, vin)).date)
CrossMonthVins(rows) ==
  {v \in AssignableVins(rows) : FirstMonth(rows, v) # LastMonth(rows, v)}
Tied(rows, vin) == \/ Cardinality(FirstRows(RowsOf(rows, vin))) > 1
                   \/ Cardinality(LastRows(RowsOf(rows, vin))) > 1

(***************************************************************************)
(* Units by month when each VIN counts in MonthOf(vin) and each dated row  *)
(* without VIN in its own.                                                 *)
(***************************************************************************)
UnitsBy(rows, MonthOf(_)) ==
  LET vins == AssignableVins(rows)
      loose == AssignableNullRows(rows)
      months == {MonthOf(v) : v \in vins} \cup {CalendarMonth(r.date) : r \in loose}
  IN [m \in months |-> Cardinality({v \in vins : MonthOf(v) = m})
                         + Cardinality({r \in loose : CalendarMonth(r.date) = m})]

Transfers(rows, vins) ==
  [t \in {<<FirstMonth(rows, v), LastMonth(rows, v)>> : v \in vins}
     |-> Cardinality({v \in vins : <<FirstMonth(rows, v), LastMonth(rows, v)>> = t})]

WindowDelta(before, after, window) ==
  MapThenSumSet(LAMBDA m : SalesIn(after, m) - SalesIn(before, m), window.start .. window.end)

\* ------------------------------------- ventas_monthly_dedup_sensitivity_v01
DedupSensitivity(rows, window) ==
  LET first == UnitsBy(rows, LAMBDA v : FirstMonth(rows, v))
      last == UnitsBy(rows, LAMBDA v : LastMonth(rows, v))
  IN [first |-> first, last |-> last,
      transfers |-> Transfers(rows, CrossMonthVins(rows)),
      different |-> Cardinality(CrossMonthVins(rows)),
      same |-> Cardinality(AssignableVins(rows) \ CrossMonthVins(rows)),
      expectedAssignable |-> Cardinality(AssignableVins(rows))
                               + Cardinality(AssignableNullRows(rows)),
      windowDelta |-> WindowDelta(first, last, window),
      totalsMatch |-> Total(first) = Total(last)]

\* --------------------------------- ventas_hybrid_unresolved_sensitivity_v01
\* A dominant first customer is a reseller: the last row is the sale.
ResolvedCross(rows) ==
  {v \in CrossMonthVins(rows) : First(RowsOf(rows, v)).client \in DominantCustomers}

HybridSensitivity(rows, window) ==
  LET resolved == ResolvedCross(rows)
      unresolved == CrossMonthVins(rows) \ resolved
      MonthInA(v) == IF v \in unresolved THEN FirstMonth(rows, v) ELSE LastMonth(rows, v)
      a == UnitsBy(rows, MonthInA)
      b == UnitsBy(rows, LAMBDA v : LastMonth(rows, v))
      transfers == Transfers(rows, unresolved)
  IN [a |-> a, b |-> b,
      cross |-> Cardinality(CrossMonthVins(rows)),
      resolved |-> Cardinality(resolved), unresolved |-> Cardinality(unresolved),
      inWindow |-> Cardinality({v \in unresolved : \/ InWindow(FirstMonth(rows, v), window)
                                                   \/ InWindow(LastMonth(rows, v), window)}),
      ties |-> Cardinality({v \in CrossMonthVins(rows) : Tied(rows, v)}),
      windowDelta |-> WindowDelta(a, b, window),
      ok |-> /\ Cardinality(resolved) + Cardinality(unresolved)
                  = Cardinality(CrossMonthVins(rows))
             /\ Total(transfers) = Cardinality(unresolved)
             /\ Total(a) = Total(b)
             /\ Total(a) = Cardinality(AssignableVins(rows))
                             + Cardinality(AssignableNullRows(rows))]

\* ---------------------------------- ventas_cross_month_first_last_audit_v01
\* Mutant of AuditRecords: a VIN whose days differ.
AuditRecordsByDay(rows) ==
  {[vin |-> v, first |-> First(RowsOf(rows, v)), last |-> Last(RowsOf(rows, v))] :
     v \in {w \in AssignableVins(rows) :
             First(RowsOf(rows, w)).date # Last(RowsOf(rows, w)).date}}

\* The engine keeps a VIN of two rows or more whose months differ.
AuditRecords(rows) ==
  {[vin |-> v, first |-> First(RowsOf(rows, v)), last |-> Last(RowsOf(rows, v))] :
     v \in {w \in AssignableVins(rows) : /\ Cardinality(RowsOf(rows, w)) >= 2
                                         /\ FirstMonth(rows, w) # LastMonth(rows, w)}}

FirstIn(record, window) == InWindow(CalendarMonth(record.first.date), window)
LastIn(record, window) == InWindow(CalendarMonth(record.last.date), window)
ChangedAttributes(record) == {a \in Attributes : record.first[a] # record.last[a]}

\* The customers with most first rows; a tie goes to the lower name.
TopFirstCustomers(records) ==
  LET clients == {r.first.client : r \in records}
      Count(c) == Cardinality({r \in records : r.first.client = c})
      Above(c) == {d \in clients : Count(d) > Count(c) \/ (Count(d) = Count(c) /\ d < c)}
  IN {c \in clients : Cardinality(Above(c)) < TopCustomers}

\* Where a followed customer stands in a record.
Presence(inFirst, inLast) ==
  CASE inFirst /\ inLast -> "both"
    [] inFirst /\ ~inLast -> "first_only"
    [] ~inFirst /\ inLast -> "last_only"
    [] OTHER -> "neither"

CrossMonthAudit(rows, window) ==
  LET records == AuditRecords(rows)
      analysed == {r \in records : FirstIn(r, window) \/ LastIn(r, window)}
      dominant == TopFirstCustomers(analysed)
      covered == {r \in analysed : r.first.client \in dominant}
  IN [universe |-> Cardinality(records), window |-> Cardinality(analysed),
      firstOutside |-> Cardinality({r \in records : ~FirstIn(r, window) /\ LastIn(r, window)}),
      lastOutside |-> Cardinality({r \in records : FirstIn(r, window) /\ ~LastIn(r, window)}),
      bothOutside |-> Cardinality({r \in records : ~FirstIn(r, window) /\ ~LastIn(r, window)}),
      different |-> [a \in Attributes |->
                       Cardinality({r \in analysed : a \in ChangedAttributes(r)})],
      special |-> [c \in SpecialCustomers |->
                     [p \in {"both", "first_only", "last_only", "neither"} |->
                        Cardinality({r \in analysed :
                          Presence(r.first.client = c, r.last.client = c) = p})]],
      dominant |-> dominant, covered |-> Cardinality(covered),
      toDifferentLast |-> Cardinality({r \in covered : r.first.client # r.last.client}),
      toSameLast |-> Cardinality({r \in covered : r.first.client = r.last.client})]

\* ----------------------------------- ventas_unresolved_recognition_evidence
\* The strongest reason a sales note is taken to be that of a row.
SameKnown(a, b) == a = b /\ a # NoValue
MatchScore(row, note) ==
  IF SameKnown(row.operation, note.operation) THEN 3
  ELSE IF SameKnown(row.invoice, note.invoice) THEN 2
  ELSE IF row.date = note.date THEN 1 ELSE 0

StrongestNotes(notes, row) ==
  LET matching == {n \in notes : MatchScore(row, n) > 0}
  IN {n \in matching : \A other \in matching : MatchScore(row, other) <= MatchScore(row, n)}

PointsTo(vehicles, row) ==
  \E v \in vehicles : SameKnown(v.invoice, row.invoice) \/ v.date = row.date

\* notes and vehicles are read after the rows, for the VINs found in them.
UnresolvedEvidence(rows, notes, vehicles, window) ==
  LET cross == AuditRecords(rows)
      resolved == {r \in cross : r.first.client \in DominantCustomers}
      unresolved == {r \in cross \ resolved : FirstIn(r, window) \/ LastIn(r, window)}
      NotesOf(r) == {n \in notes : n.vin = r.vin}
      VehiclesOf(r) == {v \in vehicles : v.vin = r.vin}
      InNotes(r) == Presence(StrongestNotes(NotesOf(r), r.first) # {},
                             StrongestNotes(NotesOf(r), r.last) # {})
      InVehicles(r) == Presence(PointsTo(VehiclesOf(r), r.first),
                                PointsTo(VehiclesOf(r), r.last))
      Split(Where(_)) == [p \in {"both", "first_only", "last_only", "neither"} |->
                            Cardinality({r \in unresolved : Where(r) = p})]
  IN [cross |-> Cardinality(cross), resolved |-> Cardinality(resolved),
      unresolved |-> Cardinality(unresolved),
      notesCovered |-> Cardinality({r \in unresolved : NotesOf(r) # {}}),
      vehiclesCovered |-> Cardinality({r \in unresolved : VehiclesOf(r) # {}}),
      notes |-> Split(InNotes), vehicles |-> Split(InVehicles),
      partitions |-> Cardinality(resolved) + Cardinality(unresolved) = Cardinality(cross)]
=============================================================================
