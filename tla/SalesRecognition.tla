-------------------------- MODULE SalesRecognition --------------------------
(***************************************************************************)
(* When a row of ventas_raw is a sale, and of which month                  *)
(* (src/lib/ventas).  A VIN is sold once, by its last dated row; a row     *)
(* without VIN is a sale of its own; a VIN with an undated row is none.    *)
(* Days are numbered, day 1 the first of calendar month 0, and every month *)
(* has MonthLength days.  A commercial month runs from its second day to   *)
(* the first day of the next.  Times of day are left out: two rows of one  *)
(* day are a tie.                                                          *)
(*                                                                         *)
(* A row is a record with id, vin (NoVin when blank), date (Undated when   *)
(* blank or unreadable) and the fields the other engines look at.          *)
(***************************************************************************)
EXTENDS Integers, FiniteSets, FiniteSetsExt

CONSTANTS MonthLength, NoVin

ASSUME MonthsHaveDays == MonthLength \in Nat \ {0, 1}

Undated == 0
Dated(row) == row.date # Undated

CalendarMonth(day) == (day - 1) \div MonthLength
CommercialMonth(day) == (day - 2) \div MonthLength
CommercialDay(day) == ((day - 2) % MonthLength) + 1

\* The last day of a commercial month: the first of the next calendar month.
ClosesOn(month) == (month + 1) * MonthLength + 1

\* A request may ask for no cutoff, for a month, or for a day.
NoCutoff == [type |-> "none", value |-> 0]
CutoffEnd(cutoff) ==
  IF cutoff.type = "month" THEN ClosesOn(cutoff.value) ELSE cutoff.value

\* Mutant of ThroughCutoff: an undated row passes every cutoff.
ThroughCutoffOrUndated(rows, cutoff) ==
  IF cutoff.type = "none" THEN rows
  ELSE {r \in rows : Dated(r) => r.date <= CutoffEnd(cutoff)}

\* The cutoff is applied to the rows, before sales are recognized.
ThroughCutoff(rows, cutoff) ==
  IF cutoff.type = "none" THEN rows
  ELSE {r \in rows : Dated(r) /\ r.date <= CutoffEnd(cutoff)}

VinsOf(rows) == {r.vin : r \in rows} \ {NoVin}
RowsOf(rows, vin) == {r \in rows : r.vin = vin}

\* The rows of an extreme day, and the lowest id among them.
LowestId(rows) == CHOOSE r \in rows : \A other \in rows : r.id <= other.id
FirstRows(rows) == {r \in rows : \A other \in rows : r.date <= other.date}
LastRows(rows) == {r \in rows : \A other \in rows : other.date <= r.date}
First(rows) == LowestId(FirstRows(rows))
Last(rows) == LowestId(LastRows(rows))

\* A VIN with one undated row is assigned to no month at all.
AssignableVins(rows) ==
  {v \in VinsOf(rows) : \A r \in RowsOf(rows, v) : Dated(r)}
AssignableNullRows(rows) == {r \in rows : r.vin = NoVin /\ Dated(r)}

RecognizedSales(rows) ==
  AssignableNullRows(rows)
    \cup {Last(RowsOf(rows, v)) : v \in AssignableVins(rows)}

MonthlySales(sales) ==
  [m \in {CommercialMonth(s.date) : s \in sales}
     |-> Cardinality({s \in sales : CommercialMonth(s.date) = m})]

Total(series) == MapThenSumSet(LAMBDA m : series[m], DOMAIN series)
SalesIn(series, month) == IF month \in DOMAIN series THEN series[month] ELSE 0

RecognitionStats(rows) ==
  LET vins == VinsOf(rows)
      assignable == AssignableVins(rows)
  IN [assignableVins |-> Cardinality(assignable),
      assignableNullRows |-> Cardinality(AssignableNullRows(rows)),
      excludedVins |-> Cardinality(vins \ assignable),
      unassignableNullRows |-> Cardinality({r \in rows : r.vin = NoVin /\ ~Dated(r)}),
      duplicateExcess |-> Cardinality({r \in rows : r.vin # NoVin}) - Cardinality(vins),
      tiedVins |-> Cardinality({v \in assignable :
                                  Cardinality(LastRows(RowsOf(rows, v))) > 1}),
      crossMonthVins |-> Cardinality({v \in assignable :
                           CalendarMonth(First(RowsOf(rows, v)).date)
                             # CalendarMonth(Last(RowsOf(rows, v)).date)})]

\* What the context says of itself: one unit of a month for each sale, one
\* sale for each VIN or row it could assign.
ContextReconciles(sales, monthly, stats) ==
  /\ Cardinality(sales) = Total(monthly)
  /\ Cardinality(sales) = stats.assignableVins + stats.assignableNullRows

VentasContext(rows, cutoff) ==
  LET inside == ThroughCutoff(rows, cutoff)
      sales == RecognizedSales(inside)
      monthly == MonthlySales(sales)
      stats == RecognitionStats(inside)
  IN [cutoff |-> cutoff, sales |-> sales, monthly |-> monthly, stats |-> stats,
      sourceRows |-> Cardinality(rows),
      excludedRows |-> Cardinality(rows) - Cardinality(inside),
      ok |-> ContextReconciles(sales, monthly, stats)]

\* The two figures reported of a context: a month at a monthly cutoff, and the
\* open month up to a day.
MonthlyActual(context, month) ==
  [present |-> month \in DOMAIN context.monthly, sales |-> SalesIn(context.monthly, month)]
DailyActual(context) ==
  [month |-> CommercialMonth(context.cutoff.value),
   day |-> CommercialDay(context.cutoff.value),
   sales |-> SalesIn(context.monthly, CommercialMonth(context.cutoff.value)),
   total |-> Cardinality(context.sales)]
=============================================================================
