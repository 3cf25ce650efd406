------------------------- MODULE SalesReportsProofs -------------------------
(***************************************************************************)
(* What the reports on sales say for any tables: a VIN is one sale, who is *)
(* credited with it, and what no later import moves.                       *)
(***************************************************************************)
EXTENDS SalesReports, FiniteSetTheorems, WellFoundedInduction, TLAPS

\* A finite set has a greatest element in every total preorder R.
LEMMA Greatest ==
  ASSUME NEW S, IsFiniteSet(S), S # {}, NEW R,
         \A x, y \in S : <<x, y>> \in R \/ <<y, x>> \in R,
         \A x, y, z \in S : <<x, y>> \in R /\ <<y, z>> \in R => <<x, z>> \in R
  PROVE  \E m \in S : \A x \in S : <<x, m>> \in R
<1> DEFINE Has(T) == \E m \in T : \A x \in T : <<x, m>> \in R
           Bad == {T \in SUBSET S : T # {} /\ ~Has(T)}
<1> SUFFICES ASSUME ~Has(S) PROVE FALSE
  OBVIOUS
<1>1. IsWellFoundedOn(StrictSubsetOrdering(S), SUBSET S)
  BY FS_StrictSubsetOrderingWellFounded, FS_FiniteSubsetsOfFinite
<1>2. S \in Bad
  OBVIOUS
<1>3. PICK T \in Bad : \A U \in Bad : <<U, T>> \notin StrictSubsetOrdering(S)
  <2> HIDE DEF Bad
  <2>1. Bad \subseteq SUBSET S
    BY DEF Bad
  <2> QED BY <1>1, <1>2, <2>1, WFMin
<1>4. PICK x \in T : TRUE
  BY <1>3
<1>5. T \subseteq S /\ ~Has(T)
  BY <1>3
<1>6. CASE T \ {x} = {}
  <2>1. \A y \in T : y = x
    BY <1>6
  <2> QED BY <1>4, <1>5, <2>1
<1>7. CASE T \ {x} # {}
  <2>1. <<T \ {x}, T>> \in StrictSubsetOrdering(S)
    BY <1>4, <1>5 DEF StrictSubsetOrdering
  <2>2. Has(T \ {x})
    BY <1>3, <1>5, <1>7, <2>1
  <2>3. PICK m \in T \ {x} : \A y \in T \ {x} : <<y, m>> \in R
    BY <2>2
  <2>4. CASE <<x, m>> \in R
    BY <1>4, <1>5, <2>3, <2>4
  <2>5. CASE <<m, x>> \in R
    <3>1. \A y \in T : <<y, x>> \in R
      BY <1>4, <1>5, <2>3, <2>5
    <3> QED BY <1>4, <1>5, <3>1
  <2> QED BY <1>4, <1>5, <2>3, <2>4, <2>5
<1> QED BY <1>6, <1>7

\* The rows of a table.
IsTable(rows) == IsFiniteSet(rows) /\ \A r \in rows : r.id \in Nat /\ r.date \in Nat

\* A table with rows has a row of lowest id,
LEMMA LowestIdIsThere ==
  ASSUME NEW rows, IsTable(rows), rows # {}
  PROVE  LowestId(rows) \in rows
<1> DEFINE R == {p \in rows \X rows : p[2].id <= p[1].id}
<1>1. \A x, y \in rows : <<x, y>> \in R <=> y.id <= x.id
  OBVIOUS
<1>2. /\ \A x, y \in rows : <<x, y>> \in R \/ <<y, x>> \in R
      /\ \A x, y, z \in rows : <<x, y>> \in R /\ <<y, z>> \in R => <<x, z>> \in R
  BY <1>1 DEF IsTable
<1> HIDE DEF R
<1>3. PICK m \in rows : \A x \in rows : <<x, m>> \in R
  BY <1>2, Greatest DEF IsTable
<1> QED BY <1>1, <1>3 DEF LowestId

\* and a last row.
LEMMA LastIsThere ==
  ASSUME NEW rows, IsTable(rows), rows # {}
  PROVE  Last(rows) \in rows /\ Last(rows) \in LastRows(rows)
<1> DEFINE R == {p \in rows \X rows : p[1].date <= p[2].date}
<1>1. \A x, y \in rows : <<x, y>> \in R <=> x.date <= y.date
  OBVIOUS
<1>2. /\ \A x, y \in rows : <<x, y>> \in R \/ <<y, x>> \in R
      /\ \A x, y, z \in rows : <<x, y>> \in R /\ <<y, z>> \in R => <<x, z>> \in R
  BY <1>1 DEF IsTable
<1> HIDE DEF R
<1>3. PICK m \in rows : \A x \in rows : <<x, m>> \in R
  BY <1>2, Greatest DEF IsTable
<1>4. LastRows(rows) # {} /\ LastRows(rows) \subseteq rows
  BY <1>1, <1>3 DEF LastRows
<1>5. IsTable(LastRows(rows))
  BY <1>4, FS_Subset DEF IsTable
<1> QED BY <1>4, <1>5, LowestIdIsThere DEF Last

\* A sale is a dated row: the last of its VIN, or one without VIN.
LEMMA SalesAreRows ==
  ASSUME NEW rows, IsTable(rows)
  PROVE  /\ RecognizedSales(rows) \subseteq rows
         /\ \A v \in AssignableVins(rows) :
              Last(RowsOf(rows, v)) \in rows /\ Last(RowsOf(rows, v)).vin = v
<1>1. ASSUME NEW v \in AssignableVins(rows)
      PROVE  Last(RowsOf(rows, v)) \in rows /\ Last(RowsOf(rows, v)).vin = v
  <2>1. RowsOf(rows, v) # {} /\ RowsOf(rows, v) \subseteq rows
    BY DEF AssignableVins, VinsOf, RowsOf
  <2>2. IsTable(RowsOf(rows, v))
    BY <2>1, FS_Subset DEF IsTable
  <2>3. Last(RowsOf(rows, v)) \in RowsOf(rows, v)
    BY <2>1, <2>2, LastIsThere
  <2> QED BY <2>3 DEF RowsOf
<1> QED BY <1>1 DEF RecognizedSales, AssignableNullRows

\* However many rows a VIN has, and whatever ties, the recognition rule (resolveVentasRecognition)
\* makes of it exactly one sale: the sales are as many as the VINs it could assign to a month and
\* the dated rows without VIN.
THEOREM OneSaleEach ==
  ASSUME NEW rows, IsTable(rows)
  PROVE  Cardinality(RecognizedSales(rows)) =
           RecognitionStats(rows).assignableVins + RecognitionStats(rows).assignableNullRows
<1> DEFINE vins == AssignableVins(rows)
           alone == AssignableNullRows(rows)
           sold == {Last(RowsOf(rows, v)) : v \in vins}
<1>1. IsFiniteSet(alone)
  BY FS_Subset DEF IsTable, AssignableNullRows
<1>2. IsFiniteSet(vins) /\ Cardinality(sold) = Cardinality(vins) /\ IsFiniteSet(sold)
  <2> DEFINE f == [v \in vins |-> Last(RowsOf(rows, v))]
  <2>1. sold \subseteq rows
    BY SalesAreRows
  <2>2. IsFiniteSet(sold)
    BY <2>1, FS_Subset DEF IsTable
  <2>3. f \in [vins -> sold] /\ \A v \in vins : f[v].vin = v
    BY SalesAreRows
  <2>4. f \in Bijection(vins, sold)
    <3>1. \A v, w \in vins : f[v] = f[w] => v = w
      BY <2>3
    <3>2. \A s \in sold : \E v \in vins : f[v] = s
      OBVIOUS
    <3> HIDE DEF f, sold, vins
    <3> QED BY <2>3, <3>1, <3>2 DEF Bijection, Injection, Surjection, IsInjective
  <2>5. f \in Injection(vins, sold)
    BY <2>4 DEF Bijection
  <2>6. IsFiniteSet(vins)
    BY <2>2, <2>5, FS_Injection
  <2> HIDE DEF f, sold, vins
  <2> QED BY <2>2, <2>4, <2>6, FS_Bijection DEF ExistsBijection
<1>3. alone \cap sold = {}
  BY SalesAreRows DEF AssignableVins, VinsOf, AssignableNullRows
<1>4. Cardinality(alone \cup sold) = Cardinality(alone) + Cardinality(sold)
  <2> HIDE DEF alone, sold
  <2>1. Cardinality(alone \cup sold)
          = Cardinality(alone) + Cardinality(sold) - Cardinality(alone \cap sold)
    BY <1>1, <1>2, FS_Union
  <2>2. Cardinality(alone \cap sold) = 0
    BY <1>3, FS_EmptySet
  <2>3. Cardinality(alone) \in Nat /\ Cardinality(sold) \in Nat
    BY <1>1, <1>2, FS_CardinalityType
  <2> QED BY <2>1, <2>2, <2>3
<1>5. Cardinality(alone) \in Nat /\ Cardinality(vins) \in Nat
  BY <1>1, <1>2, FS_CardinalityType
<1> QED BY <1>2, <1>4, <1>5 DEF RecognizedSales, RecognitionStats

-----------------------------------------------------------------------------
(* What a report has read.                                                 *)

OrNotRead(values) == values \cup {NotRead}
EvidenceRead == [rows : SalesTables, canonical : Canonicals]
Asked ==
  [kind : {"universes"}, cutoff : Cutoffs, rows : OrNotRead(SalesTables),
   canonical : OrNotRead(Canonicals), masters : OrNotRead(MasterTables), evidence : OrNotRead(EvidenceRead)]

\* A report of universes computes from tables that were there when it read them, and one of
\* forecasts from a table with history by its day.
SalesInv ==
  /\ sales \in SalesTables /\ canonical \in Canonicals /\ masters \in MasterTables
  /\ request = NoRequest \/ request \in Asked
  /\ report.kind = "universes" =>
       report \in Asked /\ report.rows \in SalesTables /\ report.masters \in MasterTables
  /\ report.kind = "forecast" =>
       /\ report.rows \in SalesTables /\ report.cutoff \in ForecastDays
       /\ report.today \in ForecastDays
       /\ LiveForecastAccepts(report.rows, report.cutoff, report.today)

\* The invariant holds at the start, and every step keeps it.
LEMMA InitSales == Init => SalesInv
BY DEF Init, SalesInv, NoReport

LEMMA NextSales == SalesInv /\ [Next]_vars => SalesInv'
<1> SUFFICES ASSUME SalesInv, [Next]_vars PROVE SalesInv'
  OBVIOUS
<1> USE DEF SalesInv
<1>1. CASE ImportSales \/ RefreshCanonical \/ EditMasters
  BY <1>1 DEF ImportSales, RefreshCanonical, EditMasters, Changing
<1>2. ASSUME NEW cutoff \in Cutoffs, Ask(cutoff) PROVE SalesInv'
  BY <1>2 DEF Ask, Asked, OrNotRead
<1>3. CASE ReadSales \/ ReadCanonical \/ ReadMasters \/ ReadEvidence
  <2>1. request \in Asked /\ UNCHANGED <<sales, canonical, masters, report>>
    BY <1>3 DEF ReadSales, ReadCanonical, ReadMasters, ReadEvidence, Read
  <2>2. request' \in Asked
    BY <1>3, <2>1
    DEF ReadSales, ReadCanonical, ReadMasters, ReadEvidence, Read, Asked, OrNotRead, EvidenceRead
  <2> QED BY <2>1, <2>2
<1>4. CASE Compute
  <2>1. request \in Asked /\ request["rows"] # NotRead /\ request["masters"] # NotRead
    BY <1>4 DEF Compute, Parts
  <2>2. /\ request.rows \in SalesTables /\ request.masters \in MasterTables
        /\ request.kind = "universes"
    BY <2>1 DEF Asked, OrNotRead
  <2> QED BY <1>4, <2>1, <2>2 DEF Compute
<1>5. CASE Deliver
  BY <1>5 DEF Deliver, NoReport
<1>6. ASSUME NEW window \in Windows, NEW found \in EvidenceTables,
             Audit(window, found) \/ DetectDeterioration(window, found)
      PROVE  SalesInv'
  BY <1>6 DEF Audit, DetectDeterioration
<1>7. ASSUME NEW cutoff \in ForecastDays, NEW today \in ForecastDays, ForecastClose(cutoff, today)
      PROVE  SalesInv'
  BY <1>7 DEF ForecastClose
<1>8. CASE UNCHANGED vars
  BY <1>8 DEF vars
<1> QED BY <1>1, <1>2, <1>3, <1>4, <1>5, <1>6, <1>7, <1>8 DEF Next

\* What a report of universes computes from was in the tables when it read them, whatever the
\* importers and editors did meanwhile (Promise.all of the loaders).
THEOREM AlwaysSales == Spec => []SalesInv
<1>1. Init => SalesInv
  BY InitSales
<1>2. SalesInv /\ [Next]_vars => SalesInv'
  BY NextSales
<1> QED BY <1>1, <1>2, PTL DEF Spec

-----------------------------------------------------------------------------
(* What no later import moves.                                             *)

\* Tables that differ only after a cutoff are the same up to it.
LEMMA SameThroughCutoff ==
  ASSUME NEW before \in SalesTables, NEW after \in SalesTables, NEW cutoff \in Cutoffs \ {NoCutoff},
         \A r \in (after \ before) \cup (before \ after) : Dated(r) => r.date > CutoffEnd(cutoff)
  PROVE  ThroughCutoff(before, cutoff) = ThroughCutoff(after, cutoff)
<1>1. CutoffEnd(cutoff) \in Int /\ cutoff.type # "none"
  BY TablesAssumption, MonthsHaveDays DEF CutoffEnd, ClosesOn
<1>2. \A r \in before \cup after : r.date \in Nat
  BY TablesAssumption
<1>3. ASSUME NEW r, Dated(r), r.date <= CutoffEnd(cutoff), r \in before \cup after
      PROVE  r \in before /\ r \in after
  BY <1>1, <1>2, <1>3
<1> QED BY <1>1, <1>3 DEF ThroughCutoff

\* Whatever an import adds, drops or corrects among the rows dated after a cutoff, and among the
\* undated ones, the sales recognized at that cutoff and their months stay.
THEOREM AlwaysClosedSales == Spec => ClosedSalesStay
<1>1. SalesInv /\ SalesInv' =>
        [sales' = sales \/
           \A cutoff \in Cutoffs \ {NoCutoff} :
             (\A r \in (sales' \ sales) \cup (sales \ sales') :
                Dated(r) => r.date > CutoffEnd(cutoff)) => Unmoved(cutoff)]_vars
  BY SameThroughCutoff DEF SalesInv, Unmoved, VentasContext
<1> QED BY <1>1, AlwaysSales, PTL DEF Spec, ClosedSalesStay

-----------------------------------------------------------------------------
(* Who is credited with a sale.                                            *)

\* On one day an interval of the masters holds exactly when the role and the assignment it is made
\* of both hold.
LEMMA IntervalHolds ==
  ASSUME NEW role, NEW post, NEW day \in Int,
         role.from \in Int, role.to \in Int, role.current \in BOOLEAN,
         post.from \in Int, post.to \in Int, post.current \in BOOLEAN,
         NEW interval,
         interval.from = LaterStart(role.from, post.from),
         interval.to = EarlierEnd(role.to, post.to),
         interval.current = (role.current /\ post.current)
  PROVE  IntervalContains(interval, day) <=>
           /\ Held(role, day) /\ Held(post, day)
           /\ \/ role.current /\ post.current
              \/ {role.from, role.to, post.from, post.to} # {NoDay}
<1> DEFINE from == LaterStart(role.from, post.from)
           to == EarlierEnd(role.to, post.to)
<1>1. (from = NoDay \/ from <= day) <=>
        (role.from = NoDay \/ role.from <= day) /\ (post.from = NoDay \/ post.from <= day)
  BY DEF LaterStart, NoDay
<1>2. (to = NoDay \/ day <= to) <=>
        (role.to = NoDay \/ day <= role.to) /\ (post.to = NoDay \/ day <= post.to)
  BY DEF EarlierEnd, NoDay
<1>3. (from # NoDay \/ to # NoDay) <=> {role.from, role.to, post.from, post.to} # {NoDay}
  BY DEF LaterStart, EarlierEnd, NoDay
<1>4. IntervalContains(interval, day) <=>
        /\ from = NoDay \/ from <= day
        /\ to = NoDay \/ day <= to
        /\ (role.current /\ post.current) \/ from # NoDay \/ to # NoDay
  BY DEF IntervalContains
<1> HIDE DEF from, to
<1> QED BY <1>1, <1>2, <1>3, <1>4 DEF Held

\* A role and an assignment to a CIDEF store both held on a day.
WasThere(m, person, store, day) ==
  \E role \in m.roles, post \in m.assignments :
    /\ role.person = person /\ post.person = person /\ post.store = store
    /\ \E s \in m.stores : s.store = post.store /\ s.channel = "CIDEF"
    /\ Held(role, day) /\ Held(post, day)
    /\ \/ role.current /\ post.current
       \/ {role.from, role.to, post.from, post.to} # {NoDay}

\* Whoever is active at a store on a day had a role and an assignment there.
LEMMA ActiveAt ==
  ASSUME NEW m \in MasterTables, NEW person, NEW store, NEW day \in Int
  PROVE  (\E i \in ActiveAssignments(m, person, day) : i.store = store)
           <=> WasThere(m, person, store, day)
<1> DEFINE Interval(role, post) ==
             [person |-> role.person, store |-> post.store,
              from |-> LaterStart(role.from, post.from),
              to |-> EarlierEnd(role.to, post.to), current |-> role.current /\ post.current]
           Joined(role, post) ==
             /\ role.person = post.person
             /\ \E s \in m.stores : s.store = post.store /\ s.channel = "CIDEF"
             /\ StartsBy(role.from, post.to) /\ StartsBy(post.from, role.to)
           Both(role, post) ==
             /\ Held(role, day) /\ Held(post, day)
             /\ \/ role.current /\ post.current
                \/ {role.from, role.to, post.from, post.to} # {NoDay}
<1>1. \A x \in m.roles \cup m.assignments :
        x.from \in Int /\ x.to \in Int /\ x.current \in BOOLEAN
  BY TablesAssumption
<1>2. \A i : i \in VendedorCidefIntervals(m) <=>
        \E role \in m.roles, post \in m.assignments :
          Joined(role, post) /\ i = Interval(role, post)
  <2> TAKE i
  <2> DEFINE pairs == {p \in m.roles \X m.assignments : Joined(p[1], p[2])}
  <2>1. VendedorCidefIntervals(m) = {Interval(p[1], p[2]) : p \in pairs}
    BY DEF VendedorCidefIntervals
  <2> HIDE DEF Interval, Joined
  <2>2. ASSUME i \in VendedorCidefIntervals(m)
        PROVE  \E role \in m.roles, post \in m.assignments :
                 Joined(role, post) /\ i = Interval(role, post)
    BY <2>1, <2>2
  <2>3. ASSUME NEW role \in m.roles, NEW post \in m.assignments,
               Joined(role, post), i = Interval(role, post)
        PROVE  i \in VendedorCidefIntervals(m)
    <3>1. <<role, post>> \in pairs
      BY <2>3
    <3> QED BY <2>1, <2>3, <3>1
  <2> QED BY <2>2, <2>3
<1>3. \A role \in m.roles, post \in m.assignments :
        /\ IntervalContains(Interval(role, post), day) <=> Both(role, post)
        /\ Interval(role, post).person = role.person /\ Interval(role, post).store = post.store
  BY <1>1, IntervalHolds
<1>4. \A role \in m.roles, post \in m.assignments :
        Held(role, day) /\ Held(post, day) =>
          StartsBy(role.from, post.to) /\ StartsBy(post.from, role.to)
  BY <1>1 DEF Held, StartsBy
<1> HIDE DEF Interval, Both
<1>5. ASSUME NEW i \in ActiveAssignments(m, person, day), i.store = store
      PROVE  \E role \in m.roles, post \in m.assignments :
               /\ role.person = person /\ post.person = person /\ post.store = store
               /\ \E s \in m.stores : s.store = post.store /\ s.channel = "CIDEF"
               /\ Both(role, post)
  BY <1>2, <1>3, <1>5 DEF ActiveAssignments
<1>6. ASSUME NEW role \in m.roles, NEW post \in m.assignments,
             role.person = person, post.person = person, post.store = store,
             \E s \in m.stores : s.store = post.store /\ s.channel = "CIDEF",
             Both(role, post)
      PROVE  \E i \in ActiveAssignments(m, person, day) : i.store = store
  <2>1. Joined(role, post)
    BY <1>4, <1>6 DEF Both
  <2>2. Interval(role, post) \in VendedorCidefIntervals(m)
    BY <1>2, <2>1
  <2> QED BY <1>3, <1>6, <2>2 DEF ActiveAssignments
<1> QED BY <1>5, <1>6 DEF Both, WasThere

\* One event of the own stores is credited to its seller exactly where the masters put the seller.
LEMMA CreditedWhereSettled ==
  ASSUME NEW scoped, scoped.universe = "OWN_STORES", scoped.sale.date \in Int,
         NEW resources, resources.masters \in MasterTables,
         NEW told, told.masters = resources.masters,
         NEW e, e = AnalyticalEvent(scoped, resources)
  PROVE  e.seller.eligible <=>
           /\ e.seller.status = "RESUELTA" /\ e.certifiedStore # NoId
           /\ SettledAt(told, e, e.scoped.sale.date)
<1> DEFINE m == resources.masters
           store == StoreOf(scoped, m)
           seller == SellerOf(scoped, store, m)
<1>1. e.seller = seller /\ e.certifiedStore = scoped.certifiedStore /\ e.scoped = scoped
  BY DEF AnalyticalEvent
<1>2. /\ store.status = "RESUELTA" <=> scoped.certifiedStore # NoId
      /\ store.store = scoped.certifiedStore /\ store.channel = "CIDEF"
  BY DEF StoreOf
<1>3. seller.eligible <=>
        /\ seller.status = "RESUELTA" /\ store.status = "RESUELTA" /\ store.channel = "CIDEF"
        /\ \E i \in ActiveAssignments(m, seller.person, scoped.sale.date) : i.store = store.store
  BY DEF SellerOf
<1>4. (\E i \in ActiveAssignments(m, seller.person, scoped.sale.date) :
         i.store = scoped.certifiedStore)
        <=> SettledAt(told, e, scoped.sale.date)
  <2> HIDE DEF seller, store
  <2>1. e.seller.person = seller.person /\ e.certifiedStore = scoped.certifiedStore
    BY <1>1
  <2>2. told.masters = m /\ m \in MasterTables
    OBVIOUS
  <2> HIDE DEF m
  <2> DEFINE person == seller.person
             at == scoped.certifiedStore
             day == scoped.sale.date
  <2>3. day \in Int
    OBVIOUS
  <2>4. (\E i \in ActiveAssignments(m, person, day) : i.store = at)
          <=> WasThere(m, person, at, day)
    <3> HIDE DEF person, at, day
    <3> QED BY <2>2, <2>3, ActiveAt
  <2> QED BY <2>1, <2>2, <2>4 DEF SettledAt, WasThere
<1> HIDE DEF seller, store
<1> QED BY <1>1, <1>2, <1>3, <1>4

\* The sales of a context are rows of its table, so each has a day.
LEMMA SalesHaveDays ==
  ASSUME NEW rows \in SalesTables, NEW cutoff, NEW s \in VentasContext(rows, cutoff).sales
  PROVE  s.date \in Nat
<1>1. ThroughCutoff(rows, cutoff) \subseteq rows
  BY DEF ThroughCutoff
<1>2. IsTable(ThroughCutoff(rows, cutoff))
  BY <1>1, TablesAssumption, FS_Subset DEF IsTable
<1>3. s \in RecognizedSales(ThroughCutoff(rows, cutoff))
  BY DEF VentasContext
<1>4. RecognizedSales(ThroughCutoff(rows, cutoff)) \subseteq ThroughCutoff(rows, cutoff)
  BY <1>2, SalesAreRows
<1> QED BY <1>2, <1>3, <1>4 DEF IsTable

\* Whatever the masters hold, and whatever they come to hold while a report is under way, the
\* report credits a seller with a sale of the own stores exactly when a role and an assignment to
\* the certified store both held on the day of the sale.
THEOREM AlwaysSellersWereThere == Spec => SellersWereThere
<1> DEFINE Credited ==
             Delivered("universes") =>
               LET told == UniversesTold
               IN \A e \in told.own.events :
                    e.seller.eligible <=>
                      /\ e.seller.status = "RESUELTA" /\ e.certifiedStore # NoId
                      /\ SettledAt(told, e, e.scoped.sale.date)
<1>1. SalesInv => [Credited]_vars
  <2> SUFFICES ASSUME SalesInv, report.kind = "universes", NEW e \in UniversesTold.own.events
               PROVE  e.seller.eligible <=>
                        /\ e.seller.status = "RESUELTA" /\ e.certifiedStore # NoId
                        /\ SettledAt(UniversesTold, e, e.scoped.sale.date)
    BY DEF Delivered
  <2> DEFINE context == VentasContext(report.rows, report.cutoff)
             commercial == CommercialContext(context.sales, report.canonical, "OWN_STORES")
  <2>1. report.rows \in SalesTables /\ report.masters \in MasterTables
    BY DEF SalesInv
  <2>2. Resources.masters = report.masters /\ UniversesTold.masters = report.masters
    BY DEF Resources, UniversesTold
  <2>3. UniversesTold.own.events = {AnalyticalEvent(s, Resources) : s \in commercial.sales}
    BY DEF UniversesTold, VentasUniverse
  <2>4. PICK scoped \in commercial.sales : e = AnalyticalEvent(scoped, Resources)
    BY <2>3
  <2>5. scoped.universe = "OWN_STORES" /\ scoped.sale \in context.sales
    BY <2>4 DEF CommercialContext, Scoped
  <2>6. scoped.sale.date \in Int
    BY <2>1, <2>5, SalesHaveDays
  <2> QED BY <2>1, <2>2, <2>4, <2>5, <2>6, CreditedWhereSettled
<1> QED BY <1>1, AlwaysSales, PTL DEF Spec, SellersWereThere

-----------------------------------------------------------------------------
(* The calendar of the forecasts.                                          *)

\* A day is a whole number of months and a remainder.
LEMMA Quotient ==
  ASSUME NEW a \in Int
  PROVE  /\ a \div MonthLength \in Int /\ a % MonthLength \in 0 .. (MonthLength - 1)
         /\ a = MonthLength * (a \div MonthLength) + (a % MonthLength)
<1>1. MonthLength \in Int /\ MonthLength > 1
  BY MonthsHaveDays
<1>2. a \div MonthLength \in Int /\ a % MonthLength \in 0 .. (MonthLength - 1)
  BY <1>1
<1>3. a = MonthLength * (a \div MonthLength) + (a % MonthLength)
  BY <1>1
<1> QED BY <1>2, <1>3

\* There is only one such quotient and remainder.
LEMMA OnlyQuotient ==
  ASSUME NEW a \in Int, NEW q \in Int, NEW k \in 0 .. (MonthLength - 1), a = MonthLength * q + k
  PROVE  a \div MonthLength = q /\ a % MonthLength = k
<1> DEFINE p == a \div MonthLength
           r == a % MonthLength
<1>1. p \in Int /\ r \in 0 .. (MonthLength - 1) /\ a = MonthLength * p + r
  BY Quotient
<1> HIDE DEF p, r
<1>2. MonthLength \in Nat /\ MonthLength > 1
  BY MonthsHaveDays
<1>3. MonthLength * (p - q) = k - r
  BY <1>1, <1>2
<1>4. CASE p - q >= 1
  <2>1. MonthLength * (p - q) >= MonthLength
    BY <1>1, <1>2, <1>4
  <2> QED BY <1>1, <1>2, <1>3, <2>1
<1>5. CASE p - q <= -1
  <2>1. MonthLength * (q - p) >= MonthLength
    BY <1>1, <1>2, <1>5
  <2>2. MonthLength * (q - p) = r - k
    BY <1>1, <1>2
  <2> QED BY <1>1, <1>2, <2>1, <2>2
<1>6. CASE p = q
  BY <1>1, <1>2, <1>3, <1>6 DEF p, r
<1> QED BY <1>1, <1>4, <1>5, <1>6

\* Every day is one day of one commercial month.
LEMMA CommercialDate ==
  ASSUME NEW date \in Int
  PROVE  /\ CommercialMonth(date) \in Int /\ CommercialDay(date) \in Days
         /\ date = DateOf(CommercialMonth(date), CommercialDay(date))
<1> DEFINE a == date - 2
           m == a \div MonthLength
           k == a % MonthLength
<1>1. m \in Int /\ k \in 0 .. (MonthLength - 1) /\ a = MonthLength * m + k
  <2>1. a \in Int
    OBVIOUS
  <2> HIDE DEF a
  <2> QED BY <2>1, Quotient
<1>2. MonthLength \in Nat
  BY MonthsHaveDays
<1>3. CommercialMonth(date) = m /\ CommercialDay(date) = k + 1
  BY DEF CommercialMonth, CommercialDay
<1> HIDE DEF m, k
<1> QED BY <1>1, <1>2, <1>3 DEF Days, DateOf

\* The date of a day of a month falls on that day of that month.
LEMMA DateOfMonth ==
  ASSUME NEW month \in Int, NEW day \in Days
  PROVE  /\ DateOf(month, day) \in Int
         /\ CommercialMonth(DateOf(month, day)) = month
         /\ CommercialDay(DateOf(month, day)) = day
<1>1. MonthLength \in Nat
  BY MonthsHaveDays
<1>2. DateOf(month, day) - 2 = MonthLength * month + (day - 1) /\ DateOf(month, day) \in Int
  BY <1>1 DEF DateOf, Days
<1>3. day - 1 \in 0 .. (MonthLength - 1)
  BY <1>1 DEF Days
<1> QED BY <1>2, <1>3, OnlyQuotient DEF CommercialMonth, CommercialDay, Days

\* Every day of a month comes before every day of a later one.
LEMMA MonthsInOrder ==
  ASSUME NEW m \in Int, NEW n \in Int, m < n, NEW k \in Days, NEW l \in Days
  PROVE  DateOf(m, k) < DateOf(n, l)
<1>1. MonthLength \in Nat
  BY MonthsHaveDays
<1>2. MonthLength * (n - m) >= MonthLength
  BY <1>1
<1>3. MonthLength * (n - m) = MonthLength * n - MonthLength * m
  BY <1>1
<1> DEFINE a == MonthLength * m
           b == MonthLength * n
<1>4. a \in Int /\ b \in Int /\ DateOf(m, k) = a + k + 1 /\ DateOf(n, l) = b + l + 1
  BY <1>1 DEF DateOf, Days
<1>5. b - a >= MonthLength
  BY <1>2, <1>3
<1> HIDE DEF a, b
<1> QED BY <1>1, <1>4, <1>5 DEF Days

\* The dates of the first days of a month, those between its first day and one of its days.
LEMMA InMonthByDay ==
  ASSUME NEW date \in Int, NEW month \in Int, NEW day \in Days
  PROVE  (CommercialMonth(date) = month /\ CommercialDay(date) <= day)
           <=> (DateOf(month, 1) <= date /\ date <= DateOf(month, day))
<1> DEFINE m == CommercialMonth(date)
           k == CommercialDay(date)
<1>1. m \in Int /\ k \in Days /\ date = DateOf(m, k)
  BY CommercialDate
<1>2. 1 \in Days /\ MonthLength \in Nat
  BY MonthsHaveDays DEF Days
<1> HIDE DEF m, k
<1>3. CASE m = month
  <2>1. MonthLength * month \in Int
    BY <1>2
  <2> QED BY <1>1, <1>2, <1>3, <2>1 DEF DateOf, Days, m, k
<1>4. CASE m < month
  <2>1. date < DateOf(month, 1)
    BY <1>1, <1>2, <1>4, MonthsInOrder
  <2>2. DateOf(month, 1) \in Int
    BY <1>2, DateOfMonth
  <2> QED BY <1>1, <1>4, <2>1, <2>2 DEF m
<1>5. CASE month < m
  <2>1. DateOf(month, day) < date
    BY <1>1, <1>5, MonthsInOrder
  <2>2. DateOf(month, day) \in Int
    BY DateOfMonth
  <2> QED BY <1>1, <1>5, <2>1, <2>2 DEF m
<1> QED BY <1>1, <1>3, <1>4, <1>5

\* A month closes on the last of its days.
LEMMA MonthCloses ==
  ASSUME NEW month \in Int
  PROVE  ClosesOn(month) = DateOf(month, MonthLength) /\ MonthLength \in Days
<1>1. MonthLength \in Nat /\ MonthLength > 1
  BY MonthsHaveDays
<1>2. (month + 1) * MonthLength = month * MonthLength + MonthLength
  BY <1>1
<1> QED BY <1>1, <1>2 DEF ClosesOn, DateOf, Days

-----------------------------------------------------------------------------
(* The rows that come one after another for a VIN.                         *)

\* A part of a table is a table, and one with rows has a first and a last date.
LEMMA PartIsTable ==
  ASSUME NEW rows, IsTable(rows), NEW part \in SUBSET rows
  PROVE  IsTable(part)
BY FS_Subset DEF IsTable

\* A table with rows has a first date.
LEMMA Earliest ==
  ASSUME NEW rows, IsTable(rows), rows # {}
  PROVE  \E r \in rows : \A s \in rows : r.date <= s.date
<1> DEFINE R == {p \in rows \X rows : p[2].date <= p[1].date}
<1>1. \A x, y \in rows : <<x, y>> \in R <=> y.date <= x.date
  OBVIOUS
<1>2. /\ \A x, y \in rows : <<x, y>> \in R \/ <<y, x>> \in R
      /\ \A x, y, z \in rows : <<x, y>> \in R /\ <<y, z>> \in R => <<x, z>> \in R
  BY <1>1 DEF IsTable
<1> HIDE DEF R
<1>3. PICK r \in rows : \A x \in rows : <<x, r>> \in R
  BY <1>2, Greatest DEF IsTable
<1> QED BY <1>1, <1>3

\* The row that stands for a VIN on a day, and those it has on all its days.
DayRow(rows, v, date) == LowestId({r \in RowsOf(rows, v) : r.date = date})
StepsOf(rows, v) == {DayRow(rows, v, d) : d \in {r.date : r \in RowsOf(rows, v)}}
EarlierSteps(rows, r) == {s \in StepsOf(rows, r.vin) : s.date < r.date}
PreviousOf(rows, r) == IF EarlierSteps(rows, r) = {} THEN NoSale ELSE Last(EarlierSteps(rows, r))
Inside(rows, months) == {r \in rows : InMonths(r, months)}

\* The events of the backtest: the rows without VIN, and each step of each VIN.
LEMMA EventsAre ==
  ASSUME NEW rows, NEW months
  PROVE  RecognitionEvents(rows, months) =
           {[previous |-> NoSale, next |-> r] : r \in {s \in Inside(rows, months) : s.vin = NoVin}}
             \cup {[previous |-> PreviousOf(Inside(rows, months), r), next |-> r] :
                     r \in UNION {StepsOf(Inside(rows, months), v) :
                                    v \in VinsOf(Inside(rows, months))}}
BY DEF RecognitionEvents, Inside, PreviousOf, EarlierSteps, StepsOf, DayRow

\* The steps of a VIN are rows of it, one for each of its dates.
LEMMA StepsAreRows ==
  ASSUME NEW rows, IsTable(rows), NEW v
  PROVE  /\ StepsOf(rows, v) \subseteq RowsOf(rows, v) /\ IsTable(StepsOf(rows, v))
         /\ \A s, t \in StepsOf(rows, v) : s.date = t.date => s = t
         /\ \A s \in StepsOf(rows, v) : s = DayRow(rows, v, s.date)
         /\ \A r \in RowsOf(rows, v) : \E s \in StepsOf(rows, v) : s.date = r.date
<1>1. ASSUME NEW r \in RowsOf(rows, v)
      PROVE  DayRow(rows, v, r.date) \in RowsOf(rows, v) /\ DayRow(rows, v, r.date).date = r.date
  <2> DEFINE day == {q \in RowsOf(rows, v) : q.date = r.date}
  <2>1. r \in day /\ day \subseteq RowsOf(rows, v) /\ day \subseteq rows
    BY DEF RowsOf
  <2>2. LowestId(day) \in day
    BY <2>1, PartIsTable, LowestIdIsThere
  <2> QED BY <2>1, <2>2 DEF DayRow
<1>2. /\ StepsOf(rows, v) \subseteq RowsOf(rows, v)
      /\ \A s \in StepsOf(rows, v) : s = DayRow(rows, v, s.date)
  BY <1>1 DEF StepsOf
<1>3. IsTable(StepsOf(rows, v))
  BY <1>2, PartIsTable DEF RowsOf
<1>4. \A r \in RowsOf(rows, v) : \E s \in StepsOf(rows, v) : s.date = r.date
  BY <1>1 DEF StepsOf
<1> QED BY <1>2, <1>3, <1>4

\* The last of rows of different dates.
LEMMA LastOfSteps ==
  ASSUME NEW rows, IsTable(rows), \A s, t \in rows : s.date = t.date => s = t,
         NEW s \in rows, \A t \in rows : t.date <= s.date
  PROVE  Last(rows) = s
<1>1. LastRows(rows) = {s}
  BY DEF LastRows, IsTable
<1>2. LowestId({s}) \in {s}
  BY PartIsTable, LowestIdIsThere
<1> QED BY <1>1, <1>2 DEF Last

\* A step that is not the last of its VIN is replaced by the next one.
LEMMA NextReplaces ==
  ASSUME NEW rows, IsTable(rows), NEW v, NEW s \in StepsOf(rows, v),
         NEW later \in RowsOf(rows, v), s.date < later.date
  PROVE  \E r \in StepsOf(rows, v) : /\ PreviousOf(rows, r) = s /\ s.date < r.date
                                     /\ r.date <= later.date
<1> DEFINE after == {t \in StepsOf(rows, v) : s.date < t.date}
<1>1. PICK t \in StepsOf(rows, v) : t.date = later.date
  BY StepsAreRows
<1>2. IsTable(StepsOf(rows, v)) /\ \A x \in StepsOf(rows, v) : x.vin = v
  BY StepsAreRows DEF RowsOf
<1>3. PICK r \in after : \A x \in after : r.date <= x.date
  <2>1. t \in after
    BY <1>1
  <2>2. IsTable(after)
    BY <1>2, PartIsTable
  <2> QED BY <2>1, <2>2, Earliest
<1> DEFINE earlier == EarlierSteps(rows, r)
<1>4. r \in StepsOf(rows, v) /\ s.date < r.date /\ r.vin = v
  BY <1>2, <1>3
<1>5. earlier \subseteq StepsOf(rows, v) /\ s \in earlier
  BY <1>4 DEF EarlierSteps
<1>6. \A x \in earlier : x.date <= s.date
  <2> SUFFICES ASSUME NEW x \in earlier, ~(x.date <= s.date) PROVE FALSE
    OBVIOUS
  <2>1. x \in StepsOf(rows, v) /\ x.date < r.date
    BY <1>4 DEF EarlierSteps
  <2>2. x.date \in Nat /\ s.date \in Nat /\ r.date \in Nat
    BY <1>2, <1>4, <2>1 DEF IsTable
  <2>3. x \in after
    BY <2>1, <2>2
  <2> QED BY <1>3, <2>1, <2>2, <2>3
<1>7. Last(earlier) = s
  <2>1. IsTable(earlier)
    BY <1>2, <1>5, PartIsTable
  <2>2. \A x, y \in earlier : x.date = y.date => x = y
    BY <1>5, StepsAreRows
  <2> HIDE DEF earlier
  <2> QED BY <1>5, <1>6, <2>1, <2>2, LastOfSteps
<1>8. r.date <= later.date
  BY <1>1, <1>3
<1> QED BY <1>4, <1>5, <1>7, <1>8 DEF PreviousOf

\* What a row replaces is an earlier step of its VIN.
LEMMA ReplacedIsEarlier ==
  ASSUME NEW rows, IsTable(rows), NEW r, PreviousOf(rows, r) # NoSale
  PROVE  PreviousOf(rows, r) \in StepsOf(rows, r.vin) /\ PreviousOf(rows, r).date < r.date
<1>1. EarlierSteps(rows, r) # {} /\ PreviousOf(rows, r) = Last(EarlierSteps(rows, r))
  BY DEF PreviousOf
<1>2. IsTable(EarlierSteps(rows, r))
  BY StepsAreRows, PartIsTable DEF EarlierSteps
<1>3. PreviousOf(rows, r) \in EarlierSteps(rows, r)
  BY <1>1, <1>2, LastIsThere
<1> QED BY <1>3 DEF EarlierSteps

-----------------------------------------------------------------------------
(* What the events of a month count is what the rule sells by each day.    *)

\* The dated rows of a month are those of a window that has the month, and those up to a day are
\* those that a cutoff at that day lets through.
ByDay(month, day) == [type |-> "date", value |-> DateOf(month, day)]

\* The days of a month of a window lie within the window.
LEMMA MonthsInWindow ==
  ASSUME NEW start \in Int, NEW m \in Int, NEW end \in Int, 0 <= start, start <= m, m <= end,
         NEW day \in Days
  PROVE  /\ 0 < DateOf(m, 1) /\ DateOf(start, 1) <= DateOf(m, 1) /\ DateOf(m, day) <= ClosesOn(end)
         /\ DateOf(start, 1) \in Int /\ DateOf(m, 1) \in Int /\ DateOf(m, day) \in Int
         /\ ClosesOn(end) \in Int
<1>1. MonthLength \in Nat /\ MonthLength \in Days /\ 1 \in Days
  BY MonthsHaveDays DEF Days
<1>2. /\ DateOf(start, 1) \in Int /\ DateOf(m, 1) \in Int /\ DateOf(m, day) \in Int
      /\ DateOf(end, MonthLength) \in Int
  BY <1>1, DateOfMonth
<1>3. ClosesOn(end) = DateOf(end, MonthLength)
  BY MonthCloses
<1>4. 0 < DateOf(m, 1)
  <2>1. m * MonthLength >= 0
    BY <1>1
  <2>2. m * MonthLength \in Int
    BY <1>1
  <2> QED BY <2>1, <2>2 DEF DateOf
<1>5. DateOf(start, 1) <= DateOf(m, 1)
  <2>1. CASE start = m
    BY <2>1, <1>2
  <2>2. CASE start < m
    BY <2>2, <1>1, <1>2, MonthsInOrder
  <2> QED BY <2>1, <2>2
<1>6. DateOf(m, day) <= DateOf(end, MonthLength)
  <2>1. CASE m = end
    <3>1. m * MonthLength \in Int
      BY <1>1
    <3> QED BY <2>1, <3>1, <1>1 DEF DateOf, Days
  <2>2. CASE m < end
    BY <2>2, <1>1, <1>2, MonthsInOrder
  <2> QED BY <2>1, <2>2
<1> QED BY <1>2, <1>3, <1>4, <1>5, <1>6

\* The rows of a month up to a day, seen from the window and from the cutoff.
LEMMA RowsOfMonth ==
  ASSUME NEW rows, IsTable(rows), NEW months, months.start \in Nat, months.end \in Int,
         NEW m \in months.start .. months.end, NEW day \in Days, NEW r \in rows
  PROVE  /\ CommercialMonth(r.date) = m /\ CommercialDay(r.date) <= day
              <=> r \in Inside(rows, months) /\ DateOf(m, 1) <= r.date /\ r.date <= DateOf(m, day)
         /\ r \in ThroughCutoff(rows, ByDay(m, day)) /\ CommercialMonth(r.date) = m
              <=> CommercialMonth(r.date) = m /\ CommercialDay(r.date) <= day
<1> DEFINE start == months.start
           end == months.end
           date == r.date
<1>1. /\ start \in Int /\ 0 <= start /\ end \in Int /\ m \in Int /\ start <= m /\ m <= end
      /\ date \in Int
  BY DEF IsTable
<1> HIDE DEF start, end, date
<1>2. /\ 0 < DateOf(m, 1) /\ DateOf(start, 1) <= DateOf(m, 1) /\ DateOf(m, day) <= ClosesOn(end)
      /\ DateOf(start, 1) \in Int /\ DateOf(m, 1) \in Int /\ DateOf(m, day) \in Int
      /\ ClosesOn(end) \in Int
  BY <1>1, MonthsInWindow
<1>3. (CommercialMonth(date) = m /\ CommercialDay(date) <= day)
        <=> (DateOf(m, 1) <= date /\ date <= DateOf(m, day))
  BY <1>1, InMonthByDay
<1>4. CommercialMonth(date) = m => DateOf(m, 1) <= date
  <2>1. CommercialDay(date) \in Days /\ MonthLength \in Days
    BY <1>1, CommercialDate, MonthCloses
  <2>2. CommercialDay(date) <= MonthLength
    BY <2>1, MonthsHaveDays DEF Days
  <2> QED BY <1>1, <2>1, <2>2, InMonthByDay
<1>5. r \in ThroughCutoff(rows, ByDay(m, day)) <=> date # 0 /\ date <= DateOf(m, day)
  BY DEF ThroughCutoff, ByDay, CutoffEnd, Dated, Undated, date
<1>6. r \in Inside(rows, months) <=> date # 0 /\ DateOf(start, 1) <= date /\ date <= ClosesOn(end)
  BY DEF Inside, InMonths, Dated, Undated, date, start, end
<1>7. /\ CommercialMonth(date) = m /\ CommercialDay(date) <= day
           <=> r \in Inside(rows, months) /\ DateOf(m, 1) <= date /\ date <= DateOf(m, day)
      /\ r \in ThroughCutoff(rows, ByDay(m, day)) /\ CommercialMonth(date) = m
           <=> CommercialMonth(date) = m /\ CommercialDay(date) <= day
  BY <1>1, <1>2, <1>3, <1>4, <1>5, <1>6
<1> QED BY <1>7 DEF date

EventsBy(rows, months, m, day) ==
  {e \in RecognitionEvents(rows, months) :
     CommercialMonth(e.next.date) = m /\ CommercialDay(e.next.date) <= day}
NextRows(events) == {e.next : e \in events}
SoldBy(rows, m, day) ==
  {s \in VentasContext(rows, ByDay(m, day)).sales : CommercialMonth(s.date) = m}

\* The sales up to a cutoff: the rows without VIN, and the last step of each VIN.
LEMMA SalesByDay ==
  ASSUME NEW rows, IsTable(rows), NEW m, NEW day
  PROVE  LET T == ThroughCutoff(rows, ByDay(m, day)) IN
         /\ IsTable(T) /\ T \subseteq rows
         /\ VentasContext(rows, ByDay(m, day)).sales =
              {r \in T : r.vin = NoVin} \cup {Last(RowsOf(T, v)) : v \in VinsOf(T)}
<1> DEFINE T == ThroughCutoff(rows, ByDay(m, day))
<1>1. T \subseteq rows /\ IsTable(T) /\ \A r \in T : Dated(r)
  BY PartIsTable DEF ThroughCutoff, ByDay
<1>2. VentasContext(rows, ByDay(m, day)).sales = RecognizedSales(T)
  BY DEF VentasContext
<1> HIDE DEF T
<1>3. AssignableVins(T) = VinsOf(T) /\ AssignableNullRows(T) = {r \in T : r.vin = NoVin}
  BY <1>1 DEF AssignableVins, AssignableNullRows, RowsOf
<1>4. RecognizedSales(T) = {r \in T : r.vin = NoVin} \cup {Last(RowsOf(T, v)) : v \in VinsOf(T)}
  BY <1>3 DEF RecognizedSales
<1> QED BY <1>1, <1>2, <1>4 DEF T

\* The rows that come in a month up to a day, less those replaced, are what the rule sells.
LEMMA SoldAreKept ==
  ASSUME NEW rows, IsTable(rows), NoSale \notin rows,
         NEW months, months.start \in Nat, months.end \in Int,
         NEW m \in months.start .. months.end, NEW day \in Days
  PROVE  LET mine == EventsBy(rows, months, m, day) IN
         /\ Replaced(mine, m) \subseteq NextRows(mine) /\ NextRows(mine) \subseteq rows
         /\ NextRows(mine) \ Replaced(mine, m) = SoldBy(rows, m, day)
<1> DEFINE mine == EventsBy(rows, months, m, day)
           W == Inside(rows, months)
           T == ThroughCutoff(rows, ByDay(m, day))
           Now(r) == CommercialMonth(r.date) = m /\ CommercialDay(r.date) <= day
           Lone == {s \in W : s.vin = NoVin}
           Steps == UNION {StepsOf(W, v) : v \in VinsOf(W)}
<1>1. IsTable(W) /\ W \subseteq rows /\ IsTable(T) /\ T \subseteq rows
  BY PartIsTable DEF Inside, ThroughCutoff
<1>2. \A r \in rows : /\ Now(r) <=> r \in W /\ DateOf(m, 1) <= r.date /\ r.date <= DateOf(m, day)
                      /\ r \in T /\ CommercialMonth(r.date) = m <=> Now(r)
  BY RowsOfMonth
<1>3. \A r, s \in rows : Now(r) /\ r.date <= s.date /\ s \in T => Now(s)
  <2> SUFFICES ASSUME NEW r \in rows, NEW s \in rows, Now(r), r.date <= s.date, s \in T
               PROVE  Now(s)
    OBVIOUS
  <2>1. s.date <= DateOf(m, day) /\ DateOf(m, 1) <= r.date
    BY <1>2 DEF ThroughCutoff, ByDay, CutoffEnd
  <2>2. m \in Int /\ 1 \in Days
    BY MonthsHaveDays DEF Days
  <2>3. DateOf(m, 1) \in Int /\ r.date \in Int /\ s.date \in Int
    BY <2>2, DateOfMonth DEF IsTable
  <2>4. DateOf(m, 1) <= s.date
    BY <2>1, <2>3
  <2> QED BY <2>1, <2>2, <2>3, <2>4, InMonthByDay
<1>4. \A r \in W : r \in Lone \/ (r.vin # NoVin /\ \E s \in StepsOf(W, r.vin) : s.date = r.date)
  <2> SUFFICES ASSUME NEW r \in W, r.vin # NoVin PROVE \E s \in StepsOf(W, r.vin) : s.date = r.date
    OBVIOUS
  <2>1. r \in RowsOf(W, r.vin)
    BY DEF RowsOf
  <2> QED BY <1>1, <2>1, StepsAreRows
<1>5. \A v : \A s \in StepsOf(W, v) :
        s \in W /\ s.vin = v /\ (v # NoVin => v \in VinsOf(W))
  BY <1>1, StepsAreRows DEF RowsOf, VinsOf
<1>6. RecognitionEvents(rows, months) =
        {[previous |-> NoSale, next |-> r] : r \in Lone}
          \cup {[previous |-> PreviousOf(W, r), next |-> r] : r \in Steps}
  BY EventsAre
<1> HIDE DEF W, T
<1>7. NextRows(mine) = {r \in Lone \cup Steps : Now(r)}
  <2>1. ASSUME NEW x \in NextRows(mine) PROVE x \in Lone \cup Steps /\ Now(x)
    <3>1. PICK e \in RecognitionEvents(rows, months) : Now(e.next) /\ x = e.next
      BY DEF NextRows, EventsBy
    <3> QED BY <1>6, <3>1
  <2>2. ASSUME NEW r \in Lone \cup Steps, Now(r) PROVE r \in NextRows(mine)
    <3>1. PICK e \in RecognitionEvents(rows, months) : e.next = r
      <4>1. CASE r \in Lone
        <5>1. [previous |-> NoSale, next |-> r] \in RecognitionEvents(rows, months)
          BY <1>6, <4>1
        <5> QED BY <5>1
      <4>2. CASE r \in Steps
        <5>1. [previous |-> PreviousOf(W, r), next |-> r] \in RecognitionEvents(rows, months)
          BY <1>6, <4>2
        <5> QED BY <5>1
      <4> QED BY <4>1, <4>2, <2>2
    <3>2. e \in mine
      BY <2>2, <3>1 DEF EventsBy
    <3> QED BY <3>1, <3>2 DEF NextRows
  <2> QED BY <2>1, <2>2
<1>8. Replaced(mine, m) =
        {PreviousOf(W, r) : r \in {s \in Steps : /\ Now(s) /\ PreviousOf(W, s) # NoSale
                                                 /\ CommercialMonth(PreviousOf(W, s).date) = m}}
  <2>1. ASSUME NEW x \in Replaced(mine, m)
        PROVE  \E r \in Steps : /\ Now(r) /\ x = PreviousOf(W, r) /\ x # NoSale
                                /\ CommercialMonth(x.date) = m
    <3>1. PICK e \in RecognitionEvents(rows, months) :
            /\ Now(e.next) /\ e.previous # NoSale /\ CommercialMonth(e.previous.date) = m
            /\ x = e.previous
      BY DEF Replaced, EventsBy
    <3> QED BY <1>6, <3>1
  <2>2. ASSUME NEW r \in Steps, Now(r), PreviousOf(W, r) # NoSale,
               CommercialMonth(PreviousOf(W, r).date) = m
        PROVE  PreviousOf(W, r) \in Replaced(mine, m)
    <3> DEFINE e == [previous |-> PreviousOf(W, r), next |-> r]
    <3>1. e \in RecognitionEvents(rows, months)
      BY <1>6
    <3>2. e.previous = PreviousOf(W, r) /\ e.next = r
      OBVIOUS
    <3> HIDE DEF e
    <3>3. e \in mine
      BY <3>1, <3>2, <2>2 DEF EventsBy
    <3> QED BY <2>2, <3>2, <3>3 DEF Replaced
  <2> QED BY <2>1, <2>2
<1>9. Steps \subseteq W /\ Lone \subseteq W
  BY <1>5
<1>10. ASSUME NEW r \in Steps, Now(r), PreviousOf(W, r) # NoSale,
              CommercialMonth(PreviousOf(W, r).date) = m
       PROVE  /\ PreviousOf(W, r) \in StepsOf(W, r.vin) /\ PreviousOf(W, r).date < r.date
              /\ r.vin # NoVin /\ PreviousOf(W, r) \in Steps /\ Now(PreviousOf(W, r))
  <2> DEFINE p == PreviousOf(W, r)
  <2>1. p \in StepsOf(W, r.vin) /\ p.date < r.date
    BY <1>1, <1>10, ReplacedIsEarlier
  <2>2. r.vin \in VinsOf(W) /\ r.vin # NoVin
    BY <1>5, <1>10 DEF VinsOf
  <2>3. p \in W /\ p \in Steps
    BY <1>5, <2>1, <2>2
  <2>4. r.date \in Nat /\ p.date \in Nat /\ r \in rows /\ p \in rows
    BY <1>1, <1>9, <1>10, <2>3 DEF IsTable
  <2>5. r \in T /\ r.date <= DateOf(m, day)
    BY <1>2, <1>10, <2>4
  <2>6. p \in T
    <3>1. DateOf(m, day) \in Int
      BY DateOfMonth
    <3> QED BY <2>3, <2>4, <2>5, <2>1, <3>1 DEF T, W, Inside, InMonths, ThroughCutoff, ByDay, CutoffEnd
  <2>7. Now(p)
    BY <1>2, <1>10, <2>4, <2>6
  <2> QED BY <2>1, <2>2, <2>3, <2>7
<1>11. Replaced(mine, m) \subseteq NextRows(mine)
  BY <1>7, <1>8, <1>10
<1>12. NextRows(mine) \subseteq rows
  BY <1>1, <1>7, <1>9
<1>13. SoldBy(rows, m, day) =
         {s \in {r \in T : r.vin = NoVin} \cup {Last(RowsOf(T, v)) : v \in VinsOf(T)} :
            CommercialMonth(s.date) = m}
  BY SalesByDay DEF SoldBy, T
<1>14. ASSUME NEW s \in SoldBy(rows, m, day) PROVE s \in NextRows(mine) /\ s \notin Replaced(mine, m)
  <2>1. CASE s \in T /\ s.vin = NoVin
    <3>1. s \in Lone /\ Now(s)
      BY <1>1, <1>2, <1>13, <2>1
    <3>2. s \notin Replaced(mine, m)
      BY <1>5, <1>8, <1>10, <2>1
    <3> QED BY <1>7, <3>1, <3>2
  <2>2. ASSUME NEW v \in VinsOf(T), s = Last(RowsOf(T, v))
        PROVE  s \in NextRows(mine) /\ s \notin Replaced(mine, m)
    <3>1. RowsOf(T, v) # {} /\ IsTable(RowsOf(T, v)) /\ v # NoVin
      BY <1>1, PartIsTable DEF RowsOf, VinsOf
    <3>2. s \in RowsOf(T, v) /\ s \in LastRows(RowsOf(T, v))
      <4>1. PICK l \in RowsOf(T, v) : TRUE
        BY <3>1
      <4> QED BY <3>1, <2>2, LastIsThere
    <3>3. s \in T /\ s.vin = v /\ s \in rows /\ CommercialMonth(s.date) = m
      BY <1>1, <1>13, <3>2 DEF RowsOf
    <3>4. Now(s) /\ s \in W
      BY <1>2, <3>3
    <3>5. s = DayRow(W, v, s.date)
      <4>1. LastRows(RowsOf(T, v)) = {r \in RowsOf(W, v) : r.date = s.date}
        <5>1. ASSUME NEW r \in LastRows(RowsOf(T, v)) PROVE r \in RowsOf(W, v) /\ r.date = s.date
          <6>1. r \in T /\ r.vin = v /\ r.date <= s.date /\ s.date <= r.date
            BY <3>2 DEF LastRows, RowsOf
          <6>2. r.date = s.date /\ r \in rows
            BY <1>1, <3>3, <6>1 DEF IsTable
          <6>3. r \in W
            BY <1>2, <3>4, <6>1, <6>2
          <6> QED BY <6>1, <6>2, <6>3 DEF RowsOf
        <5>2. ASSUME NEW r \in RowsOf(W, v), r.date = s.date PROVE r \in LastRows(RowsOf(T, v))
          <6>1. r \in rows /\ r.vin = v /\ Now(r)
            BY <1>1, <3>4, <5>2 DEF RowsOf
          <6>2. r \in RowsOf(T, v)
            BY <1>2, <6>1 DEF RowsOf
          <6> QED BY <3>2, <5>2, <6>2 DEF LastRows
        <5> QED BY <5>1, <5>2
      <4> QED BY <2>2, <4>1 DEF Last, DayRow
    <3>6. s \in RowsOf(W, v)
      BY <3>3, <3>4 DEF RowsOf
    <3>7. s \in StepsOf(W, v) /\ v \in VinsOf(W)
      BY <3>1, <3>5, <3>6 DEF StepsOf, RowsOf, VinsOf
    <3>8. s \in NextRows(mine)
      BY <1>7, <3>4, <3>7
    <3>9. s \notin Replaced(mine, m)
      <4> SUFFICES ASSUME s \in Replaced(mine, m) PROVE FALSE
        OBVIOUS
      <4>1. PICK r \in Steps : /\ Now(r) /\ s = PreviousOf(W, r) /\ PreviousOf(W, r) # NoSale
                               /\ CommercialMonth(PreviousOf(W, r).date) = m
        BY <1>8
      <4>2. s \in StepsOf(W, r.vin) /\ s.date < r.date
        BY <1>10, <4>1
      <4>3. r.vin = v /\ r \in rows /\ r \in T
        BY <1>1, <1>2, <1>5, <1>9, <3>3, <4>1, <4>2
      <4>4. r.date <= s.date
        BY <3>2, <4>3 DEF LastRows, RowsOf
      <4> QED BY <3>3, <4>2, <4>3, <4>4 DEF IsTable
    <3> QED BY <3>8, <3>9
  <2> QED BY <1>13, <2>1, <2>2
<1>15. ASSUME NEW s \in NextRows(mine), s \notin Replaced(mine, m) PROVE s \in SoldBy(rows, m, day)
  <2>1. Now(s) /\ s \in W /\ s \in rows /\ s \in T /\ s \in Lone \cup Steps
    BY <1>1, <1>2, <1>7, <1>9
  <2>2. CASE s \in Lone
    BY <1>13, <2>1, <2>2
  <2>3. ASSUME NEW v \in VinsOf(W), s \in StepsOf(W, v) PROVE s \in SoldBy(rows, m, day)
    <3>1. s.vin = v /\ v # NoVin /\ s \in RowsOf(T, v) /\ v \in VinsOf(T)
      BY <1>5, <2>1, <2>3 DEF RowsOf, VinsOf
    <3>2. ASSUME NEW later \in RowsOf(T, v), ~(later.date <= s.date) PROVE FALSE
      <4>1. later \in T /\ later \in rows /\ later.vin = v /\ later.date \in Nat /\ s.date \in Nat
        BY <1>1, <2>1 DEF RowsOf, IsTable
      <4>2. s.date < later.date /\ Now(later)
        BY <1>3, <2>1, <3>2, <4>1
      <4>3. later \in RowsOf(W, v)
        BY <1>2, <4>1, <4>2 DEF RowsOf
      <4>4. PICK r \in StepsOf(W, v) : PreviousOf(W, r) = s /\ s.date < r.date /\ r.date <= later.date
        BY <1>1, <2>3, <4>2, <4>3, NextReplaces
      <4>5. r \in Steps /\ r \in W /\ r \in rows
        BY <1>1, <1>5, <4>4
      <4>6. r \in T
        <5>1. r.date <= DateOf(m, day)
          <6>1. later.date <= DateOf(m, day) /\ DateOf(m, day) \in Int /\ r.date \in Nat
            BY <1>2, <4>1, <4>2, <4>5, DateOfMonth DEF IsTable
          <6> QED BY <4>1, <4>4, <6>1
        <5> QED BY <4>5, <5>1 DEF T, W, Inside, InMonths, ThroughCutoff, ByDay, CutoffEnd
      <4>7. Now(r)
        <5>1. s.date <= r.date
          BY <4>1, <4>4, <4>5 DEF IsTable
        <5> QED BY <1>3, <2>1, <4>5, <4>6, <5>1
      <4>8. s # NoSale /\ CommercialMonth(s.date) = m
        BY <2>1
      <4> QED BY <1>8, <1>15, <4>4, <4>5, <4>7, <4>8
    <3>3. \A r \in rows : r.vin = v /\ r.date = s.date => r \in W /\ r \in T
      BY <1>2, <2>1
    <3>4. s = DayRow(W, v, s.date)
      BY <1>1, <2>3, StepsAreRows
    <3>5. s = Last(RowsOf(T, v))
      <4>1. LastRows(RowsOf(T, v)) = {r \in RowsOf(W, v) : r.date = s.date}
        <5>1. ASSUME NEW r \in LastRows(RowsOf(T, v)) PROVE r \in RowsOf(W, v) /\ r.date = s.date
          <6>1. r \in rows /\ r.vin = v /\ s.date <= r.date /\ r.date <= s.date
            BY <1>1, <3>1, <3>2 DEF LastRows, RowsOf
          <6>2. r.date = s.date
            BY <2>1, <6>1 DEF IsTable
          <6> QED BY <3>3, <6>1, <6>2 DEF RowsOf
        <5>2. ASSUME NEW r \in RowsOf(W, v), r.date = s.date PROVE r \in LastRows(RowsOf(T, v))
          BY <1>1, <3>1, <3>2, <3>3, <5>2 DEF LastRows, RowsOf
        <5> QED BY <5>1, <5>2
      <4> QED BY <3>4, <4>1 DEF Last, DayRow
    <3> QED BY <1>13, <2>1, <3>1, <3>5
  <2> QED BY <2>1, <2>2, <2>3
<1> QED BY <1>11, <1>12, <1>14, <1>15

\* Taking away from a count what was counted by mistake.
LEMMA CountLess ==
  ASSUME NEW S, IsFiniteSet(S), NEW R
  PROVE  /\ Cardinality(S) - Cardinality(S \cap R) = Cardinality(S \ R)
         /\ Cardinality(S \ R) > 0 <=> S \ R # {}
<1>1. IsFiniteSet(S \cap R) /\ IsFiniteSet(S \ R)
  BY FS_Subset
<1>2. Cardinality(S \ R) = Cardinality(S) - Cardinality(S \cap R)
  BY FS_Difference
<1>3. Cardinality(S \ R) \in Nat /\ (Cardinality(S \ R) = 0 <=> S \ R = {})
  BY <1>1, FS_CardinalityType, FS_EmptySet
<1>4. Cardinality(S \ R) > 0 <=> Cardinality(S \ R) # 0
  BY <1>3
<1> QED BY <1>2, <1>3, <1>4

Own(placed) == {p \in placed : Owned(p)}
Credited(placed) == {p \in placed : Owned(p) /\ p.seller.eligible}

\* Counters that lose what is taken away, and are dropped at zero, count what is left.
NetOf(S, R) == Cardinality(S) - Cardinality(R)

StoreCounters(added, removed) ==
  LET Net(x) == NetOf({p \in added : Owned(p) /\ StoreKey(p) = x},
                      {p \in removed : Owned(p) /\ StoreKey(p) = x})
  IN [k \in {x \in {StoreKey(p) : p \in {q \in added : Owned(q)}} : Net(x) > 0} |-> Net(k)]

\* The counters of the stores, and those of the sellers, are those of what is left.
LEMMA StoreCountersAre ==
  ASSUME NEW added, IsFiniteSet(added), NEW removed \in SUBSET added
  PROVE  StoreCounters(added, removed) = CountBy(Own(added \ removed), StoreKey)
<1> DEFINE Net(x) == NetOf({p \in added : Owned(p) /\ StoreKey(p) = x},
                           {p \in removed : Owned(p) /\ StoreKey(p) = x})
           kept == Own(added \ removed)
           Of(x) == {p \in kept : StoreKey(p) = x}
           keys == {x \in {StoreKey(p) : p \in {q \in added : Owned(q)}} : Net(x) > 0}
           left == {StoreKey(p) : p \in kept}
<1>1. ASSUME NEW x PROVE Net(x) = Cardinality(Of(x)) /\ (Net(x) > 0 <=> Of(x) # {})
  <2> DEFINE Q == {p \in added : Owned(p) /\ StoreKey(p) = x}
  <2>1. IsFiniteSet(Q)
    BY FS_Subset
  <2>2. {p \in removed : Owned(p) /\ StoreKey(p) = x} = Q \cap removed /\ Of(x) = Q \ removed
    BY DEF Own
  <2> HIDE DEF Q, Of
  <2>3. Net(x) = Cardinality(Q) - Cardinality(Q \cap removed)
    BY <2>2 DEF NetOf, Q
  <2>4. Net(x) = Cardinality(Q \ removed) /\ (Cardinality(Q \ removed) > 0 <=> Q \ removed # {})
    BY <2>1, <2>3, CountLess
  <2> QED BY <2>2, <2>4
<1>2. \A x : x \in left <=> Of(x) # {}
  OBVIOUS
<1>3. \A x : Of(x) # {} => x \in {StoreKey(p) : p \in {q \in added : Owned(q)}}
  BY DEF Own
<1>4. StoreCounters(added, removed) = [k \in keys |-> Net(k)]
  BY DEF StoreCounters
<1>5. CountBy(kept, StoreKey) = [k \in left |-> Cardinality(Of(k))]
  BY DEF CountBy
<1>6. keys = left
  <2> HIDE DEF Net, Of, left
  <2> QED BY <1>1, <1>2, <1>3
<1>7. \A x : Net(x) = Cardinality(Of(x))
  BY <1>1
<1> HIDE DEF Net, Of, keys, left
<1>8. StoreCounters(added, removed) = CountBy(kept, StoreKey)
  BY <1>4, <1>5, <1>6, <1>7
<1> QED BY <1>8

SellerCounters(added, removed) ==
  LET Net(x) == NetOf({p \in added : Owned(p) /\ p.seller.eligible /\ SellerKey(p) = x},
                      {p \in removed : Owned(p) /\ p.seller.eligible /\ SellerKey(p) = x})
  IN [k \in {x \in {SellerKey(p) : p \in {q \in added : Owned(q) /\ q.seller.eligible}} :
             Net(x) > 0} |-> Net(k)]

LEMMA SellerCountersAre ==
  ASSUME NEW added, IsFiniteSet(added), NEW removed \in SUBSET added
  PROVE  SellerCounters(added, removed) = CountBy(Credited(added \ removed), SellerKey)
<1> DEFINE Net(x) == NetOf({p \in added : Owned(p) /\ p.seller.eligible /\ SellerKey(p) = x},
                           {p \in removed : Owned(p) /\ p.seller.eligible /\ SellerKey(p) = x})
           kept == Credited(added \ removed)
           Of(x) == {p \in kept : SellerKey(p) = x}
           keys == {x \in {SellerKey(p) : p \in {q \in added : Owned(q) /\ q.seller.eligible}} :
                      Net(x) > 0}
           left == {SellerKey(p) : p \in kept}
<1>1. ASSUME NEW x PROVE Net(x) = Cardinality(Of(x)) /\ (Net(x) > 0 <=> Of(x) # {})
  <2> DEFINE Q == {p \in added : Owned(p) /\ p.seller.eligible /\ SellerKey(p) = x}
  <2>1. IsFiniteSet(Q)
    BY FS_Subset
  <2>2. /\ {p \in removed : Owned(p) /\ p.seller.eligible /\ SellerKey(p) = x} = Q \cap removed
        /\ Of(x) = Q \ removed
    BY DEF Credited
  <2> HIDE DEF Q, Of
  <2>3. Net(x) = Cardinality(Q) - Cardinality(Q \cap removed)
    BY <2>2 DEF NetOf, Q
  <2>4. Net(x) = Cardinality(Q \ removed) /\ (Cardinality(Q \ removed) > 0 <=> Q \ removed # {})
    BY <2>1, <2>3, CountLess
  <2> QED BY <2>2, <2>4
<1>2. \A x : x \in left <=> Of(x) # {}
  OBVIOUS
<1>3. \A x : Of(x) # {} => x \in {SellerKey(p) : p \in {q \in added : Owned(q) /\ q.seller.eligible}}
  BY DEF Credited
<1>4. SellerCounters(added, removed) = [k \in keys |-> Net(k)]
  BY DEF SellerCounters
<1>5. CountBy(kept, SellerKey) = [k \in left |-> Cardinality(Of(k))]
  BY DEF CountBy
<1>6. keys = left
  <2> HIDE DEF Net, Of, left
  <2> QED BY <1>1, <1>2, <1>3
<1>7. \A x : Net(x) = Cardinality(Of(x))
  BY <1>1
<1> HIDE DEF Net, Of, keys, left
<1>8. SellerCounters(added, removed) = CountBy(kept, SellerKey)
  BY <1>4, <1>5, <1>6, <1>7
<1> QED BY <1>8

AllPlaced(units, staff) == {Placed(s, staff) : s \in units}

\* The counters of a month by a day, by the recognition rule.
CountsOf(placed) ==
  [recognized |-> Cardinality(placed), cidef |-> Cardinality(Own(placed)),
   unresolved |-> Cardinality({p \in placed : p.store.status = "NO_RESUELTA"}),
   ambiguous |-> Cardinality({p \in placed : p.store.status = "AMBIGUA"}),
   stores |-> CountBy(Own(placed), StoreKey), sellers |-> CountBy(Credited(placed), SellerKey)]

\* The counters kept event by event are the counts of what the rule sells by the day.
LEMMA SnapshotIs ==
  ASSUME NEW rows, IsTable(rows), NoSale \notin rows,
         NEW months, months.start \in Nat, months.end \in Int, NEW staff,
         NEW m \in months.start .. months.end, NEW day \in Days
  PROVE  Snapshot(RecognitionEvents(rows, months), staff, m, day)
           = CountsOf(AllPlaced(SoldBy(rows, m, day), staff))
<1> DEFINE events == RecognitionEvents(rows, months)
           mine == EventsBy(rows, months, m, day)
           added == AllPlaced(NextRows(mine), staff)
           removed == AllPlaced(Replaced(mine, m), staff)
           kept == AllPlaced(SoldBy(rows, m, day), staff)
<1>1. /\ Replaced(mine, m) \subseteq NextRows(mine) /\ NextRows(mine) \subseteq rows
      /\ NextRows(mine) \ Replaced(mine, m) = SoldBy(rows, m, day)
  BY SoldAreKept
<1>2. IsFiniteSet(added)
  <2> HIDE DEF mine
  <2>1. IsFiniteSet(NextRows(mine))
    BY <1>1, FS_Subset DEF IsTable
  <2> DEFINE N == NextRows(mine)
             f == [s \in N |-> Placed(s, staff)]
  <2>2. f \in Surjection(N, added)
    <3>1. added = {Placed(s, staff) : s \in N}
      BY DEF AllPlaced
    <3>2. f \in [N -> added] /\ \A p \in added : \E s \in N : f[s] = p
      BY <3>1
    <3> HIDE DEF f, added
    <3> QED BY <3>2 DEF Surjection
  <2> QED BY <2>1, <2>2, FS_Surjection
<1>3. removed \subseteq added /\ kept = added \ removed
  <2>1. \A s : Placed(s, staff).sale = s
    BY DEF Placed
  <2> HIDE DEF mine
  <2> QED BY <1>1, <2>1 DEF AllPlaced
<1>4. mine = {e \in events : CommercialMonth(e.next.date) = m /\ CommercialDay(e.next.date) <= day}
  BY DEF EventsBy
<1>5. added = {Placed(e.next, staff) : e \in mine}
  BY DEF AllPlaced, NextRows
<1>6. removed = {Placed(s, staff) : s \in Replaced(mine, m)}
  BY DEF AllPlaced
<1>7. Snapshot(events, staff, m, day) =
        [recognized |-> NetOf({p \in added : TRUE}, {p \in removed : TRUE}),
         cidef |-> NetOf({p \in added : Owned(p)}, {p \in removed : Owned(p)}),
         unresolved |-> NetOf({p \in added : p.store.status = "NO_RESUELTA"},
                            {p \in removed : p.store.status = "NO_RESUELTA"}),
         ambiguous |-> NetOf({p \in added : p.store.status = "AMBIGUA"},
                           {p \in removed : p.store.status = "AMBIGUA"}),
         stores |-> StoreCounters(added, removed), sellers |-> SellerCounters(added, removed)]
  <2> HIDE DEF mine, added, removed, events
  <2> QED BY <1>4, <1>5, <1>6 DEF Snapshot, NetOf, StoreCounters, SellerCounters
<1> HIDE DEF mine, added, removed, kept, events
<1>8. ASSUME NEW S \in SUBSET added
      PROVE  IsFiniteSet(S) /\ NetOf(S, S \cap removed) = Cardinality(S \ removed)
  BY <1>2, FS_Subset, CountLess DEF NetOf
<1>9. NetOf({p \in added : TRUE}, {p \in removed : TRUE}) = Cardinality(kept)
  <2>1. {p \in added : TRUE} = added /\ {p \in removed : TRUE} = added \cap removed
    BY <1>3
  <2> QED BY <1>3, <1>8, <2>1
<1>10. NetOf({p \in added : Owned(p)}, {p \in removed : Owned(p)}) = Cardinality(Own(kept))
  <2> DEFINE S == {p \in added : Owned(p)}
  <2>1. {p \in removed : Owned(p)} = S \cap removed /\ Own(kept) = S \ removed
    BY <1>3 DEF Own
  <2> QED BY <1>8, <2>1
<1>11. NetOf({p \in added : p.store.status = "NO_RESUELTA"},
             {p \in removed : p.store.status = "NO_RESUELTA"})
         = Cardinality({p \in kept : p.store.status = "NO_RESUELTA"})
  <2> DEFINE S == {p \in added : p.store.status = "NO_RESUELTA"}
  <2>1. /\ {p \in removed : p.store.status = "NO_RESUELTA"} = S \cap removed
        /\ {p \in kept : p.store.status = "NO_RESUELTA"} = S \ removed
    BY <1>3
  <2> QED BY <1>8, <2>1
<1>12. NetOf({p \in added : p.store.status = "AMBIGUA"}, {p \in removed : p.store.status = "AMBIGUA"})
         = Cardinality({p \in kept : p.store.status = "AMBIGUA"})
  <2> DEFINE S == {p \in added : p.store.status = "AMBIGUA"}
  <2>1. /\ {p \in removed : p.store.status = "AMBIGUA"} = S \cap removed
        /\ {p \in kept : p.store.status = "AMBIGUA"} = S \ removed
    BY <1>3
  <2> QED BY <1>8, <2>1
<1>13. /\ StoreCounters(added, removed) = CountBy(Own(kept), StoreKey)
       /\ SellerCounters(added, removed) = CountBy(Credited(kept), SellerKey)
  BY <1>2, <1>3, StoreCountersAre, SellerCountersAre
<1>14. Snapshot(events, staff, m, day) = CountsOf(kept)
  BY <1>7, <1>9, <1>10, <1>11, <1>12, <1>13 DEF CountsOf
<1> QED BY <1>14 DEF events, kept

-----------------------------------------------------------------------------
(* The daily report and the history.                                       *)

\* As many sales are placed as there are sales.
LEMMA AsManyPlaced ==
  ASSUME NEW units, IsFiniteSet(units), NEW staff
  PROVE  /\ IsFiniteSet(AllPlaced(units, staff))
         /\ Cardinality(AllPlaced(units, staff)) = Cardinality(units)
<1> DEFINE placed == AllPlaced(units, staff)
           f == [s \in units |-> Placed(s, staff)]
<1>1. placed = {Placed(s, staff) : s \in units} /\ \A s : Placed(s, staff).sale = s
  BY DEF AllPlaced, Placed
<1>2. /\ f \in [units -> placed] /\ \A p \in placed : \E s \in units : f[s] = p
      /\ \A s, t \in units : f[s] = f[t] => s = t
  BY <1>1
<1> HIDE DEF f, placed
<1>3. f \in Bijection(units, placed)
  BY <1>2 DEF Bijection, Injection, Surjection, IsInjective
<1>4. IsFiniteSet(placed) /\ Cardinality(placed) = Cardinality(units)
  BY <1>3, FS_Bijection DEF ExistsBijection
<1> QED BY <1>4 DEF placed

\* A sale of a channel is one of a store that was resolved.
LEMMA OwnedIsResolved ==
  ASSUME NEW s, NEW staff
  PROVE  /\ Placed(s, staff).month = CommercialMonth(s.date)
         /\ Owned(Placed(s, staff)) => Placed(s, staff).store.status = "RESUELTA"
BY DEF Placed, Owned, StoreOf

\* The sales of a month in the monthly series of a context.
LEMMA SalesOfMonth ==
  ASSUME NEW rows, IsTable(rows), NEW cutoff, NEW m
  PROVE  SalesIn(VentasContext(rows, cutoff).monthly, m)
           = Cardinality({s \in VentasContext(rows, cutoff).sales : CommercialMonth(s.date) = m})
<1> DEFINE units == VentasContext(rows, cutoff).sales
           sold == {s \in units : CommercialMonth(s.date) = m}
<1> DEFINE series == VentasContext(rows, cutoff).monthly
           months == {CommercialMonth(s.date) : s \in units}
<1>1. series = [n \in months |-> Cardinality({s \in units : CommercialMonth(s.date) = n})]
  BY DEF VentasContext, MonthlySales
<1>2. DOMAIN series = months /\ (m \in months => series[m] = Cardinality(sold))
  BY <1>1
<1>3. m \notin months => Cardinality(sold) = 0
  <2>1. m \notin months => sold = {}
    OBVIOUS
  <2> QED BY <2>1, FS_EmptySet
<1> HIDE DEF series, months, sold
<1>4. SalesIn(series, m) = Cardinality(sold)
  BY <1>2, <1>3 DEF SalesIn
<1> QED BY <1>4 DEF series, sold, units

\* What the rule and the daily report say of a day are the counts of what was sold by it.
LEMMA CountsAreSaid ==
  ASSUME NEW told, IsTable(told.rows), NEW m \in Int, NEW day \in Days
  PROVE  CountsAsOf(told, CountsOf(AllPlaced(SoldBy(told.rows, m, day), told.masters)), m, day)
<1> DEFINE rows == told.rows
           units == VentasContext(rows, ByDay(m, day)).sales
           sold == SoldBy(rows, m, day)
           all == AllPlaced(units, told.masters)
           kept == AllPlaced(sold, told.masters)
           counts == CountsOf(kept)
           daily == DailyOrganization(rows, told.masters, DateOf(m, day))
<1>1. CommercialMonth(DateOf(m, day)) = m
  BY DateOfMonth
<1>2. kept = {p \in all : p.month = m}
  <2>1. sold = {s \in units : CommercialMonth(s.date) = m}
    BY DEF SoldBy
  <2> HIDE DEF units
  <2> QED BY <2>1, OwnedIsResolved DEF AllPlaced
<1>3. IsFiniteSet(sold)
  <2>1. sold \subseteq rows
    <3> DEFINE T == ThroughCutoff(rows, ByDay(m, day))
    <3>1. T \subseteq rows /\ IsTable(T)
      BY PartIsTable DEF ThroughCutoff
    <3>2. units \subseteq T
      BY <3>1, SalesAreRows DEF VentasContext
    <3> QED BY <3>1, <3>2 DEF SoldBy
  <2> QED BY <2>1, FS_Subset DEF IsTable
<1>4. counts.recognized = SalesIn(VentasContext(rows, ByDay(m, day)).monthly, m)
  <2>1. counts.recognized = Cardinality(sold)
    BY <1>3, AsManyPlaced DEF CountsOf
  <2>2. sold = {s \in VentasContext(rows, ByDay(m, day)).sales : CommercialMonth(s.date) = m}
    BY DEF SoldBy
  <2>3. IsTable(rows)
    OBVIOUS
  <2> HIDE DEF sold, rows, counts
  <2> QED BY <2>1, <2>2, <2>3, SalesOfMonth
<1>5. DailyActual(VentasContext(rows, ByDay(m, day))).sales
        = SalesIn(VentasContext(rows, ByDay(m, day)).monthly, m)
  BY <1>1 DEF DailyActual, VentasContext, ByDay
<1>6. daily = DailyStores(all, m)
  BY <1>1 DEF DailyOrganization, AllPlaced, ByDay
<1>7. \A p \in all : Owned(p) => p.store.status = "RESUELTA"
  BY OwnedIsResolved DEF AllPlaced
<1> HIDE DEF units, sold, all, kept
<1>8. /\ daily.unresolved = Cardinality({p \in kept : p.store.status = "NO_RESUELTA"})
      /\ daily.ambiguous = Cardinality({p \in kept : p.store.status = "AMBIGUA"})
  BY <1>2, <1>6 DEF DailyStores
<1>9. daily.cidef = Cardinality(Own(kept))
  <2> DEFINE target == {e \in all : e.month = m}
             resolved == {e \in target : e.store.status \notin {"NO_RESUELTA", "AMBIGUA"}}
  <2>2. daily.cidef = Cardinality({e \in resolved : e.store.channel = "CIDEF"})
    BY <1>6 DEF DailyStores
  <2>1. {e \in {p \in kept : p.store.status \notin {"NO_RESUELTA", "AMBIGUA"}} : e.store.channel = "CIDEF"}
          = Own(kept)
    BY <1>2, <1>7 DEF Own, Owned
  <2>3. resolved = {p \in kept : p.store.status \notin {"NO_RESUELTA", "AMBIGUA"}}
    BY <1>2
  <2> QED BY <2>1, <2>2, <2>3
<1>10. {p \in all : p.month = m /\ Owned(p)} = Own(kept)
  BY <1>2 DEF Own
<1>11. {p \in Own(kept) : p.seller.eligible} = Credited(kept)
  BY DEF Own, Credited
<1>12. /\ counts.unresolved = daily.unresolved /\ counts.ambiguous = daily.ambiguous
       /\ counts.cidef = daily.cidef
       /\ counts.stores = CountBy(Own(kept), StoreKey)
       /\ counts.sellers = CountBy(Credited(kept), SellerKey)
  BY <1>8, <1>9 DEF CountsOf
<1>13. /\ ByDay(m, day) = [type |-> "date", value |-> DateOf(m, day)]
       /\ all = {Placed(s, told.masters) : s \in VentasContext(rows, ByDay(m, day)).sales}
  BY DEF ByDay, all, AllPlaced, units
<1> HIDE DEF counts, daily
<1>14. CountsAsOf(told, counts, m, day)
  <2>1. daily = DailyOrganization(told.rows, told.masters, DateOf(m, day))
    BY DEF daily
  <2>2. all = {Placed(s, told.masters) :
                 s \in VentasContext(told.rows, [type |-> "date", value |-> DateOf(m, day)]).sales}
    BY <1>13
  <2>3. counts.recognized
          = DailyActual(VentasContext(told.rows, [type |-> "date", value |-> DateOf(m, day)])).sales
    BY <1>4, <1>5, <1>13
  <2> QED BY <1>10, <1>11, <1>12, <2>1, <2>2, <2>3 DEF CountsAsOf
<1> QED BY <1>14 DEF counts, kept, sold

\* The first month with sales, for a cutoff or for any later one.
LEMMA CalendarMonths ==
  ASSUME NEW date \in Nat \ {0}
  PROVE  CalendarMonth(date) \in Nat
<1> DEFINE a == date - 1
           q == a \div MonthLength
           k == a % MonthLength
<1>1. MonthLength \in Nat /\ MonthLength > 1 /\ a \in Nat
  BY MonthsHaveDays
<1>2. q \in Int /\ k \in 0 .. (MonthLength - 1) /\ a = MonthLength * q + k
  <2> HIDE DEF a
  <2> QED BY <1>1, Quotient
<1> HIDE DEF a, k, q
<1>3. q >= 0
  <2> SUFFICES ASSUME q <= -1 PROVE FALSE
    BY <1>2
  <2>1. MonthLength * q <= -MonthLength
    BY <1>1, <1>2
  <2>2. MonthLength * q \in Int
    BY <1>1, <1>2
  <2> QED BY <1>1, <1>2, <2>1, <2>2
<1> QED BY <1>2, <1>3 DEF CalendarMonth, q, a

\* A table with history has a first month.
LEMMA FirstMonthIsThere ==
  ASSUME NEW rows, IsTable(rows), NEW end \in Int, HasHistory(rows, end)
  PROVE  /\ FirstMonthThrough(rows, end) \in Nat /\ FirstMonthThrough(rows, end) <= end
         /\ \E r \in rows : Dated(r) /\ CalendarMonth(r.date) = FirstMonthThrough(rows, end)
         /\ \A r \in rows : Dated(r) /\ CalendarMonth(r.date) <= end =>
              FirstMonthThrough(rows, end) <= CalendarMonth(r.date)
<1> DEFINE through == {s \in rows : Dated(s) /\ CalendarMonth(s.date) <= end}
           months == {CalendarMonth(r.date) : r \in through}
           R == {p \in through \X through : CalendarMonth(p[2].date) <= CalendarMonth(p[1].date)}
<1>1. \A r \in through : r \in rows /\ CalendarMonth(r.date) \in Nat /\ CalendarMonth(r.date) <= end
  BY CalendarMonths DEF IsTable, Dated, Undated
<1>2. through # {} /\ IsFiniteSet(through)
  BY FS_Subset DEF HasHistory, IsTable
<1>3. \A x, y \in through : <<x, y>> \in R <=> CalendarMonth(y.date) <= CalendarMonth(x.date)
  OBVIOUS
<1>4. PICK r \in through : \A s \in through : CalendarMonth(r.date) <= CalendarMonth(s.date)
  <2>1. /\ \A x, y \in through : <<x, y>> \in R \/ <<y, x>> \in R
        /\ \A x, y, z \in through : <<x, y>> \in R /\ <<y, z>> \in R => <<x, z>> \in R
    <3> HIDE DEF through, R
    <3> QED BY <1>1, <1>3
  <2> HIDE DEF through, R
  <2>2. PICK r \in through : \A x \in through : <<x, r>> \in R
    BY <1>2, <2>1, Greatest
  <2> QED BY <1>3, <2>2
<1>5. \E m \in months : \A n \in months : m <= n
  BY <1>4
<1>6. FirstMonthThrough(rows, end) = CHOOSE m \in months : \A n \in months : m <= n
  BY DEF FirstMonthThrough, Min
<1>7. FirstMonthThrough(rows, end) \in months /\ \A n \in months : FirstMonthThrough(rows, end) <= n
  <2> HIDE DEF months
  <2> QED BY <1>5, <1>6
<1> QED BY <1>1, <1>7

\* The first month is the same for any later end.
LEMMA SameFirstMonth ==
  ASSUME NEW rows, IsTable(rows), NEW end \in Int, NEW later \in Int, end <= later,
         HasHistory(rows, end)
  PROVE  HasHistory(rows, later) /\ FirstMonthThrough(rows, later) = FirstMonthThrough(rows, end)
<1>1. \A r \in rows : Dated(r) => CalendarMonth(r.date) \in Nat
  BY CalendarMonths DEF IsTable, Dated, Undated
<1>2. HasHistory(rows, later)
  BY <1>1 DEF HasHistory
<1> DEFINE a == FirstMonthThrough(rows, end)
           b == FirstMonthThrough(rows, later)
<1>3. /\ a \in Nat /\ a <= end
      /\ \E r \in rows : Dated(r) /\ CalendarMonth(r.date) = a
      /\ \A r \in rows : Dated(r) /\ CalendarMonth(r.date) <= end => a <= CalendarMonth(r.date)
  BY FirstMonthIsThere
<1>4. /\ b \in Nat /\ b <= later
      /\ \E r \in rows : Dated(r) /\ CalendarMonth(r.date) = b
      /\ \A r \in rows : Dated(r) /\ CalendarMonth(r.date) <= later => b <= CalendarMonth(r.date)
  BY <1>2, FirstMonthIsThere
<1> HIDE DEF a, b
<1>5. b <= a
  BY <1>3, <1>4
<1>6. a <= b
  BY <1>3, <1>4, <1>5
<1> QED BY <1>2, <1>3, <1>4, <1>5, <1>6 DEF a, b

\* A cutoff lets through the rows of any earlier one.
UpTo(day) == [type |-> "date", value |-> day]

\* Rows cut off at a day and then at an earlier one are those of the earlier.
LEMMA EarlierCutoff ==
  ASSUME NEW rows, IsTable(rows), NEW day \in Int, NEW later \in Int, day <= later
  PROVE  ThroughCutoff(ThroughCutoff(rows, UpTo(later)), UpTo(day)) = ThroughCutoff(rows, UpTo(day))
BY DEF ThroughCutoff, UpTo, CutoffEnd, IsTable

\* What is sold by a day does not depend on what is dated after a later one.
LEMMA SoldEarlier ==
  ASSUME NEW rows, IsTable(rows), NEW later \in Int, NEW m \in Int, NEW day \in Days,
         DateOf(m, day) <= later
  PROVE  SoldBy(ThroughCutoff(rows, UpTo(later)), m, day) = SoldBy(rows, m, day)
<1>1. DateOf(m, day) \in Int /\ ByDay(m, day) = UpTo(DateOf(m, day))
  BY DateOfMonth DEF ByDay, UpTo
<1>2. ThroughCutoff(ThroughCutoff(rows, UpTo(later)), ByDay(m, day)) = ThroughCutoff(rows, ByDay(m, day))
  BY <1>1, EarlierCutoff
<1> QED BY <1>2 DEF SoldBy, VentasContext

\* The snapshots of a backtest are the counts of what was sold by each day.
LEMMA SnapshotsAre ==
  ASSUME NEW rows, IsTable(rows), NoSale \notin rows, NEW staff,
         NEW months, months.start \in Nat, months.end \in Int
  PROVE  Snapshots(rows, staff, months) =
           [m \in months.start .. months.end |->
              [d \in Days |-> CountsOf(AllPlaced(SoldBy(rows, m, d), staff))]]
BY SnapshotIs DEF Snapshots

\* The history a forecast shows: the counts by each day gone by.
Shown(today) == {p \in (0 .. CommercialMonth(today)) \X Days :
                   p[1] = CommercialMonth(today) => p[2] <= CommercialDay(today)}

\* The days shown are those gone by.
LEMMA DayGoneBy ==
  ASSUME NEW today \in Int, NEW p \in Shown(today)
  PROVE  /\ p[1] \in 0 .. CommercialMonth(today) /\ p[2] \in Days
         /\ DateOf(p[1], p[2]) <= today
<1>1. /\ CommercialMonth(today) \in Int /\ CommercialDay(today) \in Days
      /\ today = DateOf(CommercialMonth(today), CommercialDay(today))
  BY CommercialDate
<1>2. p[1] \in 0 .. CommercialMonth(today) /\ p[2] \in Days
  BY DEF Shown
<1>3. CASE p[1] < CommercialMonth(today)
  <2>1. DateOf(p[1], p[2]) < today
    BY <1>1, <1>2, <1>3, MonthsInOrder
  <2> QED BY <1>2, <2>1, DateOfMonth
<1>4. CASE p[1] = CommercialMonth(today)
  <2> DEFINE a == CommercialMonth(today) * MonthLength
  <2>1. a \in Int
    BY <1>1, MonthsHaveDays
  <2>2. p[2] <= CommercialDay(today)
    BY <1>4 DEF Shown
  <2>3. /\ DateOf(p[1], p[2]) = a + p[2] + 1
        /\ DateOf(CommercialMonth(today), CommercialDay(today)) = a + CommercialDay(today) + 1
    BY <1>4 DEF DateOf
  <2> HIDE DEF a
  <2>4. p[2] \in Int /\ CommercialDay(today) \in Int
    BY <1>1, <1>2, MonthsHaveDays DEF Days
  <2>5. DateOf(p[1], p[2]) <= DateOf(CommercialMonth(today), CommercialDay(today))
    BY <2>1, <2>2, <2>3, <2>4
  <2> QED BY <1>1, <1>2, <2>5
<1> QED BY <1>1, <1>2, <1>3, <1>4

\* Every day of the history shows the counts of what was sold by it.
LEMMA HistoryIs ==
  ASSUME NEW rows, IsTable(rows), NoSale \notin rows, NEW staff, NEW today \in Int
  PROVE  LET history == History(rows, staff, [start |-> 0, end |-> CommercialMonth(today)], today)
         IN /\ history.daily = [p \in Shown(today) |->
                                  CountsOf(AllPlaced(SoldBy(rows, p[1], p[2]), staff))]
            /\ DOMAIN history.companyClose = 0 .. CommercialMonth(today)
            /\ \A m \in 0 .. CommercialMonth(today) :
                 history.companyClose[m] =
                   IF m < CommercialMonth(today)
                   THEN <<CountsOf(AllPlaced(SoldBy(rows, m, MonthLength), staff)).cidef, 1>>
                   ELSE None
<1> DEFINE months == [start |-> 0, end |-> CommercialMonth(today)]
           history == History(rows, staff, months, today)
           T == ThroughCutoff(rows, UpTo(today))
           S == Snapshots(T, staff, months)
<1>1. CommercialMonth(today) \in Int
  BY CommercialDate
<1>2. {r \in rows : Dated(r) /\ r.date <= IF months.end = CommercialMonth(today) THEN today
                                             ELSE ClosesOn(months.end)} = T
  BY DEF ThroughCutoff, UpTo, CutoffEnd
<1>3. IsTable(T) /\ NoSale \notin T /\ months.start \in Nat /\ months.end \in Int
  BY <1>1, PartIsTable DEF ThroughCutoff
<1>4. months.start .. months.end = 0 .. CommercialMonth(today)
  OBVIOUS
<1>5. /\ history.daily = [p \in Shown(today) |-> S[p[1]][p[2]]]
      /\ history.companyClose = [m \in 0 .. CommercialMonth(today) |->
           IF m < CommercialMonth(today) THEN <<S[m][MonthLength].cidef, 1>> ELSE None]
  <2> HIDE DEF T
  <2> QED BY <1>2, <1>4 DEF History, Shown
<1>6. S = [m \in 0 .. CommercialMonth(today) |->
             [d \in Days |-> CountsOf(AllPlaced(SoldBy(T, m, d), staff))]]
  <2>1. S = [m \in months.start .. months.end |->
               [d \in Days |-> CountsOf(AllPlaced(SoldBy(T, m, d), staff))]]
    <3> HIDE DEF months, T
    <3> QED BY <1>3, SnapshotsAre
  <2> HIDE DEF months, T, S
  <2> QED BY <1>4, <2>1
<1>7. \A m \in 0 .. CommercialMonth(today), d \in Days :
        DateOf(m, d) <= today => S[m][d] = CountsOf(AllPlaced(SoldBy(rows, m, d), staff))
  <2> SUFFICES ASSUME NEW m \in 0 .. CommercialMonth(today), NEW d \in Days, DateOf(m, d) <= today
               PROVE  S[m][d] = CountsOf(AllPlaced(SoldBy(rows, m, d), staff))
    OBVIOUS
  <2>1. SoldBy(T, m, d) = SoldBy(rows, m, d)
    BY <1>1, SoldEarlier
  <2> HIDE DEF S, T
  <2> QED BY <1>6, <2>1
<1>8. \A p \in Shown(today) : S[p[1]][p[2]] = CountsOf(AllPlaced(SoldBy(rows, p[1], p[2]), staff))
  <2> HIDE DEF S
  <2> QED BY <1>7, DayGoneBy
<1>9. \A m \in 0 .. CommercialMonth(today) : m < CommercialMonth(today) =>
        S[m][MonthLength] = CountsOf(AllPlaced(SoldBy(rows, m, MonthLength), staff))
  <2> SUFFICES ASSUME NEW m \in 0 .. CommercialMonth(today), m < CommercialMonth(today)
               PROVE  S[m][MonthLength] = CountsOf(AllPlaced(SoldBy(rows, m, MonthLength), staff))
    OBVIOUS
  <2>1. /\ MonthLength \in Days /\ CommercialDay(today) \in Days
        /\ today = DateOf(CommercialMonth(today), CommercialDay(today))
    BY CommercialDate, <1>1, MonthCloses
  <2>2. DateOf(m, MonthLength) < today
    BY <1>1, <2>1, MonthsInOrder
  <2>3. DateOf(m, MonthLength) <= today
    BY <2>1, <2>2, DateOfMonth
  <2> HIDE DEF S
  <2> QED BY <1>7, <2>1, <2>3
<1> HIDE DEF S, T, months, history
<1>10. /\ history.daily = [p \in Shown(today) |->
                             CountsOf(AllPlaced(SoldBy(rows, p[1], p[2]), staff))]
       /\ DOMAIN history.companyClose = 0 .. CommercialMonth(today)
       /\ \A m \in 0 .. CommercialMonth(today) :
            history.companyClose[m] =
              IF m < CommercialMonth(today)
              THEN <<CountsOf(AllPlaced(SoldBy(rows, m, MonthLength), staff)).cidef, 1>>
              ELSE None
  BY <1>5, <1>8, <1>9
<1> QED BY <1>10 DEF history, months

\* A cutoff at a month is one at its last day.
LEMMA MonthIsItsLastDay ==
  ASSUME NEW rows, NEW m \in Int
  PROVE  /\ VentasContext(rows, [type |-> "month", value |-> m]).monthly
              = VentasContext(rows, ByDay(m, MonthLength)).monthly
         /\ DailyActual(VentasContext(rows, ByDay(m, MonthLength))).sales
              = MonthlyActual(VentasContext(rows, [type |-> "month", value |-> m]), m).sales
<1>1. ClosesOn(m) = DateOf(m, MonthLength) /\ MonthLength \in Days
  BY MonthCloses
<1>2. CommercialMonth(DateOf(m, MonthLength)) = m
  BY <1>1, DateOfMonth
<1>3. ThroughCutoff(rows, [type |-> "month", value |-> m]) = ThroughCutoff(rows, ByDay(m, MonthLength))
  BY <1>1 DEF ThroughCutoff, CutoffEnd, ByDay
<1>4. VentasContext(rows, [type |-> "month", value |-> m]).monthly
        = VentasContext(rows, ByDay(m, MonthLength)).monthly
  BY <1>3 DEF VentasContext
<1>5. VentasContext(rows, ByDay(m, MonthLength)).cutoff.value = DateOf(m, MonthLength)
  BY DEF VentasContext, ByDay
<1> QED BY <1>2, <1>4, <1>5 DEF DailyActual, MonthlyActual

\* Every snapshot of a backtest and of the history says what the rule said that day.
LEMMA SnapshotsExact ==
  ASSUME NEW told, IsTable(told.rows), NoSale \notin told.rows, told.today \in Int,
         told.history = History(told.rows, told.masters,
                                [start |-> 0, end |-> CommercialMonth(told.today)], told.today),
         NEW end \in Int, HasHistory(told.rows, end),
         NEW learned, learned = BacktestContext(told.rows, told.masters, end)
  PROVE  SnapshotsAreExact(told, learned)
<1> DEFINE rows == told.rows
           months == [start |-> FirstMonthThrough(rows, end), end |-> end]
           Counts(m, d) == CountsOf(AllPlaced(SoldBy(rows, m, d), told.masters))
<1>1. months.start \in Nat /\ months.end \in Int
  BY FirstMonthIsThere
<1>2. learned.snapshots = Snapshots(rows, told.masters, months)
  BY DEF BacktestContext
<1>3. learned.snapshots = [m \in months.start .. months.end |-> [d \in Days |-> Counts(m, d)]]
  <2> HIDE DEF months
  <2> QED BY <1>1, <1>2, SnapshotsAre
<1>4. told.history.daily = [p \in Shown(told.today) |-> Counts(p[1], p[2])]
  BY HistoryIs
<1>5. \A m \in Int, d \in Days : CountsAsOf(told, Counts(m, d), m, d)
  BY CountsAreSaid
<1>6. \A m \in DOMAIN learned.snapshots :
        m \in Int /\ \A d \in Days : learned.snapshots[m][d] = Counts(m, d)
  <2> HIDE DEF months, Counts
  <2> QED BY <1>1, <1>3
<1>7. \A p \in DOMAIN told.history.daily :
        p[1] \in Int /\ p[2] \in Days /\ told.history.daily[p] = Counts(p[1], p[2])
  <2>1. \A p \in Shown(told.today) : p[1] \in Int /\ p[2] \in Days
    BY DayGoneBy
  <2> HIDE DEF Counts
  <2> QED BY <1>4, <2>1
<1>8. ASSUME NEW m \in DOMAIN learned.snapshots
      PROVE  learned.snapshots[m][MonthLength].recognized
               = MonthlyActual(VentasContext(told.rows, [type |-> "month", value |-> m]), m).sales
  <2>1. m \in Int /\ MonthLength \in Days
    BY <1>6, MonthCloses
  <2>2. Counts(m, MonthLength).recognized
          = DailyActual(VentasContext(told.rows, ByDay(m, MonthLength))).sales
    <3> HIDE DEF Counts
    <3> QED BY <1>5, <2>1 DEF CountsAsOf, ByDay
  <2> HIDE DEF Counts
  <2> QED BY <1>6, <2>1, <2>2, MonthIsItsLastDay
<1> HIDE DEF Counts
<1> QED BY <1>5, <1>6, <1>7, <1>8 DEF SnapshotsAreExact

\* What is counted is a number.
LEMMA CidefIsCount ==
  ASSUME NEW rows, IsTable(rows), NEW m, NEW day, NEW staff
  PROVE  CountsOf(AllPlaced(SoldBy(rows, m, day), staff)).cidef \in Nat
<1> DEFINE T == ThroughCutoff(rows, ByDay(m, day))
           placed == AllPlaced(SoldBy(rows, m, day), staff)
<1>1. T \subseteq rows /\ IsTable(T)
  BY PartIsTable DEF ThroughCutoff
<1>2. SoldBy(rows, m, day) \subseteq rows
  BY <1>1, SalesAreRows DEF VentasContext, SoldBy
<1>3. IsFiniteSet(placed)
  BY <1>2, FS_Subset, AsManyPlaced DEF IsTable
<1> HIDE DEF placed
<1>4. IsFiniteSet(Own(placed))
  BY <1>3, FS_Subset DEF Own
<1>5. Cardinality(Own(placed)) \in Nat
  BY <1>4, FS_CardinalityType
<1> QED BY <1>5 DEF CountsOf, placed

\* Ratios that are all of one have one for their median.
LEMMA MedianOfOnes ==
  ASSUME NEW rows, IsFiniteSet(rows), rows # {},
         \A r \in rows : \E c \in Nat \ {0} : r.ratio = <<c, c>>
  PROVE  \E c \in Int : Median(rows, LAMBDA r : r.ratio) = <<c, c>>
<1> DEFINE n == Cardinality(rows)
           K(k) == CHOOSE v \in {r.ratio : r \in rows} :
                     /\ Cardinality({r \in rows : Less(r.ratio, v)}) <= k
                     /\ k < Cardinality({r \in rows : ~Less(v, r.ratio)})
<1>1. n \in Nat /\ n > 0
  <2>1. n \in Nat /\ n # 0
    BY FS_CardinalityType, FS_EmptySet
  <2> HIDE DEF n
  <2> QED BY <2>1
<1>2. \A r, s \in rows : ~Less(r.ratio, s.ratio)
  <2> SUFFICES ASSUME NEW r \in rows, NEW s \in rows PROVE ~Less(r.ratio, s.ratio)
    OBVIOUS
  <2>1. PICK c \in Nat \ {0} : r.ratio = <<c, c>>
    OBVIOUS
  <2>2. PICK d \in Nat \ {0} : s.ratio = <<d, d>>
    OBVIOUS
  <2>3. r.ratio[1] = c /\ r.ratio[2] = c /\ s.ratio[1] = d /\ s.ratio[2] = d
    BY <2>1, <2>2
  <2>4. c * d = d * c /\ c * d \in Int
    OBVIOUS
  <2> QED BY <2>3, <2>4 DEF Less
<1>3. \A k \in 0 .. (n - 1) : \E c \in Nat \ {0} : K(k) = <<c, c>>
  <2> SUFFICES ASSUME NEW k \in 0 .. (n - 1) PROVE \E c \in Nat \ {0} : K(k) = <<c, c>>
    OBVIOUS
  <2>1. PICK r \in rows : TRUE
    OBVIOUS
  <2>2. /\ {s \in rows : Less(s.ratio, r.ratio)} = {}
        /\ {s \in rows : ~Less(r.ratio, s.ratio)} = rows
    BY <1>2
  <2>3. /\ Cardinality({s \in rows : Less(s.ratio, r.ratio)}) <= k
        /\ k < Cardinality({s \in rows : ~Less(r.ratio, s.ratio)})
    <3>1. Cardinality({s \in rows : Less(s.ratio, r.ratio)}) = 0
      BY <2>2, FS_EmptySet
    <3>2. Cardinality({s \in rows : ~Less(r.ratio, s.ratio)}) = n
      BY <2>2
    <3> HIDE DEF n
    <3> QED BY <1>1, <3>1, <3>2
  <2>4. K(k) \in {s.ratio : s \in rows}
    BY <2>1, <2>3
  <2> HIDE DEF K
  <2> QED BY <2>4
<1> DEFINE position == (n - 1) * 1
           low == K(position \div 2)
           high == K((position \div 2) + 1)
           weight == position % 2
<1>4. Median(rows, LAMBDA r : r.ratio) =
        CASE rows = {} -> None
          [] rows # {} /\ weight = 0 -> low
          [] OTHER -> <<low[1] * high[2] * (2 - weight) + high[1] * low[2] * weight,
                        2 * low[2] * high[2]>>
  BY DEF Median, Percentile, Kth
<1> HIDE DEF n, K
<1>5. position \in Nat /\ position \div 2 \in 0 .. (n - 1)
  BY <1>1
<1>6. PICK a \in Nat \ {0} : low = <<a, a>>
  <2> HIDE DEF position
  <2> QED BY <1>3, <1>5
<1>7. CASE weight = 0
  <2>1. Median(rows, LAMBDA r : r.ratio) = low
    <3> HIDE DEF low, high, weight
    <3> QED BY <1>4, <1>7
  <2>2. a \in Int
    OBVIOUS
  <2> HIDE DEF low
  <2>3. Median(rows, LAMBDA r : r.ratio) = <<a, a>>
    BY <1>6, <2>1
  <2> QED BY <2>2, <2>3
<1>8. CASE weight # 0
  <2>1. weight = 1 /\ (position \div 2) + 1 \in 0 .. (n - 1)
    BY <1>1, <1>8
  <2>2. PICK b \in Nat \ {0} : high = <<b, b>>
    <3> HIDE DEF position
    <3> QED BY <1>3, <2>1
  <2>3. Median(rows, LAMBDA r : r.ratio)
          = <<low[1] * high[2] * (2 - weight) + high[1] * low[2] * weight, 2 * low[2] * high[2]>>
    <3> HIDE DEF low, high, weight
    <3> QED BY <1>4, <1>8
  <2>4. /\ low[1] * high[2] * (2 - weight) + high[1] * low[2] * weight = 2 * (a * b)
        /\ 2 * low[2] * high[2] = 2 * (a * b)
    <3>1. low[1] = a /\ low[2] = a /\ high[1] = b /\ high[2] = b
      BY <1>6, <2>2
    <3> HIDE DEF low, high, weight
    <3>2. a * b * (2 - weight) + b * a * weight = 2 * (a * b) /\ 2 * a * b = 2 * (a * b)
      BY <2>1
    <3> QED BY <3>1, <3>2
  <2>5. 2 * (a * b) \in Int
    OBVIOUS
  <2> HIDE DEF low, high, weight
  <2> QED BY <2>3, <2>4, <2>5
<1> QED BY <1>7, <1>8

\* Every month of the history has reached the whole of its close by its last day.
LEMMA MonthsReached ==
  ASSUME NEW told, IsTable(told.rows), NoSale \notin told.rows, told.today \in Int,
         told.history = History(told.rows, told.masters,
                                [start |-> 0, end |-> CommercialMonth(told.today)], told.today)
  PROVE  MonthsAreReached(told)
<1> DEFINE open == CommercialMonth(told.today)
           history == told.history
           closed == {x \in DOMAIN history.companyClose : x < open /\ history.companyClose[x][1] > 0}
           Ratio(m) == [month |-> m, ratio |-> <<history.daily[<<m, MonthLength>>].cidef,
                                                 history.companyClose[m][1]>>]
           rows == MilestoneRatios(history, open, MonthLength)
           Count(m) == CountsOf(AllPlaced(SoldBy(told.rows, m, MonthLength), told.masters)).cidef
<1>1. rows = {Ratio(m) : m \in closed}
  BY DEF MilestoneRatios
<1>2. open \in Int /\ MonthLength \in Days
  BY CommercialDate, MonthCloses
<1>3. /\ history.daily = [p \in Shown(told.today) |->
                            CountsOf(AllPlaced(SoldBy(told.rows, p[1], p[2]), told.masters))]
      /\ DOMAIN history.companyClose = 0 .. open
      /\ \A m \in 0 .. open : history.companyClose[m] = IF m < open THEN <<Count(m), 1>> ELSE None
  BY HistoryIs
<1>4. \A m \in closed : \E c \in Nat \ {0} : Ratio(m).ratio = <<c, c>>
  <2> SUFFICES ASSUME NEW m \in closed PROVE \E c \in Nat \ {0} : Ratio(m).ratio = <<c, c>>
    OBVIOUS
  <2>1. m \in 0 .. open /\ m < open /\ history.companyClose[m][1] > 0
    BY <1>3
  <2>2. history.companyClose[m][1] = Count(m)
    <3> DEFINE close == history.companyClose[m]
    <3>1. close = <<Count(m), 1>>
      BY <1>3, <2>1
    <3> HIDE DEF Count, close
    <3>2. close[1] = Count(m)
      BY <3>1
    <3> QED BY <3>2 DEF close
  <2>3. <<m, MonthLength>> \in Shown(told.today)
    BY <1>2, <2>1 DEF Shown
  <2>4. history.daily[<<m, MonthLength>>].cidef = Count(m)
    BY <1>3, <2>3
  <2>5. Count(m) \in Nat
    BY CidefIsCount
  <2> HIDE DEF Count, history
  <2> QED BY <2>1, <2>2, <2>4, <2>5
<1>5. IsFiniteSet(rows)
  <2>1. IsFiniteSet(closed)
    <3>1. closed \subseteq DOMAIN history.companyClose
      OBVIOUS
    <3>3. DOMAIN history.companyClose = 0 .. open
      BY <1>3
    <3>2. IsFiniteSet(0 .. open)
      <4> HIDE DEF open
      <4>1. 0 \in Int /\ open \in Int
        BY <1>2
      <4> QED BY <4>1, FS_Interval
    <3> HIDE DEF closed, history, open
    <3>4. closed \in SUBSET (0 .. open)
      BY <3>1, <3>3
    <3> QED BY <3>2, <3>4, FS_Subset
  <2> DEFINE f == [m \in closed |-> Ratio(m)]
  <2>2. f \in [closed -> rows] /\ \A r \in rows : \E m \in closed : f[m] = r
    <3> HIDE DEF closed, Ratio, rows
    <3> QED BY <1>1
  <2> HIDE DEF f, closed, rows
  <2>3. f \in Surjection(closed, rows)
    BY <2>2 DEF Surjection
  <2> QED BY <2>1, <2>3, FS_Surjection
<1>6. \A r \in rows : \E c \in Nat \ {0} : r.ratio = <<c, c>>
  <2> HIDE DEF closed, Ratio, rows
  <2> QED BY <1>1, <1>4
<1>7. rows # {} => \E c \in Int : Median(rows, LAMBDA r : r.ratio) = <<c, c>>
  <2> HIDE DEF rows
  <2> QED BY <1>5, <1>6, MedianOfOnes
<1>8. Cardinality(rows) > 0 => rows # {}
  BY FS_EmptySet
<1>9. /\ MilestoneSummary(history, open, MonthLength).sample = Cardinality(rows)
      /\ MilestoneSummary(history, open, MonthLength).median = Median(rows, LAMBDA r : r.ratio)
  BY DEF MilestoneSummary
<1> HIDE DEF rows, open, history
<1>10. LET reached == MilestoneSummary(history, open, MonthLength)
       IN reached.sample > 0 => reached.median[1] = reached.median[2]
  BY <1>7, <1>8, <1>9
<1> QED BY <1>10 DEF MonthsAreReached, open, history

-----------------------------------------------------------------------------
(* What was learned, and what was said.                                    *)

\* The observations of a backtest, month by month.
CompanyMonth(snapshots, m) ==
  UNION {{[month |-> m, day |-> d, unit |-> u, observed |-> At(Company(snapshots[d]), u),
           actual |-> Company(snapshots[MonthLength])[u]] :
            u \in DOMAIN Company(snapshots[MonthLength])} : d \in Days}
StoresMonth(snapshots, m) ==
  UNION {{[month |-> m, day |-> d, unit |-> u, observed |-> At(Stores(snapshots[d]), u),
           actual |-> Stores(snapshots[MonthLength])[u]] :
            u \in DOMAIN Stores(snapshots[MonthLength])} : d \in Days}

\* Observations are those of each of the months.
LEMMA ObservedByMonth ==
  ASSUME NEW snapshots
  PROVE  /\ Observations(snapshots, Company) =
              UNION {CompanyMonth(snapshots[m], m) : m \in DOMAIN snapshots}
         /\ Observations(snapshots, Stores) =
              UNION {StoresMonth(snapshots[m], m) : m \in DOMAIN snapshots}
         /\ \A o \in Observations(snapshots, Company) : o.month \in DOMAIN snapshots
         /\ \A o \in Observations(snapshots, Stores) : o.month \in DOMAIN snapshots
BY DEF Observations, CompanyMonth, StoresMonth

\* Of what is gathered month by month, what comes before a month.
LEMMA MonthsBefore ==
  ASSUME NEW first \in Int, NEW end \in Int, NEW m \in Int, m - 1 <= end, NEW Of,
         \A n \in first .. end : \A o \in Of[n] : o.month = n
  PROVE  {o \in UNION {Of[n] : n \in first .. end} : o.month < m}
           = UNION {Of[n] : n \in first .. (m - 1)}
<1>1. \A n \in first .. end : n < m <=> n \in first .. (m - 1)
  OBVIOUS
<1>2. \A n \in first .. (m - 1) : n \in first .. end
  OBVIOUS
<1> QED BY <1>1, <1>2

\* Up to a month, the observations of a longer backtest are those of the backtest that ends there.
LEMMA ObservedBefore ==
  ASSUME NEW rows, IsTable(rows), NoSale \notin rows, NEW staff, NEW end \in Int,
         NEW m \in Int, m - 1 <= end, HasHistory(rows, m - 1)
  PROVE  LET learned == BacktestContext(rows, staff, end)
             before == BacktestContext(rows, staff, m - 1)
         IN /\ {o \in learned.company : o.month < m} = before.company
            /\ {o \in learned.stores : o.month < m} = before.stores
<1> DEFINE first == FirstMonthThrough(rows, m - 1)
           learned == BacktestContext(rows, staff, end)
           before == BacktestContext(rows, staff, m - 1)
           longer == [start |-> first, end |-> end]
           months == [start |-> first, end |-> m - 1]
           Counts(n) == [d \in Days |-> CountsOf(AllPlaced(SoldBy(rows, n, d), staff))]
           S == Snapshots(rows, staff, longer)
           T == Snapshots(rows, staff, months)
<1>1. /\ first \in Nat /\ first \in Int
      /\ FirstMonthThrough(rows, m - 1) = first /\ FirstMonthThrough(rows, end) = first
  BY FirstMonthIsThere, SameFirstMonth
<1>2. /\ learned.company = Observations(S, Company) /\ learned.stores = Observations(S, Stores)
      /\ before.company = Observations(T, Company) /\ before.stores = Observations(T, Stores)
  <2> HIDE DEF first
  <2> QED BY <1>1 DEF BacktestContext
<1>3. S = [n \in first .. end |-> Counts(n)] /\ T = [n \in first .. (m - 1) |-> Counts(n)]
  <2>1. /\ longer.start = first /\ longer.end = end /\ months.start = first /\ months.end = m - 1
    OBVIOUS
  <2>2. first \in Nat /\ end \in Int /\ m - 1 \in Int
    BY <1>1
  <2> HIDE DEF first, longer, months
  <2> QED BY <2>1, <2>2, SnapshotsAre
<1> DEFINE C == [n \in Int |-> CompanyMonth(Counts(n), n)]
           D == [n \in Int |-> StoresMonth(Counts(n), n)]
<1>4. /\ \A n \in first .. end : n \in Int /\ S[n] = Counts(n)
      /\ \A n \in first .. (m - 1) : n \in Int /\ T[n] = Counts(n)
      /\ DOMAIN S = first .. end /\ DOMAIN T = first .. (m - 1)
  <2> HIDE DEF S, T, first, Counts
  <2> QED BY <1>1, <1>3
<1>5. /\ learned.company = UNION {C[n] : n \in first .. end}
      /\ learned.stores = UNION {D[n] : n \in first .. end}
      /\ before.company = UNION {C[n] : n \in first .. (m - 1)}
      /\ before.stores = UNION {D[n] : n \in first .. (m - 1)}
  <2> HIDE DEF S, T, first, Counts, learned, before
  <2>1. /\ Observations(S, Company) = UNION {CompanyMonth(S[n], n) : n \in first .. end}
        /\ Observations(S, Stores) = UNION {StoresMonth(S[n], n) : n \in first .. end}
        /\ Observations(T, Company) = UNION {CompanyMonth(T[n], n) : n \in first .. (m - 1)}
        /\ Observations(T, Stores) = UNION {StoresMonth(T[n], n) : n \in first .. (m - 1)}
    BY <1>4, ObservedByMonth
  <2>2. /\ {CompanyMonth(S[n], n) : n \in first .. end} = {C[n] : n \in first .. end}
        /\ {StoresMonth(S[n], n) : n \in first .. end} = {D[n] : n \in first .. end}
        /\ {CompanyMonth(T[n], n) : n \in first .. (m - 1)} = {C[n] : n \in first .. (m - 1)}
        /\ {StoresMonth(T[n], n) : n \in first .. (m - 1)} = {D[n] : n \in first .. (m - 1)}
    BY <1>4
  <2> QED BY <1>2, <2>1, <2>2
<1>6. \A n \in first .. end : (\A o \in C[n] : o.month = n) /\ (\A o \in D[n] : o.month = n)
  <2> SUFFICES ASSUME NEW n \in first .. end
               PROVE (\A o \in C[n] : o.month = n) /\ (\A o \in D[n] : o.month = n)
    OBVIOUS
  <2>1. n \in Int
    BY <1>4
  <2> HIDE DEF Counts
  <2>2. C[n] = CompanyMonth(Counts(n), n) /\ D[n] = StoresMonth(Counts(n), n)
    BY <2>1
  <2> QED BY <2>2 DEF CompanyMonth, StoresMonth
<1> HIDE DEF first, C, D, learned, before
<1>7. /\ {o \in UNION {C[n] : n \in first .. end} : o.month < m}
           = UNION {C[n] : n \in first .. (m - 1)}
      /\ {o \in UNION {D[n] : n \in first .. end} : o.month < m}
           = UNION {D[n] : n \in first .. (m - 1)}
  <2>1. /\ (\A n \in first .. end : \A o \in C[n] : o.month = n)
        /\ (\A n \in first .. end : \A o \in D[n] : o.month = n)
    BY <1>6
  <2>2. {o \in UNION {C[n] : n \in first .. end} : o.month < m} = UNION {C[n] : n \in first .. (m - 1)}
    BY <1>1, <2>1, MonthsBefore
  <2>3. {o \in UNION {D[n] : n \in first .. end} : o.month < m} = UNION {D[n] : n \in first .. (m - 1)}
    BY <1>1, <2>1, MonthsBefore
  <2> QED BY <2>2, <2>3
<1>8. {o \in learned.company : o.month < m} = before.company
      /\ {o \in learned.stores : o.month < m} = before.stores
  BY <1>5, <1>7
<1> QED BY <1>8 DEF learned, before

\* What a month is tried with is what was learned before it.
LEMMA TriedAsLearned ==
  ASSUME NEW observed, NEW m \in Int, NEW before, {o \in observed : o.month < m} = before,
         \A o \in observed : o.month \in Int,
         NEW r \in WalkForward(observed, [start |-> m, end |-> m])
  PROVE  Same(r.learned, LearnedCompletion(before, r.day))
<1>1. PICK o \in observed : /\ m <= o.month /\ o.month <= m
                            /\ r.day = o.day
                            /\ r.learned = LearnedCompletion({p \in observed : p.month < o.month}, o.day)
  BY DEF WalkForward
<1>2. o.month = m
  BY <1>1
<1>3. r.learned = LearnedCompletion(before, r.day)
  BY <1>1, <1>2
<1> QED BY <1>3 DEF Same

\* A backtest tries each month with what the live forecast would have learned.
LEMMA BacktestSaid ==
  ASSUME NEW told, IsTable(told.rows), NoSale \notin told.rows, NEW end \in Int,
         HasHistory(told.rows, end),
         NEW learned, learned = BacktestContext(told.rows, told.masters, end)
  PROVE  BacktestIsWhatLiveSaid(told, learned)
<1> DEFINE months == [start |-> FirstMonthThrough(told.rows, end), end |-> end]
           S == Snapshots(told.rows, told.masters, months)
<1>1. months.start \in Nat /\ months.end = end
  BY FirstMonthIsThere
<1>2. /\ learned.snapshots = S /\ DOMAIN S = months.start .. months.end
      /\ learned.company = Observations(S, Company) /\ learned.stores = Observations(S, Stores)
  BY DEF BacktestContext, Snapshots
<1> HIDE DEF months, S
<1>3. /\ \A o \in learned.company : o.month \in Int
      /\ \A o \in learned.stores : o.month \in Int
  <2>1. \A n \in DOMAIN S : n \in Int
    BY <1>1, <1>2
  <2> QED BY <1>2, <2>1, ObservedByMonth
<1>4. ASSUME NEW m \in DOMAIN learned.snapshots, HasHistory(told.rows, m - 1)
      PROVE  LET before == BacktestContext(told.rows, told.masters, m - 1)
                 target == [start |-> m, end |-> m]
             IN /\ \A r \in WalkForward(learned.company, target) :
                     Same(r.learned, LearnedCompletion(before.company, r.day))
                /\ \A r \in WalkForward(learned.stores, target) :
                     Same(r.learned, LearnedCompletion(before.stores, r.day))
  <2>1. m \in Int /\ m - 1 <= end
    BY <1>1, <1>2
  <2> DEFINE before == BacktestContext(told.rows, told.masters, m - 1)
  <2>2. /\ {o \in learned.company : o.month < m} = before.company
        /\ {o \in learned.stores : o.month < m} = before.stores
    BY <1>4, <2>1, ObservedBefore
  <2> HIDE DEF before
  <2>3. /\ \A r \in WalkForward(learned.company, [start |-> m, end |-> m]) :
             Same(r.learned, LearnedCompletion(before.company, r.day))
        /\ \A r \in WalkForward(learned.stores, [start |-> m, end |-> m]) :
             Same(r.learned, LearnedCompletion(before.stores, r.day))
    BY <1>3, <2>1, <2>2, TriedAsLearned
  <2> QED BY <2>3 DEF before
<1> QED BY <1>4 DEF BacktestIsWhatLiveSaid

\* A month that closed by a day has nothing to learn from what is dated after it.
LEMMA ClosedByThen ==
  ASSUME NEW day \in Int
  PROVE  /\ ClosesOn(CommercialMonth(day) - 1) <= day
         /\ ClosesOn(CalendarMonth(day) - 1) <= day
         /\ CommercialMonth(day) \in Int /\ CalendarMonth(day) \in Int
<1> DEFINE a == day - 2
           b == day - 1
           p == a \div MonthLength
           q == b \div MonthLength
           j == a % MonthLength
           k == b % MonthLength
<1>1. MonthLength \in Nat /\ MonthLength > 1 /\ a \in Int /\ b \in Int
  BY MonthsHaveDays
<1>2. /\ p \in Int /\ j \in 0 .. (MonthLength - 1) /\ a = MonthLength * p + j
      /\ q \in Int /\ k \in 0 .. (MonthLength - 1) /\ b = MonthLength * q + k
  <2>1. a = day - 2 /\ b = day - 1
    OBVIOUS
  <2> HIDE DEF a, b
  <2> QED BY <1>1, Quotient
<1>3. CommercialMonth(day) = p /\ CalendarMonth(day) = q
  BY DEF CommercialMonth, CalendarMonth
<1>4. a <= day /\ b <= day /\ a + 1 <= day /\ b + 1 <= day
  OBVIOUS
<1> HIDE DEF a, b, p, q, j, k
<1>5. /\ ClosesOn(p - 1) = MonthLength * p + 1 /\ ClosesOn(q - 1) = MonthLength * q + 1
  <2>1. /\ (p - 1) + 1 = p /\ (q - 1) + 1 = q
        /\ p * MonthLength = MonthLength * p /\ q * MonthLength = MonthLength * q
    BY <1>1, <1>2
  <2> QED BY <2>1 DEF ClosesOn
<1>6. MonthLength * p <= a /\ MonthLength * q <= b /\ MonthLength * p \in Int /\ MonthLength * q \in Int
  BY <1>1, <1>2
<1> DEFINE x == MonthLength * p
           y == MonthLength * q
<1>7. x + 1 <= day /\ y + 1 <= day
  <2>1. x <= a /\ y <= b /\ x \in Int /\ y \in Int
    BY <1>6
  <2> HIDE DEF x, y
  <2> QED BY <1>1, <1>4, <2>1
<1> QED BY <1>2, <1>3, <1>5, <1>7

\* The days of a calendar month come by the close of the commercial one.
LEMMA InCalendarMonth ==
  ASSUME NEW date \in Nat, NEW end \in Int, CalendarMonth(date) <= end
  PROVE  date <= ClosesOn(end) /\ ClosesOn(end) \in Int
<1> DEFINE b == date - 1
           q == b \div MonthLength
           k == b % MonthLength
<1>1. MonthLength \in Nat /\ MonthLength > 1 /\ b \in Int
  BY MonthsHaveDays
<1>2. q \in Int /\ k \in 0 .. (MonthLength - 1) /\ b = MonthLength * q + k
  <2> HIDE DEF b
  <2> QED BY <1>1, Quotient
<1>3. q <= end /\ date = b + 1
  BY DEF CalendarMonth
<1> HIDE DEF b, q, k
<1>4. MonthLength * (end - q) >= 0
  BY <1>1, <1>2, <1>3
<1> DEFINE x == MonthLength * q
           y == MonthLength * end
<1>5. /\ x \in Int /\ y \in Int /\ y - x >= 0 /\ b = x + k /\ ClosesOn(end) = y + MonthLength + 1
  <2>1. MonthLength * (end - q) = MonthLength * end - MonthLength * q
    BY <1>1, <1>2
  <2>2. (end + 1) * MonthLength = MonthLength * end + MonthLength
    BY <1>1
  <2>3. MonthLength * end \in Int /\ MonthLength * q \in Int
    BY <1>1, <1>2
  <2> QED BY <1>1, <1>2, <1>4, <2>1, <2>2, <2>3 DEF ClosesOn
<1> HIDE DEF x, y
<1> QED BY <1>1, <1>2, <1>3, <1>5

EventsIn(inside) ==
  {[previous |-> NoSale, next |-> r] : r \in {s \in inside : s.vin = NoVin}}
    \cup {[previous |-> PreviousOf(inside, r), next |-> r] :
            r \in UNION {StepsOf(inside, v) : v \in VinsOf(inside)}}

\* A backtest of closed months is the same without what is dated later.
LEMMA SameBacktest ==
  ASSUME NEW rows, IsTable(rows), NEW staff, NEW day \in Int, NEW end \in Int, ClosesOn(end) <= day
  PROVE  BacktestContext(ThroughCutoff(rows, UpTo(day)), staff, end) = BacktestContext(rows, staff, end)
<1> DEFINE then == ThroughCutoff(rows, UpTo(day))
           months == [start |-> FirstMonthThrough(rows, end), end |-> end]
<1>1. then = {r \in rows : Dated(r) /\ r.date <= day}
  BY DEF ThroughCutoff, UpTo, CutoffEnd
<1> HIDE DEF then
<1>2. \A r \in rows : r.date \in Nat
  BY DEF IsTable
<1>3. {s \in then : Dated(s) /\ CalendarMonth(s.date) <= end}
        = {s \in rows : Dated(s) /\ CalendarMonth(s.date) <= end}
  <2>1. \A s \in rows : CalendarMonth(s.date) <= end => s.date <= day
    <3> SUFFICES ASSUME NEW s \in rows, CalendarMonth(s.date) <= end PROVE s.date <= day
      OBVIOUS
    <3>1. s.date <= ClosesOn(end) /\ ClosesOn(end) \in Int /\ s.date \in Nat
      BY <1>2, InCalendarMonth
    <3> QED BY <3>1
  <2> QED BY <1>1, <2>1
<1>4. FirstMonthThrough(then, end) = FirstMonthThrough(rows, end)
  BY <1>3 DEF FirstMonthThrough
<1>5. {r \in then : InMonths(r, months)} = {r \in rows : InMonths(r, months)}
  <2>1. \A r \in rows : InMonths(r, months) => Dated(r) /\ r.date <= day
    <3> SUFFICES ASSUME NEW r \in rows, InMonths(r, months) PROVE Dated(r) /\ r.date <= day
      OBVIOUS
    <3>1. Dated(r) /\ r.date <= ClosesOn(end)
      BY DEF InMonths
    <3>2. ClosesOn(end) \in Int
      BY MonthsHaveDays DEF ClosesOn
    <3> QED BY <1>2, <3>1, <3>2
  <2> HIDE DEF months
  <2> QED BY <1>1, <2>1
<1> HIDE DEF months
<1>6. RecognitionEvents(then, months) = RecognitionEvents(rows, months)
  <2>1. Inside(then, months) = Inside(rows, months)
    BY <1>5 DEF Inside
  <2>2. /\ RecognitionEvents(then, months) = EventsIn(Inside(then, months))
        /\ RecognitionEvents(rows, months) = EventsIn(Inside(rows, months))
    BY EventsAre DEF EventsIn
  <2> QED BY <2>1, <2>2
<1>7. Snapshots(then, staff, months) = Snapshots(rows, staff, months)
  BY <1>6 DEF Snapshots
<1>8. BacktestContext(then, staff, end) = BacktestContext(rows, staff, end)
  BY <1>4, <1>7 DEF BacktestContext, months
<1> QED BY <1>8 DEF then

\* So is the daily report,
LEMMA SameDay ==
  ASSUME NEW rows, IsTable(rows), NEW staff, NEW day \in Int
  PROVE  DailyOrganization(ThroughCutoff(rows, UpTo(day)), staff, day)
           = DailyOrganization(rows, staff, day)
<1>1. ThroughCutoff(ThroughCutoff(rows, UpTo(day)), UpTo(day)) = ThroughCutoff(rows, UpTo(day))
  BY EarlierCutoff
<1>2. VentasContext(ThroughCutoff(rows, UpTo(day)), UpTo(day)).sales
        = VentasContext(rows, UpTo(day)).sales
  BY <1>1 DEF VentasContext
<1> QED BY <1>2 DEF DailyOrganization, UpTo

\* and so are the forecasts.
LEMMA SaidThen ==
  ASSUME NEW rows, IsTable(rows), NEW staff, NEW day \in Int
  PROVE  LET then == ThroughCutoff(rows, UpTo(day))
         IN /\ LiveForecast(then, staff, day) = LiveForecast(rows, staff, day)
            /\ DailyCloseForecast(then, staff, day) = DailyCloseForecast(rows, staff, day)
<1> DEFINE then == ThroughCutoff(rows, UpTo(day))
<1>1. DailyOrganization(then, staff, day) = DailyOrganization(rows, staff, day)
  BY SameDay
<1>2. /\ BacktestContext(then, staff, CommercialMonth(day) - 1)
           = BacktestContext(rows, staff, CommercialMonth(day) - 1)
      /\ BacktestContext(then, staff, CalendarMonth(day) - 1)
           = BacktestContext(rows, staff, CalendarMonth(day) - 1)
  BY ClosedByThen, SameBacktest
<1> HIDE DEF then
<1>3. HistoricalState(then, staff, CommercialMonth(day), CommercialDay(day))
        = HistoricalState(rows, staff, CommercialMonth(day), CommercialDay(day))
  BY <1>2 DEF HistoricalState
<1>4. LiveForecast(then, staff, day) = LiveForecast(rows, staff, day)
  BY <1>1, <1>3 DEF LiveForecast
<1>5. DailyCloseForecast(then, staff, day) = DailyCloseForecast(rows, staff, day)
  BY <1>1, <1>2 DEF DailyCloseForecast
<1> QED BY <1>4, <1>5 DEF then

-----------------------------------------------------------------------------
(* What is told.                                                           *)

\* Whatever the tables hold (VINs sold again within a month or after it, ties, undated rows, rows
\* without VIN), and whatever day is asked for: the counters kept event by event are, on every day
\* of every month, what the recognition rule says of the rows there were that day; every closed
\* month is reached by its last day; a forecast as of a day is the one of that day, whatever was
\* sold later; and a backtest tries each month with what the live forecast would have learned.
THEOREM AlwaysForecastsAreLive == Spec => ForecastsAreLive
<1>1. SalesInv => [Delivered("forecast") => ForecastsWereKnown(ForecastTold)]_vars
  <2> SUFFICES ASSUME SalesInv, report.kind = "forecast" PROVE ForecastsWereKnown(ForecastTold)
    BY DEF Delivered
  <2> DEFINE told == ForecastTold
             end == CommercialMonth(told.cutoff) - 1
             learned == BacktestContext(told.rows, told.masters, end)
  <2>1. /\ told.rows = report.rows /\ told.masters = report.masters
        /\ told.cutoff = report.cutoff /\ told.today = report.today
        /\ told.live = LiveForecast(told.rows, told.masters, told.cutoff)
        /\ told.close = IF DailyCloseAccepts(told.rows, told.cutoff, told.today)
                        THEN DailyCloseForecast(told.rows, told.masters, told.cutoff) ELSE NotRead
        /\ told.history = History(told.rows, told.masters,
                                  [start |-> 0, end |-> CommercialMonth(told.today)], told.today)
    BY DEF ForecastTold
  <2> HIDE DEF told
  <2>2. /\ IsTable(told.rows) /\ NoSale \notin told.rows
        /\ told.cutoff \in Int /\ told.today \in Int
    BY <2>1, TablesAssumption DEF SalesInv, IsTable
  <2>3. end \in Int /\ HasHistory(told.rows, end)
    BY <2>1, <2>2, ClosedByThen DEF SalesInv, LiveForecastAccepts
  <2> HIDE DEF end
  <2>4. SnapshotsAreExact(told, learned)
    BY <2>1, <2>2, <2>3, SnapshotsExact
  <2>5. MonthsAreReached(told)
    BY <2>1, <2>2, MonthsReached
  <2>6. NoHindsight(told)
    BY <2>1, <2>2, SaidThen DEF NoHindsight, UpTo
  <2>7. BacktestIsWhatLiveSaid(told, learned)
    BY <2>2, <2>3, BacktestSaid
  <2> QED BY <2>4, <2>5, <2>6, <2>7 DEF ForecastsWereKnown, end, told
<1> QED BY <1>1, AlwaysSales, PTL DEF Spec, ForecastsAreLive

\* Whatever moment each table was read at, the reports of one request divide the sales of the
\* company: every one is of the own stores, of the dealers or of neither, and of only one of them.
THEOREM SalesArePartitioned ==
  Spec => [][Delivered("universes") => UniversesPartition(UniversesTold)]_vars
<1>1. UniversesPartition(UniversesTold)
  <2> DEFINE told == UniversesTold
             units == told.context.sales
             Class(s) == Classified(report.canonical, s)
             In(universe) == {e.scoped.sale : e \in universe.events}
             neither == {e.scoped.sale : e \in {f \in told.company.events : f.class = "UNRESOLVED"}}
             Of(name) == VentasUniverse(told.context,
                           CommercialContext(units, report.canonical, name), Resources)
  <2>1. told.company = Of("COMPANY") /\ told.own = Of("OWN_STORES") /\ told.dealers = Of("DEALERS")
    BY DEF UniversesTold
  <2>2. ASSUME NEW name
        PROVE  Of(name).events = {AnalyticalEvent(Scoped(report.canonical, s, name), Resources) :
                                    s \in {t \in units : name = "COMPANY" \/ Class(t) = name}}
    BY DEF VentasUniverse, CommercialContext
  <2>3. \A s, name : /\ AnalyticalEvent(Scoped(report.canonical, s, name), Resources).scoped.sale = s
                     /\ AnalyticalEvent(Scoped(report.canonical, s, name), Resources).class = Class(s)
    BY DEF AnalyticalEvent, Scoped
  <2>4. \A s : Class(s) \in {"OWN_STORES", "DEALERS", "UNRESOLVED"}
    BY DEF Classified
  <2> HIDE DEF told, Of, Class, units
  <2>5. ASSUME NEW name
        PROVE  {e.scoped.sale : e \in Of(name).events}
                 = {s \in units : name = "COMPANY" \/ Class(s) = name}
    BY <2>2, <2>3
  <2>6. /\ In(told.company) = units
        /\ In(told.own) = {s \in units : Class(s) = "OWN_STORES"}
        /\ In(told.dealers) = {s \in units : Class(s) = "DEALERS"}
    BY <2>1, <2>5
  <2>7. neither = {s \in units : Class(s) = "UNRESOLVED"}
    BY <2>1, <2>2, <2>3
  <2>8. /\ In(told.own) \cap In(told.dealers) = {}
        /\ In(told.company) = told.context.sales
        /\ In(told.company) = In(told.own) \cup In(told.dealers) \cup neither
    BY <2>4, <2>6, <2>7 DEF units
  <2> QED BY <2>8 DEF UniversesPartition, told
<1>2. [Delivered("universes") => UniversesPartition(UniversesTold)]_vars
  BY <1>1
<1> QED BY <1>2, PTL
=============================================================================
