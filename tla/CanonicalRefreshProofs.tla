----------------------- MODULE CanonicalRefreshProofs -----------------------
(***************************************************************************)
(* What a refresh of vehiculo_canonico leaves in the table, for any number *)
(* of refreshes that overlap and stop, and any contents of the raw tables. *)
(***************************************************************************)
EXTENDS CanonicalRefresh, FiniteSetTheorems, TLAPS

-----------------------------------------------------------------------------
(* The exit of one vehicle.                                                *)

\* The columns of an exit agree with one another.
ExitAgrees(exit) ==
  /\ exit.dealer # NULL => exit.canal = "DEALER" /\ exit.grupo = GroupOf[exit.dealer]
  /\ exit.sucursal # NULL => exit.canal = "TIENDA_PROPIA" /\ ChannelOf[exit.sucursal] = "CIDEF"
  /\ exit.metodo = "FORUM_COMENTARIO" => exit.dealer \notin ForumDealers \cup {NULL}

\* The rows two tables of sales may have.
IsFile(ventas, notas) ==
  /\ IsFiniteSet(ventas) /\ IsFiniteSet(notas)
  /\ \A s \in ventas \cup notas : s.buyer \in DOMAIN AliasedBy /\ s.branch \in Branches \cup {NULL}
  /\ \A n \in notas : n.comment # NULL =>
       \A kind \in {"rut", "legal", "name"} : n.comment[kind] \subseteq Dealers

\* NULL is none of the texts of the columns.
LEMMA NullIsNoText ==
  /\ NULL # "DEALER" /\ NULL # "TIENDA_PROPIA" /\ NULL # "CIDEF"
  /\ NULL # "FORUM_COMENTARIO" /\ NULL # "NO_RESUELTO" /\ NULL # "DIRECTO"
  /\ NULL # "NOT_APPLICABLE" /\ NULL # "RESOLVED" /\ NULL # "UNRESOLVED"
BY DealersAssumption DEF Channels, Methods, Statuses

LEMMA OnlyIsIt ==
  ASSUME NEW S, Only(S) # NULL
  PROVE  Only(S) \in S \ {NULL}
<1>1. Cardinality(S \ {NULL}) = 1
  BY DEF Only, Count
<1>2. S \ {NULL} # {}
  BY <1>1, FS_EmptySet
<1> QED BY <1>1, <1>2 DEF Only, Count

LEMMA OnlyIsOne ==
  ASSUME NEW S, IsFiniteSet(S), Only(S) # NULL
  PROVE  S \ {NULL} = {Only(S)}
<1>1. Cardinality(S \ {NULL}) = 1
  BY DEF Only, Count
<1>2. IsFiniteSet(S \ {NULL})
  BY FS_Subset
<1>3. \E x : S \ {NULL} = {x}
  BY <1>1, <1>2, FS_Singleton
<1> QED BY <1>3, OnlyIsIt

LEMMA OnlyOfOne ==
  ASSUME NEW x
  PROVE  Only({x}) = x
<1>1. CASE x = NULL
  <2>1. {x} \ {NULL} = {}
    BY <1>1
  <2>2. Cardinality({x} \ {NULL}) = 0
    BY <2>1, FS_EmptySet
  <2> QED BY <1>1, <2>2 DEF Only, Count
<1>2. CASE x # NULL
  <2>1. {x} \ {NULL} = {x}
    BY <1>2
  <2>2. Cardinality({x}) = 1
    BY FS_Singleton
  <2> QED BY <2>1, <2>2 DEF Only, Count
<1> QED BY <1>1, <1>2

LEMMA SaleRowsAreRows ==
  ASSUME NEW v, NEW ventas, NEW notas, IsFile(ventas, notas)
  PROVE  /\ CurrentSale(v, ventas, notas) \subseteq ventas \cup notas
         /\ IsFiniteSet(CurrentSale(v, ventas, notas))
         /\ CurrentNotes(v, ventas, notas) \subseteq {n \in notas : n.comment # NULL}
<1>1. CurrentSale(v, ventas, notas) \subseteq ventas \cup notas
  BY DEF CurrentSale, Exact, SameDate, CompatibleNotes
<1>2. IsFiniteSet(ventas \cup notas)
  BY FS_Union DEF IsFile
<1>3. CurrentNotes(v, ventas, notas) \subseteq {n \in notas : n.comment # NULL}
  BY DEF CurrentNotes
<1> QED BY <1>1, <1>2, <1>3, FS_Subset

LEMMA DealersOfSale ==
  ASSUME NEW v, NEW ventas, NEW notas, IsFile(ventas, notas)
  PROVE  /\ DirectDealers(v, ventas, notas) \subseteq Dealers
         /\ CommentDealers(v, ventas, notas) \subseteq Dealers \ ForumDealers
<1>1. DirectDealers(v, ventas, notas) \subseteq Dealers
  BY SaleRowsAreRows, DealersAssumption DEF DirectDealers, IsFile
<1>2. \A kind \in {"rut", "legal", "name"} :
        Mentions(kind, v, ventas, notas) \subseteq Dealers \ ForumDealers
  <2> TAKE kind \in {"rut", "legal", "name"}
  <2>1. \A n \in CurrentNotes(v, ventas, notas) : n.comment[kind] \subseteq Dealers
    BY SaleRowsAreRows DEF IsFile
  <2> DEFINE all == UNION {n.comment[kind] : n \in CurrentNotes(v, ventas, notas)}
  <2>2. all \subseteq Dealers
    BY <2>1
  <2>3. Mentions(kind, v, ventas, notas) = all \ ForumDealers
    BY DEF Mentions
  <2> HIDE DEF all
  <2> QED BY <2>2, <2>3
<1> QED BY <1>1, <1>2 DEF CommentDealers

\* A sale whose branch is known has its channel.
LEMMA ChannelOfBranch ==
  ASSUME NEW sale, IsFiniteSet(sale), Only({s.branch : s \in sale}) # NULL
  PROVE  Only({ChannelOf[s.branch] : s \in {x \in sale : x.branch # NULL}})
           = ChannelOf[Only({s.branch : s \in sale})]
<1> DEFINE branches == {s.branch : s \in sale}
           b == Only(branches)
           channels == {ChannelOf[s.branch] : s \in {x \in sale : x.branch # NULL}}
<1>1. IsFiniteSet(branches)
  <2> DEFINE f == [s \in sale |-> s.branch]
  <2>1. f \in [sale -> branches] /\ \A x \in branches : \E s \in sale : f[s] = x
    OBVIOUS
  <2>2. f \in Surjection(sale, branches)
    <3> HIDE DEF f, branches
    <3> QED BY <2>1 DEF Surjection
  <2> HIDE DEF f, branches
  <2> QED BY <2>2, FS_Surjection
<1>2. branches \ {NULL} = {b}
  <2>1. Only(branches) # NULL
    OBVIOUS
  <2> HIDE DEF branches
  <2> QED BY <1>1, <2>1, OnlyIsOne
<1>3. \A s \in sale : s.branch # NULL => s.branch = b
  BY <1>2
<1>4. \E s \in sale : s.branch # NULL
  BY <1>2
<1>5. channels = {ChannelOf[b]}
  <2> HIDE DEF b
  <2> QED BY <1>3, <1>4
<1> HIDE DEF channels, b
<1> QED BY <1>5, OnlyOfOne DEF channels, b

\* The exit has the types of its columns, and they agree.
LEMMA ExitIsSound ==
  ASSUME NEW v, NEW ventas, NEW notas, IsFile(ventas, notas)
  PROVE  Exit(v, ventas, notas) \in Exits /\ ExitAgrees(Exit(v, ventas, notas))
<1> DEFINE sale == CurrentSale(v, ventas, notas)
           named == CommentDealers(v, ventas, notas)
           r == Resolution(v, ventas, notas)
           exit == Exit(v, ventas, notas)
<1>1. /\ r.direct \in Dealers \cup {NULL}
      /\ r.comment # NULL => r.comment \in Dealers \ ForumDealers /\ r.commentGroup = GroupOf[r.comment]
      /\ r.commentGroup \in Groups \cup {NULL}
  <2>1. r.direct # NULL => r.direct \in Dealers
    BY OnlyIsIt, DealersOfSale DEF Resolution
  <2>2. ASSUME r.comment # NULL
        PROVE  r.comment \in Dealers \ ForumDealers /\ r.commentGroup = GroupOf[r.comment]
    <3>1. IsFiniteSet(named) /\ NULL \notin named
      BY DealersOfSale, DealersAssumption, FS_Subset
    <3>2. r.comment = Only(named) /\ r.commentGroup = Only({GroupOf[d] : d \in named})
      BY DEF Resolution
    <3>3. named = {r.comment}
      <4> HIDE DEF r, named
      <4> QED BY <2>2, <3>1, <3>2, OnlyIsOne
    <3>4. {GroupOf[d] : d \in named} = {GroupOf[r.comment]}
      <4> HIDE DEF r, named
      <4> QED BY <3>3
    <3>5. r.comment \in Dealers \ ForumDealers
      <4> HIDE DEF r
      <4> QED BY <3>3, DealersOfSale
    <3> HIDE DEF r, named
    <3> QED BY <3>2, <3>4, <3>5, OnlyOfOne
  <2>3. ASSUME r.commentGroup # NULL PROVE r.commentGroup \in Groups
    <3>1. r.commentGroup \in {GroupOf[d] : d \in named}
      BY <2>3, OnlyIsIt DEF Resolution
    <3> HIDE DEF named
    <3> QED BY <3>1, DealersOfSale DEF Groups, named
  <2> HIDE DEF r
  <2> QED BY <2>1, <2>2, <2>3
<1>2. /\ r.context.branch # NULL =>
           /\ r.context.branch \in Branches
           /\ r.context.channel = ChannelOf[r.context.branch]
  <2> SUFFICES ASSUME r.context.branch # NULL
               PROVE  r.context.branch \in Branches /\ r.context.channel = ChannelOf[r.context.branch]
    OBVIOUS
  <2>1. r.context.branch = Only({s.branch : s \in sale})
    BY DEF Resolution, SaleContext
  <2>2. r.context.channel = Only({ChannelOf[s.branch] : s \in {x \in sale : x.branch # NULL}})
    BY DEF Resolution, SaleContext
  <2>3. sale \subseteq ventas \cup notas /\ IsFiniteSet(sale)
    BY SaleRowsAreRows
  <2> HIDE DEF r, sale
  <2>4. r.context.branch \in {s.branch : s \in sale}
    BY <2>1, OnlyIsIt
  <2> QED BY <2>1, <2>2, <2>3, <2>4, ChannelOfBranch DEF IsFile
<1>3. exit.vendido \in BOOLEAN
  BY DEF Exit, Sold
<1>4. exit = [vendido |-> Sold(v), canal |-> Channel(r),
              sucursal |-> IF Channel(r) = "TIENDA_PROPIA" THEN r.context.branch ELSE NULL,
              dealer |-> IF Channel(r) = "DEALER" THEN Dealer(r) ELSE NULL,
              grupo |-> IF Channel(r) = "DEALER" THEN Group(r) ELSE NULL,
              metodo |-> IF Channel(r) = "DEALER" THEN Method(r) ELSE NULL]
  BY DEF Exit
<1> HIDE DEF r, exit
<1>5. Channel(r) \in {"DEALER", "TIENDA_PROPIA", NULL}
  BY DEF Channel
<1>6. Channel(r) = "TIENDA_PROPIA" => r.context.channel = "CIDEF"
  BY NullIsNoText DEF Channel
<1>7. Dealer(r) \in Dealers \cup {NULL}
  BY <1>1 DEF Dealer
<1>8. Dealer(r) # NULL => Group(r) = GroupOf[Dealer(r)]
  BY <1>1 DEF Dealer, Group
<1>9. Group(r) \in Groups \cup {NULL}
  BY <1>1 DEF Group, Groups
<1>10. Method(r) \in {"DIRECTO", "FORUM_COMENTARIO", "NO_RESUELTO", NULL}
  BY DEF Method
<1>11. Method(r) = "FORUM_COMENTARIO" => Dealer(r) \notin ForumDealers \cup {NULL}
  BY <1>1, NullIsNoText, DealersAssumption DEF Method, Dealer
<1>12. exit \in Exits
  BY <1>2, <1>3, <1>4, <1>5, <1>6, <1>7, <1>9, <1>10 DEF Exits, Channels, Methods
<1>13. exit.dealer # NULL => exit.canal = "DEALER" /\ exit.grupo = GroupOf[exit.dealer]
  BY <1>4, <1>8
<1>14. exit.sucursal # NULL => exit.canal = "TIENDA_PROPIA" /\ ChannelOf[exit.sucursal] = "CIDEF"
  BY <1>2, <1>4, <1>6
<1>15. exit.metodo = "FORUM_COMENTARIO" => exit.dealer \notin ForumDealers \cup {NULL}
  BY <1>4, <1>11, NullIsNoText
<1> QED BY <1>12, <1>13, <1>14, <1>15 DEF ExitAgrees, exit

\* Only a store of two branches fails the check of the exit.
LEMMA OnlyTwoBranchesFail ==
  ASSUME NEW v, NEW ventas, NEW notas, IsFile(ventas, notas),
         ExitIntegrityFails(Exit(v, ventas, notas))
  PROVE  1 < Cardinality({s.branch : s \in CurrentSale(v, ventas, notas)} \ {NULL})
<1> DEFINE sale == CurrentSale(v, ventas, notas)
           branches == {s.branch : s \in sale}
           r == Resolution(v, ventas, notas)
           exit == Exit(v, ventas, notas)
<1>1. exit = [vendido |-> Sold(v), canal |-> Channel(r),
              sucursal |-> IF Channel(r) = "TIENDA_PROPIA" THEN r.context.branch ELSE NULL,
              dealer |-> IF Channel(r) = "DEALER" THEN Dealer(r) ELSE NULL,
              grupo |-> IF Channel(r) = "DEALER" THEN Group(r) ELSE NULL,
              metodo |-> IF Channel(r) = "DEALER" THEN Method(r) ELSE NULL]
  BY DEF Exit
<1>2. /\ r.context.branch = Only(branches)
      /\ r.context.channel = Only({ChannelOf[s.branch] : s \in {x \in sale : x.branch # NULL}})
  BY DEF Resolution, SaleContext
<1>3. IsFiniteSet(sale)
  BY SaleRowsAreRows
<1>4. IsFiniteSet(branches)
  <2> DEFINE f == [s \in sale |-> s.branch]
  <2>1. f \in [sale -> branches] /\ \A x \in branches : \E s \in sale : f[s] = x
    OBVIOUS
  <2>2. f \in Surjection(sale, branches)
    <3> HIDE DEF f, branches
    <3> QED BY <2>1 DEF Surjection
  <2> HIDE DEF f, branches, sale
  <2> QED BY <1>3, <2>2, FS_Surjection
<1> HIDE DEF r
<1>5. Channel(r) = "TIENDA_PROPIA" /\ r.context.branch = NULL
  BY <1>1, NullIsNoText DEF ExitIntegrityFails
<1>6. r.context.channel = "CIDEF"
  BY <1>5, NullIsNoText DEF Channel
<1>7. branches \ {NULL} # {}
  <2>1. "CIDEF" \in {ChannelOf[s.branch] : s \in {x \in sale : x.branch # NULL}}
    <3> HIDE DEF sale
    <3> QED BY <1>2, <1>6, OnlyIsIt, NullIsNoText
  <2> HIDE DEF sale
  <2> QED BY <2>1
<1>8. IsFiniteSet(branches \ {NULL})
  <2> HIDE DEF branches
  <2> QED BY <1>4, FS_Subset
<1>9. Cardinality(branches \ {NULL}) # 1
  <2> SUFFICES ASSUME Cardinality(branches \ {NULL}) = 1 PROVE FALSE
    OBVIOUS
  <2> HIDE DEF branches
  <2>1. Only(branches) = CHOOSE x \in branches \ {NULL} : TRUE
    BY DEF Only, Count
  <2>2. Only(branches) \in branches \ {NULL}
    BY <1>7, <2>1
  <2> QED BY <1>2, <1>5, <2>2
<1>10. Cardinality(branches \ {NULL}) \in Nat /\ Cardinality(branches \ {NULL}) # 0
  <2> HIDE DEF branches
  <2> QED BY <1>7, <1>8, FS_CardinalityType, FS_EmptySet
<1> HIDE DEF branches
<1> QED BY <1>9, <1>10 DEF branches

\* The exit depends on the VIN, the invoice, the date and the note of the vehicle.
LEMMA SameExit ==
  ASSUME NEW v, NEW w, NEW ventas, NEW notas,
         v.vin = w.vin, v.invoice = w.invoice, v.date = w.date, v.note = w.note
  PROVE  /\ CurrentSale(v, ventas, notas) = CurrentSale(w, ventas, notas)
         /\ Exit(v, ventas, notas) = Exit(w, ventas, notas)
<1>1. /\ Exact(v, ventas) = Exact(w, ventas) /\ SameDate(v, ventas) = SameDate(w, ventas)
      /\ CompatibleNotes(v, notas) = CompatibleNotes(w, notas)
  BY DEF Exact, SameDate, CompatibleNotes
<1>2. CurrentSale(v, ventas, notas) = CurrentSale(w, ventas, notas)
  BY <1>1 DEF CurrentSale, SaleMethod
<1>3. CurrentNotes(v, ventas, notas) = CurrentNotes(w, ventas, notas)
  BY <1>2 DEF CurrentNotes
<1>4. Resolution(v, ventas, notas) = Resolution(w, ventas, notas)
  BY <1>2, <1>3 DEF Resolution, SaleContext, DirectDealers, CommentDealers, Mentions
<1> QED BY <1>2, <1>4 DEF Exit, Sold

-----------------------------------------------------------------------------
(* The invariant.  A request is current while no raw table changed since   *)
(* its preflight; what it has passed tells what the table holds.           *)

Current(r) == pc[r] # "idle" /\ since[r] = epoch
RowOf(v) == CHOOSE row \in raw : row.vin = v
ExitOf(v) == Exit(RowOf(v), sales.ventas, sales.notas)

PastUpdate == {"check", "status", "audit", "done", "inconsistent", "rejected"}
PastBase == {"preview", "resolve", "update"} \cup PastUpdate

\* What a reader sees of a row, between any two statements.
RowsInv ==
  \A v \in Vins : Present(v) =>
    /\ canon[v].vin = v /\ canon[v].etapa # NULL /\ ExitAgrees(canon[v].exit)
    /\ canon[v].product.conflict => canon[v].product.version = NULL
ReadInv ==
  \A r \in Refreshes, v \in Vins : resolved[r][v] # NULL => ExitAgrees(resolved[r][v])

\* The VIN, invoice, date, note, etapa and product of a row are those of the raw tables.
BaseOf(v) ==
  LET row == RowOf(v)
  IN /\ canon[v].invoice = row.invoice /\ canon[v].date = row.date /\ canon[v].note = row.note
     /\ row.etapa \in {NULL, canon[v].etapa} /\ canon[v].product = Product(row)

PreflightOk(r) ==
  Current(r) =>
    /\ raw # Missing /\ pc[r] # "blocked" => ~Repeated(raw) /\ ~Unrecoverable(raw)
    /\ pc[r] = "failed" => raw = Missing \/ sales = Missing
BaseOk(r) ==
  Current(r) /\ pc[r] \in PastBase =>
    /\ raw # Missing /\ sales # Missing
    /\ \A v \in Vins : (Present(v) <=> v \in VinsOf(raw)) /\ (Present(v) => BaseOf(v))
ReadOk(r) ==
  Current(r) /\ pc[r] = "update" => \A v \in Vins : Present(v) => resolved[r][v] = ExitOf(v)
ExitsOk(r) ==
  Undisturbed(r) /\ pc[r] \in PastUpdate =>
    /\ pc[r] # "rejected"
    /\ \A v \in Vins : Present(v) => canon[v].exit = ExitOf(v)
    /\ pc[r] \in {"status", "audit", "done"} => InconsistentExits = {}
    /\ pc[r] \in {"audit", "done"} =>
         \A v \in Vins : Present(v) => canon[v].status = Status(canon[v].exit)
    /\ pc[r] = "inconsistent" => InconsistentExits # {}
RequestOk(r) == PreflightOk(r) /\ BaseOk(r) /\ ReadOk(r) /\ ExitsOk(r)

RefreshInv == TypeOK /\ RowsInv /\ ReadInv /\ \A r \in Refreshes : RequestOk(r)

-----------------------------------------------------------------------------
(* What each writing statement does to the rows.                           *)

LEMMA FilesAreFiles ==
  ASSUME NEW file \in SaleFiles
  PROVE  IsFile(file.ventas, file.notas)
BY RefreshAssumption DEF IsFile, SaleRows

LEMMA RowOfIsThere ==
  ASSUME raw \in VehicleFiles, NEW v \in VinsOf(raw)
  PROVE  RowOf(v) \in raw /\ RowOf(v).vin = v /\ RowOf(v) \in Vehicles /\ v \in Vins
<1>1. \E row \in raw : row.vin = v
  BY DEF VinsOf
<1>2. RowOf(v) \in raw /\ RowOf(v).vin = v
  BY <1>1 DEF RowOf
<1> QED BY <1>2, RefreshAssumption DEF Vehicles

LEMMA FiniteVersions ==
  ASSUME NEW rows, IsFiniteSet(rows)
  PROVE  IsFiniteSet({s.version : s \in rows})
<1> DEFINE versions == {s.version : s \in rows}
           f == [s \in rows |-> s.version]
<1>1. f \in [rows -> versions] /\ \A x \in versions : \E s \in rows : f[s] = x
  OBVIOUS
<1> HIDE DEF f, versions
<1>2. f \in Surjection(rows, versions)
  BY <1>1 DEF Surjection
<1> QED BY <1>2, FS_Surjection DEF versions

LEMMA ProductIsSound ==
  ASSUME NEW row \in Vehicles, sales \in SaleFiles
  PROVE  /\ Product(row) \in Products
         /\ Product(row).conflict => Product(row).version = NULL
<1> DEFINE ventas == {s.version : s \in {x \in sales.ventas : x.vin = row.vin}} \ {NULL}
           notas == {n.version : n \in {x \in sales.notas : x.vin = row.vin}} \ {NULL}
           all == ({row.version} \ {NULL}) \cup ventas \cup notas
           many == Cardinality(all) > 1
           method == IF many THEN "CONFLICTO_CROSS_SOURCE"
                     ELSE IF row.version # NULL THEN "VEHICULOS_RAW_ALIAS"
                     ELSE IF ventas # {} THEN "VIN_CROSS_SOURCE_VENTAS"
                     ELSE IF notas # {} THEN "VIN_CROSS_SOURCE_NOTAS" ELSE NULL
<1>1. Product(row) = [version |-> Only(all), conflict |-> many, method |-> method]
  BY DEF Product
<1>2. \A s \in sales.ventas \cup sales.notas : s \in SaleRows
  BY DEF SaleRows
<1>3. all \subseteq Versions
  BY <1>2 DEF Versions
<1>4. all \ {NULL} = all
  OBVIOUS
<1>5. Cardinality(all) \in Nat
  <2> DEFINE here == {x \in sales.ventas : x.vin = row.vin}
             there == {x \in sales.notas : x.vin = row.vin}
             some == {row.version} \cup {s.version : s \in here} \cup {s.version : s \in there}
  <2>1. IsFiniteSet(here) /\ IsFiniteSet(there)
    BY RefreshAssumption, FS_Subset
  <2>2. IsFiniteSet({s.version : s \in here}) /\ IsFiniteSet({s.version : s \in there})
    <3> HIDE DEF here, there
    <3> QED BY <2>1, FiniteVersions
  <2>3. IsFiniteSet({row.version})
    BY FS_Singleton
  <2>4. IsFiniteSet(some)
    <3>1. \A S, T : IsFiniteSet(S) /\ IsFiniteSet(T) => IsFiniteSet(S \cup T)
      BY FS_Union
    <3> HIDE DEF here, there
    <3> QED BY <2>2, <2>3, <3>1
  <2>5. all \subseteq some
    OBVIOUS
  <2> HIDE DEF all, some
  <2> QED BY <2>4, <2>5, FS_Subset, FS_CardinalityType
<1> HIDE DEF all, ventas, notas
<1>6. Only(all) \in Versions
  BY <1>3, OnlyIsIt DEF Versions
<1>7. Cardinality(all) > 1 => Only(all) = NULL
  BY <1>4 DEF Only, Count
<1>8. many \in BOOLEAN /\ (many => Only(all) = NULL)
  BY <1>5, <1>7
<1>9. method \in {"CONFLICTO_CROSS_SOURCE", "VEHICULOS_RAW_ALIAS", "VIN_CROSS_SOURCE_VENTAS",
                   "VIN_CROSS_SOURCE_NOTAS", NULL}
  OBVIOUS
<1> HIDE DEF many, method
<1>10. Product(row) \in Products
  BY <1>1, <1>6, <1>8, <1>9 DEF Products
<1>11. Product(row).conflict => Product(row).version = NULL
  BY <1>1, <1>8
<1> QED BY <1>10, <1>11

LEMMA UpsertedIsSound ==
  ASSUME TypeOK, RowsInv, raw \in VehicleFiles, sales \in SaleFiles, ~Unrecoverable(raw),
         NEW v \in VinsOf(raw)
  PROVE  LET new == Upserted(RowOf(v))
         IN /\ new \in CanonRows /\ new # NULL /\ new.vin = v /\ new.etapa # NULL
            /\ ExitAgrees(new.exit) /\ (new.product.conflict => new.product.version = NULL)
            /\ new.invoice = RowOf(v).invoice /\ new.date = RowOf(v).date
            /\ new.note = RowOf(v).note /\ RowOf(v).etapa \in {NULL, new.etapa}
            /\ new.product = Product(RowOf(v))
            /\ Present(v) => new.exit = canon[v].exit /\ new.status = canon[v].status
<1> DEFINE row == RowOf(v)
           new == Upserted(row)
<1>1. row \in raw /\ row.vin = v /\ row \in Vehicles /\ v \in Vins
  BY RowOfIsThere
<1> HIDE DEF row
<1>2. EtapaOf(row) # NULL /\ EtapaOf(row) \in {x.etapa : x \in Vehicles}
  <2>1. EtapaOf(row) # NULL
    BY <1>1 DEF Unrecoverable
  <2>2. Present(v) => canon[v].etapa \in {x.etapa : x \in Vehicles}
    BY <1>1 DEF TypeOK, CanonRows, Present
  <2>3. EtapaOf(row) \in {row.etapa, canon[v].etapa} /\ (EtapaOf(row) # row.etapa => Present(v))
    BY <1>1, <2>1 DEF EtapaOf
  <2>4. row.etapa \in {x.etapa : x \in Vehicles}
    BY <1>1
  <2> QED BY <2>1, <2>2, <2>3, <2>4
<1>3. row.etapa \in {NULL, EtapaOf(row)}
  BY DEF EtapaOf
<1>4. Product(row) \in Products /\ (Product(row).conflict => Product(row).version = NULL)
  BY <1>1, ProductIsSound
<1>5. NoExit \in Exits /\ ExitAgrees(NoExit)
  BY NullIsNoText DEF NoExit, Exits, ExitAgrees
<1>6. Present(v) => /\ canon[v].exit \in Exits /\ canon[v].status \in Statuses \cup {NULL}
                    /\ ExitAgrees(canon[v].exit)
  BY <1>1 DEF TypeOK, CanonRows, Present, RowsInv
<1>7. new = [vin |-> v, etapa |-> EtapaOf(row), invoice |-> row.invoice, date |-> row.date,
             note |-> row.note, product |-> Product(row),
             exit |-> IF Present(v) THEN canon[v].exit ELSE NoExit,
             status |-> IF Present(v) THEN canon[v].status ELSE NULL]
  BY <1>1 DEF Upserted
<1>8. new \in CanonRows
  BY <1>1, <1>2, <1>4, <1>5, <1>6, <1>7 DEF CanonRows
<1>9. ExitAgrees(new.exit)
  BY <1>5, <1>6, <1>7
<1>10. new # NULL
  BY <1>8, RefreshAssumption
<1> HIDE DEF new
<1> QED BY <1>2, <1>3, <1>4, <1>7, <1>8, <1>9, <1>10 DEF row, new

-----------------------------------------------------------------------------
(* Every step keeps the invariant.                                         *)

LEMMA InitRefresh == Init => RefreshInv
BY DEF Init, RefreshInv, TypeOK, RowsInv, ReadInv, RequestOk, PreflightOk, BaseOk, ReadOk, ExitsOk,
       Current, Undisturbed, Present, Statements, Ended

\* A step that changes no table leaves the requests that do not move as they are.
LEMMA Bystander ==
  ASSUME UNCHANGED <<raw, sales, canon, epoch, spoiled>>, NEW q \in Refreshes,
         pc'[q] = pc[q], since'[q] = since[q], resolved'[q] = resolved[q], RequestOk(q)
  PROVE  RequestOk(q)'
<1>1. (Current(q)' <=> Current(q)) /\ (Undisturbed(q)' <=> Undisturbed(q))
  BY DEF Current, Undisturbed
<1>2. PreflightOk(q)'
  BY <1>1 DEF RequestOk, PreflightOk, Repeated, RowsOf, Unrecoverable, EtapaOf, Present
<1>3. BaseOk(q)'
  <2> SUFFICES ASSUME (Current(q) /\ pc[q] \in PastBase)'
               PROVE  /\ (raw # Missing /\ sales # Missing)'
                      /\ \A v \in Vins : /\ Present(v)' <=> v \in VinsOf(raw)'
                                         /\ Present(v)' => BaseOf(v)'
    BY DEF BaseOk
  <2>1. /\ raw # Missing /\ sales # Missing
        /\ \A v \in Vins : (Present(v) <=> v \in VinsOf(raw)) /\ (Present(v) => BaseOf(v))
    BY <1>1 DEF RequestOk, BaseOk
  <2>2. ASSUME NEW v \in Vins
        PROVE  (Present(v)' <=> v \in VinsOf(raw)') /\ (Present(v)' => BaseOf(v)')
    <3>1. (Present(v) <=> v \in VinsOf(raw)) /\ (Present(v) => BaseOf(v))
      BY <2>1
    <3>2. (Present(v)' <=> Present(v)) /\ VinsOf(raw)' = VinsOf(raw)
      BY DEF Present, VinsOf
    <3>3. BaseOf(v) => BaseOf(v)'
      BY DEF BaseOf, RowOf, Product
    <3> QED BY <3>1, <3>2, <3>3
  <2> QED BY <2>1, <2>2
<1>4. ReadOk(q)'
  BY <1>1 DEF RequestOk, ReadOk, Present, ExitOf, RowOf
<1>5. ExitsOk(q)'
  BY <1>1 DEF RequestOk, ExitsOk, Present, ExitOf, RowOf, InconsistentExits
<1> QED BY <1>2, <1>3, <1>4, <1>5 DEF RequestOk

\* The base statement is carried out over two tables that are there and can be rebuilt from.
BaseFails == raw = Missing \/ sales = Missing \/ Repeated(raw) \/ Unrecoverable(raw)

LEMMA BaseRebuilds ==
  ASSUME RefreshInv, NEW r \in Refreshes, BaseRefresh(r), ~BaseFails
  PROVE  /\ raw \in VehicleFiles /\ sales \in SaleFiles
         /\ canon' \in [Vins -> CanonRows \cup {NULL}]
         /\ \A v \in Vins : v \in VinsOf(raw) => canon'[v] = Upserted(RowOf(v))
         /\ \A v \in Vins : Present(v)' <=> v \in VinsOf(raw)
         /\ \A v \in Vins : Present(v)' => canon'[v].vin = v /\ canon'[v].etapa # NULL /\ BaseOf(v)'
<1>1. raw \in VehicleFiles /\ sales \in SaleFiles
  BY DEF BaseFails, RefreshInv, TypeOK
<1>2. canon' = [v \in Vins |-> IF v \in VinsOf(raw) THEN Upserted(RowOf(v)) ELSE NULL]
  BY DEF BaseFails, BaseRefresh, RowOf
<1>3. ASSUME NEW v \in Vins, v \in VinsOf(raw)
      PROVE  LET new == Upserted(RowOf(v))
             IN /\ new \in CanonRows /\ new # NULL /\ new.vin = v /\ new.etapa # NULL
                /\ new.invoice = RowOf(v).invoice /\ new.date = RowOf(v).date
                /\ new.note = RowOf(v).note /\ RowOf(v).etapa \in {NULL, new.etapa}
                /\ new.product = Product(RowOf(v))
  BY <1>1, <1>3, UpsertedIsSound DEF BaseFails, RefreshInv
<1>4. canon' \in [Vins -> CanonRows \cup {NULL}]
  BY <1>2, <1>3
<1>5. ASSUME NEW v \in Vins
      PROVE  /\ v \in VinsOf(raw) => canon'[v] = Upserted(RowOf(v))
             /\ Present(v)' <=> v \in VinsOf(raw)
             /\ Present(v)' => canon'[v].vin = v /\ canon'[v].etapa # NULL /\ BaseOf(v)'
  <2>1. canon'[v] = IF v \in VinsOf(raw) THEN Upserted(RowOf(v)) ELSE NULL
    BY <1>2
  <2>2. Present(v)' <=> v \in VinsOf(raw)
    BY <1>3, <2>1 DEF Present
  <2>3. RowOf(v)' = RowOf(v) /\ \A row : Product(row)' = Product(row)
    BY DEF BaseRefresh, RowOf, Product
  <2>4. v \in VinsOf(raw) => BaseOf(v)'
    BY <1>3, <2>1, <2>3 DEF BaseOf
  <2> QED BY <1>3, <2>1, <2>2, <2>4
<1> QED BY <1>1, <1>4, <1>5

LEMMA TypeStep ==
  ASSUME RefreshInv, NEW r \in Refreshes, Refresh(r) \/ Stop(r)
  PROVE  TypeOK'
<1> USE DEF RefreshInv, TypeOK
<1>1. CASE Preflight(r) \/ Preview(r) \/ CheckExit(r) \/ PostAudit(r)
  BY <1>1 DEF Preflight, Preview, CheckExit, PostAudit, Goto, Statements, Ended
<1>2. CASE BaseRefresh(r)
  <2>1. CASE BaseFails
    BY <1>2, <2>1 DEF BaseRefresh, BaseFails, Goto, Statements, Ended
  <2>2. CASE ~BaseFails
    <3>1. canon' \in [Vins -> CanonRows \cup {NULL}]
      BY <1>2, <2>2, BaseRebuilds
    <3>2. resolved' \in [Refreshes -> [Vins -> Exits \cup {NULL}]]
      BY <1>2, <2>2 DEF BaseRefresh, BaseFails
    <3>3. pc' \in [Refreshes -> Statements \cup Ended \cup {"idle"}] /\ spoiled' \subseteq Refreshes
      BY <1>2, <2>2
      DEF BaseRefresh, BaseFails, Answered, Goto, Writes, Statements, Ended
    <3> QED BY <1>2, <3>1, <3>2, <3>3 DEF BaseRefresh
  <2> QED BY <2>1, <2>2
<1>3. CASE ReadResolution(r)
  <2>1. ASSUME sales # Missing
        PROVE  [v \in Vins |-> IF Present(v) THEN Exit(canon[v], sales.ventas, sales.notas) ELSE NULL]
                 \in [Vins -> Exits \cup {NULL}]
    BY <2>1, FilesAreFiles, ExitIsSound
  <2> HIDE DEF Present
  <2> QED BY <1>3, <2>1 DEF ReadResolution, Goto, Statements, Ended
<1>4. CASE WriteResolution(r)
  <2>1. ASSUME NEW v \in Vins
        PROVE  (IF Present(v) /\ resolved[r][v] # NULL
                THEN [canon[v] EXCEPT !.exit = resolved[r][v]] ELSE canon[v])
                 \in CanonRows \cup {NULL}
    <3>1. canon[v] \in CanonRows \cup {NULL} /\ resolved[r][v] \in Exits \cup {NULL}
      OBVIOUS
    <3>2. \A row \in CanonRows, exit \in Exits : [row EXCEPT !.exit = exit] \in CanonRows
      BY DEF CanonRows
    <3> QED BY <3>1, <3>2 DEF Present
  <2>2. canon' \in [Vins -> CanonRows \cup {NULL}]
    BY <1>4, <2>1 DEF WriteResolution
  <2> QED BY <1>4, <2>2 DEF WriteResolution, Answered, Goto, Writes, Statements, Ended
<1>5. CASE EnsureResolutionStatus(r)
  <2>1. ASSUME NEW v \in Vins
        PROVE  (IF Present(v) THEN [canon[v] EXCEPT !.status = Status(canon[v].exit)] ELSE NULL)
                 \in CanonRows \cup {NULL}
    BY DEF CanonRows, Present, Status, Statuses
  <2>2. canon' \in [Vins -> CanonRows \cup {NULL}]
    BY <1>5, <2>1 DEF EnsureResolutionStatus
  <2> QED BY <1>5, <2>2 DEF EnsureResolutionStatus, Answered, Goto, Writes, Statements, Ended
<1>6. CASE Stop(r)
  BY <1>6 DEF Stop, Goto, Statements, Ended
<1> QED BY <1>1, <1>2, <1>3, <1>4, <1>5, <1>6 DEF Refresh

\* What a statement that writes exits, or statuses, does to each row.
LEMMA ExitsWritten ==
  ASSUME RefreshInv, NEW r \in Refreshes, WriteResolution(r), NEW v \in Vins
  PROVE  /\ Present(v)' <=> Present(v)
         /\ Present(v) => /\ canon'[v].vin = canon[v].vin /\ canon'[v].etapa = canon[v].etapa
                          /\ canon'[v].invoice = canon[v].invoice /\ canon'[v].date = canon[v].date
                          /\ canon'[v].note = canon[v].note /\ canon'[v].product = canon[v].product
                          /\ canon'[v].status = canon[v].status
                          /\ canon'[v].exit = IF resolved[r][v] # NULL THEN resolved[r][v]
                                              ELSE canon[v].exit
<1>1. canon'[v] = IF Present(v) /\ resolved[r][v] # NULL
                  THEN [canon[v] EXCEPT !.exit = resolved[r][v]] ELSE canon[v]
  BY DEF WriteResolution
<1>2. canon[v] \in CanonRows \cup {NULL} /\ resolved[r][v] \in Exits \cup {NULL}
  BY DEF RefreshInv, TypeOK
<1>3. canon'[v] \in CanonRows \cup {NULL}
  BY TypeStep DEF Refresh, TypeOK
<1>4. ASSUME Present(v), resolved[r][v] # NULL
      PROVE  /\ canon'[v] = [canon[v] EXCEPT !.exit = resolved[r][v]]
             /\ canon'[v] \in CanonRows /\ Present(v)'
  <2>1. \A row \in CanonRows, exit \in Exits : [row EXCEPT !.exit = exit] \in CanonRows
    BY DEF CanonRows
  <2> QED BY <1>1, <1>2, <1>4, <2>1, RefreshAssumption DEF Present
<1>5. CASE Present(v) /\ resolved[r][v] # NULL
  BY <1>2, <1>4, <1>5 DEF CanonRows, Present
<1>6. CASE ~(Present(v) /\ resolved[r][v] # NULL)
  BY <1>1, <1>6 DEF Present
<1> QED BY <1>5, <1>6

LEMMA StatusesWritten ==
  ASSUME RefreshInv, NEW r \in Refreshes, EnsureResolutionStatus(r), NEW v \in Vins
  PROVE  /\ Present(v)' <=> Present(v)
         /\ Present(v) => /\ canon'[v].vin = canon[v].vin /\ canon'[v].etapa = canon[v].etapa
                          /\ canon'[v].invoice = canon[v].invoice /\ canon'[v].date = canon[v].date
                          /\ canon'[v].note = canon[v].note /\ canon'[v].product = canon[v].product
                          /\ canon'[v].exit = canon[v].exit
                          /\ canon'[v].status = Status(canon[v].exit)
<1>1. canon'[v] = IF Present(v) THEN [canon[v] EXCEPT !.status = Status(canon[v].exit)] ELSE NULL
  BY DEF EnsureResolutionStatus
<1>2. canon[v] \in CanonRows \cup {NULL}
  BY DEF RefreshInv, TypeOK
<1>3. ASSUME Present(v)
      PROVE  /\ canon'[v] = [canon[v] EXCEPT !.status = Status(canon[v].exit)]
             /\ canon'[v] \in CanonRows /\ Present(v)'
  <2>1. \A row \in CanonRows, s \in Statuses : [row EXCEPT !.status = s] \in CanonRows
    BY DEF CanonRows
  <2>2. Status(canon[v].exit) \in Statuses
    BY DEF Status, Statuses
  <2> QED BY <1>1, <1>2, <1>3, <2>1, <2>2, RefreshAssumption DEF Present
<1>4. CASE Present(v)
  BY <1>2, <1>3, <1>4 DEF CanonRows, Present
<1>5. CASE ~Present(v)
  BY <1>1, <1>5 DEF Present
<1> QED BY <1>4, <1>5

LEMMA RowsStep ==
  ASSUME RefreshInv, NEW r \in Refreshes, Refresh(r) \/ Stop(r)
  PROVE  RowsInv' /\ ReadInv'
<1> USE DEF RefreshInv
<1>1. CASE Preflight(r) \/ Preview(r) \/ CheckExit(r) \/ PostAudit(r)
  BY <1>1 DEF Preflight, Preview, CheckExit, PostAudit, RowsInv, ReadInv, Present
<1>2. CASE BaseRefresh(r)
  <2>1. CASE BaseFails
    BY <1>2, <2>1 DEF BaseRefresh, BaseFails, RowsInv, ReadInv, Present
  <2>2. CASE ~BaseFails
    <3>1. ASSUME NEW v \in Vins, Present(v)'
          PROVE  /\ canon'[v].vin = v /\ canon'[v].etapa # NULL /\ ExitAgrees(canon'[v].exit)
                 /\ canon'[v].product.conflict => canon'[v].product.version = NULL
      <4>1. v \in VinsOf(raw) /\ canon'[v] = Upserted(RowOf(v))
        BY <1>2, <2>2, <3>1, BaseRebuilds
      <4>2. raw \in VehicleFiles /\ sales \in SaleFiles
        BY <1>2, <2>2, BaseRebuilds
      <4> QED BY <2>2, <4>1, <4>2, UpsertedIsSound DEF BaseFails
    <3>2. ReadInv'
      BY <1>2, <2>2 DEF BaseRefresh, BaseFails, ReadInv, TypeOK
    <3> QED BY <3>1, <3>2 DEF RowsInv
  <2> QED BY <2>1, <2>2
<1>3. CASE ReadResolution(r)
  <2>1. RowsInv'
    BY <1>3 DEF ReadResolution, RowsInv, Present
  <2>2. ASSUME NEW q \in Refreshes, NEW v \in Vins, resolved'[q][v] # NULL
        PROVE  ExitAgrees(resolved'[q][v])
    <3>1. CASE resolved'[q][v] = resolved[q][v]
      BY <2>2, <3>1 DEF ReadInv
    <3>2. CASE resolved'[q][v] # resolved[q][v]
      <4>1. sales \in SaleFiles /\ resolved'[q][v] = Exit(canon[v], sales.ventas, sales.notas)
        BY <1>3, <2>2, <3>2 DEF ReadResolution, TypeOK
      <4> QED BY <4>1, FilesAreFiles, ExitIsSound
    <3> QED BY <3>1, <3>2
  <2> QED BY <2>1, <2>2 DEF ReadInv
<1>4. CASE WriteResolution(r)
  <2>1. ASSUME NEW v \in Vins, Present(v)'
        PROVE  /\ canon'[v].vin = v /\ canon'[v].etapa # NULL /\ ExitAgrees(canon'[v].exit)
               /\ canon'[v].product.conflict => canon'[v].product.version = NULL
    BY <1>4, <2>1, ExitsWritten DEF RowsInv, ReadInv
  <2>2. ReadInv'
    BY <1>4 DEF WriteResolution, ReadInv, TypeOK
  <2> QED BY <2>1, <2>2 DEF RowsInv
<1>5. CASE EnsureResolutionStatus(r)
  <2>1. ASSUME NEW v \in Vins, Present(v)'
        PROVE  /\ canon'[v].vin = v /\ canon'[v].etapa # NULL /\ ExitAgrees(canon'[v].exit)
               /\ canon'[v].product.conflict => canon'[v].product.version = NULL
    BY <1>5, <2>1, StatusesWritten DEF RowsInv
  <2>2. ReadInv'
    BY <1>5 DEF EnsureResolutionStatus, ReadInv
  <2> QED BY <2>1, <2>2 DEF RowsInv
<1>6. CASE Stop(r)
  BY <1>6 DEF Stop, RowsInv, ReadInv, Present, TypeOK
<1> QED BY <1>1, <1>2, <1>3, <1>4, <1>5, <1>6 DEF Refresh

\* A request that only reads: what it passed is what the table holds.
LEMMA ReaderStep ==
  ASSUME RefreshInv, NEW r \in Refreshes,
         \/ Preflight(r) \/ Preview(r) \/ ReadResolution(r) \/ CheckExit(r) \/ PostAudit(r)
         \/ Stop(r)
  PROVE  \A q \in Refreshes : RequestOk(q)'
<1> USE DEF RefreshInv
<1>1. /\ UNCHANGED <<raw, sales, canon, epoch, spoiled>>
      /\ \A q \in Refreshes \ {r} : /\ pc'[q] = pc[q] /\ since'[q] = since[q]
                                   /\ resolved'[q] = resolved[q]
  BY DEF TypeOK, Preflight, Preview, ReadResolution, CheckExit, PostAudit, Stop, Goto
<1>2. \A q \in Refreshes \ {r} : RequestOk(q)'
  BY <1>1, Bystander
<1>3. /\ Repeated(raw)' <=> Repeated(raw)
      /\ Unrecoverable(raw)' <=> Unrecoverable(raw)
  BY <1>1 DEF Repeated, RowsOf, Unrecoverable, EtapaOf, Present
<1>4. ASSUME NEW v \in Vins
      PROVE  /\ (Present(v)' <=> Present(v)) /\ (BaseOf(v)' <=> BaseOf(v))
             /\ ExitOf(v)' = ExitOf(v)
  <2>1. Present(v)' <=> Present(v)
    BY <1>1 DEF Present
  <2>2. RowOf(v)' = RowOf(v)
    BY <1>1 DEF RowOf
  <2>3. BaseOf(v)' <=> BaseOf(v)
    BY <1>1, <2>2 DEF BaseOf, Product
  <2>4. ExitOf(v)' = ExitOf(v)
    BY <1>1, <2>2 DEF ExitOf
  <2> QED BY <2>1, <2>3, <2>4
<1>5. InconsistentExits' = InconsistentExits /\ VinsOf(raw)' = VinsOf(raw)
  BY <1>1 DEF InconsistentExits, VinsOf, Present
<1>6. CASE Preflight(r)
  <2>1. /\ pc'[r] \in {"failed", "blocked", "base"} /\ (pc'[r] = "failed" => raw = Missing)
        /\ raw # Missing /\ pc'[r] # "blocked" => ~Repeated(raw) /\ ~Unrecoverable(raw)
    BY <1>6 DEF Preflight, Goto, TypeOK
  <2>2. PreflightOk(r)'
    BY <1>1, <1>3, <2>1 DEF PreflightOk
  <2>3. BaseOk(r)' /\ ReadOk(r)' /\ ExitsOk(r)'
    BY <2>1 DEF BaseOk, ReadOk, ExitsOk, PastBase, PastUpdate
  <2> QED BY <1>2, <2>2, <2>3 DEF RequestOk
<1>7. ASSUME pc[r] \in Statements, since'[r] = since[r]
      PROVE  /\ Current(r)' => Current(r)
             /\ Undisturbed(r)' => Undisturbed(r)
             /\ Current(r) /\ raw # Missing => ~Repeated(raw) /\ ~Unrecoverable(raw)
  BY <1>1, <1>7 DEF Current, Undisturbed, RequestOk, PreflightOk, Statements
<1>8. ASSUME pc[r] \in Statements, since'[r] = since[r],
             pc'[r] = "failed" => raw = Missing \/ sales = Missing,
             pc'[r] \in PastBase => pc[r] \in PastBase
      PROVE  PreflightOk(r)' /\ BaseOk(r)'
  <2>1. PreflightOk(r)'
    BY <1>1, <1>3, <1>7, <1>8 DEF PreflightOk
  <2>2. (Current(r) /\ pc[r] \in PastBase)' => Current(r) /\ pc[r] \in PastBase
    BY <1>7, <1>8 DEF PastBase, PastUpdate
  <2>3. ASSUME (Current(r) /\ pc[r] \in PastBase)', NEW v \in Vins
        PROVE  (Present(v)' <=> v \in VinsOf(raw)') /\ (Present(v)' => BaseOf(v)')
    BY <1>4, <1>5, <2>2, <2>3 DEF RequestOk, BaseOk
  <2>4. (Current(r) /\ pc[r] \in PastBase)' => (raw # Missing /\ sales # Missing)'
    BY <1>1, <2>2 DEF RequestOk, BaseOk
  <2>5. BaseOk(r)'
    BY <2>3, <2>4 DEF BaseOk
  <2> QED BY <2>1, <2>5
<1>9. CASE Preview(r) \/ Stop(r)
  <2>1. /\ pc[r] \in Statements /\ since'[r] = since[r]
        /\ pc'[r] = "failed" => sales = Missing
        /\ pc'[r] \in {"failed", "resolve", "stopped"}
        /\ pc'[r] \in PastBase => pc[r] \in PastBase
    BY <1>9 DEF Preview, Stop, Goto, TypeOK, Statements, PastBase, PastUpdate
  <2>2. PreflightOk(r)' /\ BaseOk(r)'
    BY <1>8, <2>1
  <2>3. ReadOk(r)' /\ ExitsOk(r)'
    BY <2>1 DEF ReadOk, ExitsOk, PastUpdate
  <2> QED BY <1>2, <2>2, <2>3 DEF RequestOk
<1>10. CASE ReadResolution(r)
  <2>1. /\ pc[r] = "resolve" /\ since'[r] = since[r]
        /\ pc'[r] = IF sales = Missing THEN "failed" ELSE "update"
    BY <1>10 DEF ReadResolution, Goto, TypeOK
  <2>2. PreflightOk(r)' /\ BaseOk(r)'
    BY <1>8, <2>1 DEF Statements, PastBase, PastUpdate
  <2>3. ASSUME (Current(r) /\ pc[r] = "update")', NEW v \in Vins, Present(v)'
        PROVE  resolved'[r][v] = ExitOf(v)'
    <3>1. Current(r) /\ Present(v) /\ sales # Missing
      BY <1>4, <1>7, <2>1, <2>3 DEF Statements
    <3>2. resolved'[r][v] = Exit(canon[v], sales.ventas, sales.notas)
      BY <1>10, <3>1 DEF ReadResolution, TypeOK
    <3>3. raw # Missing /\ v \in VinsOf(raw) /\ BaseOf(v)
      BY <2>1, <3>1 DEF RequestOk, BaseOk, PastBase
    <3>4. raw \in VehicleFiles /\ canon[v].vin = v
      BY <3>1, <3>3 DEF TypeOK, RowsInv
    <3>5. RowOf(v).vin = v
      BY <3>3, <3>4, RowOfIsThere
    <3>6. Exit(canon[v], sales.ventas, sales.notas) = ExitOf(v)
      BY <3>3, <3>4, <3>5, SameExit DEF BaseOf, ExitOf
    <3> QED BY <1>4, <3>2, <3>6
  <2>4. ReadOk(r)' /\ ExitsOk(r)'
    BY <2>1, <2>3 DEF ReadOk, ExitsOk, PastUpdate
  <2> QED BY <1>2, <2>2, <2>4 DEF RequestOk
<1>11. ASSUME CheckExit(r) \/ PostAudit(r)
       PROVE  /\ pc[r] \in {"check", "audit"} /\ since'[r] = since[r]
              /\ PreflightOk(r)' /\ BaseOk(r)' /\ ReadOk(r)'
              /\ (Undisturbed(r) /\ pc[r] \in PastUpdate)' => Undisturbed(r) /\ pc[r] \in PastUpdate
              /\ Undisturbed(r) => \A v \in Vins : Present(v)' => canon'[v].exit = ExitOf(v)'
  <2>1. /\ pc[r] \in {"check", "audit"} /\ since'[r] = since[r] /\ pc'[r] # "update"
        /\ pc'[r] = "failed" => raw = Missing
    BY <1>11 DEF CheckExit, PostAudit, Goto, TypeOK
  <2>2. PreflightOk(r)' /\ BaseOk(r)'
    BY <1>8, <2>1 DEF Statements, PastBase, PastUpdate
  <2>3. ReadOk(r)'
    BY <2>1 DEF ReadOk
  <2>4. Undisturbed(r)' => Undisturbed(r)
    BY <1>7, <2>1 DEF Statements
  <2>5. ASSUME Undisturbed(r), NEW v \in Vins, Present(v)' PROVE canon'[v].exit = ExitOf(v)'
    BY <1>1, <1>4, <2>1, <2>5 DEF RequestOk, ExitsOk, PastUpdate
  <2> QED BY <2>1, <2>2, <2>3, <2>4, <2>5 DEF PastUpdate
<1>12. CASE CheckExit(r)
  <2>1. pc'[r] = IF InconsistentExits # {} THEN "inconsistent" ELSE "status"
    BY <1>12 DEF CheckExit, Goto, TypeOK
  <2>2. ExitsOk(r)'
    BY <1>5, <1>11, <1>12, <2>1 DEF ExitsOk
  <2> QED BY <1>2, <1>11, <1>12, <2>2 DEF RequestOk
<1>13. CASE PostAudit(r)
  <2>1. /\ pc[r] = "audit"
        /\ pc'[r] = IF raw = Missing THEN "failed"
                    ELSE IF \/ {v \in Vins : Present(v)} # VinsOf(raw)
                            \/ InconsistentExits \cup StatusMismatch # {} THEN "rejected" ELSE "done"
    BY <1>13 DEF PostAudit, Goto, TypeOK
  <2>2. ASSUME Undisturbed(r)
        PROVE  /\ InconsistentExits = {} /\ StatusMismatch = {} /\ {v \in Vins : Present(v)} = VinsOf(raw)
               /\ \A v \in Vins : Present(v) => canon[v].status = Status(canon[v].exit)
    <3>1. /\ InconsistentExits = {}
          /\ \A v \in Vins : Present(v) => canon[v].status = Status(canon[v].exit)
      BY <2>1, <2>2 DEF RequestOk, ExitsOk, PastUpdate
    <3>2. Current(r) /\ pc[r] \in PastBase
      BY <2>1, <2>2 DEF Undisturbed, Current, PastBase, PastUpdate
    <3>3. raw # Missing /\ \A v \in Vins : Present(v) <=> v \in VinsOf(raw)
      BY <3>2 DEF RequestOk, BaseOk
    <3>4. VinsOf(raw) \subseteq Vins
      BY <3>3, RefreshAssumption DEF TypeOK, VinsOf, Vehicles
    <3> QED BY <3>1, <3>3, <3>4 DEF StatusMismatch
  <2>3. ASSUME (Undisturbed(r) /\ pc[r] \in PastUpdate)', NEW v \in Vins, Present(v)'
        PROVE  canon'[v].status = Status(canon'[v].exit)
    BY <1>1, <1>4, <1>11, <1>13, <2>2, <2>3
  <2>4. ExitsOk(r)'
    BY <1>5, <1>11, <1>13, <2>1, <2>2, <2>3 DEF ExitsOk, PastUpdate
  <2> QED BY <1>2, <1>11, <1>13, <2>4 DEF RequestOk
<1> QED BY <1>6, <1>9, <1>10, <1>12, <1>13

\* A base statement that is refused moves its request only.
LEMMA BaseRefusedStep ==
  ASSUME RefreshInv, NEW r \in Refreshes, BaseRefresh(r), BaseFails
  PROVE  \A q \in Refreshes : RequestOk(q)'
<1> USE DEF RefreshInv
<1>1. /\ UNCHANGED <<raw, sales, canon, epoch, spoiled, since, resolved>>
      /\ pc' = [pc EXCEPT ![r] = "failed"] /\ pc[r] = "base"
  BY DEF BaseRefresh, BaseFails, Goto
<1>2. \A q \in Refreshes \ {r} : RequestOk(q)'
  BY <1>1, Bystander DEF TypeOK
<1>3. pc'[r] = "failed"
  BY <1>1 DEF TypeOK
<1>4. Current(r)' => Current(r)
  BY <1>1 DEF Current
<1>5. Current(r) => raw = Missing \/ sales = Missing
  BY <1>1 DEF BaseFails, RequestOk, PreflightOk
<1>6. PreflightOk(r)'
  <2>1. Current(r) /\ raw # Missing => ~Repeated(raw) /\ ~Unrecoverable(raw)
    BY <1>1 DEF RequestOk, PreflightOk
  <2>2. (Repeated(raw)' <=> Repeated(raw)) /\ (Unrecoverable(raw)' <=> Unrecoverable(raw))
    BY <1>1 DEF Repeated, RowsOf, Unrecoverable, EtapaOf, Present
  <2> QED BY <1>1, <1>4, <1>5, <2>1, <2>2 DEF PreflightOk
<1>7. BaseOk(r)' /\ ReadOk(r)' /\ ExitsOk(r)'
  BY <1>3 DEF BaseOk, ReadOk, ExitsOk, PastBase, PastUpdate
<1> QED BY <1>2, <1>6, <1>7 DEF RequestOk

\* A base statement makes the table what the raw tables say, whoever sends it and whenever it began.
LEMMA BaseStep ==
  ASSUME RefreshInv, NEW r \in Refreshes, BaseRefresh(r), ~BaseFails, NEW q \in Refreshes
  PROVE  RequestOk(q)'
<1> USE DEF RefreshInv
<1>1. /\ UNCHANGED <<raw, sales, epoch, since>> /\ raw # Missing /\ sales # Missing
      /\ pc[r] = "base" /\ pc'[r] \in {"base", "preview"}
      /\ \A o \in Refreshes \ {r} : pc'[o] = pc[o]
      /\ spoiled' = spoiled \cup {o \in Refreshes : pc[o] # "idle" /\ since[o] # since[r]}
      /\ resolved' = [o \in Refreshes |->
                        [v \in Vins |-> IF v \in VinsOf(raw) THEN resolved[o][v] ELSE NULL]]
  BY DEF BaseRefresh, BaseFails, Answered, Goto, Writes, TypeOK
<1>2. /\ raw \in VehicleFiles /\ sales \in SaleFiles
      /\ \A v \in Vins : v \in VinsOf(raw) => canon'[v] = Upserted(RowOf(v))
      /\ \A v \in Vins : Present(v)' <=> v \in VinsOf(raw)
      /\ \A v \in Vins : Present(v)' => canon'[v].vin = v /\ canon'[v].etapa # NULL /\ BaseOf(v)'
  BY BaseRebuilds
<1>3. VinsOf(raw)' = VinsOf(raw)
  BY <1>1 DEF VinsOf
<1>4. \A v : ExitOf(v)' = ExitOf(v)
  BY <1>1 DEF ExitOf, RowOf
<1>5. /\ Current(q)' <=> Current(q)
      /\ pc'[q] # pc[q] => q = r
  BY <1>1 DEF Current
<1>6. PreflightOk(q)'
  <2>1. ~Repeated(raw)'
    BY <1>1 DEF BaseFails, Repeated, RowsOf
  <2>2. ASSUME NEW row \in raw PROVE EtapaOf(row)' # NULL
    <3>1. row.vin \in VinsOf(raw) /\ row.vin \in Vins
      BY <1>2, RefreshAssumption DEF VinsOf, Vehicles
    <3>2. Present(row.vin)' /\ canon'[row.vin].etapa # NULL
      BY <1>2, <3>1
    <3> QED BY <3>2 DEF EtapaOf, Present
  <2>3. ~Unrecoverable(raw)'
    BY <1>1, <2>2 DEF Unrecoverable
  <2>4. Current(q)' => pc'[q] # "failed"
    BY <1>1, <1>5 DEF RequestOk, PreflightOk
  <2> QED BY <2>1, <2>3, <2>4 DEF PreflightOk
<1>7. BaseOk(q)'
  BY <1>1, <1>2, <1>3 DEF BaseOk
<1>8. ASSUME NEW v \in Vins, Current(q), pc[q] \in PastBase PROVE Present(v)' <=> Present(v)
  BY <1>2, <1>8 DEF RequestOk, BaseOk
<1>9. ReadOk(q)'
  <2>1. SUFFICES ASSUME Current(q)', pc'[q] = "update", NEW v \in Vins, Present(v)'
                 PROVE  resolved'[q][v] = ExitOf(v)'
    BY DEF ReadOk
  <2>2. Current(q) /\ pc[q] = "update"
    BY <1>1, <1>5, <2>1
  <2>3. Present(v)
    BY <1>8, <2>1, <2>2 DEF PastBase
  <2>4. resolved'[q][v] = resolved[q][v]
    BY <1>1, <1>2, <2>1
  <2> QED BY <1>4, <2>2, <2>3, <2>4 DEF RequestOk, ReadOk
<1>10. ExitsOk(q)'
  <2>1. SUFFICES ASSUME Undisturbed(q)', pc'[q] \in PastUpdate PROVE ExitsOk(q)'
    BY DEF ExitsOk
  <2>2. q # r /\ pc'[q] = pc[q] /\ Undisturbed(q) /\ Current(q) /\ pc[q] \in PastBase
    BY <1>1, <2>1 DEF Undisturbed, Current, PastUpdate, PastBase
  <2>3. ASSUME NEW v \in Vins
        PROVE  /\ Present(v)' <=> Present(v)
               /\ Present(v) => canon'[v].exit = canon[v].exit /\ canon'[v].status = canon[v].status
    <3>1. Present(v)' <=> Present(v)
      BY <1>8, <2>2
    <3>2. ASSUME Present(v)
          PROVE  canon'[v].exit = canon[v].exit /\ canon'[v].status = canon[v].status
      <4>1. v \in VinsOf(raw) /\ canon'[v] = Upserted(RowOf(v))
        BY <1>2, <3>1, <3>2
      <4> QED BY <1>2, <3>2, <4>1, UpsertedIsSound DEF BaseFails
    <3> QED BY <3>1, <3>2
  <2>4. InconsistentExits' = InconsistentExits
    BY <2>3 DEF InconsistentExits
  <2> QED BY <1>4, <2>1, <2>2, <2>3, <2>4 DEF RequestOk, ExitsOk
<1> QED BY <1>6, <1>7, <1>9, <1>10 DEF RequestOk

\* A statement that writes exits or statuses leaves the rest of every row.
SameBase ==
  /\ UNCHANGED <<raw, sales, epoch, since>>
  /\ \A v \in Vins :
       /\ Present(v)' <=> Present(v)
       /\ Present(v) => /\ canon'[v].etapa = canon[v].etapa /\ canon'[v].product = canon[v].product
                        /\ canon'[v].invoice = canon[v].invoice /\ canon'[v].date = canon[v].date
                        /\ canon'[v].note = canon[v].note

LEMMA SameBaseKept ==
  ASSUME RefreshInv, SameBase, NEW q \in Refreshes,
         pc[q] # "idle", pc'[q] # "failed" \/ pc'[q] = pc[q], pc[q] # "blocked" \/ pc'[q] = pc[q],
         pc'[q] \in PastBase => pc[q] \in PastBase
  PROVE  PreflightOk(q)' /\ BaseOk(q)' /\ \A v : ExitOf(v)' = ExitOf(v)
<1> USE DEF RefreshInv
<1>1. Current(q)' => Current(q)
  BY DEF SameBase, Current
<1>2. Repeated(raw)' <=> Repeated(raw)
  BY DEF SameBase, Repeated, RowsOf
<1>3. raw # Missing => (Unrecoverable(raw)' <=> Unrecoverable(raw))
  <2>1. ASSUME raw # Missing, NEW row \in raw PROVE EtapaOf(row)' = EtapaOf(row)
    <3>1. row.vin \in Vins
      BY <2>1, RefreshAssumption DEF TypeOK, Vehicles
    <3> QED BY <3>1 DEF SameBase, EtapaOf
  <2> QED BY <2>1 DEF Unrecoverable, SameBase
<1>4. PreflightOk(q)'
  BY <1>1, <1>2, <1>3 DEF RequestOk, PreflightOk, SameBase
<1>5. \A v : RowOf(v)' = RowOf(v)
  BY DEF RowOf, SameBase
<1>6. \A row : Product(row)' = Product(row)
  BY DEF Product, SameBase
<1>7. ASSUME (Current(q) /\ pc[q] \in PastBase)'
      PROVE  (raw # Missing /\ sales # Missing)'
  BY <1>1, <1>7 DEF RequestOk, BaseOk, SameBase
<1>8. ASSUME (Current(q) /\ pc[q] \in PastBase)', NEW v \in Vins
      PROVE  (Present(v)' <=> v \in VinsOf(raw)') /\ (Present(v)' => BaseOf(v)')
  <2>1. (Present(v) <=> v \in VinsOf(raw)) /\ (Present(v) => BaseOf(v))
    BY <1>1, <1>8 DEF RequestOk, BaseOk
  <2>2. VinsOf(raw)' = VinsOf(raw)
    BY DEF SameBase, VinsOf
  <2>3. RowOf(v)' = RowOf(v) /\ Product(RowOf(v))' = Product(RowOf(v))
    BY DEF SameBase, RowOf, Product
  <2>4. Present(v) /\ BaseOf(v) => BaseOf(v)'
    BY <2>3 DEF BaseOf, SameBase
  <2> QED BY <2>1, <2>2, <2>4 DEF SameBase
<1>9. BaseOk(q)'
  BY <1>7, <1>8 DEF BaseOk
<1> QED BY <1>4, <1>5, <1>9 DEF ExitOf, SameBase

\* A request that has not begun promises nothing.
LEMMA IdleStep ==
  ASSUME NEW q \in Refreshes, pc'[q] = "idle"
  PROVE  RequestOk(q)'
BY DEF RequestOk, PreflightOk, BaseOk, ReadOk, ExitsOk, Current, Undisturbed

\* The UPDATE of the exits: a request of the same tables has read the same exits.
LEMMA WriteStep ==
  ASSUME RefreshInv, NEW r \in Refreshes, WriteResolution(r), NEW q \in Refreshes
  PROVE  RequestOk(q)'
<1> USE DEF RefreshInv
<1>1. /\ UNCHANGED <<raw, sales, epoch, since>> /\ pc[r] = "update"
      /\ pc'[r] \in {"resolve", "check"}
      /\ \A o \in Refreshes \ {r} : pc'[o] = pc[o] /\ resolved'[o] = resolved[o]
      /\ spoiled' = spoiled \cup {o \in Refreshes : pc[o] # "idle" /\ since[o] # since[r]}
  BY DEF WriteResolution, Answered, Goto, Writes, TypeOK
<1>2. SameBase
  BY <1>1, ExitsWritten DEF SameBase
<1>3. CASE pc[q] = "idle"
  BY <1>1, <1>3, IdleStep
<1>4. CASE pc[q] # "idle"
  <2>1. /\ pc'[q] # "failed" \/ pc'[q] = pc[q]
        /\ pc[q] # "blocked" \/ pc'[q] = pc[q]
        /\ pc'[q] \in PastBase => pc[q] \in PastBase
        /\ pc'[q] \in PastUpdate => q = r \/ pc'[q] = pc[q]
    BY <1>1 DEF PastBase, PastUpdate
  <2>2. PreflightOk(q)' /\ BaseOk(q)' /\ \A v : ExitOf(v)' = ExitOf(v)
    BY <1>2, <1>4, <2>1, SameBaseKept
  <2>3. ReadOk(q)'
    <3>1. SUFFICES ASSUME Current(q)', pc'[q] = "update", NEW v \in Vins, Present(v)'
                   PROVE  resolved'[q][v] = ExitOf(v)'
      BY DEF ReadOk
    <3>2. Current(q) /\ pc[q] = "update" /\ resolved'[q] = resolved[q] /\ Present(v)
      BY <1>1, <1>2, <1>4, <3>1 DEF Current, SameBase
    <3> QED BY <2>2, <3>1, <3>2 DEF RequestOk, ReadOk
  <2>4. ASSUME Undisturbed(q)', pc'[q] \in PastUpdate, NEW v \in Vins, Present(v)'
        PROVE  Present(v) /\ canon'[v].exit = ExitOf(v) /\ canon'[v].status = canon[v].status
    <3>1. Current(r)
      BY <1>1, <1>4, <2>4 DEF Undisturbed, Current
    <3>2. Present(v)
      BY <1>2, <2>4 DEF SameBase
    <3>3. resolved[r][v] = ExitOf(v)
      BY <1>1, <3>1, <3>2 DEF RequestOk, ReadOk
    <3>4. sales \in SaleFiles
      BY <2>1, <2>2, <2>4, <1>1 DEF BaseOk, TypeOK, Undisturbed, Current, PastBase
    <3>5. ExitOf(v) # NULL
      BY <3>4, FilesAreFiles, ExitIsSound, RefreshAssumption DEF ExitOf
    <3> QED BY <3>2, <3>3, <3>5, ExitsWritten
  <2>5. ExitsOk(q)'
    <3>1. SUFFICES ASSUME Undisturbed(q)', pc'[q] \in PastUpdate PROVE ExitsOk(q)'
      BY DEF ExitsOk
    <3>2. \A v \in Vins : Present(v)' => canon'[v].exit = ExitOf(v)'
      BY <2>2, <2>4, <3>1
    <3>3. CASE q = r
      BY <1>1, <3>2, <3>3 DEF ExitsOk, PastUpdate
    <3>4. CASE q # r
      <4>1. pc'[q] = pc[q] /\ Undisturbed(q) /\ pc[q] \in PastUpdate
        BY <1>1, <3>1, <3>4 DEF Undisturbed
      <4>2. ASSUME NEW v \in Vins
            PROVE  /\ Present(v)' <=> Present(v)
                   /\ Present(v) => /\ canon'[v].exit = canon[v].exit
                                    /\ canon'[v].status = canon[v].status
        <5>1. Present(v)' <=> Present(v)
          BY <1>2 DEF SameBase
        <5>2. Present(v) => canon[v].exit = ExitOf(v)
          BY <4>1 DEF RequestOk, ExitsOk
        <5> QED BY <2>4, <3>1, <5>1, <5>2
      <4>3. InconsistentExits' = InconsistentExits
        BY <4>2 DEF InconsistentExits
      <4>4. /\ pc[q] # "rejected" /\ (pc[q] \in {"status", "audit", "done"} => InconsistentExits = {})
            /\ pc[q] \in {"audit", "done"} =>
                 \A v \in Vins : Present(v) => canon[v].status = Status(canon[v].exit)
            /\ pc[q] = "inconsistent" => InconsistentExits # {}
        BY <4>1 DEF RequestOk, ExitsOk
      <4>5. pc'[q] \in {"audit", "done"} =>
              \A v \in Vins : Present(v)' => canon'[v].status = Status(canon'[v].exit)
        BY <4>1, <4>2, <4>4
      <4> QED BY <3>2, <4>1, <4>3, <4>4, <4>5 DEF ExitsOk
    <3> QED BY <3>3, <3>4
  <2> QED BY <2>2, <2>3, <2>5 DEF RequestOk
<1> QED BY <1>3, <1>4

\* The statement of the statuses writes of every row what its exit says.
LEMMA StatusStep ==
  ASSUME RefreshInv, NEW r \in Refreshes, EnsureResolutionStatus(r), NEW q \in Refreshes
  PROVE  RequestOk(q)'
<1> USE DEF RefreshInv
<1>1. /\ UNCHANGED <<raw, sales, epoch, since, resolved>> /\ pc[r] = "status"
      /\ pc'[r] \in {"status", "audit"}
      /\ \A o \in Refreshes \ {r} : pc'[o] = pc[o]
      /\ spoiled' = spoiled \cup {o \in Refreshes : pc[o] # "idle" /\ since[o] # since[r]}
  BY DEF EnsureResolutionStatus, Answered, Goto, Writes, TypeOK
<1>2. SameBase
  BY <1>1, StatusesWritten DEF SameBase
<1>3. CASE pc[q] = "idle"
  BY <1>1, <1>3, IdleStep
<1>4. CASE pc[q] # "idle"
  <2>1. /\ pc'[q] # "failed" \/ pc'[q] = pc[q]
        /\ pc[q] # "blocked" \/ pc'[q] = pc[q]
        /\ pc'[q] \in PastBase => pc[q] \in PastBase
        /\ pc'[q] \in PastUpdate => pc[q] \in PastUpdate
    BY <1>1 DEF PastBase, PastUpdate
  <2>2. PreflightOk(q)' /\ BaseOk(q)' /\ \A v : ExitOf(v)' = ExitOf(v)
    BY <1>2, <1>4, <2>1, SameBaseKept
  <2>3. ReadOk(q)'
    <3>1. SUFFICES ASSUME Current(q)', pc'[q] = "update", NEW v \in Vins, Present(v)'
                   PROVE  resolved'[q][v] = ExitOf(v)'
      BY DEF ReadOk
    <3>2. Current(q) /\ pc[q] = "update" /\ resolved'[q] = resolved[q] /\ Present(v)
      BY <1>1, <1>2, <1>4, <3>1 DEF Current, SameBase
    <3> QED BY <2>2, <3>1, <3>2 DEF RequestOk, ReadOk
  <2>4. ExitsOk(q)'
    <3>1. SUFFICES ASSUME Undisturbed(q)', pc'[q] \in PastUpdate PROVE ExitsOk(q)'
      BY DEF ExitsOk
    <3>2. Undisturbed(q) /\ pc[q] \in PastUpdate
      BY <1>1, <1>4, <2>1, <3>1 DEF Undisturbed
    <3>3. ASSUME NEW v \in Vins
          PROVE  /\ Present(v)' <=> Present(v)
                 /\ Present(v) => /\ canon'[v].exit = canon[v].exit
                                  /\ canon'[v].status = Status(canon[v].exit)
      BY <1>2, StatusesWritten DEF SameBase
    <3>4. InconsistentExits' = InconsistentExits
      BY <3>3 DEF InconsistentExits
    <3>5. \A v \in Vins : Present(v)' => canon'[v].exit = ExitOf(v)'
      BY <2>2, <3>2, <3>3 DEF RequestOk, ExitsOk
    <3>6. \A v \in Vins : Present(v)' => canon'[v].status = Status(canon'[v].exit)
      BY <3>3
    <3>7. /\ pc[q] # "rejected" /\ (pc[q] \in {"status", "audit", "done"} => InconsistentExits = {})
          /\ pc[q] = "inconsistent" => InconsistentExits # {}
      BY <3>2 DEF RequestOk, ExitsOk
    <3>8. pc'[q] # pc[q] => pc[q] = "status" /\ pc'[q] = "audit"
      BY <1>1
    <3> QED BY <3>4, <3>5, <3>6, <3>7, <3>8 DEF ExitsOk
  <2> QED BY <2>2, <2>3, <2>4 DEF RequestOk
<1> QED BY <1>3, <1>4

\* An import makes every request one of tables that are gone.
LEMMA ImportStep ==
  ASSUME RefreshInv, Import
  PROVE  RefreshInv'
<1> USE DEF RefreshInv
<1>1. UNCHANGED <<canon, pc, resolved, since, spoiled>> /\ epoch' = epoch + 1
  BY DEF Import
<1>2. raw' \in VehicleFiles \cup {Missing} /\ sales' \in SaleFiles \cup {Missing}
  BY DEF Import, ImportVehicles, ImportSales, TypeOK
<1>3. TypeOK'
  BY <1>1, <1>2 DEF TypeOK
<1>4. RowsInv' /\ ReadInv'
  BY <1>1 DEF RowsInv, ReadInv, Present
<1>5. ASSUME NEW q \in Refreshes PROVE RequestOk(q)'
  <2>1. ~Current(q)' /\ ~Undisturbed(q)'
    BY <1>1 DEF TypeOK, Current, Undisturbed
  <2> QED BY <2>1 DEF RequestOk, PreflightOk, BaseOk, ReadOk, ExitsOk
<1> QED BY <1>3, <1>4, <1>5

LEMMA NextRefresh ==
  RefreshInv /\ [Next]_vars => RefreshInv'
<1> SUFFICES ASSUME RefreshInv, [Next]_vars PROVE RefreshInv'
  OBVIOUS
<1>1. CASE Import
  BY <1>1, ImportStep
<1>2. ASSUME NEW r \in Refreshes, Refresh(r) \/ Stop(r) PROVE RefreshInv'
  <2>1. TypeOK' /\ RowsInv' /\ ReadInv'
    BY <1>2, TypeStep, RowsStep
  <2>2. \A q \in Refreshes : RequestOk(q)'
    <3>1. CASE BaseRefresh(r)
      BY <3>1, BaseRefusedStep, BaseStep
    <3>2. CASE WriteResolution(r)
      BY <3>2, WriteStep
    <3>3. CASE EnsureResolutionStatus(r)
      BY <3>3, StatusStep
    <3>4. CASE \/ Preflight(r) \/ Preview(r) \/ ReadResolution(r) \/ CheckExit(r) \/ PostAudit(r)
               \/ Stop(r)
      BY <3>4, ReaderStep
    <3> QED BY <1>2, <3>1, <3>2, <3>3, <3>4 DEF Refresh
  <2> QED BY <2>1, <2>2 DEF RefreshInv
<1>3. CASE UNCHANGED vars
  <2>1. TypeOK' /\ RowsInv' /\ ReadInv'
    BY <1>3 DEF vars, RefreshInv, TypeOK, RowsInv, ReadInv, Present
  <2>2. \A q \in Refreshes : RequestOk(q)'
    BY <1>3, Bystander DEF vars, RefreshInv
  <2> QED BY <2>1, <2>2 DEF RefreshInv
<1> QED BY <1>1, <1>2, <1>3 DEF Next

-----------------------------------------------------------------------------
\* The table holds rows of its columns, and what a request has passed tells what they say, however
\* requests overlap, stop and are sent again while the raw tables are dropped and renamed.
THEOREM AlwaysRefresh == Spec => []RefreshInv
<1>1. Init => RefreshInv
  BY InitRefresh
<1>2. RefreshInv /\ [Next]_vars => RefreshInv'
  BY NextRefresh
<1> QED BY <1>1, <1>2, PTL DEF Spec

\* No row a reader sees between two statements contradicts itself on how the vehicle left.
THEOREM AlwaysExitColumnsAgree == Spec => []ExitColumnsAgree
<1>1. RefreshInv => ExitColumnsAgree
  BY DEF RefreshInv, RowsInv, ExitAgrees, ExitColumnsAgree
<1> QED BY <1>1, AlwaysRefresh, PTL

\* A refresh that answers success, and whose tables nobody changed, has rebuilt every row from the
\* raw tables: whatever stopped refreshes had left, whatever others of the same tables did.
THEOREM AlwaysRebuilt == Spec => []SuccessIsRebuilt
<1>1. RefreshInv => SuccessIsRebuilt
  <2>1. SUFFICES ASSUME RefreshInv, NEW r \in Refreshes, pc[r] = "done", Undisturbed(r), NEW v \in Vins
                 PROVE  Present(v) = (v \in VinsOf(raw)) /\ (Present(v) => Rebuilt(v))
    BY DEF SuccessIsRebuilt
  <2>2. Current(r)
    BY <2>1 DEF Undisturbed, Current
  <2>3. (Present(v) <=> v \in VinsOf(raw)) /\ (Present(v) => BaseOf(v))
    BY <2>1, <2>2 DEF RefreshInv, RequestOk, BaseOk, PastBase, PastUpdate
  <2>4. Present(v) => canon[v].exit = ExitOf(v) /\ canon[v].status = Status(canon[v].exit)
    BY <2>1 DEF RefreshInv, RequestOk, ExitsOk, PastUpdate
  <2>5. Present(v) => canon[v].etapa # NULL
    BY <2>1 DEF RefreshInv, RowsInv
  <2>6. Present(v) => Rebuilt(v)
    BY <2>3, <2>4, <2>5 DEF Rebuilt, BaseOf, RowOf, ExitOf
  <2>7. Present(v) = (v \in VinsOf(raw))
    BY <2>3 DEF Present
  <2> QED BY <2>6, <2>7
<1> QED BY <1>1, AlwaysRefresh, PTL

\* What passed the preflight fails for no reason of its own: only a store whose rows name two
\* branches of the company stops a refresh whose tables nobody changed.
THEOREM AlwaysPreflightIsEnough == Spec => []PreflightIsEnough
<1>1. RefreshInv => PreflightIsEnough
  <2>1. SUFFICES ASSUME RefreshInv, NEW r \in Refreshes, Undisturbed(r), raw # Missing, sales # Missing
                 PROVE  /\ pc[r] \notin {"failed", "rejected"}
                        /\ pc[r] = "inconsistent" => \E v \in Vins :
                             /\ Present(v)
                             /\ 1 < Cardinality({s.branch : s \in
                                     CurrentSale(canon[v], sales.ventas, sales.notas)} \ {NULL})
    BY DEF PreflightIsEnough
  <2>2. Current(r)
    BY <2>1 DEF Undisturbed, Current
  <2>3. pc[r] # "failed"
    BY <2>1, <2>2 DEF RefreshInv, RequestOk, PreflightOk
  <2>4. pc[r] # "rejected"
    BY <2>1 DEF RefreshInv, RequestOk, ExitsOk, PastUpdate
  <2>5. ASSUME pc[r] = "inconsistent"
        PROVE  \E v \in Vins :
                 /\ Present(v)
                 /\ 1 < Cardinality({s.branch : s \in
                         CurrentSale(canon[v], sales.ventas, sales.notas)} \ {NULL})
    <3>1. PICK v \in Vins : Present(v) /\ ExitIntegrityFails(canon[v].exit)
      BY <2>1, <2>5 DEF RefreshInv, RequestOk, ExitsOk, PastUpdate, InconsistentExits
    <3>2. canon[v].exit = ExitOf(v)
      BY <2>1, <2>5, <3>1 DEF RefreshInv, RequestOk, ExitsOk, PastUpdate
    <3>3. v \in VinsOf(raw) /\ BaseOf(v) /\ raw \in VehicleFiles /\ sales \in SaleFiles
      BY <2>1, <2>2, <2>5, <3>1 DEF RefreshInv, RequestOk, BaseOk, PastBase, PastUpdate, TypeOK
    <3>4. RowOf(v).vin = canon[v].vin
      BY <2>1, <3>1, <3>3, RowOfIsThere DEF RefreshInv, RowsInv
    <3>5. CurrentSale(canon[v], sales.ventas, sales.notas)
            = CurrentSale(RowOf(v), sales.ventas, sales.notas)
      BY <3>3, <3>4, SameExit DEF BaseOf
    <3>6. ExitIntegrityFails(Exit(RowOf(v), sales.ventas, sales.notas))
      BY <3>1, <3>2 DEF ExitOf
    <3>7. 1 < Cardinality({s.branch : s \in CurrentSale(RowOf(v), sales.ventas, sales.notas)} \ {NULL})
      BY <3>3, <3>6, FilesAreFiles, OnlyTwoBranchesFail
    <3> QED BY <3>1, <3>5, <3>7
  <2> QED BY <2>3, <2>4, <2>5
<1> QED BY <1>1, AlwaysRefresh, PTL
=============================================================================
