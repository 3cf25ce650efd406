------------------------- MODULE CanonicalRefresh -------------------------
(***************************************************************************)
(* refreshVehiculoCanonicoV01: the table vehiculo_canonico rebuilt from    *)
(* the raw tables by seven statements that commit one by one.  Requests    *)
(* overlap, stop between any two statements and are made again, while      *)
(* importers drop and rename the raw tables.                               *)
(***************************************************************************)
EXTENDS ExitResolution

CONSTANTS
  Refreshes,    \* requests for a refresh
  Vins,         \* vehicle identification numbers of valid form
  VehicleFiles, \* contents vehiculos_raw may have: sets of rows
  SaleFiles,    \* contents ventas_raw and notas_venta_raw may have, as [ventas, notas]
  Missing,      \* a table that does not exist
  MaxImports    \* bound: DROPs and RENAMEs of a raw table

Vehicles == UNION VehicleFiles
SaleRows == UNION {file.ventas \cup file.notas : file \in SaleFiles}
Versions == {row.version : row \in Vehicles \cup SaleRows} \cup {NULL}

\* What the columns of vehiculo_canonico may hold.
Products ==
  [version : Versions, conflict : BOOLEAN,
   method : {"CONFLICTO_CROSS_SOURCE", "VEHICULOS_RAW_ALIAS", "VIN_CROSS_SOURCE_VENTAS",
             "VIN_CROSS_SOURCE_NOTAS", NULL}]
CanonRows ==
  [vin : Vins, etapa : {row.etapa : row \in Vehicles}, invoice : {row.invoice : row \in Vehicles},
   date : {row.date : row \in Vehicles}, note : {row.note : row \in Vehicles},
   product : Products, exit : Exits, status : Statuses \cup {NULL}]

ASSUME RefreshAssumption ==
  /\ MaxImports \in Nat /\ NULL \notin Exits /\ NULL \notin CanonRows
  /\ Missing \notin VehicleFiles /\ Missing \notin SaleFiles
  /\ \A row \in Vehicles : row.vin \in Vins
  /\ \A file \in SaleFiles : IsFiniteSet(file.ventas) /\ IsFiniteSet(file.notas)
  /\ \A s \in SaleRows : s.buyer \in DOMAIN AliasedBy /\ s.branch \in Branches \cup {NULL}
  /\ \A file \in SaleFiles : \A n \in file.notas :
       n.comment # NULL => \A kind \in {"rut", "legal", "name"} : n.comment[kind] \subseteq Dealers

VARIABLES
  raw,       \* vehiculos_raw
  sales,     \* ventas_raw and notas_venta_raw, or Missing
  canon,     \* vehiculo_canonico: the row of each VIN, or NULL
  pc,        \* the statement each request is about to send
  resolved,  \* what the UPDATE of each request read and has not written yet
  epoch,     \* DROPs and RENAMEs of a raw table so far
  since,     \* history: the epoch in which each request made its preflight
  spoiled    \* history: requests after whose preflight a request of another
             \* epoch has written

vars == <<raw, sales, canon, pc, resolved, epoch, since, spoiled>>

Ended == {"done", "blocked", "failed", "inconsistent", "rejected", "stopped"}
Statements == {"base", "preview", "resolve", "update", "check", "status", "audit"}

Goto(r, next) == pc' = [pc EXCEPT ![r] = next]
\* queryDb sends a statement again when its answer is lost, also if it was carried out.
Answered(r, again, next) == Goto(r, again) \/ Goto(r, next)
RowsOf(v, file) == {row \in file : row.vin = v}
VinsOf(file) == {row.vin : row \in file}
Present(v) == canon[v] # NULL

\* A writing statement of r, which later statements of another epoch mistake for theirs.
Writes(r) == spoiled' = spoiled \cup {q \in Refreshes : pc[q] # "idle" /\ since[q] # since[r]}

Init ==
  /\ raw \in VehicleFiles /\ sales \in SaleFiles
  /\ canon = [v \in Vins |-> NULL]
  /\ pc = [r \in Refreshes |-> "idle"]
  /\ resolved = [r \in Refreshes |-> [v \in Vins |-> NULL]]
  /\ epoch = 0 /\ since = [r \in Refreshes |-> 0] /\ spoiled = {}

TypeOK ==
  /\ raw \in VehicleFiles \cup {Missing} /\ sales \in SaleFiles \cup {Missing}
  /\ canon \in [Vins -> CanonRows \cup {NULL}]
  /\ pc \in [Refreshes -> Statements \cup Ended \cup {"idle"}]
  /\ resolved \in [Refreshes -> [Vins -> Exits \cup {NULL}]]
  /\ epoch \in Nat /\ since \in [Refreshes -> Nat] /\ \A r \in Refreshes : since[r] <= epoch
  /\ spoiled \subseteq Refreshes

(***************************************************************************)
(* Preflight: valid VINs twice, or without etapa here and in the table.    *)
(***************************************************************************)
Repeated(file) == \E v \in Vins : Cardinality(RowsOf(v, file)) > 1
EtapaOf(row) ==
  IF row.etapa # NULL THEN row.etapa ELSE IF Present(row.vin) THEN canon[row.vin].etapa ELSE NULL
Unrecoverable(file) == \E row \in file : EtapaOf(row) = NULL

Preflight(r) ==
  /\ pc[r] = "idle"
  /\ Goto(r, IF raw = Missing THEN "failed"
             ELSE IF Repeated(raw) \/ Unrecoverable(raw) THEN "blocked" ELSE "base")
  /\ since' = [since EXCEPT ![r] = epoch]
  /\ UNCHANGED <<raw, sales, canon, resolved, epoch, spoiled>>

(***************************************************************************)
(* BASE_REFRESH_SQL: one statement that upserts the VINs of the raw table, *)
(* keeping the exit of a row that exists, and deletes all others.          *)
(***************************************************************************)
Product(row) ==
  LET ventas == {s.version : s \in {x \in sales.ventas : x.vin = row.vin}} \ {NULL}
      notas == {n.version : n \in {x \in sales.notas : x.vin = row.vin}} \ {NULL}
      all == ({row.version} \ {NULL}) \cup ventas \cup notas
  IN [version |-> Only(all), conflict |-> Cardinality(all) > 1,
      method |-> IF Cardinality(all) > 1 THEN "CONFLICTO_CROSS_SOURCE"
                 ELSE IF row.version # NULL THEN "VEHICULOS_RAW_ALIAS"
                 ELSE IF ventas # {} THEN "VIN_CROSS_SOURCE_VENTAS"
                 ELSE IF notas # {} THEN "VIN_CROSS_SOURCE_NOTAS" ELSE NULL]

\* Mutant of Upserted: ON CONFLICT does not set the invoice of a row that exists.
UpsertedWithoutInvoice(row) ==
  LET old == canon[row.vin]
  IN [vin |-> row.vin, etapa |-> EtapaOf(row), date |-> row.date, note |-> row.note,
      invoice |-> IF Present(row.vin) THEN old.invoice ELSE row.invoice, product |-> Product(row),
      exit |-> IF Present(row.vin) THEN old.exit ELSE NoExit,
      status |-> IF Present(row.vin) THEN old.status ELSE NULL]

Upserted(row) ==
  LET old == canon[row.vin]
  IN [vin |-> row.vin, etapa |-> EtapaOf(row), invoice |-> row.invoice, date |-> row.date,
      note |-> row.note, product |-> Product(row),
      exit |-> IF Present(row.vin) THEN old.exit ELSE NoExit,
      status |-> IF Present(row.vin) THEN old.status ELSE NULL]

BaseRefresh(r) ==
  /\ pc[r] = "base"
  /\ IF raw = Missing \/ sales = Missing \/ Repeated(raw) \/ Unrecoverable(raw)
     THEN Goto(r, "failed") /\ UNCHANGED <<canon, resolved, spoiled>>
     ELSE /\ canon' = [v \in Vins |-> IF v \in VinsOf(raw)
                                      THEN Upserted(CHOOSE row \in raw : row.vin = v) ELSE NULL]
          /\ resolved' = [q \in Refreshes |->
                [v \in Vins |-> IF v \in VinsOf(raw) THEN resolved[q][v] ELSE NULL]]
          /\ Answered(r, "base", "preview") /\ Writes(r)
  /\ UNCHANGED <<raw, sales, epoch, since>>

(***************************************************************************)
(* refreshVehiculoSalidaV01.  The UPDATE joins the rows it read when it    *)
(* began with those it locks when it writes.                               *)
(***************************************************************************)
Preview(r) ==
  /\ pc[r] = "preview"
  /\ Goto(r, IF sales = Missing THEN "failed" ELSE "resolve")
  /\ UNCHANGED <<raw, sales, canon, resolved, epoch, since, spoiled>>

ReadResolution(r) ==
  /\ pc[r] = "resolve"
  /\ IF sales = Missing
     THEN Goto(r, "failed") /\ UNCHANGED resolved
     ELSE /\ resolved' = [resolved EXCEPT ![r] = [v \in Vins |->
                IF Present(v) THEN Exit(canon[v], sales.ventas, sales.notas) ELSE NULL]]
          /\ Goto(r, "update")
  /\ UNCHANGED <<raw, sales, canon, epoch, since, spoiled>>

WriteResolution(r) ==
  /\ pc[r] = "update"
  /\ canon' = [v \in Vins |-> IF Present(v) /\ resolved[r][v] # NULL
                              THEN [canon[v] EXCEPT !.exit = resolved[r][v]] ELSE canon[v]]
  /\ resolved' = [resolved EXCEPT ![r] = [v \in Vins |-> NULL]]
  /\ Answered(r, "resolve", "check") /\ Writes(r)
  /\ UNCHANGED <<raw, sales, epoch, since>>

InconsistentExits == {v \in Vins : Present(v) /\ ExitIntegrityFails(canon[v].exit)}

CheckExit(r) ==
  /\ pc[r] = "check"
  /\ Goto(r, IF InconsistentExits # {} THEN "inconsistent" ELSE "status")
  /\ UNCHANGED <<raw, sales, canon, resolved, epoch, since, spoiled>>

EnsureResolutionStatus(r) ==
  /\ pc[r] = "status"
  /\ canon' = [v \in Vins |-> IF Present(v) THEN [canon[v] EXCEPT !.status = Status(canon[v].exit)]
                              ELSE NULL]
  /\ Answered(r, "status", "audit") /\ Writes(r)
  /\ UNCHANGED <<raw, sales, resolved, epoch, since>>

\* A null status differs from nothing: the comparison of the audit is not true of it.
StatusMismatch == {v \in Vins : Present(v) /\ canon[v].status \notin {NULL, Status(canon[v].exit)}}

PostAudit(r) ==
  /\ pc[r] = "audit"
  /\ Goto(r, IF raw = Missing THEN "failed"
             ELSE IF \/ {v \in Vins : Present(v)} # VinsOf(raw)
                     \/ InconsistentExits \cup StatusMismatch # {} THEN "rejected" ELSE "done")
  /\ UNCHANGED <<raw, sales, canon, resolved, epoch, since, spoiled>>

(***************************************************************************)
(* The platform and the importers.                                         *)
(***************************************************************************)
Stop(r) ==
  /\ pc[r] \in Statements
  /\ Goto(r, "stopped")
  /\ resolved' = [resolved EXCEPT ![r] = [v \in Vins |-> NULL]]
  /\ UNCHANGED <<raw, sales, canon, epoch, since, spoiled>>

ImportVehicles ==
  /\ raw' \in IF raw = Missing THEN VehicleFiles ELSE {Missing}
  /\ UNCHANGED sales

ImportSales ==
  /\ sales' \in IF sales = Missing THEN SaleFiles ELSE {Missing}
  /\ UNCHANGED raw

Import ==
  /\ epoch < MaxImports /\ epoch' = epoch + 1
  /\ ImportVehicles \/ ImportSales
  /\ UNCHANGED <<canon, pc, resolved, since, spoiled>>

Refresh(r) ==
  \/ Preflight(r) \/ BaseRefresh(r) \/ Preview(r) \/ ReadResolution(r) \/ WriteResolution(r)
  \/ CheckExit(r) \/ EnsureResolutionStatus(r) \/ PostAudit(r)

Next == Import \/ \E r \in Refreshes : Refresh(r) \/ Stop(r)

Spec == Init /\ [][Next]_vars
----------------------------------------------------------------------------
\* No import since the preflight, and no write of a refresh that began over other tables.
Undisturbed(r) == pc[r] # "idle" /\ since[r] = epoch /\ r \notin spoiled

\* What vehiculo_canonico should say of a vehicle, from the raw tables alone.
Rebuilt(v) ==
  LET row == CHOOSE x \in raw : x.vin = v
      exit == Exit(row, sales.ventas, sales.notas)
  IN /\ canon[v].invoice = row.invoice /\ canon[v].date = row.date /\ canon[v].note = row.note
     /\ canon[v].etapa # NULL /\ row.etapa \in {NULL, canon[v].etapa}
     /\ canon[v].product = Product(row)
     /\ canon[v].exit = exit /\ canon[v].status = Status(exit)

\* FULL_REBUILD_CURRENT_STATE: a refresh that answers success has rebuilt every row from the raw
\* tables, whatever stopped requests had left in the table and whatever other refreshes of the
\* same tables do meanwhile.
SuccessIsRebuilt ==
  \A r \in Refreshes : pc[r] = "done" /\ Undisturbed(r) =>
    \A v \in Vins : Present(v) = (v \in VinsOf(raw)) /\ (Present(v) => Rebuilt(v))

\* The preflight is enough: what passed it fails for no reason of its own.  Only a store whose
\* rows name two branches of the company stops the refresh, at the check of the exit.
PreflightIsEnough ==
  \A r \in Refreshes : Undisturbed(r) /\ raw # Missing /\ sales # Missing =>
    /\ pc[r] \notin {"failed", "rejected"}
    /\ pc[r] = "inconsistent" => \E v \in Vins :
         /\ Present(v)
         /\ 1 < Cardinality({s.branch : s \in CurrentSale(canon[v], sales.ventas, sales.notas)} \ {NULL})

\* The columns of the exit agree with one another in every row a reader can see, between any two
\* statements: a dealer is in its group and has no branch, a store is one of the company's.
ExitColumnsAgree ==
  \A v \in Vins : Present(v) =>
    LET exit == canon[v].exit
    IN /\ exit.dealer # NULL => exit.canal = "DEALER" /\ exit.grupo = GroupOf[exit.dealer]
       /\ exit.sucursal # NULL => exit.canal = "TIENDA_PROPIA" /\ ChannelOf[exit.sucursal] = "CIDEF"
       /\ exit.metodo = "FORUM_COMENTARIO" => exit.dealer \notin ForumDealers \cup {NULL}
       /\ canon[v].product.conflict => canon[v].product.version = NULL
=============================================================================
