-------------------------- MODULE ExitResolution --------------------------
(***************************************************************************)
(* How a vehicle left the company: the common table expressions of         *)
(* lib/canonical/vehiculo-salida-v01.js, one operator for each, applied to *)
(* one vehicle.  A vehicle has its invoice, its date and its note; a row   *)
(* of ventas_raw or notas_venta_raw has a buyer, a branch, an operation    *)
(* and, if it is a note, a comment in which dealers are mentioned.         *)
(***************************************************************************)
EXTENDS Naturals, FiniteSets

CONSTANTS
  NULL,         \* the SQL null, and a vehicle or a row that is not there
  Dealers, GroupOf,     \* dealers_master: each dealer has a group, or NULL
  AliasedBy,            \* dealer_aliases: the dealers a buyer's name is an alias of
  ForumDealers,         \* dealers whose legal name contains FORUM
  Forum,                \* the buyer FORUM DISTRIBUIDORA S.A.
  ChannelOf             \* sucursales_master: the tipo_canal of each branch

Branches == DOMAIN ChannelOf
Channels == {"DEALER", "TIENDA_PROPIA"}
Methods == {"DIRECTO", "FORUM_COMENTARIO", "NO_RESUELTO"}
Statuses == {"NOT_APPLICABLE", "RESOLVED", "UNRESOLVED"}

ASSUME DealersAssumption ==
  /\ IsFiniteSet(Dealers) /\ NULL \notin Dealers \cup Channels \cup Methods \cup Statuses
  /\ NULL # "CIDEF"
  /\ \A buyer \in DOMAIN AliasedBy : AliasedBy[buyer] \subseteq Dealers

\* CASE WHEN count(DISTINCT x) = 1 THEN min(x) END; count ignores nulls.
Count(S) == Cardinality(S \ {NULL})
Only(S) == IF Count(S) = 1 THEN CHOOSE x \in S \ {NULL} : TRUE ELSE NULL

(***************************************************************************)
(* The sale.                                                               *)
(***************************************************************************)
Exact(v, ventas) ==
  {s \in ventas : s.vin = v.vin /\ v.invoice # NULL /\ s.invoice = v.invoice}

SameDate(v, rows) == {s \in rows : s.vin = v.vin /\ v.date # NULL /\ s.date = v.date}

CompatibleNotes(v, notas) ==
  {n \in SameDate(v, notas) : NULL \in {v.invoice, n.invoice} \/ n.invoice = v.invoice}

SaleMethod(v, ventas, notas) ==
  CASE Exact(v, ventas) # {} -> "VENTAS_VIN_FACTURA"
    [] Exact(v, ventas) = {} /\ SameDate(v, ventas) # {} -> "VENTAS_VIN_FECHA"
    [] OTHER -> "NOTAS_VIN_FECHA_FACTURA"

CurrentSale(v, ventas, notas) ==
  CASE SaleMethod(v, ventas, notas) = "VENTAS_VIN_FACTURA" -> Exact(v, ventas)
    [] SaleMethod(v, ventas, notas) = "VENTAS_VIN_FECHA" -> SameDate(v, ventas)
    [] OTHER -> CompatibleNotes(v, notas)

CurrentNotes(v, ventas, notas) ==
  LET sale == CurrentSale(v, ventas, notas)
      Joined(n) == \E s \in sale : \/ s.op # NULL /\ n.op = s.op
                                   \/ v.note # NULL /\ n.note = v.note
  IN {n \in notas : n.comment # NULL /\ n.vin = v.vin /\ (n \in sale \/ Joined(n))}

(***************************************************************************)
(* The dealer: the buyer's own alias, or what the comments mention, by the *)
(* first kind of mention that finds any dealer at all.                     *)
(***************************************************************************)
DirectDealers(v, ventas, notas) ==
  UNION {AliasedBy[s.buyer] : s \in CurrentSale(v, ventas, notas)}

Mentions(kind, v, ventas, notas) ==
  (UNION {n.comment[kind] : n \in CurrentNotes(v, ventas, notas)}) \ ForumDealers

CommentDealers(v, ventas, notas) ==
  LET rut == Mentions("rut", v, ventas, notas)
      legal == Mentions("legal", v, ventas, notas)
  IN IF rut # {} THEN rut ELSE IF legal # {} THEN legal ELSE Mentions("name", v, ventas, notas)

(***************************************************************************)
(* sale_context, resolution and final_resolution.                          *)
(***************************************************************************)
SaleContext(v, ventas, notas) ==
  LET sale == CurrentSale(v, ventas, notas)
  IN [forum_buyer |-> \E s \in sale : s.buyer = Forum,
      forum_financed |-> \E s \in sale : s.financed,
      branch |-> Only({s.branch : s \in sale}),
      channel |-> Only({ChannelOf[s.branch] : s \in {x \in sale : x.branch # NULL}})]

Resolution(v, ventas, notas) ==
  LET direct == Only(DirectDealers(v, ventas, notas))
      comment == Only(CommentDealers(v, ventas, notas))
  IN [context |-> SaleContext(v, ventas, notas), direct |-> direct, comment |-> comment,
      commentGroup |-> Only({GroupOf[d] : d \in CommentDealers(v, ventas, notas)}),
      conflict |-> direct # NULL /\ comment # NULL /\ direct # comment]

Sold(v) == v.invoice # NULL /\ v.date # NULL
IsDealerBranch(context) == context.channel \in {"DEALER", "DEALER_AGREGADO"}
ThroughForum(context) == context.forum_buyer \/ context.forum_financed

Channel(r) ==
  CASE r.conflict \/ r.direct # NULL \/ r.context.forum_buyer -> "DEALER"
    [] r.context.forum_financed /\ r.comment # NULL -> "DEALER"
    [] OTHER -> IF IsDealerBranch(r.context) THEN "DEALER"
                ELSE IF r.context.channel = "CIDEF" THEN "TIENDA_PROPIA" ELSE NULL

\* Mutant of Dealer: a contradiction between buyer and comment is decided for the buyer.
DealerOfBuyer(r) ==
  IF r.direct # NULL THEN r.direct ELSE IF ThroughForum(r.context) THEN r.comment ELSE NULL

Dealer(r) ==
  IF r.conflict THEN NULL
  ELSE IF r.direct # NULL THEN r.direct
  ELSE IF ThroughForum(r.context) THEN r.comment ELSE NULL

Group(r) ==
  IF r.conflict THEN NULL
  ELSE IF r.direct # NULL THEN GroupOf[r.direct]
  ELSE IF ThroughForum(r.context) THEN r.commentGroup ELSE NULL

Method(r) ==
  CASE r.conflict -> "NO_RESUELTO"
    [] ~r.conflict /\ r.direct # NULL -> "DIRECTO"
    [] OTHER -> IF ThroughForum(r.context) /\ r.comment # NULL THEN "FORUM_COMENTARIO"
                ELSE IF r.context.forum_buyer \/ IsDealerBranch(r.context) THEN "NO_RESUELTO"
                ELSE NULL

\* Mutant of Exit: the branch is kept whatever the channel.
ExitWithBranch(v, ventas, notas) ==
  LET r == Resolution(v, ventas, notas)
  IN [vendido |-> Sold(v), canal |-> Channel(r), sucursal |-> r.context.branch,
      dealer |-> Dealer(r), grupo |-> Group(r), metodo |-> Method(r)]

\* What the UPDATE of refreshVehiculoSalidaV01 writes for the vehicle.
Exit(v, ventas, notas) ==
  LET r == Resolution(v, ventas, notas)
      channel == Channel(r)
      ForDealer(x) == IF channel = "DEALER" THEN x ELSE NULL
  IN [vendido |-> Sold(v), canal |-> channel,
      sucursal |-> IF channel = "TIENDA_PROPIA" THEN r.context.branch ELSE NULL,
      dealer |-> ForDealer(Dealer(r)), grupo |-> ForDealer(Group(r)),
      metodo |-> ForDealer(Method(r))]

Groups == {GroupOf[d] : d \in Dealers}
Exits ==
  [vendido : BOOLEAN, canal : Channels \cup {NULL}, sucursal : Branches \cup {NULL},
   dealer : Dealers \cup {NULL}, grupo : Groups \cup {NULL},
   metodo : Methods \cup {NULL}]
NoExit == [vendido |-> FALSE, canal |-> NULL, sucursal |-> NULL, dealer |-> NULL,
           grupo |-> NULL, metodo |-> NULL]

\* The count of persistedSummary that stops the refresh.
ExitIntegrityFails(exit) ==
  \/ exit.canal = "TIENDA_PROPIA" /\ (exit.sucursal = NULL \/ exit.dealer # NULL)
  \/ exit.canal = "DEALER" /\ exit.sucursal # NULL

\* ensureResolutionStatus.
Status(exit) ==
  CASE ~exit.vendido -> "NOT_APPLICABLE"
    [] exit.vendido /\ exit.canal = "TIENDA_PROPIA" /\ exit.sucursal # NULL /\ exit.dealer = NULL
         -> "RESOLVED"
    [] exit.vendido /\ exit.canal = "DEALER" /\ exit.dealer # NULL /\ exit.sucursal = NULL
         -> "RESOLVED"
    [] OTHER -> "UNRESOLVED"
=============================================================================
