------------------------- MODULE OperationIdentity -------------------------
(***************************************************************************)
(* What one commercial operation is: the names that make a seller, the     *)
(* CRM deal a Forum operation belongs to, the row of the master that joins *)
(* Forum, CRM and sale, and the universe that is counted over those rows.  *)
(* Brand and model follow the consensus of the store and are left out; a   *)
(* name is the sequence of its normalized tokens.                          *)
(***************************************************************************)
EXTENDS Integers, FiniteSetsExt, SequencesExt

CONSTANTS
  Ops,          \* numbers of Forum operations
  Deals,        \* identifiers of CRM deals
  None,         \* a NULL
  People,       \* personas_master
  NameOf,       \* the canonical name of each person
  Works,        \* persona_sucursal of store sellers: [person, store, from, to]
  OwnStores,    \* branches of channel CIDEF that STORE_MAP names
  Window,       \* WINDOW_DAYS
  LinkOf,       \* crm_cidef_venta_link_v01: the VIN of each deal, or None
  StoreOfVin    \* vehiculo_canonico: the branch of sale of each VIN, or None

ASSUME IdentityAssumption ==
  /\ OwnStores \subseteq Nat /\ Window \in Nat
  /\ None \notin Ops \cup Deals \cup People \cup OwnStores
  /\ IsFiniteSet(Ops) /\ IsFiniteSet(Deals)
  /\ DOMAIN NameOf = People /\ DOMAIN LinkOf = Deals

Known(values) == values \ {None}
TheOnly(values) == IF Cardinality(values) = 1 THEN CHOOSE v \in values : TRUE ELSE None
Consensus(values) == TheOnly(Known(values))
Conflict(values) == Cardinality(Known(values)) > 1

(***************************************************************************)
(* Sellers.  aliases holds [id, name, of].                                 *)
(***************************************************************************)
WorksAt(p, store) == \E w \in Works : w.person = p /\ w.store = store
WorksOn(p, store, day) ==
  \E w \in Works : w.person = p /\ w.store = store /\ day \in w.from..w.to
NamesOf(p, aliases) == {NameOf[p]} \cup {a.name : a \in {x \in aliases : x.of = p}}
Named(name, aliases) == {a \in aliases : a.name = name}
AliasOf(name, aliases) == TheOnly({a.of : a \in Named(name, aliases)})

\* The people of a store one of whose names has the very tokens of this one.
SameSignature(name, store, aliases) ==
  {p \in People : WorksAt(p, store) /\ \E n \in NamesOf(p, aliases) : ToSet(n) = ToSet(name)}

\* The people of a store, on a day, one of whose names has all the tokens of this one.
Containing(name, store, day, aliases) ==
  IF Cardinality(ToSet(name)) < 2 THEN {}
  ELSE {p \in People : WorksOn(p, store, day)
                       /\ \E n \in NamesOf(p, aliases) : ToSet(name) \subseteq ToSet(n)}

\* Names in the order of their stores: the first store with one candidate decides.
BySignature(forum, stores, aliases) ==
  LET rows == {o \in Ops : forum[o] # None /\ AliasOf(forum[o].store, stores) # None}
      Deciding(n) == {s \in OwnStores : /\ Cardinality(SameSignature(n, s, aliases)) = 1
                                        /\ \E o \in rows : forum[o].seller = n /\ forum[o].store = s}
  IN {[name |-> n, of |-> TheOnly(SameSignature(n, Min(Deciding(n)), aliases))] :
        n \in {forum[o].seller : o \in {x \in rows : /\ Named(forum[x].seller, aliases) = {}
                                                     /\ Deciding(forum[x].seller) # {}}}}

(***************************************************************************)
(* Forum operations and their CRM deals.  crm holds the versions           *)
(* [deal, row, stamp] of every deal.                                       *)
(***************************************************************************)
Versions(crm, d) == {v \in crm : v.deal = d}
Latest(crm, d) ==
  LET vs == Versions(crm, d)
  IN IF vs = {} THEN None ELSE (CHOOSE v \in vs : \A w \in vs : w.stamp <= v.stamp).row

Canonical(row, stores, sellers) ==
  [rut |-> row.rut, day |-> row.day, store |-> AliasOf(row.store, stores),
   person |-> AliasOf(row.seller, sellers)]

DealsOf(f, crm) ==
  {d \in {v.deal : v \in crm} :
     LET c == Latest(crm, d)
     IN /\ f.rut # None /\ f.store # None
        /\ c.rut = f.rut /\ c.store = f.store
        /\ c.day \in (f.day - Window)..(f.day + Window)}

BridgeRow(f, crm) ==
  LET deals == DealsOf(f, crm)
  IN [deal |-> TheOnly(deals),
      status |-> CASE Cardinality(deals) = 1 -> "MATCHED"
                   [] Cardinality(deals) > 1 -> "AMBIGUOUS"
                   [] OTHER                  -> "UNMATCHED"]

\* An alias the CRM proves: one person by the deals of two operations or more.
Agreed(forum, canonical, crm, aliases) ==
  LET Deal(o) == TheOnly(DealsOf(canonical[o], crm))
      Possible(o) == Containing(Latest(crm, Deal(o)).seller, canonical[o].store,
                                canonical[o].day, aliases)
      proven == {o \in Ops : /\ canonical[o] # None /\ Deal(o) # None
                             /\ Cardinality(Possible(o)) = 1}
      Proving(n) == {o \in proven : forum[o].seller = n}
      Persons(n) == UNION {Possible(o) : o \in Proving(n)}
  IN {[name |-> n, of |-> TheOnly(Persons(n))] :
        n \in {m \in {forum[o].seller : o \in proven} :
                 /\ Named(m, aliases) = {}
                 /\ Cardinality(Persons(m)) = 1 /\ Cardinality(Proving(m)) >= 2}}

(***************************************************************************)
(* The master: a row for each Forum operation and for each deal no         *)
(* operation was matched to.                                               *)
(***************************************************************************)
Keys == ({"FORUM"} \X Ops) \cup ({"CRM"} \X Deals)
NoRow == [rut |-> None, store |-> None, person |-> None, status |-> "UNMATCHED", deal |-> None]

\* The seller of a deal: any alias or canonical name, if they name one person.
SellerOfDeal(name, aliases) ==
  TheOnly({p \in People : name \in NamesOf(p, aliases)})
Operations(bridge, d) == {o \in Ops : bridge[o] # None /\ bridge[o].deal = d}
Matched(bridge) == {d \in Deals : Operations(bridge, d) # {}}

Joined(op, f, b, crm, sellers, count) ==
  LET c == IF b.deal = None THEN NoRow ELSE Latest(crm, b.deal)
      vin == IF b.deal = None THEN None ELSE LinkOf[b.deal]
      stores == {f.store, c.store, IF vin = None THEN None ELSE StoreOfVin[vin]}
      persons == {f.person, IF b.deal = None THEN None ELSE SellerOfDeal(c.seller, sellers)}
      ruts == {f.rut, c.rut}
      clash == \E values \in {ruts, stores, persons} : Conflict(values)
  IN [op |-> op, deal |-> b.deal, vin |-> vin, match |-> b.status,
      stores |-> Known(stores), persons |-> Known(persons),
      store |-> Consensus(stores), person |-> Consensus(persons), rut |-> Consensus(ruts),
      identity |-> CASE count > 1           -> "MANY_FORUM_TO_ONE_CRM"
                     [] count <= 1 /\ clash -> "SOURCE_CONFLICT"
                     [] count = 1 /\ ~clash -> "CONSISTENT"
                     [] count = 0 /\ ~clash -> "SINGLE_SOURCE"]

ForumRow(o, canonical, bridge, crm, sellers) ==
  LET b == IF bridge[o] = None THEN NoRow ELSE bridge[o]
  IN Joined(o, canonical[o], [deal |-> b.deal, status |-> b.status], crm, sellers,
            IF b.deal = None THEN 0 ELSE Cardinality(Operations(bridge, b.deal)))
CrmRow(d, crm, sellers) ==
  Joined(None, NoRow, [deal |-> d, status |-> "NOT_APPLICABLE"], crm, sellers, 0)

Source(canonical, bridge, crm, sellers) ==
  LET forum == {<<"FORUM", o>> : o \in {x \in Ops : canonical[x] # None}}
      alone == {<<"CRM", d>> : d \in {v.deal : v \in crm} \ Matched(bridge)}
  IN [k \in forum \cup alone |->
        IF k[1] = "FORUM" THEN ForumRow(k[2], canonical, bridge, crm, sellers)
        ELSE CrmRow(k[2], crm, sellers)]

\* validateMaster: every operation and every deal is there, and no sale without a deal.
OpsIn(rows) == Known({row.op : row \in rows})
DealsIn(rows) == Known({row.deal : row \in rows})
VinsIn(rows) == Known({row.vin : row \in rows})
\* Mutant of Reconciles: the totals are reported and not required.
ReconcilesRows(rows, canonical, crm) ==
  /\ \A row \in rows : row.match = "AMBIGUOUS" => row.deal = None
  /\ \A row \in rows : row.vin # None => row.deal # None
Reconciles(rows, canonical, crm) ==
  /\ Cardinality(OpsIn(rows)) = Cardinality({o \in Ops : canonical[o] # None})
  /\ Cardinality(DealsIn(rows)) = Cardinality({v.deal : v \in crm})
  /\ \A row \in rows : row.match = "AMBIGUOUS" => row.deal = None
  /\ \A row \in rows : row.vin # None => row.deal # None

(***************************************************************************)
(* commercial_operation_universe_v01 over the rows of the master, for a    *)
(* selection [axis, own, stores, persons] whose period takes every date.   *)
(***************************************************************************)
Axes == {"FORUM_COTIZACION", "CRM_ASSIGNED", "SALE_INVOICE"}
Eligible(rows, sel) ==
  {row \in rows : /\ CASE sel.axis = "FORUM_COTIZACION" -> row.op # None
                       [] sel.axis = "CRM_ASSIGNED"     -> row.deal # None
                       [] sel.axis = "SALE_INVOICE"     -> row.vin # None
                  /\ sel.own => row.store \in OwnStores}
Selected(rows, sel) ==
  {row \in Eligible(rows, sel) : /\ sel.stores # {} => row.store \in sel.stores
                                 /\ sel.persons # {} => row.person \in sel.persons}

WithForum(rows) == {row \in rows : row.op # None}
WithoutForum(rows) == {row \in rows : row.op = None}
WithCrm(rows) == {row \in rows : row.deal # None}
WithoutCrm(rows) == {row \in rows : row.deal = None}

UniverseIsValid(rows, sel) ==
  LET chosen == Selected(rows, sel)
      Statused(s) == Cardinality(OpsIn({row \in chosen : row.match = s}))
  IN /\ Cardinality(OpsIn(WithCrm(chosen))) + Cardinality(OpsIn(WithoutCrm(chosen)))
          = Cardinality(OpsIn(chosen))
     /\ Cardinality(DealsIn(WithForum(chosen))) + Cardinality(DealsIn(WithoutForum(chosen)))
          = Cardinality(DealsIn(chosen))
     /\ Statused("MATCHED") + Statused("AMBIGUOUS") + Statused("UNMATCHED")
          = Cardinality(OpsIn(chosen))
     /\ \A row \in Eligible(rows, sel) :
          /\ Cardinality(row.stores) > 1 => row.store = None
          /\ Cardinality(row.persons) > 1 => row.person = None

=============================================================================
