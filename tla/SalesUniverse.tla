---------------------------- MODULE SalesUniverse ----------------------------
(***************************************************************************)
(* What a recognized sale is attributed to (src/lib/ventas-commercial,     *)
(* ventas-org, product-model-resolution, ventas-product, ventas-universe): *)
(* the channel, store and dealer certified by vehiculo_canonico, the store *)
(* and the person of the operational masters, the seller whose role and    *)
(* assignment held on the day of the sale, and the model of the SKU.       *)
(*                                                                         *)
(*   canonical  VIN -> [channel, store, dealer, model]                     *)
(*   masters    [stores, people, roles, assignments]: store and person     *)
(*              keys with their candidates, roles and assignments with the *)
(*              days they run from and to (NoDay when open) and whether    *)
(*              they are current                                           *)
(*   aliases    [sku, model, version] of certified product aliases         *)
(*   registered VIN -> [models, ambiguous], what RVM says of a vehicle     *)
(* NoId stands for a null identifier.                                      *)
(***************************************************************************)
EXTENDS SalesRecognition

NoId == 0
NoDay == -1

Universes == {"COMPANY", "OWN_STORES", "DEALERS"}

\* ------------------------------------------------- the commercial universe
CanonicalOf(canonical, sale) ==
  IF sale.vin \in DOMAIN canonical THEN canonical[sale.vin]
  ELSE [channel |-> "NONE", store |-> NoId, dealer |-> NoId, model |-> NoId]

Classified(canonical, sale) ==
  CASE CanonicalOf(canonical, sale).channel = "TIENDA_PROPIA" -> "OWN_STORES"
    [] CanonicalOf(canonical, sale).channel = "DEALER" -> "DEALERS"
    [] OTHER -> "UNRESOLVED"

\* A scoped sale belongs to one network only.
Violates(scoped, universe) ==
  \/ universe = "OWN_STORES" /\ scoped.dealer # NoId
  \/ universe = "DEALERS" /\ scoped.certifiedStore # NoId

Scoped(canonical, sale, universe) ==
  [sale |-> sale, universe |-> universe, class |-> Classified(canonical, sale),
   certifiedStore |-> CanonicalOf(canonical, sale).store,
   dealer |-> CanonicalOf(canonical, sale).dealer]

CommercialContext(sales, canonical, universe) ==
  LET included == {s \in sales : universe = "COMPANY" \/ Classified(canonical, s) = universe}
      scoped == {Scoped(canonical, s, universe) : s \in included}
  IN [universe |-> universe, sales |-> scoped,
      recognized |-> Cardinality(sales), included |-> Cardinality(scoped),
      excluded |-> Cardinality(sales \ included),
      unresolved |-> Cardinality({s \in sales : Classified(canonical, s) = "UNRESOLVED"}),
      nullVin |-> Cardinality({s \in sales : s.vin = NoVin}),
      violations |-> {s.sale.vin : s \in {t \in scoped : Violates(t, universe)}}]

\* ------------------------------------------------- stores, people, sellers
\* A key of the masters with one candidate is resolved, with several ambiguous.
Identity(candidates, key) ==
  LET found == {c \in candidates : c.key = key}
  IN CASE found = {} -> "NO_RESUELTA"
       [] Cardinality(found) = 1 -> "RESUELTA"
       [] OTHER -> "AMBIGUA"
TheOnly(candidates, key) == CHOOSE c \in candidates : c.key = key

\* GREATEST and LEAST leave nulls out; the overlap of a role and an assignment.
LaterStart(a, b) == IF a = NoDay THEN b ELSE IF b = NoDay THEN a ELSE IF a > b THEN a ELSE b
EarlierEnd(a, b) == IF a = NoDay THEN b ELSE IF b = NoDay THEN a ELSE IF a < b THEN a ELSE b
StartsBy(from, to) == from = NoDay \/ to = NoDay \/ from <= to

VendedorCidefIntervals(masters) ==
  {[person |-> pair[1].person, store |-> pair[2].store,
    from |-> LaterStart(pair[1].from, pair[2].from),
    to |-> EarlierEnd(pair[1].to, pair[2].to),
    current |-> pair[1].current /\ pair[2].current] :
     pair \in {p \in masters.roles \X masters.assignments :
                 /\ p[1].person = p[2].person
                 /\ \E s \in masters.stores : s.store = p[2].store /\ s.channel = "CIDEF"
                 /\ StartsBy(p[1].from, p[2].to)
                 /\ StartsBy(p[2].from, p[1].to)}}

\* Mutant of IntervalContains: an interval open at both ends holds even when it is not current.
IntervalOpen(interval, day) ==
  /\ interval.from = NoDay \/ interval.from <= day
  /\ interval.to = NoDay \/ day <= interval.to

\* An interval open at both ends is that of today only while it is current.
IntervalContains(interval, day) ==
  /\ interval.from = NoDay \/ interval.from <= day
  /\ interval.to = NoDay \/ day <= interval.to
  /\ interval.current \/ interval.from # NoDay \/ interval.to # NoDay

ActiveAssignments(masters, person, day) ==
  {i \in VendedorCidefIntervals(masters) : i.person = person /\ IntervalContains(i, day)}

StoreOf(event, masters) ==
  LET status == Identity(masters.stores, event.sale.store)
      store == TheOnly(masters.stores, event.sale.store)
  IN CASE event.universe = "OWN_STORES"
            -> [status |-> IF event.certifiedStore = NoId THEN "NO_RESUELTA" ELSE "RESUELTA",
                store |-> event.certifiedStore, channel |-> "CIDEF"]
       [] event.universe = "DEALERS"
            -> [status |-> "NO_APLICA", channel |-> "DEALER",
                store |-> IF status = "RESUELTA" THEN store.store ELSE NoId]
       [] OTHER
            -> [status |-> status,
                store |-> IF status = "RESUELTA" THEN store.store ELSE NoId,
                channel |-> IF status = "RESUELTA" THEN store.channel ELSE "NONE"]

SellerOf(event, store, masters) ==
  LET status == Identity(masters.people, event.sale.seller)
      person == IF status = "RESUELTA"
                THEN TheOnly(masters.people, event.sale.seller).person ELSE NoId
      active == ActiveAssignments(masters, person, event.sale.date)
      eligible == /\ status = "RESUELTA" /\ store.status = "RESUELTA"
                  /\ store.channel = "CIDEF"
                  /\ \E i \in active : i.store = store.store
  IN [status |-> status, person |-> person, eligible |-> eligible,
      eligibility |-> CASE status # "RESUELTA" -> status
                        [] status = "RESUELTA" /\ eligible -> "ELIGIBLE_VENDEDOR_CIDEF"
                        [] status = "RESUELTA" /\ ~eligible /\ active # {}
                             -> "VENDEDOR_CIDEF_STORE_MISMATCH"
                        [] OTHER -> "RESOLVED_NOT_VENDEDOR_CIDEF"]

\* ------------------------------------------------------ the model of an SKU
\* What one vehicle says of its SKU: the canonical model, or RVM's only one.
EffectiveModel(canonical, registered, vin) ==
  LET own == IF vin \in DOMAIN canonical THEN canonical[vin].model ELSE NoId
      rvm == IF vin \in DOMAIN registered THEN registered[vin]
             ELSE [models |-> {}, ambiguous |-> FALSE]
  IN CASE own # NoId -> [model |-> own, ambiguous |-> FALSE]
       [] own = NoId /\ (Cardinality(rvm.models) > 1 \/ rvm.ambiguous)
            -> [model |-> NoId, ambiguous |-> TRUE]
       [] OTHER -> [model |-> IF rvm.models = {} THEN NoId ELSE CHOOSE m \in rvm.models : TRUE,
                    ambiguous |-> FALSE]

\* The evidence is gathered over every row of the table, whatever the cutoff.
SkuEvidence(rows, canonical, registered, sku) ==
  LET mine == {r \in rows : r.sku = sku}
      says == {EffectiveModel(canonical, registered, v) : v \in VinsOf(mine)}
      models == {e.model : e \in says} \ {NoId}
  IN CASE mine = {} -> [status |-> "UNRESOLVED", model |-> NoId]
       [] mine # {} /\ \/ Cardinality({r.brand : r \in mine}) # 1
                       \/ \E e \in says : e.ambiguous
                       \/ Cardinality(models) > 1
            -> [status |-> "AMBIGUOUS", model |-> NoId]
       [] OTHER -> IF models = {} THEN [status |-> "UNRESOLVED", model |-> NoId]
                   ELSE [status |-> "RESOLVED", model |-> CHOOSE m \in models : TRUE]

\* A certified alias settles the SKU before any evidence.
AliasProduct(aliases, sku) ==
  LET mine == {a \in aliases : a.sku = sku}
      models == {a.model : a \in mine}
      versions == {a.version : a \in mine} \ {NoId}
  IN CASE models = {} -> [status |-> "UNRESOLVED", model |-> NoId, version |-> NoId]
       [] Cardinality(models) > 1 -> [status |-> "AMBIGUOUS", model |-> NoId, version |-> NoId]
       [] OTHER -> [status |-> "RESOLVED", model |-> CHOOSE m \in models : TRUE,
                    version |-> IF Cardinality(versions) = 1
                                THEN CHOOSE v \in versions : TRUE ELSE NoId]

SaleModel(aliases, evidence, sku) ==
  IF AliasProduct(aliases, sku).status = "UNRESOLVED" THEN evidence[sku]
  ELSE [status |-> AliasProduct(aliases, sku).status, model |-> AliasProduct(aliases, sku).model]

\* --------------------------------------------------------- ventas_universe_v01
AnalyticalEvent(event, resources) ==
  LET store == StoreOf(event, resources.masters)
      exact == SaleModel(resources.aliases, resources.evidence, event.sale.sku)
      alias == AliasProduct(resources.aliases, event.sale.sku)
  IN [scoped |-> event, month |-> CommercialMonth(event.sale.date), class |-> event.class,
      certifiedStore |-> event.certifiedStore, store |-> store,
      seller |-> SellerOf(event, store, resources.masters),
      product |-> exact, alias |-> alias,
      version |-> IF alias.model # NoId /\ alias.model = exact.model THEN alias.version ELSE NoId]

ProductCount(events, status) == Cardinality({e \in events : e.product.status = status})

VentasUniverse(context, commercial, resources) ==
  LET events == {AnalyticalEvent(s, resources) : s \in commercial.sales}
  IN [universe |-> commercial.universe, context |-> context,
      commercial |-> commercial, events |-> events,
      commercialValid |-> commercial.violations = {},
      reconciles |-> /\ context.ok
                     /\ commercial.included + commercial.excluded = commercial.recognized
                     /\ Cardinality(events) = Cardinality(commercial.sales)
                     /\ ProductCount(events, "RESOLVED") + ProductCount(events, "UNRESOLVED")
                          + ProductCount(events, "AMBIGUOUS") = Cardinality(events)]
=============================================================================
