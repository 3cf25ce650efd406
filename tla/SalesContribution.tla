-------------------------- MODULE SalesContribution --------------------------
(***************************************************************************)
(* The monthly series of the own stores (ventas_organizational_context)    *)
(* and the engines that explain the change of sales between two months by  *)
(* store, by seller and by model, with what stays unexplained kept apart   *)
(* (store-, seller- and product-change-contribution), and the one that     *)
(* says how few models make most of the sales (product-concentration).     *)
(* Each engine counts again from the series it is given and checks its own *)
(* sums.                                                                   *)
(***************************************************************************)
EXTENDS SalesUniverse

CountBy(events, Key(_)) ==
  [k \in {Key(e) : e \in events} |-> Cardinality({e \in events : Key(e) = k})]
At(counts, key) == IF key \in DOMAIN counts THEN counts[key] ELSE 0
SumOver(keys, Value(_)) == MapThenSumSet(Value, keys)
Change(a, b) == [a |-> a, b |-> b, delta |-> b - a]
SumChange(keys, Of(_)) ==
  Change(SumOver(keys, LAMBDA k : Of(k).a), SumOver(keys, LAMBDA k : Of(k).b))

InStore(event) == event.store.status = "RESUELTA"

\* ----------------------------------------- ventas_organizational_context_v01
OrganizationalSeries(events, window) ==
  LET scoped == {e \in events : window.start <= e.month /\ e.month <= window.end}
      resolved == {e \in scoped : InStore(e)}
  IN [scoped |-> scoped,
      cidef |-> CountBy(scoped, LAMBDA e : e.month),
      stores |-> CountBy(resolved, LAMBDA e : <<e.month, e.store.store>>),
      sellers |-> CountBy({e \in resolved : e.seller.eligible},
                          LAMBDA e : <<e.month, e.store.store, e.seller.person>>),
      attribution |-> CountBy({e \in resolved : e.store.channel = "CIDEF"},
                              LAMBDA e : <<e.month, e.store.store, e.seller.eligibility>>),
      identity |-> CountBy(scoped, LAMBDA e : <<e.month, e.store.status, e.store.channel>>)]

\* Mutant of SellerStatuses: the sellers of another store are left out.
SellerStatusesHere == {"NO_RESUELTA", "AMBIGUA", "RESOLVED_NOT_VENDEDOR_CIDEF"}

SellerStatuses == {"NO_RESUELTA", "AMBIGUA", "RESOLVED_NOT_VENDEDOR_CIDEF",
                   "VENDEDOR_CIDEF_STORE_MISMATCH"}

OrganizationalContext(universe, window) ==
  LET series == OrganizationalSeries(universe.events, window)
      events == series.scoped
  IN [series |-> series, cutoff |-> universe.context.cutoff,
      valid |-> universe.commercialValid,
      reconciles |->
        /\ \A m \in window.start .. window.end :
             At(series.cidef, m) = Cardinality({e \in universe.events : e.month = m})
        /\ Cardinality({e \in events : e.seller.eligibility = "ELIGIBLE_VENDEDOR_CIDEF"})
             + SumOver(SellerStatuses, LAMBDA s :
                 Cardinality({e \in events : e.seller.eligibility = s})) = Cardinality(events)
        /\ Cardinality({e \in events : InStore(e)})
             = SumOver(DOMAIN series.stores, LAMBDA k : series.stores[k])
        /\ \A k \in DOMAIN series.sellers : k[2] # NoId,
      complete |-> \A e \in events : InStore(e),
      keysUnique |-> \A e \in events : e.store.status # "AMBIGUA" /\ e.seller.status # "AMBIGUA"]

\* What the stores of a day add up to, in the daily report over raw stores.
DailyStores(events, month) ==
  LET target == {e \in events : e.month = month}
      resolved == {e \in target : e.store.status \notin {"NO_RESUELTA", "AMBIGUA"}}
      byStore == CountBy(resolved, LAMBDA e : e.store.store)
      byChannel == CountBy(resolved, LAMBDA e : e.store.channel)
  IN [stores |-> byStore,
      cidef |-> Cardinality({e \in resolved : e.store.channel = "CIDEF"}),
      unresolved |-> Cardinality({e \in target : e.store.status = "NO_RESUELTA"}),
      ambiguous |-> Cardinality({e \in target : e.store.status = "AMBIGUA"}),
      reconciles |->
        /\ SumOver(DOMAIN byStore, LAMBDA k : byStore[k])
             + Cardinality({e \in target : e.store.status = "NO_RESUELTA"})
             + Cardinality({e \in target : e.store.status = "AMBIGUA"}) = Cardinality(target)
        /\ SumOver(DOMAIN byChannel, LAMBDA k : byChannel[k])
             = SumOver(DOMAIN byStore, LAMBDA k : byStore[k])]

\* -------------------------------------- ventas_store_change_contribution_v01
\* Stores come from the store series, the residual from the identity series.
StoreChange(organization, periodA, periodB) ==
  LET series == organization.series
      stores == {k[2] : k \in {q \in DOMAIN series.stores : q[1] \in {periodA, periodB}}}
      Of(store) == Change(At(series.stores, <<periodA, store>>),
                          At(series.stores, <<periodB, store>>))
      Status(status) ==
        Change(SumOver({k \in DOMAIN series.identity : k[1] = periodA /\ k[2] = status},
                       LAMBDA k : series.identity[k]),
               SumOver({k \in DOMAIN series.identity : k[1] = periodB /\ k[2] = status},
                       LAMBDA k : series.identity[k]))
      residual == SumChange({"NO_RESUELTA", "AMBIGUA"}, Status)
      total == Change(At(series.cidef, periodA), At(series.cidef, periodB))
      explained == SumChange(stores, Of)
  IN [total |-> total, residual |-> residual, stores |-> [s \in stores |-> Of(s)],
      reconciles |-> /\ total.a = explained.a + residual.a
                     /\ total.b = explained.b + residual.b
                     /\ total.delta = SumOver(stores, LAMBDA s : Of(s).delta) + residual.delta]

\* ------------------------------------- ventas_seller_change_contribution_v01
\* Sellers come from the seller series, the residual of a store from the
\* attribution series, and the store from the engine above.
SellerChange(organization, storeChange, periodA, periodB) ==
  LET series == organization.series
      stores == DOMAIN storeChange.stores
      SellersAt(store) == {k[3] : k \in {q \in DOMAIN series.sellers :
                                           q[2] = store /\ q[1] \in {periodA, periodB}}}
      Of(store, person) == Change(At(series.sellers, <<periodA, store, person>>),
                                  At(series.sellers, <<periodB, store, person>>))
      Residual(store) ==
        SumChange(SellerStatuses, LAMBDA s : Change(At(series.attribution, <<periodA, store, s>>),
                                                    At(series.attribution, <<periodB, store, s>>)))
      Explained(store) == SumChange(SellersAt(store), LAMBDA p : Of(store, p))
      SourceOf(month) == SumOver({k \in DOMAIN series.sellers : k[1] = month},
                                 LAMBDA k : series.sellers[k])
  IN [sellers |-> [s \in stores |-> [p \in SellersAt(s) |-> Of(s, p)]],
      residual |-> [s \in stores |-> Residual(s)],
      reconciles |->
        /\ \A s \in stores :
             /\ storeChange.stores[s].a = Explained(s).a + Residual(s).a
             /\ storeChange.stores[s].b = Explained(s).b + Residual(s).b
             /\ storeChange.stores[s].delta = Explained(s).delta + Residual(s).delta
        /\ SumOver(stores, LAMBDA s : Explained(s).a) = SourceOf(periodA)
        /\ SumOver(stores, LAMBDA s : Explained(s).b) = SourceOf(periodB)]

\* ------------------------------------ ventas_product_change_contribution_v01
ModelUnits(events, model) ==
  Cardinality({e \in events : e.product.status = "RESOLVED" /\ e.product.model = model})
ModelsOf(events) == {e.product.model : e \in {x \in events : x.product.status = "RESOLVED"}}

ProductChange(universe, periodA, periodB) ==
  LET Month(m) == {e \in universe.events : e.month = m}
      models == ModelsOf(Month(periodA)) \cup ModelsOf(Month(periodB))
      Of(model) == Change(ModelUnits(Month(periodA), model), ModelUnits(Month(periodB), model))
      Status(s) == Change(ProductCount(Month(periodA), s), ProductCount(Month(periodB), s))
      residual == SumChange({"UNRESOLVED", "AMBIGUOUS"}, Status)
      total == Change(Cardinality(Month(periodA)), Cardinality(Month(periodB)))
  IN [total |-> total, residual |-> residual, models |-> [m \in models |-> Of(m)],
      reconciles |-> /\ SumChange(models, Of) = Status("RESOLVED")
                     /\ total.delta = SumOver(models, LAMBDA m : Of(m).delta) + residual.delta]

\* Where a row stands among those that pushed sales up, or pulled them down.
Rank(rows, row, Better(_, _)) == 1 + Cardinality({other \in rows : Better(other, row)})
SupportRank(changes, key) ==
  IF changes[key].delta <= 0 THEN 0
  ELSE Rank({k \in DOMAIN changes : changes[k].delta > 0}, key,
            LAMBDA k, l : \/ changes[k].delta > changes[l].delta
                          \/ changes[k].delta = changes[l].delta /\ k < l)
DragRank(changes, key) ==
  IF changes[key].delta >= 0 THEN 0
  ELSE Rank({k \in DOMAIN changes : changes[k].delta < 0}, key,
            LAMBDA k, l : \/ changes[k].delta < changes[l].delta
                          \/ changes[k].delta = changes[l].delta /\ k < l)

\* ------------------------------------------- ventas_product_concentration_v01
\* Models by units, the lower id first on a tie; the shortest head that reaches
\* the threshold.
ParetoModels(events, thresholdPct) ==
  LET models == ModelsOf(events)
      Before(m) == {k \in models : \/ ModelUnits(events, k) > ModelUnits(events, m)
                                   \/ ModelUnits(events, k) = ModelUnits(events, m) /\ k < m}
      UnitsBefore(m) == SumOver(Before(m), LAMBDA k : ModelUnits(events, k))
  IN {m \in models : 100 * UnitsBefore(m) < thresholdPct * ProductCount(events, "RESOLVED")}

Concentration(events, thresholdPct) ==
  LET head == ParetoModels(events, thresholdPct)
      Units(m) == ModelUnits(events, m)
  IN [pareto |-> head, sales |-> SumOver(head, Units),
      resolved |-> ProductCount(events, "RESOLVED"),
      reached |-> 100 * SumOver(head, Units) >= thresholdPct * ProductCount(events, "RESOLVED"),
      reconciles |-> SumOver(ModelsOf(events), Units) = ProductCount(events, "RESOLVED")]

\* -------------------- ventas_product_sales_v01, ventas_product_detail_v01
\* Both answer for one model by certified alias alone.
ProductSales(universe, model, window) ==
  LET period == {e \in universe.events : window.start <= e.month /\ e.month <= window.end}
      Is(status) == {e \in period : e.alias.status = status}
      target == {e \in Is("RESOLVED") : e.alias.model = model}
  IN [units |-> Cardinality(target), monthly |-> CountBy(target, LAMBDA e : e.month),
      detail |-> {e.scoped.sale.id : e \in target},
      resolved |-> Cardinality(Is("RESOLVED")), ambiguous |-> Cardinality(Is("AMBIGUOUS")),
      unresolved |-> Cardinality(period) - Cardinality(Is("RESOLVED"))
                       - Cardinality(Is("AMBIGUOUS"))]
=============================================================================
