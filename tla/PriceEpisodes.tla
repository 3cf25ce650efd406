--------------------------- MODULE PriceEpisodes ---------------------------
(***************************************************************************)
(* price-episode-canonicalizer-v01.js as functions of what it reads:       *)
(* published prices, the master product each list version stands for, and  *)
(* the vehicles invoiced; and what buildPricingHistory.js makes of a       *)
(* published episode.                                                      *)
(*                                                                         *)
(* A list version is [key, ...] and its identifier its place in a          *)
(* sequence; a row of price_history is [pv, from, tuple, src].  A tuple is *)
(* [price, bonus]: the three prices and the three bonuses, which only      *)
(* matter as equal or not, are one value each.  Dates are numbers.         *)
(***************************************************************************)
EXTENDS Naturals, Sequences, FiniteSets, FiniteSetsExt, SequencesExt

CONSTANTS
  Aliases,      \* resolved VERSION aliases of lista_precios: [key, version]
  Masters,      \* rows of the master: [key, version]
  ExcludedIds,  \* EXCLUDED_PRICE_VERSION_IDS
  NULL

ASSUME MastersAssumption ==
  /\ IsFiniteSet(Aliases) /\ IsFiniteSet(Masters) /\ NULL \notin Int
  /\ \A row \in Aliases \cup Masters : row.version \in Nat

(***************************************************************************)
(* resolvePriceVersions.                                                   *)
(***************************************************************************)
Candidates(rows, key) == {row.version : row \in {x \in rows : x.key = key}}

\* known: the versions read; a row of another one is unresolved by default.
Resolution(known, pv) ==
  LET alias == Candidates(Aliases, known[pv].key)
      master == Candidates(Masters, known[pv].key)
      To(version) == [status |-> "resolved", version |-> version]
      None(status) == [status |-> status, version |-> NULL]
  IN IF pv \notin DOMAIN known THEN None("unresolved")
     ELSE IF pv \in ExcludedIds THEN None("excluded")
     ELSE IF Cardinality(alias) = 1 THEN To(CHOOSE v \in alias : TRUE)
     ELSE IF Cardinality(master) = 1 THEN To(CHOOSE v \in master : TRUE)
     ELSE None("unresolved")

Unresolved(known) == {pv \in DOMAIN known : Resolution(known, pv).status = "unresolved"}

(***************************************************************************)
(* buildStatePoints, of the resolved versions: the only ones with episodes. *)
(***************************************************************************)
EvidenceOf(known, history, version, date) ==
  {row \in history : row.from = date /\ Resolution(known, row.pv).version = version}

\* Mutant of PointAt: of two tuples of one date one is taken.
PointOfAny(known, history, version, date) ==
  LET evidence == EvidenceOf(known, history, version, date)
  IN [version |-> version, from |-> date, pv |-> Min({row.pv : row \in evidence}),
      status |-> "OK", tuple |-> (CHOOSE row \in evidence : TRUE).tuple]

PointAt(known, history, version, date) ==
  LET evidence == EvidenceOf(known, history, version, date)
      tuples == {row.tuple : row \in evidence}
      clean == Cardinality(tuples) = 1
  IN [version |-> version, from |-> date, pv |-> Min({row.pv : row \in evidence}),
      status |-> IF clean THEN "OK" ELSE "SOURCE_CONFLICT",
      tuple |-> IF clean THEN CHOOSE t \in tuples : TRUE ELSE NULL]

Points(known, history) ==
  {PointAt(known, history, Resolution(known, row.pv).version, row.from) :
     row \in {x \in history : Resolution(known, x.pv).status = "resolved"}}

(***************************************************************************)
(* buildPriceEpisodes.                                                     *)
(***************************************************************************)
Before(points, p) == {q \in points : q.version = p.version /\ q.from < p.from}
Latest(points) == CHOOSE p \in points : \A q \in points : q.from <= p.from

\* Mutant of Collapses: equal states collapse across a conflict.
CollapsesAcross(points, p) ==
  LET clean == {q \in Before(points, p) : q.status = "OK"}
  IN clean # {} /\ p.status = "OK" /\ Latest(clean).tuple = p.tuple

\* canCollapse: the point adds nothing to the one before it.
Collapses(points, p) ==
  /\ Before(points, p) # {} /\ p.status = "OK"
  /\ LET q == Latest(Before(points, p)) IN q.status = "OK" /\ q.tuple = p.tuple

\* classifyChange
ChangeOf(previous, tuple) ==
  IF previous = NULL THEN "INITIAL"
  ELSE IF previous = tuple THEN "NO_CHANGE"
  ELSE IF previous.bonus = tuple.bonus THEN "PRECIO"
  ELSE IF previous.price = tuple.price THEN "BONO"
  ELSE "PRECIO_Y_BONO"

EpisodesOf(points) ==
  LET segments == {p \in points : ~Collapses(points, p)}
      Until(p) == LET after == {q.from : q \in {s \in segments : p \in Before(segments, s)}}
                  IN IF after = {} THEN NULL ELSE Min(after) - 1
      Previous(p) == LET clean == {q \in Before(segments, p) : q.status = "OK"}
                     IN IF clean = {} THEN NULL ELSE Latest(clean).tuple
  IN {[version |-> p.version, pv |-> p.pv, from |-> p.from, to |-> Until(p), status |-> p.status,
       tuple |-> p.tuple,
       change |-> IF p.status = "OK" THEN ChangeOf(Previous(p), p.tuple) ELSE "SOURCE_CONFLICT"] :
        p \in segments}

(***************************************************************************)
(* assignVehiclesToEpisodes: a vehicle is [id, version, date].             *)
(***************************************************************************)
InRange(date, e) == date >= e.from /\ (e.to = NULL \/ date <= e.to)
Matches(vehicle, episodes) ==
  {e \in episodes : e.status = "OK" /\ e.version = vehicle.version /\ InRange(vehicle.date, e)}

Ambiguous(vehicles, episodes) == {v \in vehicles : Cardinality(Matches(v, episodes)) > 1}

Assignments(vehicles, episodes) ==
  UNION {{[pv |-> e.pv, from |-> e.from, vehicle |-> v.id, version |-> v.version, date |-> v.date] :
            e \in Matches(v, episodes)} : v \in vehicles \ Ambiguous(vehicles, episodes)}

\* addEpisodeVinAggregates: how many vehicles, and the first and last date.
Aggregate(dates, n) ==
  [count |-> n, first |-> IF dates = {} THEN NULL ELSE Min(dates),
   last |-> IF dates = {} THEN NULL ELSE Max(dates)]

AggregateOf(e, assignments) ==
  LET mine == {a \in assignments : a.version = e.version /\ a.from = e.from}
  IN Aggregate({a.date : a \in mine}, Cardinality(mine))

(***************************************************************************)
(* persistAtomically.  Identifiers start again from one, in the order of   *)
(* the payload; the bridge finds its episode by list version and date.     *)
(***************************************************************************)
InOrder(e, f) == e.version < f.version \/ (e.version = f.version /\ e.from < f.from)
Payload(episodes) ==
  [n \in 1 .. Cardinality(episodes) |->
     CHOOSE e \in episodes : Cardinality({d \in episodes : InOrder(d, e)}) = n - 1]

Persisted(episodes, assignments) ==
  LET rows == Payload(episodes)
      WithVins(e) == [episode |-> e, vins |-> AggregateOf(e, assignments)]
  IN [episodes |-> [i \in DOMAIN rows |-> WithVins(rows[i])],
      bridge |-> UNION {{[episode |-> i, vehicle |-> a.vehicle, version |-> a.version, date |-> a.date] :
                           i \in {j \in DOMAIN rows : /\ rows[j].pv = a.pv /\ rows[j].from = a.from
                                                      /\ rows[j].status = "OK"}} : a \in assignments}]

\* Two ranges with a date in common; NULL is infinity.
RangesOverlap(e, f) == (e.to = NULL \/ f.from <= e.to) /\ (f.to = NULL \/ e.from <= f.to)

VinsOf(table, i) ==
  LET mine == {b \in table.bridge : b.episode = i}
  IN Aggregate({b.date : b \in mine}, Cardinality(mine))

\* What the DO block and the audit after it look for.
Failures(table, expectedConflicts) ==
  LET ids == DOMAIN table.episodes
      E(i) == table.episodes[i].episode
  IN \/ \E i \in ids : E(i).to # NULL /\ E(i).to < E(i).from
     \/ \E i, j \in ids : /\ i < j /\ E(i).version = E(j).version
                          /\ E(i).status = "OK" /\ E(j).status = "OK" /\ RangesOverlap(E(i), E(j))
     \/ \E i, j \in ids : i < j /\ E(i).pv = E(j).pv /\ E(i).from = E(j).from
     \/ Cardinality({i \in ids : E(i).status = "SOURCE_CONFLICT"}) # expectedConflicts
     \/ \E b \in table.bridge : \/ E(b.episode).status = "SOURCE_CONFLICT"
                                \/ ~InRange(b.date, E(b.episode))
                                \/ b.version # E(b.episode).version
     \/ \E b, c \in table.bridge : b # c /\ b.vehicle = c.vehicle
     \/ \E i \in ids : table.episodes[i].vins # VinsOf(table, i)

(***************************************************************************)
(* buildPricingHistory: rows of episodes and rows of the bridge, read      *)
(* apart, of one version.                                                  *)
(***************************************************************************)

Reconciles(table, bridge, i) ==
  LET mine == {b \in bridge : b.episode = i}
  IN /\ table.episodes[i].vins = Aggregate({b.date : b \in mine}, Cardinality(mine))
     /\ table.episodes[i].episode.status = "SOURCE_CONFLICT" => mine = {}
=============================================================================
