----------------------------- MODULE PriceLists -----------------------------
(***************************************************************************)
(* The price lists from their import to their report: import-lista-precios *)
(* writes list versions and price history, priceEpisodeCanonicalizerV01    *)
(* rebuilds the episodes and their vehicles from them, pricingHistoryV01   *)
(* reads both tables.  Nobody reads two tables in one statement.           *)
(***************************************************************************)
EXTENDS PriceImport

CONSTANTS
  Canonicalizers, Reports,  \* requests
  Scenarios,                \* [active, lists, stored, table]: the requests made, the tables before
  Vehicles,                 \* invoiced vehicles with a version: [id, version, date]
  ReportVersion             \* the version the reports are about

Requests == Runs \cup Canonicalizers \cup Reports

\* What some record of the version requires is known of it.
IsKnown(v, records) ==
  \E n \in DOMAIN records :
    /\ records[n].key = v.key
    /\ RequiredFingerprintFields(records[n]) \subseteq {f \in Fields : v.fp[f] # NULL}

\* The tables before: rows of the history are of a version there is, and say a price; no two
\* versions have one key; what completed one is still in the lists, which are all read each time;
\* the dates of an episode's vehicles are in the episode.
StoredIsSound(stored, records) ==
  /\ stored.versions \in Seq(ToSet(stored.versions)) /\ IsFiniteSet(stored.history)
  /\ \A i, j \in DOMAIN stored.versions : stored.versions[i].key = stored.versions[j].key => i = j
  /\ \A v \in ToSet(stored.versions) :
       /\ v = [key |-> v.key, sheet |-> v.sheet, fp |-> v.fp, status |-> v.status]
       /\ v.status = "complete" => IsKnown(v, records)
  /\ \A h \in stored.history : h.pv \in DOMAIN stored.versions /\ h.from \in Nat /\ h.tuple # NULL

TableIsSound(stored) ==
  /\ IsFiniteSet(stored.bridge) /\ \A b \in stored.bridge : b.date \in Nat
  /\ \A i \in DOMAIN stored.episodes :
       LET e == stored.episodes[i].episode
           vins == stored.episodes[i].vins
       IN /\ e.from \in Nat /\ (e.to = NULL \/ e.to \in Int)
          /\ vins.count # 0 => InRange(vins.first, e) /\ InRange(vins.last, e)

ASSUME PricesAssumption ==
  /\ Imports \cap Resumes = {} /\ Runs \cap (Canonicalizers \cup Reports) = {}
  /\ Canonicalizers \cap Reports = {}
  /\ \A s \in Scenarios :
       /\ s.lists \in Seq(ToSet(s.lists))
       /\ \A record \in ToSet(s.lists) : record.from \in Nat /\ record.tuple # NULL
       /\ StoredIsSound(s.stored, s.lists) /\ TableIsSound(s.table)
  /\ IsFiniteSet(Vehicles)
  /\ \A v \in Vehicles : v.date \in Nat /\ \A w \in Vehicles : v.id = w.id => v = w

VARIABLES
  active,
  table,  \* price_episode_canonico_v01 and price_episode_vin_v01
  read,   \* what canonicalizers and reports have read of each table, or Unread
  since,  \* history: price_history when a canonicalization began
  alone   \* history: no other canonicalization has run since it began

vars == <<importVars, active, table, read, since, alone>>
importOnly == <<active, table, read, since, alone>>

CONSTANT Unread
NothingRead == [versions |-> Unread, history |-> Unread, episodes |-> Unread, bridge |-> Unread]
NoTable == [episodes |-> <<>>, bridge |-> {}]

Init ==
  \E s \in Scenarios :
    /\ active = s.active /\ lists = s.lists
    /\ versions = s.stored.versions /\ history = s.stored.history
    /\ staging = [i \in Imports |-> <<>>]
    /\ pc = [r \in Requests |-> "idle"] /\ work = [r \in Runs |-> Nothing]
    /\ table = s.table
    /\ read = [r \in Canonicalizers \cup Reports |-> NothingRead]
    /\ since = [c \in Canonicalizers |-> {}] /\ alone = [c \in Canonicalizers |-> TRUE]

(***************************************************************************)
(* priceEpisodeCanonicalizerV01.  loadInputs sends its queries at once.    *)
(***************************************************************************)
BeginCanonical(c) ==
  /\ pc[c] = "idle"
  /\ Goto(c, "load")
  /\ since' = [since EXCEPT ![c] = history]
  /\ alone' = [d \in Canonicalizers |->
       IF d = c THEN \A e \in Canonicalizers \ {c} : ~Running(e) ELSE alone[d] /\ ~Running(d)]
  /\ UNCHANGED <<lists, staging, versions, history, work, active, table, read>>

Episodes(c) == EpisodesOf(Points(read[c].versions, read[c].history))

LoadVersions(c) ==
  /\ pc[c] = "load" /\ read[c].versions = Unread
  /\ read' = [read EXCEPT ![c].versions = versions]
  /\ UNCHANGED <<importVars, active, table, since, alone>>

LoadHistory(c) ==
  /\ pc[c] = "load" /\ read[c].history = Unread
  /\ read' = [read EXCEPT ![c].history = history]
  /\ UNCHANGED <<importVars, active, table, since, alone>>

Loaded(c) == pc[c] = "load" /\ read[c].versions # Unread /\ read[c].history # Unread

Block(c) ==
  /\ Loaded(c)
  /\ Unresolved(read[c].versions) # {} \/ Ambiguous(Vehicles, Episodes(c)) # {}
  /\ Goto(c, "blocked")
  /\ UNCHANGED <<lists, staging, versions, history, work, importOnly>>

ExpectedConflicts(c) == Cardinality({e \in Episodes(c) : e.status = "SOURCE_CONFLICT"})

\* TRUNCATE, two INSERTs and the checks are one statement: all of it or nothing.
Persist(c) ==
  /\ Loaded(c) \/ pc[c] = "persist"
  /\ Unresolved(read[c].versions) = {} /\ Ambiguous(Vehicles, Episodes(c)) = {}
  /\ LET new == Persisted(Episodes(c), Assignments(Vehicles, Episodes(c)))
     IN IF Failures(new, ExpectedConflicts(c))
        THEN Goto(c, "refused") /\ UNCHANGED table
        ELSE table' = new /\ Answered(c, "persist", "audit")
  /\ UNCHANGED <<lists, staging, versions, history, work, active, read, since, alone>>

\* postAudit: of whatever the tables hold by now.
PostAudit(c) ==
  /\ pc[c] = "audit"
  /\ Goto(c, IF Failures(table, ExpectedConflicts(c)) THEN "rejected" ELSE "done")
  /\ UNCHANGED <<lists, staging, versions, history, work, importOnly>>

(***************************************************************************)
(* pricingHistoryV01: two queries sent at once.                            *)
(***************************************************************************)
ReadEpisodes(p) ==
  /\ pc[p] = "idle" /\ read[p].episodes = Unread
  /\ read' = [read EXCEPT ![p].episodes = table.episodes]
  /\ UNCHANGED <<importVars, active, table, since, alone>>

ReadBridge(p) ==
  /\ pc[p] = "idle" /\ read[p].bridge = Unread
  /\ read' = [read EXCEPT ![p].bridge = {b \in table.bridge : b.version = ReportVersion}]
  /\ UNCHANGED <<importVars, active, table, since, alone>>

Scoped(p) == {i \in DOMAIN read[p].episodes : read[p].episodes[i].episode.version = ReportVersion}

BuildReport(p) ==
  /\ pc[p] = "idle" /\ read[p].episodes # Unread /\ read[p].bridge # Unread
  /\ LET both == [episodes |-> read[p].episodes, bridge |-> read[p].bridge]
     IN Goto(p, IF \A i \in Scoped(p) : Reconciles(both, both.bridge, i) THEN "done" ELSE "failed")
  /\ UNCHANGED <<lists, staging, versions, history, work, importOnly>>

Canonicalize(c) ==
  BeginCanonical(c) \/ LoadVersions(c) \/ LoadHistory(c) \/ Block(c) \/ Persist(c) \/ PostAudit(c)

Report(p) == ReadEpisodes(p) \/ ReadBridge(p) \/ BuildReport(p)

Next ==
  \/ \E r \in active \cap Runs : Import(r) /\ UNCHANGED importOnly
  \/ \E c \in active \cap Canonicalizers : Canonicalize(c)
  \/ \E p \in active \cap Reports : Report(p)

Spec == Init /\ [][Next]_vars
----------------------------------------------------------------------------

(***************************************************************************)
(* The import.                                                             *)
(***************************************************************************)
InHistory(n) ==
  \E h \in history : /\ versions[h.pv].key = lists[n].key /\ h.from = lists[n].from /\ h.src = n

\* Staged rows are only forgotten once the history has them, by whichever of the run and its
\* resumptions, alone or across one another, that is.
StagingIsLoaded ==
  \A i \in Imports : staging'[i] # staging[i] =>
    \A n \in ToSet(staging[i]) \ ToSet(staging'[i]) : lists[n].valid => InHistory(n)

\* What is known of a version is never overwritten, and a conflict never forgotten.
KnownFieldsKept ==
  \A i \in DOMAIN versions :
    /\ versions[i].status = "conflict" => versions'[i].status = "conflict"
    /\ \A f \in Fields : versions[i].fp[f] \in {NULL, versions'[i].fp[f]}

\* A version that is called complete has every field one of its records requires, whoever wrote it
\* last: what an update calls complete by its record alone, and what a resumption does by records it
\* merges.  If its records agree with it on whether it is electric, it has every field its own row
\* requires; if they do not, it may lack those of its sheet.
CompleteIsKnown ==
  \A i \in DOMAIN versions :
    LET v == versions[i]
        agreed == \A n \in DOMAIN lists : lists[n].key = v.key => (Electric(lists[n]) = Electric(v))
    IN v.status = "complete" =>
         /\ IsKnown(v, lists)
         /\ agreed => \A f \in RequiredFingerprintFields(v) : v.fp[f] # NULL

(***************************************************************************)
(* The episodes.                                                           *)
(***************************************************************************)
Evidence(known, rows, version) ==
  {h \in rows : h.pv \in DOMAIN known /\ Resolution(known, h.pv).version = version}

\* The tuples in force on a date: those of the latest date up to it.
InForce(known, rows, version, date) ==
  LET past == {h \in Evidence(known, rows, version) : h.from <= date}
  IN {h.tuple : h \in {x \in past : \A y \in past : y.from <= x.from}}

\* Whatever the history, on every date the one episode of a version says what was in force, and
\* that it is a conflict exactly when more than one thing was; neighbours that are not conflicts
\* differ, as their type of change says.
EpisodesAreInForce ==
  LET episodes == EpisodesOf(Points(versions, history))
      Of(version, date) == {e \in episodes : e.version = version /\ InRange(date, e)}
      dates == {h.from : h \in history} \cup {h.from + 1 : h \in history} \cup {v.date : v \in Vehicles}
  IN \A version \in {m.version : m \in Masters}, date \in dates :
       LET force == InForce(versions, history, version, date)
       IN /\ force = {} => Of(version, date) = {}
          /\ force # {} => \E e \in episodes :
               /\ Of(version, date) = {e}
               /\ (e.status = "OK") = (Cardinality(force) = 1)
               /\ e.status = "OK" => force = {e.tuple}
               /\ e.change \in {"PRECIO", "BONO", "PRECIO_Y_BONO"} =>
                    \E d \in episodes : d.version = version /\ d.status = "OK" /\ d.from < e.from
                                        /\ d.tuple # e.tuple
               /\ e.change = "NO_CHANGE" =>
                    \E d \in episodes : d.version = version /\ d.status # "OK" /\ d.to = e.from - 1

\* Alone, a canonicalization passes its own checks: none of the seven is about what it can write.
OwnChecksPass ==
  \A c \in Canonicalizers : pc[c] # "refused" /\ (pc[c] = "rejected" => ~alone[c])

\* Alone, one that succeeds has published every price there was when it began, even if an import
\* went on beside it.
SuccessIsFresh ==
  [][\A c \in Canonicalizers : pc[c] = "audit" /\ pc'[c] = "done" /\ alone[c] =>
       \A h \in since[c] : LET of == Resolution(versions, h.pv) IN of.status = "resolved" =>
         \E i \in DOMAIN table.episodes : LET e == table.episodes[i].episode IN
           /\ e.version = of.version /\ InRange(h.from, e)
           /\ e.status = "OK" => e.tuple = h.tuple]_vars

\* A report that mixes two publications, whose identifiers both start from one, is refused or
\* counts no vehicle outside the dates of its episode.
ReportedInEpisode ==
  \A p \in Reports : pc[p] = "done" =>
    \A b \in read[p].bridge : b.episode \in Scoped(p) =>
      InRange(b.date, read[p].episodes[b.episode].episode)

\* What is published and reported: episodes that say what was in force, on which the code's own
\* checks agree, and reports that count a vehicle inside its episode.
EpisodesAreSound == EpisodesAreInForce /\ OwnChecksPass /\ ReportedInEpisode

\* What an import has read is neither forgotten before it is stored nor overwritten afterwards.
ImportsLoseNothing == [][StagingIsLoaded /\ KnownFieldsKept]_vars
=============================================================================
