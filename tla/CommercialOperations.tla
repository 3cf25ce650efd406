----------------------- MODULE CommercialOperations -----------------------
(***************************************************************************)
(* The motors that keep commercial_operation_master_v01: the imports of    *)
(* Forum and CRM, the canonicalizer of Forum, the bridge from Forum to     *)
(* CRM and the master.  An import goes on to the bridge, the bridge to the *)
(* canonicalizer and the master.  No transaction holds any two statements  *)
(* together: requests overlap, fail and stop between them.                 *)
(***************************************************************************)
EXTENDS OperationIdentity

CONSTANTS
  Requests,     \* requests to the router
  Jobs,         \* what they ask for: [kind, files, refresh]
  FirstForum, FirstCrm, \* the raw tables the requests find
  MaxRunning    \* bound: requests that run at a time

\* The files of a job are in the order they are read: the batches of one Forum
\* workbook, or the CRM exports sorted by name.
Kinds == {"forum", "crm", "canonicalizer", "bridge", "master"}
FilesOf(kind) == UNION {ToSet(j.files) : j \in {x \in Jobs : x.kind = kind}}
Quotes == ({FirstForum[o] : o \in Ops} \ {None})
          \cup UNION {{batch[o] : o \in DOMAIN batch} : batch \in FilesOf("forum")}
CanonicalRows == [rut : {q.rut : q \in Quotes}, day : {q.day : q \in Quotes},
                  store : OwnStores \cup {None}, person : People \cup {None}]

\* An import without files fails and does nothing, so a job of one has files; the versions there
\* are before any request are older than those a request brings.
ASSUME JobsAssumption ==
  /\ \A j \in Jobs :
       /\ j.kind \in Kinds /\ j.refresh \in BOOLEAN
       /\ j.kind \in {"forum", "crm"} => j.files \in Seq(FilesOf(j.kind)) \ {<<>>}
  /\ \A batch \in FilesOf("forum") : DOMAIN batch \subseteq Ops
  /\ \A export \in FilesOf("crm") : DOMAIN export \subseteq Deals
  /\ FirstForum \in [Ops -> Quotes \cup {None}] /\ None \notin Quotes \cup CanonicalRows
  /\ \A v \in FirstCrm : v.deal \in Deals /\ v.stamp \in Int /\ v.stamp <= 0

VARIABLES
  forum,      \* forum_raw: the row of each operation, or None
  crm,        \* CRM_Cidef_raw: every version of every deal
  aliases,    \* the aliases of source forum_raw: of branches and of sellers
  canonical,  \* forum_operacion_canonica_v01, or None
  bridge,     \* forum_crm_vin_bridge_v01, or None
  master,     \* commercial_operation_master_v01: the row of some keys, with its stamp
  clock,      \* the last time a request took as its own
  requests    \* what each request is about to do and what it holds in memory

tables == <<forum, crm, aliases, canonical, bridge, master>>
vars == <<forum, crm, aliases, canonical, bridge, master, clock, requests>>

Idle == [at |-> "idle", job |-> None, files |-> <<>>, todo |-> {}, id |-> 0, stamp |-> 0,
         again |-> FALSE, alone |-> TRUE]
Ended(r) == requests[r].at \in {"done", "failed"}
Running(r) == ~Ended(r) /\ requests[r].at # "idle"

Init ==
  /\ forum = FirstForum /\ crm = FirstCrm
  /\ aliases = [stores |-> {}, sellers |-> {}]
  /\ canonical = [o \in Ops |-> None] /\ bridge = [o \in Ops |-> None]
  /\ master = <<>> /\ clock = 0
  /\ requests = [r \in Requests |-> Idle]

\* r goes on as rec; Writing, it also disturbs whoever is running.
Continues(r, rec) == requests' = [requests EXCEPT ![r] = rec]
Writing(r, rec) ==
  requests' = [q \in Requests |-> IF q = r THEN rec
                                  ELSE IF Running(q) THEN [requests[q] EXCEPT !.alone = FALSE]
                                  ELSE requests[q]]
To(r, next) == [requests[r] EXCEPT !.at = next]
Over(result) == [Idle EXCEPT !.at = result]
\* queryDb sends a statement again when its answer is lost, also if it was carried out.
Answered(r, next) == Writing(r, requests[r]) \/ Writing(r, next)

First(job) == CASE job.kind = "forum" -> "upload"
                [] job.kind = "crm" -> "compare"
                [] job.kind \in {"canonicalizer", "bridge"} -> "stores"
                [] job.kind = "master" -> "stamp"
Begin(r) ==
  /\ requests[r].at = "idle" /\ Cardinality({q \in Requests : Running(q)}) < MaxRunning
  /\ \E job \in Jobs :
       Continues(r, [Idle EXCEPT !.at = First(job), !.job = job, !.files = job.files])
  /\ UNCHANGED <<tables, clock>>

\* The request fails, or the platform stops it.
Fail(r) ==
  /\ Running(r)
  /\ Continues(r, Over("failed"))
  /\ UNCHANGED <<tables, clock>>

(***************************************************************************)
(* Imports.  BEGIN and COMMIT are requests of their own and hold nothing.  *)
(***************************************************************************)
AfterImport(r) == IF requests[r].job.refresh THEN To(r, "stores") ELSE Over("done")

UpsertBatch(r) ==
  /\ requests[r].at = "upload"
  /\ LET batch == Head(requests[r].files)
         rest == Tail(requests[r].files)
     IN /\ forum' = [o \in Ops |-> IF o \in DOMAIN batch THEN batch[o] ELSE forum[o]]
        /\ Writing(r, IF rest = <<>> THEN AfterImport(r) ELSE [requests[r] EXCEPT !.files = rest])
  /\ UNCHANGED <<crm, aliases, canonical, bridge, master, clock>>

\* What an export has of a deal is appended when its latest version differs.
\* Mutant of Changed: any version will do.
ChangedFromAll(file) == {d \in DOMAIN file : \A v \in Versions(crm, d) : v.row # file[d]}
Changed(file) == {d \in DOMAIN file : Latest(crm, d) # file[d]}
NoForum == \A o \in Ops : forum[o] = None
NextExport(r) ==
  IF Tail(requests[r].files) # <<>>
  THEN [requests[r] EXCEPT !.at = "compare", !.files = Tail(requests[r].files), !.todo = {}]
  ELSE IF NoForum THEN Over("done") ELSE [AfterImport(r) EXCEPT !.files = <<>>, !.todo = {}]
CompareExport(r) ==
  /\ requests[r].at = "compare"
  /\ LET changed == Changed(Head(requests[r].files))
     IN /\ clock' = IF changed = {} THEN clock ELSE clock + 1
        /\ Continues(r, IF changed = {} THEN NextExport(r)
                        ELSE [To(r, "append") EXCEPT !.todo = changed, !.stamp = clock'])
  /\ UNCHANGED tables

\* One batch; sent again, it repeats rows that are alike in everything.
AppendVersion(r) ==
  /\ requests[r].at = "append"
  /\ \E d \in requests[r].todo :
       /\ crm' = crm \cup {[deal |-> d, row |-> Head(requests[r].files)[d],
                            stamp |-> requests[r].stamp]}
       /\ Answered(r, IF requests[r].todo = {d} THEN NextExport(r)
                      ELSE [requests[r] EXCEPT !.todo = @ \ {d}])
  /\ UNCHANGED <<forum, aliases, canonical, bridge, master, clock>>

(***************************************************************************)
(* Aliases.  A motor reads the tables and the highest identifier, and then *)
(* inserts what it found one by one under identifiers it counts itself.    *)
(***************************************************************************)
TableOf(at) == IF at = "storeAliases" THEN "stores" ELSE "sellers"
AfterAliases(at) == CASE at = "storeAliases"  -> "sellers"
                      [] at = "sellerAliases" -> "canonical"
                      [] at = "crmAliases"    -> "stores"
Plans(r, at, plan, otherwise) ==
  Continues(r, IF plan = {} THEN To(r, otherwise)
               ELSE [To(r, at) EXCEPT !.todo = plan,
                       !.id = 1 + Max({0} \cup {a.id : a \in aliases[TableOf(at)]})])

SeedStoreAliases(r) ==
  /\ requests[r].at = "stores"
  /\ LET unknown == {o \in Ops : /\ forum[o] # None /\ forum[o].store \in OwnStores
                                 /\ Named(forum[o].store, aliases.stores) = {}}
     IN Plans(r, "storeAliases", {[name |-> forum[o].store, of |-> forum[o].store] : o \in unknown},
              "sellers")
  /\ UNCHANGED <<tables, clock>>

SeedSellerAliases(r) ==
  /\ requests[r].at = "sellers"
  /\ Plans(r, "sellerAliases", BySignature(forum, aliases.stores, aliases.sellers), "canonical")
  /\ UNCHANGED <<tables, clock>>

SeedSellerAliasesFromCrm(r) ==
  /\ requests[r].at = "crmMatches"
  /\ Plans(r, "crmAliases", Agreed(forum, canonical, crm, aliases.sellers), "bridge")
  /\ UNCHANGED <<tables, clock>>

\* A name that is there stays; an identifier that is taken is an error.
InsertAlias(r) ==
  /\ requests[r].at \in {"storeAliases", "sellerAliases", "crmAliases"}
  /\ \E e \in requests[r].todo :
       LET t == TableOf(requests[r].at)
           todo == requests[r].todo \ {e}
           next == [requests[r] EXCEPT !.todo = todo, !.id = IF todo = {} THEN 0 ELSE @ + 1,
                      !.at = IF todo = {} THEN AfterAliases(@) ELSE @,
                      !.again = requests[r].at = "crmAliases" \/ @]
           row == [id |-> requests[r].id, name |-> e.name, of |-> e.of]
       IN IF Named(e.name, aliases[t]) # {} THEN Continues(r, next) /\ UNCHANGED aliases
          ELSE IF \E a \in aliases[t] : a.id = row.id
               THEN Continues(r, Over("failed")) /\ UNCHANGED aliases
               ELSE Answered(r, next) /\ aliases' = [aliases EXCEPT ![t] = @ \cup {row}]
  /\ UNCHANGED <<forum, crm, canonical, bridge, master, clock>>

(***************************************************************************)
(* The tables that are computed.                                           *)
(***************************************************************************)
CanonicalNow(o) ==
  IF forum[o] = None THEN canonical[o] ELSE Canonical(forum[o], aliases.stores, aliases.sellers)
RefreshCanonical(r) ==
  /\ requests[r].at = "canonical"
  /\ canonical' = [o \in Ops |-> CanonicalNow(o)]
  /\ Answered(r, IF requests[r].job.kind = "canonicalizer" THEN Over("done")
                 ELSE To(r, IF requests[r].again THEN "bridge" ELSE "crmMatches"))
  /\ UNCHANGED <<forum, crm, aliases, bridge, master, clock>>

BridgeNow(o) == IF canonical[o] = None THEN bridge[o] ELSE BridgeRow(canonical[o], crm)
RefreshBridge(r) ==
  /\ requests[r].at = "bridge"
  /\ bridge' = [o \in Ops |-> BridgeNow(o)]
  /\ Answered(r, To(r, "stamp"))
  /\ UNCHANGED <<forum, crm, aliases, canonical, master, clock>>

TakeStamp(r) ==
  /\ requests[r].at = "stamp"
  /\ clock' = clock + 1
  /\ Continues(r, [To(r, "upsert") EXCEPT !.stamp = clock'])
  /\ UNCHANGED tables

SourceNow == Source(canonical, bridge, crm, aliases.sellers)
UpsertMaster(r) ==
  /\ requests[r].at = "upsert"
  /\ master' = [k \in DOMAIN SourceNow \cup DOMAIN master |->
                  IF k \in DOMAIN SourceNow
                  THEN [row |-> SourceNow[k], stamp |-> requests[r].stamp] ELSE master[k]]
  /\ Answered(r, To(r, "delete"))
  /\ UNCHANGED <<forum, crm, aliases, canonical, bridge, clock>>

\* Mutant of Older: the rows of the refresh before are kept.
OlderByTwo(stamp) == {k \in DOMAIN master : master[k].stamp < stamp - 1}
Older(stamp) == {k \in DOMAIN master : master[k].stamp < stamp}
DeleteOlder(r) ==
  /\ requests[r].at = "delete"
  /\ master' = [k \in DOMAIN master \ Older(requests[r].stamp) |-> master[k]]
  /\ Answered(r, To(r, "validate"))
  /\ UNCHANGED <<forum, crm, aliases, canonical, bridge, clock>>

Rows == {master[k].row : k \in DOMAIN master}
ValidateMaster(r) ==
  /\ requests[r].at = "validate"
  /\ Continues(r, Over(IF Reconciles(Rows, canonical, crm) THEN "done" ELSE "failed"))
  /\ UNCHANGED <<tables, clock>>

Next ==
  \E r \in Requests :
    \/ Begin(r) \/ Fail(r)
    \/ UpsertBatch(r) \/ CompareExport(r) \/ AppendVersion(r)
    \/ SeedStoreAliases(r) \/ SeedSellerAliases(r) \/ SeedSellerAliasesFromCrm(r)
    \/ InsertAlias(r)
    \/ RefreshCanonical(r) \/ RefreshBridge(r)
    \/ TakeStamp(r) \/ UpsertMaster(r) \/ DeleteOlder(r) \/ ValidateMaster(r)

Spec == Init /\ [][Next]_vars

----------------------------------------------------------------------------
\* A request that succeeds and that no other request wrote beside.
Succeeds(r) == ~Ended(r) /\ requests'[r].at = "done" /\ requests[r].alone
Bridges(job) ==
  job.kind = "bridge" \/ (job.kind \in {"forum", "crm"} /\ job.refresh /\ ~NoForum)
Masters(job) == job.kind = "master" \/ Bridges(job)

CanonicalIsExact == \A o \in Ops : canonical[o] = CanonicalNow(o)
BridgeIsExact == \A o \in Ops : bridge[o] = BridgeNow(o)
MasterIsExact == /\ DOMAIN master = DOMAIN SourceNow
                 /\ \A k \in DOMAIN master : master[k].row = SourceNow[k]

\* The universe counts operations, deals and sales apart and calls its report valid when they
\* add up, for every axis, scope and filter.
Selections == [axis : Axes, own : BOOLEAN, stores : {{}} \cup {{s} : s \in OwnStores},
               persons : {{}} \cup {{p} : p \in People}]
MasterIsReportable == \A sel \in Selections : UniverseIsValid(Rows, sel)

\* Whatever earlier requests left half done, and however often a statement was sent again, a
\* refresh that ran alone and succeeds leaves each table what its sources say: every operation
\* canonical and bridged, a row for each and for each deal left over, no row besides, and the
\* reports made from them valid.
SuccessIsExact ==
  [][\A r \in Requests : Succeeds(r) =>
       LET job == requests[r].job
       IN /\ job.kind = "canonicalizer" \/ Bridges(job) => CanonicalIsExact'
          /\ Bridges(job) => BridgeIsExact'
          /\ Masters(job) => MasterIsExact' /\ MasterIsReportable']_vars

\* A refresh deletes the rows older than its own stamp, also those that a request which started
\* before it has just written; then it does not succeed.  As long as every request that began
\* succeeds, however they cross, an operation that was bridged is in the master.
NothingErasedSilently ==
  (\A r \in Requests : requests[r].at \in {"idle", "done"}) =>
    \A o \in Ops : bridge[o] # None => <<"FORUM", o>> \in DOMAIN master

\* Every import of the CRM reads all exports again, the old ones first, and appends what differs
\* from the latest version: the table goes back and forth, and ends with the last export.
LastExport(files, d) ==
  files[Max({i \in DOMAIN files : d \in DOMAIN files[i]})][d]
LatestIsLastExport ==
  [][\A r \in Requests : Succeeds(r) /\ requests[r].job.kind = "crm" =>
       \A d \in UNION {DOMAIN requests[r].job.files[i] : i \in DOMAIN requests[r].job.files} :
         Latest(crm, d)' = LastExport(requests[r].job.files, d)]_vars
=============================================================================
