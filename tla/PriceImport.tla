---------------------------- MODULE PriceImport ----------------------------
(***************************************************************************)
(* import-lista-precios.js.  A run stages every record of the price lists, *)
(* then stores them one by one, and forgets the staging; if it fails the   *)
(* staging stays, and a second request resumes the run from it in bulk.    *)
(* Every statement commits on its own and is sent again (neon.js) when its *)
(* answer is lost.                                                         *)
(*                                                                         *)
(* A record of the lists is [key, sheet, from, tuple, fp, valid], and its  *)
(* source (file, sheet, row) its place.  The sheet is not in the key, so   *)
(* the records of one version may be of several.  A fingerprint gives each *)
(* field a value or NULL.                                                  *)
(***************************************************************************)
EXTENDS PriceEpisodes

CONSTANTS
  Imports, Resumes,            \* requests
  ElectricSheets, ElectricKeys, ElectricFuels,  \* those that name an electric vehicle
  StageBatch, VersionBatch, HistoryBatch,
  MaxStaged                    \* bound: rows staged by one run, those staged twice included

ASSUME PriceAssumption ==
  /\ NULL \notin ElectricFuels
  /\ {StageBatch, VersionBatch, HistoryBatch} \subseteq Nat \ {0} /\ MaxStaged \in Nat

Runs == Imports \cup Resumes

VARIABLES
  lists,     \* the records of the price lists
  staging,   \* price_import_staging: the sources staged by each run, in order
  versions,  \* price_versions: [key, sheet, fp, status], in the order of their identifiers
  history,   \* price_history
  pc,        \* the statement each request is about to send
  work       \* what each request carries: run, items left, versions left, keys cached, row found

importVars == <<lists, staging, versions, history, pc, work>>

Ended == {"done", "failed", "blocked", "refused", "rejected"}
Goto(r, next) == pc' = [pc EXCEPT ![r] = next]
Running(r) == pc[r] \notin Ended \cup {"idle"}
Answered(r, again, next) == Goto(r, again) \/ Goto(r, next)

\* The elements of s at these places, in their order.
Nth(places, n) == CHOOSE i \in places : Cardinality({j \in places : j < i}) = n - 1
Those(s, places) == [n \in 1 .. Cardinality(places) |-> s[Nth(places, n)]]

IdOf(key) == CHOOSE i \in DOMAIN versions : versions[i].key = key

Known(key) == \E i \in DOMAIN versions : versions[i].key = key

(***************************************************************************)
(* Fingerprints.                                                           *)
(***************************************************************************)
Fields == {"transmision", "cc", "hp", "combustible", "traccion", "carga_kg", "pasajeros", "euro"}

Conflicts(fp, other) == \E f \in Fields : fp[f] # NULL /\ other[f] # NULL /\ fp[f] # other[f]
Coalesced(fp, other) == [f \in Fields |-> IF fp[f] # NULL THEN fp[f] ELSE other[f]]

\* What an item is comes from its own sheet, name and fuel.
Electric(item) ==
  item.sheet \in ElectricSheets \/ item.key \in ElectricKeys \/ item.fp["combustible"] \in ElectricFuels

RequiredFingerprintFields(item) ==
  IF Electric(item) THEN {"transmision", "hp", "combustible", "traccion", "pasajeros"}
                    ELSE {"transmision", "cc", "hp", "combustible"}

\* Mutant of FingerprintStatus: one required field is enough.
FingerprintOfOne(item) ==
  IF \E f \in RequiredFingerprintFields(item) : item.fp[f] # NULL THEN "complete" ELSE "incomplete"

FingerprintStatus(item) ==
  LET required == RequiredFingerprintFields(item)
      present == {f \in required : item.fp[f] # NULL}
  IN IF present = {} THEN "incomplete" ELSE IF present = required THEN "complete" ELSE "partial"

(***************************************************************************)
(* run.                                                                    *)
(***************************************************************************)
Nothing == [run |-> NULL, items |-> <<>>, fresh |-> <<>>, cache |-> {}, found |-> NULL]

\* normalizePriceRecord: a record without brand, model, version, date or price is left out.
Normalized(sources) == Those(sources, {i \in DOMAIN sources : lists[sources[i]].valid})

Begin(r) ==
  /\ pc[r] = "idle" /\ r \in Imports
  /\ Goto(r, "stage")
  /\ work' = [work EXCEPT ![r] = [Nothing EXCEPT !.run = r, !.items = [n \in DOMAIN lists |-> n]]]
  /\ UNCHANGED <<lists, staging, versions, history>>

First(items, n) == SubSeq(items, 1, IF n < Len(items) THEN n ELSE Len(items))
Rest(items, n) == SubSeq(items, n + 1, Len(items))

\* stageRecords: an INSERT that is sent again stages its rows again.
StageRecords(r) ==
  LET items == work[r].items
      left == Rest(items, StageBatch)
  IN /\ pc[r] = "stage"
     /\ Len(staging[r]) < MaxStaged
     /\ staging' = [staging EXCEPT ![r] = @ \o First(items, StageBatch)]
     /\ \/ UNCHANGED <<pc, work>>
        \/ IF left # <<>>
           THEN work' = [work EXCEPT ![r].items = left] /\ UNCHANGED pc
           ELSE /\ work' = [work EXCEPT ![r].items = Normalized([n \in DOMAIN lists |-> n])]
                /\ Goto(r, "find")
     /\ UNCHANGED <<lists, versions, history>>

Item(r) == Head(work[r].items)
Record(r) == lists[Item(r)]

\* getPriceVersionId: what a run has looked up once it does not look up again.
FindVersion(r) ==
  /\ pc[r] = "find"
  /\ IF work[r].items = <<>>
     THEN Goto(r, "clear") /\ UNCHANGED work
     ELSE IF Record(r).key \in work[r].cache
     THEN Goto(r, "history") /\ UNCHANGED work
     ELSE IF Known(Record(r).key)
     THEN Goto(r, "update") /\ work' = [work EXCEPT ![r].found = versions[IdOf(Record(r).key)].fp]
     ELSE Goto(r, "insert") /\ UNCHANGED work
  /\ UNCHANGED <<lists, staging, versions, history>>

Cached(r) == work' = [work EXCEPT ![r].cache = @ \cup {Record(r).key}, ![r].found = NULL]

\* One that is sent again, or that another run has overtaken, meets the unique key.
InsertVersion(r) ==
  LET record == Record(r)
  IN /\ pc[r] = "insert"
     /\ IF Known(record.key)
        THEN Goto(r, "failed") /\ UNCHANGED <<versions, work>>
        ELSE /\ versions' = Append(versions, [key |-> record.key, sheet |-> record.sheet, fp |-> record.fp,
                                              status |-> FingerprintStatus(record)])
             /\ \/ UNCHANGED <<pc, work>>
                \/ Goto(r, "history") /\ Cached(r)
     /\ UNCHANGED <<lists, staging, history>>

\* The conflict is with the row found before, the values are those of the row now, and the status
\* is that of the record alone.
Updated(old, found, record) ==
  [old EXCEPT !.fp = Coalesced(@, record.fp),
              !.status = IF @ = "conflict" \/ Conflicts(found, record.fp)
                         THEN "conflict" ELSE FingerprintStatus(record)]

UpdateVersion(r) ==
  LET record == Record(r)
  IN /\ pc[r] = "update"
     /\ versions' = [versions EXCEPT ![IdOf(record.key)] = Updated(@, work[r].found, record)]
     /\ \/ UNCHANGED <<pc, work>>
        \/ Goto(r, "history") /\ Cached(r)
     /\ UNCHANGED <<lists, staging, history>>

RowOf(n) == [pv |-> IdOf(lists[n].key), from |-> lists[n].from, tuple |-> lists[n].tuple, src |-> n]

\* Mutant of SameRow: the source is not part of the unique key.
SameDay(h, row) == h.pv = row.pv /\ h.from = row.from

\* price_history_source_uk
SameRow(h, row) == h.pv = row.pv /\ h.from = row.from /\ h.src = row.src

\* ON CONFLICT DO NOTHING.
WithRows(sources) ==
  history \cup {row \in {RowOf(n) : n \in ToSet(sources)} : ~\E h \in history : SameRow(h, row)}

InsertHistory(r) ==
  /\ pc[r] = "history"
  /\ history' = WithRows(<<Item(r)>>)
  /\ \/ UNCHANGED <<pc, work>>
     \/ Goto(r, "find") /\ work' = [work EXCEPT ![r].items = Tail(@)]
  /\ UNCHANGED <<lists, staging, versions>>

ClearStaging(r) ==
  /\ pc[r] = "clear"
  /\ staging' = [staging EXCEPT ![work[r].run] = <<>>]
  /\ Answered(r, "clear", "done")
  /\ UNCHANGED <<lists, versions, history, work>>

(***************************************************************************)
(* run with resume_run_id.                                                 *)
(***************************************************************************)

\* mergeVersionCandidates: of each version the sheet of the first record, the first value of each
\* field, and what is required of the two together.
Merged(items, key) ==
  LET Of == {i \in DOMAIN items : lists[items[i]].key = key}
      Said(f) == {i \in Of : lists[items[i]].fp[f] # NULL}
      Value(i, f) == lists[items[i]].fp[f]
      merged == [key |-> key, sheet |-> lists[items[Min(Of)]].sheet,
                 fp |-> [f \in Fields |-> IF Said(f) = {} THEN NULL ELSE Value(Min(Said(f)), f)]]
  IN [key |-> key, sheet |-> merged.sheet, fp |-> merged.fp,
      status |-> IF \E f \in Fields : \E i, j \in Said(f) : Value(i, f) # Value(j, f)
                 THEN "conflict" ELSE FingerprintStatus(merged)]

FreshVersions(items) ==
  LET New(i) == \A j \in 1 .. (i - 1) : lists[items[j]].key # lists[items[i]].key
      first == Those(items, {i \in DOMAIN items : New(i)})
  IN [n \in DOMAIN first |-> Merged(items, lists[first[n]].key)]

\* A run is resumed when it has failed, its request and its resumption included.
Resume(r, run) ==
  /\ pc[r] = "idle" /\ r \in Resumes /\ pc[run] \in {"failed", "done"}
  /\ IF staging[run] = <<>>
     THEN Goto(r, "failed") /\ UNCHANGED work
     ELSE LET items == Normalized(staging[run])
          IN /\ work' = [work EXCEPT ![r] = [Nothing EXCEPT !.run = run, !.items = items,
                                                            !.fresh = FreshVersions(items)]]
             /\ Goto(r, "upsert")
  /\ UNCHANGED <<lists, staging, versions, history>>

Upserted(old, new) ==
  [key |-> old.key, sheet |-> old.sheet, fp |-> Coalesced(old.fp, new.fp),
   status |-> IF "conflict" \in {old.status, new.status} \/ Conflicts(old.fp, new.fp)
              THEN "conflict" ELSE new.status]

\* The versions once these are written: ON CONFLICT (key) DO UPDATE, and new ones after the others.
WithVersions(fresh) ==
  LET Find(key) == CHOOSE i \in DOMAIN fresh : fresh[i].key = key
      keys == {fresh[i].key : i \in DOMAIN fresh}
  IN [i \in DOMAIN versions |-> IF versions[i].key \in keys
                                THEN Upserted(versions[i], fresh[Find(versions[i].key)])
                                ELSE versions[i]]
     \o Those(fresh, {i \in DOMAIN fresh : ~Known(fresh[i].key)})

UpsertVersions(r) ==
  /\ pc[r] = "upsert"
  /\ IF work[r].fresh = <<>>
     THEN Goto(r, "rows") /\ UNCHANGED <<versions, work>>
     ELSE /\ versions' = WithVersions(First(work[r].fresh, VersionBatch))
          /\ \/ UNCHANGED work
             \/ work' = [work EXCEPT ![r].fresh = Rest(@, VersionBatch)]
          /\ UNCHANGED pc
  /\ UNCHANGED <<lists, staging, history>>

InsertRows(r) ==
  /\ pc[r] = "rows"
  /\ IF work[r].items = <<>>
     THEN Goto(r, "clear") /\ UNCHANGED <<history, work>>
     ELSE /\ history' = WithRows(First(work[r].items, HistoryBatch))
          /\ \/ UNCHANGED work
             \/ work' = [work EXCEPT ![r].items = Rest(@, HistoryBatch)]
          /\ UNCHANGED pc
  /\ UNCHANGED <<lists, staging, versions>>

\* A statement fails three times, or the platform stops the request.
Fail(r) ==
  /\ Running(r)
  /\ Goto(r, "failed")
  /\ work' = [work EXCEPT ![r] = Nothing]
  /\ UNCHANGED <<lists, staging, versions, history>>

Import(r) ==
  \/ Begin(r) \/ StageRecords(r) \/ FindVersion(r) \/ InsertVersion(r) \/ UpdateVersion(r)
  \/ InsertHistory(r) \/ ClearStaging(r) \/ Fail(r)
  \/ \E run \in Imports : Resume(r, run)
  \/ UpsertVersions(r) \/ InsertRows(r)
=============================================================================
