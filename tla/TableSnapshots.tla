--------------------------- MODULE TableSnapshots ---------------------------
(***************************************************************************)
(* The importers of one raw table over lib/neon.js: each request loads a   *)
(* whole file into a staging table of its own, batch by batch, and then    *)
(* puts the staging in the place of the live table or merges it into it.   *)
(*                                                                         *)
(* Every statement is an HTTP request to the database that commits on its  *)
(* own.  It may be done and answered, done with its answer lost, or not    *)
(* done; the process may be stopped between any two of them; nothing keeps *)
(* two imports of one table from overlapping.                              *)
(***************************************************************************)
EXTENDS Naturals, Sequences

CONSTANTS
  Imports,    \* requests that run the importer of the table
  Files,      \* versions of the source spreadsheet
  Vins,       \* what identifies a vehicle
  Contents,   \* the rows of each file in the order of loading, one batch each
  Previous,   \* the file the table was loaded from before
  Strategy,   \* REPLACE (sales and sales notes), DEDUP (vehicles) or MERGE (inventory)
  Overlap,    \* whether an import may begin while another one is running
  NoRow       \* what stands in the place of a table that does not exist

Attempts == 3    \* runWithRetry

\* A physical row: what it says, and the insertion that put it there.
Rows == [vin : Vins, file : Files, batch : Nat, attempt : Nat, by : Imports \cup {"before"}]
Tables == SUBSET Rows
NoTable == {NoRow}

ASSUME TablesAssumption ==
  /\ Previous \in Files
  /\ Contents \in [Files -> Seq(Vins)]
  /\ Strategy \in {"REPLACE", "DEDUP", "MERGE"}
  /\ Overlap \in BOOLEAN
  /\ NoRow \notin Rows

VARIABLES
  live,       \* the table the rest of the system reads
  staging,    \* the staging table of each import
  pc,         \* the statement each import is about to send
  file,       \* the file each import downloaded
  loaded,     \* batches of that file whose insertion was answered
  attempt,    \* failed attempts at the next batch
  missing,    \* the rows an INSERT of the merge found absent when it began
  cut         \* history: imports a fault stopped between their DROP and their
              \* RENAME since the live table was last put in place

progress == <<file, loaded, attempt>>
vars == <<live, staging, pc, progress, missing, cut>>

Running == {"loading", "cleaning", "dropping", "renaming", "updating", "inserting", "writing",
            "closing", "aborting"}
Ended == {"done", "failed", "dead"}

Goto(r, next) == pc' = [pc EXCEPT ![r] = next]
Stage(r, table) == staging' = [staging EXCEPT ![r] = table]
Throw(r) == Goto(r, "aborting")

VinsOf(table) == {row.vin : row \in table}
OneRowEach(table) == \A x, y \in table : x.vin = y.vin => x = y

Row(f, n, k, r) == [vin |-> Contents[f][n], file |-> f, batch |-> n, attempt |-> k, by |-> r]

\* The table that was there before has been through the same importer.
Init ==
  /\ live \in SUBSET {Row(Previous, n, 0, "before") : n \in DOMAIN Contents[Previous]}
  /\ VinsOf(live) = {Contents[Previous][n] : n \in DOMAIN Contents[Previous]}
  /\ IF Strategy = "REPLACE"
     THEN \A n \in DOMAIN Contents[Previous] : Row(Previous, n, 0, "before") \in live
     ELSE OneRowEach(live)
  /\ staging = [r \in Imports |-> NoTable]
  /\ pc = [r \in Imports |-> "ready"]
  /\ file = [r \in Imports |-> Previous]
  /\ loaded = [r \in Imports |-> 0]
  /\ attempt = [r \in Imports |-> 0]
  /\ missing = [r \in Imports |-> {}]
  /\ cut = {}

-----------------------------------------------------------------------------
(* beginTableSnapshot and appendTableRows *)

\* The CREATE TABLE stands before the importer's try: when it fails nothing is dropped.
Begin(r) ==
  /\ pc[r] = "ready"
  /\ Overlap \/ \A s \in Imports : pc[s] \notin Running
  /\ \E f \in Files : file' = [file EXCEPT ![r] = f]
  /\ \/ Stage(r, {}) /\ Goto(r, "loading")
     \/ staging' \in {staging, [staging EXCEPT ![r] = {}]} /\ Goto(r, "failed")
  /\ UNCHANGED <<live, loaded, attempt, missing, cut>>

Remaining(r) == loaded[r] < Len(Contents[file[r]])
Insert(r) ==
  Stage(r, staging[r] \cup {Row(file[r], loaded[r] + 1, attempt[r], r)})

NextBatch(r) ==
  /\ loaded' = [loaded EXCEPT ![r] = @ + 1]
  /\ attempt' = [attempt EXCEPT ![r] = 0]
  /\ UNCHANGED pc

InsertBatch(r) ==
  /\ pc[r] = "loading" /\ Remaining(r)
  /\ Insert(r)
  /\ NextBatch(r)
  /\ UNCHANGED <<live, file, missing, cut>>

Retry(r) ==
  /\ attempt[r] + 1 < Attempts
  /\ attempt' = [attempt EXCEPT ![r] = @ + 1]
  /\ UNCHANGED <<pc, loaded>>

\* Mutant of GiveUp: a batch that failed for the last time is left out.
LeaveOut(r) == attempt[r] + 1 = Attempts /\ NextBatch(r)

GiveUp(r) == attempt[r] + 1 = Attempts /\ Throw(r) /\ UNCHANGED <<loaded, attempt>>

\* The rows of a failed attempt may be inserted all the same.
InsertFails(r) ==
  /\ pc[r] = "loading" /\ Remaining(r)
  /\ Insert(r) \/ UNCHANGED staging
  /\ Retry(r) \/ GiveUp(r)
  /\ UNCHANGED <<live, file, missing, cut>>

Loaded(r) ==
  /\ pc[r] = "loading" /\ ~Remaining(r)
  /\ Goto(r, IF Strategy = "REPLACE" THEN "dropping" ELSE "cleaning")
  /\ UNCHANGED <<live, staging, progress, missing, cut>>

-----------------------------------------------------------------------------
(* cleanVehicleSource and cleanInventoryTable.  No other request knows the *)
(* staging, so all that matters of their statements is whether all of them *)
(* succeed.  Of several rows of one VIN the source's dates keep one.       *)

Deduplications(table) ==
  {kept \in SUBSET table : OneRowEach(kept) /\ VinsOf(kept) = VinsOf(table)}

Clean(r) ==
  /\ pc[r] = "cleaning"
  /\ \E kept \in Deduplications(staging[r]) : Stage(r, kept)
  /\ Goto(r, IF Strategy = "MERGE" THEN "updating" ELSE "dropping")
  /\ UNCHANGED <<live, progress, missing, cut>>

CleanFails(r) ==
  /\ pc[r] = "cleaning"
  /\ Throw(r)
  /\ UNCHANGED <<live, staging, progress, missing, cut>>

-----------------------------------------------------------------------------
(* commitTableSnapshot: two statements, neither retried *)

DropLive(r) ==
  /\ pc[r] = "dropping"
  /\ live' = NoTable
  /\ Goto(r, "renaming")
  /\ UNCHANGED <<staging, progress, missing, cut>>

DropFails(r) ==
  /\ pc[r] = "dropping"
  /\ live' \in {live, NoTable}
  /\ cut' = IF live' = live THEN cut ELSE cut \cup {r}
  /\ Throw(r)
  /\ UNCHANGED <<staging, progress, missing>>

RenameStaging(r) ==
  /\ pc[r] = "renaming" /\ live = NoTable
  /\ live' = staging[r]
  /\ Stage(r, NoTable)
  /\ cut' = {}
  /\ Goto(r, "done") \/ Throw(r)    \* the answer may be lost
  /\ UNCHANGED <<progress, missing>>

\* Another import has put its own table in place.
RenameRefused(r) ==
  /\ pc[r] = "renaming" /\ live # NoTable
  /\ Throw(r)
  /\ UNCHANGED <<live, staging, progress, missing, cut>>

RenameFails(r) ==
  /\ pc[r] = "renaming" /\ live = NoTable
  /\ cut' = cut \cup {r}
  /\ Throw(r)
  /\ UNCHANGED <<live, staging, progress, missing>>

-----------------------------------------------------------------------------
(* mergeInventoryStaging: an UPDATE of the rows whose VIN the staging has, *)
(* and an INSERT of the others, which looks for the absent VINs when it    *)
(* begins and writes when it ends.                                         *)

Merged(table, s, f) ==
  {IF row.vin \in VinsOf(s) THEN [row EXCEPT !.file = f] ELSE row : row \in table}

\* Mutant of Absent: every row of the staging is inserted.
Everything(r) == staging[r]

Absent(r) == {row \in staging[r] : row.vin \notin VinsOf(live)}

UpdateLive(r) ==
  /\ pc[r] = "updating"
  /\ live' = Merged(live, staging[r], file[r])
  /\ Goto(r, "inserting")
  /\ UNCHANGED <<staging, progress, missing, cut>>

InsertReads(r) ==
  /\ pc[r] = "inserting"
  /\ missing' = [missing EXCEPT ![r] = Absent(r)]
  /\ Goto(r, "writing")
  /\ UNCHANGED <<live, staging, progress, cut>>

InsertWrites(r) ==
  /\ pc[r] = "writing"
  /\ live' = live \cup missing[r]
  /\ missing' = [missing EXCEPT ![r] = {}]
  /\ Goto(r, "closing")
  /\ UNCHANGED <<staging, progress, cut>>

MergeFails(r) ==
  /\ \/ pc[r] = "updating" /\ live' \in {live, Merged(live, staging[r], file[r])}
     \/ pc[r] = "writing" /\ live' \in {live, live \cup missing[r]}
  /\ missing' = [missing EXCEPT ![r] = {}]
  /\ Throw(r)
  /\ UNCHANGED <<staging, progress, cut>>

-----------------------------------------------------------------------------
(* abortTableSnapshot drops the staging and swallows its own failure.  The *)
(* merge ends with it too.                                                 *)

\* Mutant of DropStaging: the name of the table is taken for that of its staging.
DropTable(r) == live' = NoTable /\ UNCHANGED staging

DropStaging(r) == staging' \in {staging, [staging EXCEPT ![r] = NoTable]} /\ UNCHANGED live

AbortTableSnapshot(r) ==
  /\ \/ pc[r] = "aborting" /\ Goto(r, "failed")
     \/ pc[r] = "closing" /\ Goto(r, "done")
  /\ DropStaging(r)
  /\ UNCHANGED <<progress, missing, cut>>

\* The process is stopped: by the platform's limit of time, or by a new deployment.
Stop(r) ==
  /\ pc[r] \in Running
  /\ Goto(r, "dead")
  /\ cut' = IF pc[r] = "renaming" /\ live = NoTable THEN cut \cup {r} ELSE cut
  /\ missing' = [missing EXCEPT ![r] = {}]
  /\ UNCHANGED <<live, staging, progress>>

-----------------------------------------------------------------------------
Load(r) == Begin(r) \/ InsertBatch(r) \/ InsertFails(r) \/ Loaded(r) \/ Clean(r) \/ CleanFails(r)
Commit(r) ==
  DropLive(r) \/ DropFails(r) \/ RenameStaging(r) \/ RenameRefused(r) \/ RenameFails(r)
Merge(r) == UpdateLive(r) \/ InsertReads(r) \/ InsertWrites(r) \/ MergeFails(r)

Next == \E r \in Imports : Load(r) \/ Commit(r) \/ Merge(r) \/ AbortTableSnapshot(r) \/ Stop(r)

Spec == Init /\ [][Next]_vars
-----------------------------------------------------------------------------
(* Invariants *)

\* Every variable has its type.
TypeOK ==
  /\ live \in Tables \cup {NoTable}
  /\ staging \in [Imports -> Tables \cup {NoTable}]
  /\ pc \in [Imports -> Running \cup Ended \cup {"ready"}]
  /\ file \in [Imports -> Files]
  /\ loaded \in [Imports -> Nat]
  /\ attempt \in [Imports -> 0..(Attempts - 1)]
  /\ missing \in [Imports -> Tables]
  /\ cut \in SUBSET Imports

VinsIn(f) == {Contents[f][n] : n \in DOMAIN Contents[f]}

\* However imports overlap, fail, retry and stop, the table that is replaced by snapshots never
\* holds a part of a file, or rows of two of them: all its rows come from one file, and every
\* VIN (for sales and sales notes, every row) of that file is there.
LiveIsWhole ==
  Strategy # "MERGE" /\ live # NoTable =>
    \E f \in Files :
      /\ \A row \in live : row.file = f
      /\ VinsOf(live) = VinsIn(f)
      /\ Strategy = "REPLACE" => \A n \in DOMAIN Contents[f] : \E row \in live : row.batch = n

\* No VIN has two rows in the tables of vehicles, where retried insertions are cleaned away, nor
\* in the inventory, where a merge inserts only the VINs it did not find.
VinsUnique == Strategy # "REPLACE" /\ live # NoTable => OneRowEach(live)

\* Overlapping imports alone never leave the system without its table: when the table is
\* missing, an import is about to put its own in place, or a fault stopped one at that point.
OverlapLosesNothing ==
  live = NoTable => cut # {} \/ \E r \in Imports : pc[r] = "renaming"

-----------------------------------------------------------------------------
(* The inductive invariant behind the invariants above.                    *)

\* A staging holds rows of the file its import downloaded, and every batch already answered.
LoadingInv(r) ==
  /\ staging[r] \in Tables /\ loaded[r] <= Len(Contents[file[r]])
  /\ \A row \in staging[r] :
       /\ row.file = file[r] /\ row.batch \in DOMAIN Contents[file[r]]
       /\ row.vin = Contents[file[r]][row.batch]
  /\ \A n \in 1..loaded[r] : \E row \in staging[r] : row.batch = n

\* Once loaded it is whole.
Whole(r) ==
  /\ staging[r] \in Tables
  /\ \A row \in staging[r] : row.file = file[r]
  /\ VinsOf(staging[r]) = VinsIn(file[r])
  /\ Strategy = "REPLACE" =>
       \A n \in DOMAIN Contents[file[r]] : \E row \in staging[r] : row.batch = n

StagingInv(r) ==
  /\ pc[r] = "ready" => loaded[r] = 0
  /\ pc[r] = "loading" => LoadingInv(r)
  /\ pc[r] \in {"cleaning", "dropping", "renaming", "updating", "inserting", "writing"} => Whole(r)
  /\ pc[r] = "cleaning" => Strategy # "REPLACE"
  /\ pc[r] \in {"dropping", "renaming"} => Strategy # "MERGE"
  /\ pc[r] \in {"updating", "inserting", "writing"} => Strategy = "MERGE"
  /\ pc[r] \in {"dropping", "renaming", "updating", "inserting", "writing"} /\ Strategy # "REPLACE" =>
       OneRowEach(staging[r])
  /\ missing[r] # {} => pc[r] = "writing"

\* What a merge is about to insert is still absent, unless imports of it overlap.
MergeInv ==
  Strategy = "MERGE" =>
    /\ live # NoTable
    /\ ~Overlap => \A r \in Imports :
         /\ OneRowEach(missing[r])
         /\ VinsOf(missing[r]) \cap VinsOf(live) = {}

OneAtATime ==
  ~Overlap => \A r, s \in Imports : pc[r] \in Running /\ pc[s] \in Running => r = s

SnapshotsInv ==
  /\ TypeOK
  /\ \A r \in Imports : StagingInv(r)
  /\ LiveIsWhole
  /\ OverlapLosesNothing
  /\ MergeInv
  /\ OneAtATime
  /\ (Strategy = "MERGE" => ~Overlap) => VinsUnique

-----------------------------------------------------------------------------
(* Action properties *)

\* An import that answers with success has every VIN of its file in the table, as that file has
\* it, and a merge forgets no vehicle.
SuccessIsComplete ==
  [][/\ \A r \in Imports : pc[r] # "done" /\ pc'[r] = "done" =>
          \A n \in DOMAIN Contents[file[r]] :
            \E row \in live' : row.vin = Contents[file[r]][n] /\ row.file = file[r]
     /\ Strategy = "MERGE" => VinsOf(live) \subseteq VinsOf(live')]_vars
=============================================================================
