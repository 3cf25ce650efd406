--------------------------- MODULE ImportProofs ---------------------------
(***************************************************************************)
(* What the imports of tables promise, for any imports, files and contents.*)
(* SnapshotsInv is an inductive invariant of TableSnapshots, RegisterInv   *)
(* of RvmImport; nothing is shared between the two.                        *)
(***************************************************************************)
EXTENDS TableSnapshots, RvmImport, TLAPS, FiniteSetTheorems, SequenceTheorems

(***************************************************************************)
(* Tables that are replaced or merged.                                     *)
(***************************************************************************)
LEMMA NoTableIsNoTable == NoTable \notin Tables
BY TablesAssumption DEF NoTable, Tables

LEMMA FileRow ==
  ASSUME NEW f \in Files, NEW n \in DOMAIN Contents[f], NEW k \in Nat,
         NEW r \in Imports \cup {"before"}
  PROVE  /\ Row(f, n, k, r) \in Rows
         /\ n \in Nat /\ Contents[f][n] \in Vins
BY TablesAssumption DEF Row, Rows

\* Keeping one row of each VIN keeps a whole table whole.
LEMMA KeptIsWhole ==
  ASSUME NEW table \in Tables, NEW kept \in Deduplications(table)
  PROVE  /\ kept \in Tables /\ kept \subseteq table
         /\ OneRowEach(kept) /\ VinsOf(kept) = VinsOf(table)
BY DEF Deduplications, Tables

\* An UPDATE moves rows to another file; their VINs stay.
LEMMA MergedRows ==
  ASSUME NEW table \in Tables, NEW s \in Tables, NEW f \in Files
  PROVE  /\ Merged(table, s, f) \in Tables
         /\ VinsOf(Merged(table, s, f)) = VinsOf(table)
         /\ OneRowEach(table) => OneRowEach(Merged(table, s, f))
<1> DEFINE M(row) == IF row.vin \in VinsOf(s) THEN [row EXCEPT !.file = f] ELSE row
<1>1. Merged(table, s, f) = {M(row) : row \in table}
  BY DEF Merged
<1>2. \A row \in Rows : M(row) \in Rows /\ M(row).vin = row.vin
  BY DEF Rows
<1> HIDE DEF M
<1>3. \A row \in table : M(row) \in Rows /\ M(row).vin = row.vin
  BY <1>2 DEF Tables
<1>4. Merged(table, s, f) \in Tables
  BY <1>1, <1>3 DEF Tables
<1>5. VinsOf(Merged(table, s, f)) = VinsOf(table)
  BY <1>1, <1>3 DEF VinsOf
<1>6. ASSUME OneRowEach(table) PROVE OneRowEach(Merged(table, s, f))
  BY <1>1, <1>3, <1>6 DEF OneRowEach
<1> QED BY <1>4, <1>5, <1>6

LEMMA InitInv == Init => SnapshotsInv
<1> SUFFICES ASSUME Init PROVE SnapshotsInv
  OBVIOUS
<1>1. \A n \in DOMAIN Contents[Previous] :
        /\ Row(Previous, n, 0, "before") \in Rows
        /\ Row(Previous, n, 0, "before").file = Previous
        /\ Row(Previous, n, 0, "before").batch = n
  BY TablesAssumption, FileRow DEF Row
<1>2. live \in Tables /\ \A row \in live : row.file = Previous
  BY <1>1 DEF Init, Tables
<1>3. live # NoTable
  BY <1>2, NoTableIsNoTable
<1>4. TypeOK
  BY <1>2, TablesAssumption DEF Init, TypeOK, Tables, Attempts, Ended
<1>5. \A r \in Imports : StagingInv(r)
  BY DEF Init, StagingInv
<1>6. LiveIsWhole
  <2>1. VinsOf(live) = VinsIn(Previous)
    BY DEF Init, VinsIn
  <2>2. Strategy = "REPLACE" => \A n \in DOMAIN Contents[Previous] : \E row \in live : row.batch = n
    BY <1>1 DEF Init
  <2> QED BY <1>2, <2>1, <2>2, TablesAssumption DEF LiveIsWhole
<1>7. MergeInv
  BY <1>3 DEF Init, MergeInv, OneRowEach, VinsOf
<1>8. OneAtATime
  BY DEF Init, OneAtATime, Running
<1>9. VinsUnique
  BY DEF Init, VinsUnique
<1> QED BY <1>3, <1>4, <1>5, <1>6, <1>7, <1>8, <1>9 DEF SnapshotsInv, OverlapLosesNothing

-----------------------------------------------------------------------------
(* What a step of one import leaves alone.                                 *)

OthersUnchanged(r) ==
  \A s \in Imports \ {r} :
    /\ pc'[s] = pc[s] /\ staging'[s] = staging[s] /\ file'[s] = file[s]
    /\ loaded'[s] = loaded[s] /\ missing'[s] = missing[s]

LEMMA StagingKept ==
  ASSUME SnapshotsInv, NEW r \in Imports, OthersUnchanged(r), StagingInv(r)'
  PROVE  \A s \in Imports : StagingInv(s)'
<1> SUFFICES ASSUME NEW s \in Imports \ {r} PROVE StagingInv(s)'
  OBVIOUS
<1>1. StagingInv(s)
  BY DEF SnapshotsInv
<1>2. /\ pc'[s] = pc[s] /\ staging'[s] = staging[s] /\ file'[s] = file[s]
      /\ loaded'[s] = loaded[s] /\ missing'[s] = missing[s]
  BY DEF OthersUnchanged
<1> QED BY <1>1, <1>2 DEF StagingInv, LoadingInv, Whole

LEMMA ExclusionKept ==
  ASSUME SnapshotsInv, NEW r \in Imports, OthersUnchanged(r), pc'[r] \in Running => pc[r] \in Running
  PROVE  OneAtATime'
BY DEF SnapshotsInv, OneAtATime, OthersUnchanged

\* A step that leaves the live table alone.
LEMMA QuietStep ==
  ASSUME SnapshotsInv, TypeOK', NEW r \in Imports, OthersUnchanged(r), StagingInv(r)',
         live' = live, missing'[r] \in {missing[r], {}},
         OneAtATime',
         cut \subseteq cut', pc[r] = "renaming" /\ live = NoTable => cut' # {}
  PROVE  SnapshotsInv'
<1>1. \A s \in Imports : StagingInv(s)'
  BY StagingKept
<1>3. LiveIsWhole' /\ ((Strategy = "MERGE" => ~Overlap) => VinsUnique')
  BY DEF SnapshotsInv, LiveIsWhole, VinsUnique, OneRowEach
<1>4. OverlapLosesNothing'
  BY DEF SnapshotsInv, OverlapLosesNothing, OthersUnchanged
<1>5. MergeInv'
  <2>1. \A s \in Imports : missing'[s] \in {missing[s], {}}
    BY DEF OthersUnchanged
  <2> QED BY <2>1 DEF SnapshotsInv, MergeInv, OneRowEach, VinsOf
<1> QED BY <1>1, <1>3, <1>4, <1>5 DEF SnapshotsInv

-----------------------------------------------------------------------------
(* Loading and cleaning                                                    *)

LEMMA BeginKeeps ==
  ASSUME SnapshotsInv, NEW r \in Imports, Begin(r)
  PROVE  SnapshotsInv'
<1> USE DEF SnapshotsInv
<1>1. TypeOK'
  <2>1. {} \in Tables
    BY DEF Tables
  <2>2. staging' \in [Imports -> Tables \cup {NoTable}]
    BY <2>1 DEF TypeOK, Begin, Stage
  <2>3. pc' \in [Imports -> Running \cup Ended \cup {"ready"}]
    BY DEF TypeOK, Begin, Goto, Running, Ended
  <2>4. file' \in [Imports -> Files]
    BY DEF TypeOK, Begin
  <2> QED BY <2>2, <2>3, <2>4 DEF TypeOK, Begin
<1>2. OthersUnchanged(r)
  BY DEF OthersUnchanged, Begin, Stage, Goto, TypeOK
<1>3. PICK f \in Files : file' = [file EXCEPT ![r] = f]
  BY DEF Begin
<1>4. missing[r] = {} /\ missing' = missing /\ live' = live /\ cut' = cut
  BY DEF Begin, StagingInv
<1>5. StagingInv(r)'
  <2>1. CASE pc'[r] = "failed"
    BY <1>4, <2>1 DEF StagingInv
  <2>2. CASE pc'[r] = "loading" /\ staging'[r] = {}
    <3>1. {} \in Tables /\ loaded'[r] = 0
      BY DEF Tables, Begin, StagingInv
    <3>2. file'[r] \in Files /\ Len(Contents[file'[r]]) \in Nat
      BY <1>1, TablesAssumption DEF TypeOK
    <3>3. LoadingInv(r)'
      BY <2>2, <3>1, <3>2 DEF LoadingInv
    <3> QED BY <1>4, <2>2, <3>3 DEF StagingInv
  <2> QED BY <2>1, <2>2 DEF Begin, Stage, Goto, TypeOK
<1>6. OneAtATime'
  BY DEF OneAtATime, Begin, Goto, TypeOK
<1>7. pc[r] = "ready"
  BY DEF Begin
<1> QED BY <1>1, <1>2, <1>4, <1>5, <1>6, <1>7, QuietStep

\* The row of the batch being inserted is a row of the file.
LEMMA NextRow ==
  ASSUME TypeOK, NEW r \in Imports, LoadingInv(r), Remaining(r)
  PROVE  LET row == Row(file[r], loaded[r] + 1, attempt[r], r) IN
         /\ row \in Rows /\ row.file = file[r] /\ row.batch = loaded[r] + 1
         /\ loaded[r] + 1 \in DOMAIN Contents[file[r]]
         /\ row.vin = Contents[file[r]][row.batch]
         /\ loaded[r] \in Nat /\ Len(Contents[file[r]]) \in Nat
<1>1. file[r] \in Files /\ loaded[r] \in Nat /\ attempt[r] \in Nat
  BY DEF TypeOK, Attempts
<1>2. Contents[file[r]] \in Seq(Vins)
  BY <1>1, TablesAssumption
<1>3. loaded[r] + 1 \in DOMAIN Contents[file[r]] /\ Len(Contents[file[r]]) \in Nat
  BY <1>1, <1>2 DEF Remaining
<1>4. Row(file[r], loaded[r] + 1, attempt[r], r) \in Rows
  BY <1>1, <1>3, FileRow
<1> QED BY <1>1, <1>3, <1>4 DEF Row

LEMMA InsertBatchKeeps ==
  ASSUME SnapshotsInv, NEW r \in Imports, InsertBatch(r)
  PROVE  SnapshotsInv'
<1> USE DEF SnapshotsInv
<1> DEFINE row == Row(file[r], loaded[r] + 1, attempt[r], r)
<1>1. LoadingInv(r) /\ pc[r] = "loading" /\ missing[r] = {}
  BY DEF InsertBatch, StagingInv
<1>2. /\ row \in Rows /\ row.file = file[r] /\ row.batch = loaded[r] + 1
      /\ loaded[r] + 1 \in DOMAIN Contents[file[r]]
      /\ row.vin = Contents[file[r]][row.batch]
      /\ loaded[r] \in Nat /\ Len(Contents[file[r]]) \in Nat
  BY <1>1, NextRow DEF InsertBatch
<1>3. /\ staging' = [staging EXCEPT ![r] = staging[r] \cup {row}]
      /\ loaded' = [loaded EXCEPT ![r] = loaded[r] + 1]
      /\ attempt' = [attempt EXCEPT ![r] = 0]
      /\ UNCHANGED <<live, pc, file, missing, cut>>
  BY DEF InsertBatch, Insert, Stage, NextBatch
<1> HIDE DEF row
<1>4. staging'[r] = staging[r] \cup {row} /\ loaded'[r] = loaded[r] + 1
  BY <1>3 DEF TypeOK
<1>5. TypeOK'
  <2>1. staging'[r] \in Tables
    BY <1>1, <1>2, <1>4 DEF LoadingInv, Tables
  <2> QED BY <1>2, <1>3, <2>1, <1>4 DEF TypeOK, Attempts
<1>6. OthersUnchanged(r)
  BY <1>3 DEF OthersUnchanged, TypeOK
<1>7. LoadingInv(r)'
  <2>1. \A n \in 1..(loaded[r] + 1) : n \in 1..loaded[r] \/ n = loaded[r] + 1
    BY <1>2
  <2>2. loaded'[r] <= Len(Contents[file[r]])
    BY <1>2, <1>4 DEF Remaining
  <2>3. staging'[r] \in Tables
    BY <1>1, <1>2, <1>4 DEF LoadingInv, Tables
  <2>4. \A x \in staging'[r] :
          /\ x.file = file[r] /\ x.batch \in DOMAIN Contents[file[r]]
          /\ x.vin = Contents[file[r]][x.batch]
    BY <1>1, <1>2, <1>4 DEF LoadingInv
  <2>5. \A n \in 1..loaded'[r] : \E x \in staging'[r] : x.batch = n
    BY <1>1, <1>2, <1>4, <2>1 DEF LoadingInv
  <2> QED BY <1>3, <2>2, <2>3, <2>4, <2>5 DEF LoadingInv
<1>8. StagingInv(r)'
  BY <1>1, <1>3, <1>7 DEF StagingInv
<1>9. OneAtATime'
  BY <1>1, <1>3, <1>6, ExclusionKept
<1> QED BY <1>1, <1>3, <1>5, <1>6, <1>8, <1>9, QuietStep

LEMMA InsertFailsKeeps ==
  ASSUME SnapshotsInv, NEW r \in Imports, InsertFails(r)
  PROVE  SnapshotsInv'
<1> USE DEF SnapshotsInv
<1> DEFINE row == Row(file[r], loaded[r] + 1, attempt[r], r)
<1>1. LoadingInv(r) /\ pc[r] = "loading" /\ missing[r] = {}
  BY DEF InsertFails, StagingInv
<1>2. /\ row \in Rows /\ row.file = file[r]
      /\ row.batch \in DOMAIN Contents[file[r]]
      /\ row.vin = Contents[file[r]][row.batch]
  BY <1>1, NextRow DEF InsertFails
<1>3. /\ staging' \in {staging, [staging EXCEPT ![r] = staging[r] \cup {row}]}
      /\ UNCHANGED <<live, file, loaded, missing, cut>>
  BY DEF InsertFails, Insert, Stage, Retry, GiveUp
<1>4. /\ pc' \in {pc, [pc EXCEPT ![r] = "aborting"]}
      /\ attempt' \in {attempt, [attempt EXCEPT ![r] = attempt[r] + 1]}
      /\ attempt' # attempt => attempt[r] + 1 < Attempts
  BY DEF InsertFails, Retry, GiveUp, Throw, Goto
<1> HIDE DEF row
<1>5. staging'[r] \in {staging[r], staging[r] \cup {row}} /\ pc'[r] \in {"loading", "aborting"}
  BY <1>1, <1>3, <1>4 DEF TypeOK
<1>6. staging'[r] \in Tables
  BY <1>1, <1>2, <1>5 DEF LoadingInv, Tables
<1>7. TypeOK'
  BY <1>3, <1>4, <1>6 DEF TypeOK, Attempts, Running
<1>8. OthersUnchanged(r)
  BY <1>3, <1>4 DEF OthersUnchanged, TypeOK
<1>9. LoadingInv(r)'
  <2>1. \A x \in staging'[r] :
          /\ x.file = file[r] /\ x.batch \in DOMAIN Contents[file[r]]
          /\ x.vin = Contents[file[r]][x.batch]
    BY <1>1, <1>2, <1>5 DEF LoadingInv
  <2>2. \A n \in 1..loaded[r] : \E x \in staging'[r] : x.batch = n
    BY <1>1, <1>5 DEF LoadingInv
  <2> QED BY <1>1, <1>3, <1>6, <2>1, <2>2 DEF LoadingInv
<1>10. StagingInv(r)'
  BY <1>1, <1>3, <1>5, <1>9 DEF StagingInv
<1>11. OneAtATime'
  BY <1>1, <1>8, ExclusionKept DEF Running
<1> QED BY <1>1, <1>3, <1>7, <1>8, <1>10, <1>11, QuietStep

\* A staging with every batch answered is whole.
LEMMA LoadedIsWhole ==
  ASSUME TypeOK, NEW r \in Imports, LoadingInv(r), ~Remaining(r)
  PROVE  Whole(r)
<1>1. Contents[file[r]] \in Seq(Vins) /\ loaded[r] \in Nat
  BY TablesAssumption DEF TypeOK
<1>2. 1..loaded[r] = DOMAIN Contents[file[r]]
  BY <1>1 DEF LoadingInv, Remaining
<1>3. VinsOf(staging[r]) = VinsIn(file[r])
  <2>1. \A row \in staging[r] : row.vin \in VinsIn(file[r])
    BY DEF LoadingInv, VinsIn
  <2>2. \A n \in DOMAIN Contents[file[r]] : \E row \in staging[r] : row.vin = Contents[file[r]][n]
    BY <1>2 DEF LoadingInv
  <2> QED BY <2>1, <2>2 DEF VinsOf, VinsIn
<1> QED BY <1>2, <1>3 DEF LoadingInv, Whole

LEMMA LoadedKeeps ==
  ASSUME SnapshotsInv, NEW r \in Imports, Loaded(r)
  PROVE  SnapshotsInv'
<1> USE DEF SnapshotsInv
<1>1. LoadingInv(r) /\ pc[r] = "loading" /\ missing[r] = {}
  BY DEF Loaded, StagingInv
<1>2. Whole(r)
  BY <1>1, LoadedIsWhole DEF Loaded
<1>3. /\ pc' = [pc EXCEPT ![r] = IF Strategy = "REPLACE" THEN "dropping" ELSE "cleaning"]
      /\ UNCHANGED <<live, staging, file, loaded, attempt, missing, cut>>
  BY DEF Loaded, Goto, progress
<1>4. pc'[r] = IF Strategy = "REPLACE" THEN "dropping" ELSE "cleaning"
  BY <1>3 DEF TypeOK
<1>5. TypeOK'
  BY <1>3 DEF TypeOK, Running
<1>6. OthersUnchanged(r)
  BY <1>3 DEF OthersUnchanged, TypeOK
<1>7. Whole(r)'
  BY <1>2, <1>3 DEF Whole
<1>8. StagingInv(r)'
  BY <1>1, <1>3, <1>4, <1>7 DEF StagingInv
<1>9. OneAtATime'
  BY <1>1, <1>6, ExclusionKept DEF Running
<1> QED BY <1>1, <1>3, <1>5, <1>6, <1>8, <1>9, QuietStep

LEMMA CleanKeeps ==
  ASSUME SnapshotsInv, NEW r \in Imports, Clean(r)
  PROVE  SnapshotsInv'
<1> USE DEF SnapshotsInv
<1>1. pc[r] = "cleaning" /\ Whole(r) /\ missing[r] = {}
  BY DEF Clean, StagingInv
<1>2. PICK kept \in Deduplications(staging[r]) : staging' = [staging EXCEPT ![r] = kept]
  BY DEF Clean, Stage
<1>3. /\ kept \in Tables /\ kept \subseteq staging[r]
      /\ OneRowEach(kept) /\ VinsOf(kept) = VinsOf(staging[r])
  BY <1>1, KeptIsWhole DEF Whole
<1>4. /\ pc' = [pc EXCEPT ![r] = IF Strategy = "MERGE" THEN "updating" ELSE "dropping"]
      /\ UNCHANGED <<live, file, loaded, attempt, missing, cut>>
  BY DEF Clean, Goto, progress
<1>5. staging'[r] = kept /\ pc'[r] = IF Strategy = "MERGE" THEN "updating" ELSE "dropping"
  BY <1>2, <1>4 DEF TypeOK
<1>6. TypeOK'
  BY <1>2, <1>3, <1>4 DEF TypeOK, Running
<1>7. OthersUnchanged(r)
  BY <1>2, <1>4 DEF OthersUnchanged, TypeOK
<1>8. Strategy # "REPLACE"
  BY <1>1 DEF StagingInv
<1>9. Whole(r)'
  BY <1>1, <1>3, <1>4, <1>5, <1>8 DEF Whole, VinsOf, VinsIn
<1>10. StagingInv(r)'
  BY <1>1, <1>3, <1>4, <1>5, <1>9 DEF StagingInv
<1>11. OneAtATime'
  BY <1>1, <1>7, ExclusionKept DEF Running
<1> QED BY <1>1, <1>4, <1>6, <1>7, <1>10, <1>11, QuietStep

-----------------------------------------------------------------------------
(* Failures of the load, aborts and stops, and the rename of an import     *)
(* that comes too late: the live table is left alone.                      *)

\* The import of a step that ends or throws has nothing more to promise.
LEMMA ThrowKeeps ==
  ASSUME SnapshotsInv, TypeOK', NEW r \in Imports, OthersUnchanged(r), live' = live,
         pc[r] \in Running, pc'[r] \in {"aborting", "failed", "done", "dead"}, missing'[r] = {},
         cut \subseteq cut', pc[r] = "renaming" /\ live = NoTable => cut' # {}
  PROVE  SnapshotsInv'
<1>1. StagingInv(r)'
  BY DEF StagingInv
<1>2. OneAtATime'
  BY ExclusionKept
<1> QED BY <1>1, <1>2, QuietStep

LEMMA CleanFailsKeeps ==
  ASSUME SnapshotsInv, NEW r \in Imports, CleanFails(r)
  PROVE  SnapshotsInv'
<1> USE DEF SnapshotsInv, CleanFails, Throw, Goto, progress
<1>1. TypeOK' /\ OthersUnchanged(r) /\ pc'[r] = "aborting"
  BY DEF TypeOK, OthersUnchanged, Running
<1>2. missing'[r] = {} /\ pc[r] \in Running /\ pc[r] # "renaming"
  BY DEF StagingInv, Running
<1> QED BY <1>1, <1>2, ThrowKeeps

LEMMA RenameRefusedKeeps ==
  ASSUME SnapshotsInv, NEW r \in Imports, RenameRefused(r)
  PROVE  SnapshotsInv'
<1> USE DEF SnapshotsInv, RenameRefused, Throw, Goto, progress
<1>1. TypeOK' /\ OthersUnchanged(r) /\ pc'[r] = "aborting"
  BY DEF TypeOK, OthersUnchanged, Running
<1>2. missing'[r] = {} /\ pc[r] \in Running
  BY DEF StagingInv, Running
<1> QED BY <1>1, <1>2, ThrowKeeps

LEMMA RenameFailsKeeps ==
  ASSUME SnapshotsInv, NEW r \in Imports, RenameFails(r)
  PROVE  SnapshotsInv'
<1> USE DEF SnapshotsInv, RenameFails, Throw, Goto, progress
<1>1. TypeOK' /\ OthersUnchanged(r) /\ pc'[r] = "aborting"
  BY DEF TypeOK, OthersUnchanged, Running
<1>2. missing'[r] = {} /\ pc[r] \in Running
  BY DEF StagingInv, Running
<1> QED BY <1>1, <1>2, ThrowKeeps

LEMMA AbortKeeps ==
  ASSUME SnapshotsInv, NEW r \in Imports, AbortTableSnapshot(r)
  PROVE  SnapshotsInv'
<1> USE DEF SnapshotsInv, AbortTableSnapshot, DropStaging, Goto, progress
<1>1. TypeOK' /\ OthersUnchanged(r) /\ pc'[r] \in {"failed", "done"}
  BY DEF TypeOK, OthersUnchanged, Ended
<1>2. missing'[r] = {} /\ pc[r] \in Running /\ pc[r] # "renaming" /\ live' = live
  BY DEF StagingInv, Running
<1> QED BY <1>1, <1>2, ThrowKeeps

LEMMA StopKeeps ==
  ASSUME SnapshotsInv, NEW r \in Imports, Stop(r)
  PROVE  SnapshotsInv'
<1> USE DEF SnapshotsInv, Stop, Goto, progress
<1>1. TypeOK' /\ OthersUnchanged(r) /\ pc'[r] = "dead" /\ missing'[r] = {}
  <2>1. {} \in Tables
    BY DEF Tables
  <2> QED BY <2>1 DEF TypeOK, OthersUnchanged, Ended
<1> QED BY <1>1, ThrowKeeps

-----------------------------------------------------------------------------
(* The commit                                                              *)

LEMMA DropLiveKeeps ==
  ASSUME SnapshotsInv, NEW r \in Imports, DropLive(r)
  PROVE  SnapshotsInv'
<1> USE DEF SnapshotsInv
<1>1. /\ pc[r] = "dropping" /\ Strategy # "MERGE" /\ missing[r] = {}
      /\ Whole(r) /\ (Strategy # "REPLACE" => OneRowEach(staging[r]))
  BY DEF DropLive, StagingInv
<1>2. /\ live' = NoTable /\ pc' = [pc EXCEPT ![r] = "renaming"]
      /\ UNCHANGED <<staging, file, loaded, attempt, missing, cut>>
  BY DEF DropLive, Goto, progress
<1>3. pc'[r] = "renaming"
  BY <1>2 DEF TypeOK
<1>4. TypeOK' /\ OthersUnchanged(r)
  BY <1>2 DEF TypeOK, OthersUnchanged, Running
<1>5. StagingInv(r)'
  BY <1>1, <1>2, <1>3 DEF StagingInv, Whole
<1>6. \A s \in Imports : StagingInv(s)'
  BY <1>4, <1>5, StagingKept
<1>7. OneAtATime'
  BY <1>1, <1>4, ExclusionKept DEF Running
<1>8. LiveIsWhole' /\ VinsUnique' /\ OverlapLosesNothing' /\ MergeInv'
  BY <1>1, <1>2, <1>3 DEF LiveIsWhole, VinsUnique, OverlapLosesNothing, MergeInv
<1> QED BY <1>4, <1>6, <1>7, <1>8

LEMMA DropFailsKeeps ==
  ASSUME SnapshotsInv, NEW r \in Imports, DropFails(r)
  PROVE  SnapshotsInv'
<1> USE DEF SnapshotsInv
<1>1. pc[r] = "dropping" /\ Strategy # "MERGE" /\ missing[r] = {}
  BY DEF DropFails, StagingInv
<1>2. /\ live' \in {live, NoTable} /\ pc' = [pc EXCEPT ![r] = "aborting"]
      /\ cut' = IF live' = live THEN cut ELSE cut \cup {r}
      /\ UNCHANGED <<staging, file, loaded, attempt, missing>>
  BY DEF DropFails, Throw, Goto, progress
<1>3. TypeOK' /\ OthersUnchanged(r) /\ pc'[r] = "aborting" /\ missing'[r] = {}
  BY <1>1, <1>2 DEF TypeOK, OthersUnchanged, Running
<1>4. CASE live' = live
  BY <1>1, <1>2, <1>3, <1>4, ThrowKeeps DEF Running
<1>5. CASE live' = NoTable /\ cut' = cut \cup {r}
  <2>1. \A s \in Imports : StagingInv(s)'
    <3>1. StagingInv(r)'
      BY <1>3 DEF StagingInv
    <3> QED BY <1>3, <3>1, StagingKept
  <2>2. OneAtATime'
    BY <1>1, <1>3, ExclusionKept DEF Running
  <2>3. LiveIsWhole' /\ VinsUnique' /\ OverlapLosesNothing' /\ MergeInv'
    BY <1>1, <1>5 DEF LiveIsWhole, VinsUnique, OverlapLosesNothing, MergeInv
  <2> QED BY <1>3, <2>1, <2>2, <2>3
<1> QED BY <1>2, <1>4, <1>5

LEMMA RenameStagingKeeps ==
  ASSUME SnapshotsInv, NEW r \in Imports, RenameStaging(r)
  PROVE  SnapshotsInv'
<1> USE DEF SnapshotsInv
<1>1. /\ pc[r] = "renaming" /\ Strategy # "MERGE" /\ missing[r] = {}
      /\ Whole(r) /\ (Strategy # "REPLACE" => OneRowEach(staging[r]))
  BY DEF RenameStaging, StagingInv
<1>2. /\ live' = staging[r] /\ staging' = [staging EXCEPT ![r] = NoTable] /\ cut' = {}
      /\ pc' \in {[pc EXCEPT ![r] = "done"], [pc EXCEPT ![r] = "aborting"]}
      /\ UNCHANGED <<file, loaded, attempt, missing>>
  BY DEF RenameStaging, Stage, Throw, Goto, progress
<1>3. staging[r] \in Tables /\ staging[r] # NoTable
  BY <1>1, NoTableIsNoTable DEF Whole
<1>4. pc'[r] \in {"done", "aborting"}
  BY <1>2 DEF TypeOK
<1>5. TypeOK' /\ OthersUnchanged(r)
  BY <1>2, <1>3 DEF TypeOK, OthersUnchanged, Running, Ended
<1>6. StagingInv(r)'
  BY <1>1, <1>2, <1>4 DEF StagingInv
<1>7. \A s \in Imports : StagingInv(s)'
  BY <1>5, <1>6, StagingKept
<1>8. OneAtATime'
  BY <1>1, <1>5, ExclusionKept DEF Running
<1>9. LiveIsWhole'
  BY <1>1, <1>2 DEF LiveIsWhole, Whole, TypeOK
<1>10. VinsUnique' /\ OverlapLosesNothing' /\ MergeInv'
  BY <1>1, <1>2, <1>3 DEF VinsUnique, OverlapLosesNothing, MergeInv, OneRowEach
<1> QED BY <1>5, <1>7, <1>8, <1>9, <1>10

-----------------------------------------------------------------------------
(* The merge                                                               *)

\* The two ways in which a merge changes the live table keep VINs unique, and what other
\* merges are about to insert absent, when merges do not overlap.
LEMMA MergeStep ==
  ASSUME SnapshotsInv, TypeOK', NEW r \in Imports, OthersUnchanged(r), StagingInv(r)',
         Strategy = "MERGE", pc[r] \in Running, cut' = cut,
         live' \in Tables,
         ~Overlap /\ OneRowEach(live) => OneRowEach(live'),
         ~Overlap => OneRowEach(missing'[r]) /\ VinsOf(missing'[r]) \cap VinsOf(live') = {}
  PROVE  SnapshotsInv'
<1> USE DEF SnapshotsInv
<1>1. \A s \in Imports : StagingInv(s)'
  BY StagingKept
<1>2. OneAtATime'
  BY ExclusionKept
<1>3. live # NoTable /\ live' # NoTable
  BY NoTableIsNoTable DEF MergeInv
<1>4. LiveIsWhole' /\ OverlapLosesNothing'
  BY <1>3 DEF LiveIsWhole, OverlapLosesNothing
<1>5. MergeInv'
  <2>1. ASSUME ~Overlap, NEW s \in Imports \ {r} PROVE missing'[s] = {}
    <3>1. pc[s] \notin Running
      BY <2>1 DEF OneAtATime
    <3>2. pc[s] # "writing"
      BY <3>1 DEF Running
    <3> QED BY <3>2 DEF StagingInv, OthersUnchanged
  <2> QED BY <1>3, <2>1 DEF MergeInv, OneRowEach, VinsOf
<1>6. (Strategy = "MERGE" => ~Overlap) => VinsUnique'
  BY <1>3 DEF VinsUnique, OneRowEach
<1> QED BY <1>1, <1>2, <1>4, <1>5, <1>6

LEMMA MergeTables ==
  ASSUME SnapshotsInv, NEW r \in Imports, pc[r] \in {"updating", "inserting", "writing"}
  PROVE  /\ Strategy = "MERGE" /\ pc[r] \in Running
         /\ live \in Tables /\ staging[r] \in Tables
         /\ LET table == Merged(live, staging[r], file[r]) IN
            /\ table \in Tables /\ VinsOf(table) = VinsOf(live)
            /\ OneRowEach(live) => OneRowEach(table)
         /\ live \cup missing[r] \in Tables
<1> USE DEF SnapshotsInv
<1>1. Strategy = "MERGE" /\ pc[r] \in Running /\ staging[r] \in Tables
  BY DEF StagingInv, Whole, Running
<1>2. live \in Tables /\ missing[r] \in Tables /\ file[r] \in Files
  BY <1>1 DEF MergeInv, TypeOK
<1> QED BY <1>1, <1>2, MergedRows DEF Tables

\* The rows absent from the table can be inserted without repeating a VIN.
LEMMA InsertedRows ==
  ASSUME NEW table, NEW rows, OneRowEach(table), OneRowEach(rows),
         VinsOf(rows) \cap VinsOf(table) = {}
  PROVE  OneRowEach(table \cup rows)
BY DEF OneRowEach, VinsOf

LEMMA UpdateLiveKeeps ==
  ASSUME SnapshotsInv, NEW r \in Imports, UpdateLive(r)
  PROVE  SnapshotsInv'
<1> USE DEF SnapshotsInv
<1>1. /\ pc[r] = "updating"
      /\ live' = Merged(live, staging[r], file[r]) /\ pc' = [pc EXCEPT ![r] = "inserting"]
      /\ UNCHANGED <<staging, file, loaded, attempt, missing, cut>>
  BY DEF UpdateLive, Goto, progress
<1>2. /\ Strategy = "MERGE" /\ pc[r] \in Running
      /\ live' \in Tables /\ VinsOf(live') = VinsOf(live)
      /\ OneRowEach(live) => OneRowEach(live')
  BY <1>1, MergeTables
<1>3. TypeOK' /\ OthersUnchanged(r) /\ pc'[r] = "inserting"
  BY <1>1, <1>2 DEF TypeOK, OthersUnchanged, Running
<1>4. StagingInv(r) /\ missing'[r] = {}
  BY <1>1 DEF StagingInv
<1>5. StagingInv(r)'
  BY <1>1, <1>3, <1>4 DEF StagingInv, Whole
<1>6. OneRowEach(missing'[r]) /\ VinsOf(missing'[r]) \cap VinsOf(live') = {}
  BY <1>4 DEF OneRowEach, VinsOf
<1> QED BY <1>1, <1>2, <1>3, <1>5, <1>6, MergeStep

LEMMA InsertReadsKeeps ==
  ASSUME SnapshotsInv, NEW r \in Imports, InsertReads(r)
  PROVE  SnapshotsInv'
<1> USE DEF SnapshotsInv
<1>1. /\ pc[r] = "inserting"
      /\ missing' = [missing EXCEPT ![r] = Absent(r)] /\ pc' = [pc EXCEPT ![r] = "writing"]
      /\ UNCHANGED <<live, staging, file, loaded, attempt, cut>>
  BY DEF InsertReads, Goto, progress
<1>2. Strategy = "MERGE" /\ pc[r] \in Running /\ live' \in Tables /\ staging[r] \in Tables
  BY <1>1, MergeTables
<1>3. StagingInv(r) /\ OneRowEach(staging[r])
  BY <1>1, <1>2 DEF StagingInv
<1>4. Absent(r) \in Tables /\ OneRowEach(Absent(r)) /\ VinsOf(Absent(r)) \cap VinsOf(live) = {}
  BY <1>2, <1>3 DEF Absent, Tables, OneRowEach, VinsOf
<1>5. TypeOK' /\ OthersUnchanged(r) /\ pc'[r] = "writing" /\ missing'[r] = Absent(r)
  BY <1>1, <1>4 DEF TypeOK, OthersUnchanged, Running
<1>6. StagingInv(r)'
  BY <1>1, <1>3, <1>5 DEF StagingInv, Whole
<1> QED BY <1>1, <1>2, <1>4, <1>5, <1>6, MergeStep

LEMMA InsertWritesKeeps ==
  ASSUME SnapshotsInv, NEW r \in Imports, InsertWrites(r)
  PROVE  SnapshotsInv'
<1> USE DEF SnapshotsInv
<1>1. /\ pc[r] = "writing" /\ live' = live \cup missing[r]
      /\ missing' = [missing EXCEPT ![r] = {}] /\ pc' = [pc EXCEPT ![r] = "closing"]
      /\ UNCHANGED <<staging, file, loaded, attempt, cut>>
  BY DEF InsertWrites, Goto, progress
<1>2. Strategy = "MERGE" /\ pc[r] \in Running /\ live' \in Tables
  BY <1>1, MergeTables
<1>3. TypeOK' /\ OthersUnchanged(r) /\ pc'[r] = "closing" /\ missing'[r] = {}
  <2>1. {} \in Tables
    BY DEF Tables
  <2> QED BY <1>1, <1>2, <2>1 DEF TypeOK, OthersUnchanged, Running
<1>4. ~Overlap /\ OneRowEach(live) => OneRowEach(live')
  BY <1>1, <1>2, InsertedRows DEF MergeInv
<1>5. StagingInv(r)' /\ OneRowEach(missing'[r]) /\ VinsOf(missing'[r]) \cap VinsOf(live') = {}
  BY <1>3 DEF StagingInv, OneRowEach, VinsOf
<1> QED BY <1>1, <1>2, <1>3, <1>4, <1>5, MergeStep

LEMMA MergeFailsKeeps ==
  ASSUME SnapshotsInv, NEW r \in Imports, MergeFails(r)
  PROVE  SnapshotsInv'
<1> USE DEF SnapshotsInv
<1>1. /\ \/ pc[r] = "updating" /\ live' \in {live, Merged(live, staging[r], file[r])}
         \/ pc[r] = "writing" /\ live' \in {live, live \cup missing[r]}
      /\ missing' = [missing EXCEPT ![r] = {}] /\ pc' = [pc EXCEPT ![r] = "aborting"]
      /\ UNCHANGED <<staging, file, loaded, attempt, cut>>
  BY DEF MergeFails, Throw, Goto, progress
<1>2. Strategy = "MERGE" /\ pc[r] \in Running /\ live' \in Tables
  BY <1>1, MergeTables
<1>3. TypeOK' /\ OthersUnchanged(r) /\ pc'[r] = "aborting" /\ missing'[r] = {}
  <2>1. {} \in Tables
    BY DEF Tables
  <2> QED BY <1>1, <1>2, <2>1 DEF TypeOK, OthersUnchanged, Running
<1>4. ~Overlap /\ OneRowEach(live) => OneRowEach(live')
  <2>1. CASE live' = live
    BY <2>1
  <2>2. CASE pc[r] = "updating" /\ live' = Merged(live, staging[r], file[r])
    BY <2>2, MergeTables
  <2>3. CASE live' = live \cup missing[r]
    BY <1>2, <2>3, InsertedRows DEF MergeInv
  <2> QED BY <1>1, <2>1, <2>2, <2>3
<1>5. StagingInv(r)' /\ OneRowEach(missing'[r]) /\ VinsOf(missing'[r]) \cap VinsOf(live') = {}
  BY <1>3 DEF StagingInv, OneRowEach, VinsOf
<1> QED BY <1>1, <1>2, <1>3, <1>4, <1>5, MergeStep

-----------------------------------------------------------------------------
LEMMA NextInv == SnapshotsInv /\ [Next]_vars => SnapshotsInv'
<1> SUFFICES ASSUME SnapshotsInv, [Next]_vars PROVE SnapshotsInv'
  OBVIOUS
<1>1. CASE UNCHANGED vars
  BY <1>1 DEF vars, progress, SnapshotsInv, TypeOK, StagingInv, LoadingInv, Whole, LiveIsWhole,
     OverlapLosesNothing, MergeInv, OneAtATime, VinsUnique
<1>2. ASSUME NEW r \in Imports, Load(r) PROVE SnapshotsInv'
  BY <1>2, BeginKeeps, InsertBatchKeeps, InsertFailsKeeps, LoadedKeeps, CleanKeeps,
     CleanFailsKeeps DEF Load
<1>3. ASSUME NEW r \in Imports, Commit(r) PROVE SnapshotsInv'
  BY <1>3, DropLiveKeeps, DropFailsKeeps, RenameStagingKeeps, RenameRefusedKeeps,
     RenameFailsKeeps DEF Commit
<1>4. ASSUME NEW r \in Imports, Merge(r) PROVE SnapshotsInv'
  BY <1>4, UpdateLiveKeeps, InsertReadsKeeps, InsertWritesKeeps, MergeFailsKeeps DEF Merge
<1> QED BY <1>1, <1>2, <1>3, <1>4, AbortKeeps, StopKeeps DEF Next

\* The stagings, the progress of each import and the live table stay consistent with one another.
THEOREM SnapshotsInductive == Spec => []SnapshotsInv
<1>1. Init => SnapshotsInv
  BY InitInv
<1>2. SnapshotsInv /\ [Next]_vars => SnapshotsInv'
  BY NextInv
<1> QED BY <1>1, <1>2, PTL DEF Spec

\* The live table is always one whole file, for any number of overlapping, failing, retried and
\* stopped imports.
THEOREM SnapshotIsWhole == Spec => []LiveIsWhole
<1>1. SnapshotsInv => LiveIsWhole
  BY DEF SnapshotsInv
<1> QED BY <1>1, SnapshotsInductive, PTL

\* Retried insertions never repeat a VIN in the vehicles, nor do merges that do not overlap in
\* the inventory.
THEOREM UniqueVins ==
  ASSUME Strategy = "MERGE" => ~Overlap
  PROVE  Spec => []VinsUnique
<1>1. SnapshotsInv => VinsUnique
  BY DEF SnapshotsInv
<1> QED BY <1>1, SnapshotsInductive, PTL

\* Imports that overlap lose the table only with the help of a fault.
THEOREM NothingLostByOverlap == Spec => []OverlapLosesNothing
<1>1. SnapshotsInv => OverlapLosesNothing
  BY DEF SnapshotsInv
<1> QED BY <1>1, SnapshotsInductive, PTL
-----------------------------------------------------------------------------
(* What an import that succeeds leaves in the table                        *)

HasAll(table, f) ==
  \A n \in DOMAIN Contents[f] : \E row \in table : row.vin = Contents[f][n] /\ row.file = f

\* What a merge that runs alone has done to the live table at each of its statements.
MergedSoFar(r) ==
  /\ pc[r] \in {"inserting", "writing"} =>
       \A row \in live : row.vin \in VinsOf(staging[r]) => row.file = file[r]
  /\ pc[r] = "writing" => missing[r] = Absent(r)
  /\ pc[r] = "closing" => HasAll(live, file[r])
MergeProgress ==
  /\ Strategy = "MERGE" => \A r \in Imports : MergedSoFar(r)
  /\ \A r \in Imports : pc[r] = "closing" => Strategy = "MERGE"

Step(r) == Load(r) \/ Commit(r) \/ Merge(r) \/ AbortTableSnapshot(r) \/ Stop(r)

\* A statement of an import is one of an import that runs, and moves no other import.
LEMMA OnlyOneMoves ==
  ASSUME TypeOK, NEW r \in Imports, Step(r)
  PROVE  /\ \A s \in Imports \ {r} : pc'[s] = pc[s]
         /\ pc[r] \in Running \/ Begin(r)
<1>1. \E next : Goto(r, next) \/ pc' = pc
  <2>1. CASE Load(r)
    BY <2>1 DEF Load, Begin, InsertBatch, NextBatch, InsertFails, Retry, GiveUp, Throw, Loaded, Clean,
       CleanFails
  <2>2. CASE Commit(r)
    BY <2>2 DEF Commit, DropLive, DropFails, RenameStaging, RenameRefused, RenameFails, Throw
  <2>3. CASE Merge(r)
    BY <2>3 DEF Merge, UpdateLive, InsertReads, InsertWrites, MergeFails, Throw
  <2>4. CASE AbortTableSnapshot(r) \/ Stop(r)
    BY <2>4 DEF AbortTableSnapshot, Stop
  <2> QED BY <2>1, <2>2, <2>3, <2>4 DEF Step
<1>2. pc[r] \in Running \/ Begin(r)
  <2>1. CASE Load(r)
    BY <2>1 DEF Load, InsertBatch, InsertFails, Loaded, Clean, CleanFails, Running
  <2>2. CASE Commit(r)
    BY <2>2 DEF Commit, DropLive, DropFails, RenameStaging, RenameRefused, RenameFails, Running
  <2>3. CASE Merge(r)
    BY <2>3 DEF Merge, UpdateLive, InsertReads, InsertWrites, MergeFails, Running
  <2>4. CASE AbortTableSnapshot(r) \/ Stop(r)
    BY <2>4 DEF AbortTableSnapshot, Stop, Running
  <2> QED BY <2>1, <2>2, <2>3, <2>4 DEF Step
<1> QED BY <1>1, <1>2 DEF TypeOK, Goto

\* Where imports do not overlap, those that do not move do not run.
LEMMA OthersAreIdle ==
  ASSUME SnapshotsInv, ~Overlap, NEW r \in Imports, Step(r), NEW s \in Imports \ {r}
  PROVE  pc'[s] \notin Running
<1>1. TypeOK /\ OneAtATime
  BY DEF SnapshotsInv
<1>2. CASE pc[r] \in Running
  BY <1>1, <1>2, OnlyOneMoves DEF OneAtATime
<1>3. CASE Begin(r)
  BY <1>1, <1>3, OnlyOneMoves DEF Begin
<1> QED BY <1>1, <1>2, <1>3, OnlyOneMoves

\* An UPDATE gives the file to every row whose VIN it has.
LEMMA MergedFiles ==
  ASSUME NEW table \in Tables, NEW s \in Tables, NEW f \in Files
  PROVE  \A row \in Merged(table, s, f) : row.vin \in VinsOf(s) => row.file = f
<1> DEFINE M(row) == IF row.vin \in VinsOf(s) THEN [row EXCEPT !.file = f] ELSE row
<1>1. Merged(table, s, f) = {M(row) : row \in table}
  BY DEF Merged
<1>2. ASSUME NEW row \in table PROVE M(row).vin \in VinsOf(s) => M(row).file = f
  <2>1. row \in Rows
    BY DEF Tables
  <2>2. [row EXCEPT !.file = f].vin = row.vin /\ [row EXCEPT !.file = f].file = f
    BY <2>1 DEF Rows
  <2> QED BY <2>2
<1> HIDE DEF M
<1> QED BY <1>1, <1>2

\* The rows that were found and those that were missing are the whole file.
LEMMA WrittenIsAll ==
  ASSUME NEW r \in Imports, Whole(r),
         \A row \in live : row.vin \in VinsOf(staging[r]) => row.file = file[r]
  PROVE  HasAll(live \cup Absent(r), file[r])
<1> SUFFICES ASSUME NEW n \in DOMAIN Contents[file[r]]
             PROVE  \E row \in live \cup Absent(r) :
                      row.vin = Contents[file[r]][n] /\ row.file = file[r]
  BY DEF HasAll
<1>1. Contents[file[r]][n] \in VinsOf(staging[r])
  BY DEF Whole, VinsIn
<1>2. PICK x \in staging[r] : x.vin = Contents[file[r]][n]
  BY <1>1 DEF VinsOf
<1>3. CASE x.vin \in VinsOf(live)
  BY <1>1, <1>2, <1>3 DEF VinsOf
<1>4. CASE x.vin \notin VinsOf(live)
  BY <1>2, <1>4 DEF Absent, Whole
<1> QED BY <1>3, <1>4

\* Only the statements of the merge lead to another of them.
LEMMA MergeSteps ==
  ASSUME TypeOK, NEW r \in Imports, Step(r), ~(UpdateLive(r) \/ InsertReads(r) \/ InsertWrites(r))
  PROVE  pc'[r] \notin {"inserting", "writing", "closing"}
<1>1. CASE Load(r)
  BY <1>1 DEF TypeOK, Load, Begin, InsertBatch, NextBatch, InsertFails, Retry, GiveUp, Throw,
     Loaded, Clean, CleanFails, Goto
<1>2. CASE Commit(r)
  BY <1>2 DEF TypeOK, Commit, DropLive, DropFails, RenameStaging, RenameRefused,
     RenameFails, Throw, Goto
<1>3. CASE MergeFails(r) \/ AbortTableSnapshot(r) \/ Stop(r)
  BY <1>3 DEF TypeOK, MergeFails, AbortTableSnapshot, Stop, Throw, Goto
<1> QED BY <1>1, <1>2, <1>3 DEF Step, Merge

LEMMA StepMerges ==
  ASSUME SnapshotsInv, MergeProgress, Strategy = "MERGE", NEW r \in Imports, Step(r)
  PROVE  MergedSoFar(r)'
<1>1. TypeOK /\ MergedSoFar(r) /\ StagingInv(r)
  BY DEF SnapshotsInv, MergeProgress
<1>2. CASE UpdateLive(r)
  <2>1. pc'[r] = "inserting" /\ staging' = staging /\ file' = file
    BY <1>1, <1>2 DEF TypeOK, UpdateLive, Goto, progress
  <2>2. live \in Tables /\ staging[r] \in Tables /\ file[r] \in Files
    BY <1>1, <1>2, MergeTables DEF TypeOK, UpdateLive
  <2>3. live' = Merged(live, staging[r], file[r])
    BY <1>2 DEF UpdateLive
  <2> QED BY <2>1, <2>2, <2>3, MergedFiles DEF MergedSoFar
<1>3. CASE InsertReads(r)
  <2>1. /\ pc[r] = "inserting" /\ pc'[r] = "writing" /\ staging' = staging /\ file' = file
        /\ live' = live /\ missing'[r] = Absent(r)
    BY <1>1, <1>3 DEF TypeOK, InsertReads, Goto, progress
  <2>2. Absent(r)' = Absent(r)
    BY <2>1 DEF Absent
  <2> QED BY <1>1, <2>1, <2>2 DEF MergedSoFar
<1>4. CASE InsertWrites(r)
  <2>1. /\ pc[r] = "writing" /\ pc'[r] = "closing" /\ file' = file
        /\ live' = live \cup missing[r]
    BY <1>1, <1>4 DEF TypeOK, InsertWrites, Goto, progress
  <2>2. Whole(r) /\ missing[r] = Absent(r)
    BY <1>1, <2>1 DEF StagingInv, MergedSoFar
  <2>3. HasAll(live \cup Absent(r), file[r])
    BY <1>1, <2>1, <2>2, WrittenIsAll DEF MergedSoFar
  <2>4. HasAll(live', file'[r])
    BY <2>1, <2>2, <2>3
  <2>5. HasAll(live, file[r])'
    BY <2>4 DEF HasAll
  <2> QED BY <2>1, <2>5 DEF MergedSoFar
<1>5. CASE ~(UpdateLive(r) \/ InsertReads(r) \/ InsertWrites(r))
  <2>1. pc'[r] \notin {"inserting", "writing", "closing"}
    BY <1>1, <1>5, MergeSteps
  <2> QED BY <2>1 DEF MergedSoFar
<1> QED BY <1>2, <1>3, <1>4, <1>5

LEMMA NextMerges ==
  ASSUME Strategy = "MERGE" => ~Overlap, SnapshotsInv, MergeProgress, [Next]_vars
  PROVE  MergeProgress'
<1>1. CASE UNCHANGED vars
  BY <1>1 DEF MergeProgress, MergedSoFar, HasAll, Absent, vars, progress
<1>2. CASE Next
  <2>1. PICK r \in Imports : Step(r)
    BY <1>2 DEF Next, Step
  <2>2. TypeOK /\ StagingInv(r)
    BY DEF SnapshotsInv
  <2>3. ASSUME Strategy = "MERGE", NEW s \in Imports PROVE MergedSoFar(s)'
    <3>1. CASE s = r
      BY <2>1, <2>3, <3>1, StepMerges
    <3>2. CASE s # r
      BY <2>1, <2>3, <3>2, OthersAreIdle DEF MergedSoFar, Running
    <3> QED BY <3>1, <3>2
  <2>4. ASSUME NEW s \in Imports, pc'[s] = "closing" PROVE Strategy = "MERGE"
    <3>1. CASE s = r
      <4>1. UpdateLive(r) \/ InsertReads(r) \/ InsertWrites(r)
        BY <2>1, <2>2, <2>4, <3>1, MergeSteps
      <4> QED BY <2>2, <4>1 DEF UpdateLive, InsertReads, InsertWrites, StagingInv
    <3>2. CASE s # r
      BY <2>1, <2>2, <2>4, <3>2, OnlyOneMoves DEF MergeProgress
    <3> QED BY <3>1, <3>2
  <2> QED BY <2>3, <2>4 DEF MergeProgress
<1> QED BY <1>1, <1>2

\* An import answers with success from its RENAME or, for a merge, from the drop of its staging.
LEMMA DoneIsComplete ==
  ASSUME SnapshotsInv, MergeProgress, NEW r \in Imports, Step(r), pc[r] # "done", pc'[r] = "done"
  PROVE  HasAll(live', file[r])
<1>1. TypeOK /\ StagingInv(r)
  BY DEF SnapshotsInv
<1>2. RenameStaging(r) \/ (AbortTableSnapshot(r) /\ pc[r] = "closing")
  <2>1. CASE Load(r)
    BY <1>1, <2>1 DEF TypeOK, Load, Begin, InsertBatch, NextBatch, InsertFails, Retry, GiveUp, Throw,
       Loaded, Clean, CleanFails, Goto
  <2>2. CASE Commit(r)
    BY <1>1, <2>2 DEF TypeOK, Commit, DropLive, DropFails, RenameRefused, RenameFails, Throw, Goto
  <2>3. CASE Merge(r)
    BY <1>1, <2>3 DEF TypeOK, Merge, UpdateLive, InsertReads, InsertWrites, MergeFails, Throw, Goto
  <2>4. CASE AbortTableSnapshot(r) \/ Stop(r)
    BY <1>1, <2>4 DEF TypeOK, AbortTableSnapshot, Stop, Goto
  <2> QED BY <2>1, <2>2, <2>3, <2>4 DEF Step
<1>3. CASE RenameStaging(r)
  <2>1. live' = staging[r] /\ Whole(r)
    BY <1>1, <1>3 DEF RenameStaging, StagingInv
  <2>2. \A n \in DOMAIN Contents[file[r]] : Contents[file[r]][n] \in VinsOf(staging[r])
    BY <2>1 DEF Whole, VinsIn
  <2> QED BY <2>1, <2>2 DEF HasAll, Whole, VinsOf
<1>4. CASE AbortTableSnapshot(r) /\ pc[r] = "closing"
  <2>1. live' = live
    BY <1>4 DEF AbortTableSnapshot, DropStaging
  <2>2. Strategy = "MERGE"
    BY <1>4 DEF MergeProgress
  <2> QED BY <1>4, <2>1, <2>2 DEF MergeProgress, MergedSoFar
<1> QED BY <1>2, <1>3, <1>4

\* A merge changes and adds rows; it takes no VIN away.
LEMMA MergeForgetsNothing ==
  ASSUME SnapshotsInv, NEW r \in Imports, Step(r), Strategy = "MERGE"
  PROVE  VinsOf(live) \subseteq VinsOf(live')
<1>1. TypeOK /\ StagingInv(r)
  BY DEF SnapshotsInv
<1>2. CASE Load(r) \/ AbortTableSnapshot(r) \/ Stop(r)
  <2>1. live' = live
    BY <1>2 DEF Load, Begin, InsertBatch, InsertFails, Loaded, Clean, CleanFails,
       AbortTableSnapshot, DropStaging, Stop
  <2> QED BY <2>1
<1>3. CASE Commit(r)
  BY <1>1, <1>3 DEF StagingInv, Commit, DropLive, DropFails, RenameStaging, RenameRefused, RenameFails
<1>4. CASE Merge(r)
  <2>1. \/ live' = live
        \/ pc[r] = "updating" /\ live' = Merged(live, staging[r], file[r])
        \/ live' = live \cup missing[r]
    BY <1>4 DEF Merge, UpdateLive, InsertReads, InsertWrites, MergeFails
  <2>2. CASE pc[r] = "updating" /\ live' = Merged(live, staging[r], file[r])
    BY <2>2, MergeTables
  <2> QED BY <2>1, <2>2 DEF VinsOf
<1> QED BY <1>2, <1>3, <1>4 DEF Step

\* SuccessIsComplete: an import that answers with success has every VIN of its file in the table,
\* as that file has it, and a merge forgets no vehicle, for any files and number of imports, as long
\* as merges do not overlap.
THEOREM SuccessLeavesAll ==
  ASSUME Strategy = "MERGE" => ~Overlap
  PROVE  Spec => SuccessIsComplete
<1>1. Init => MergeProgress
  BY DEF Init, MergeProgress, MergedSoFar
<1>2. SnapshotsInv /\ MergeProgress /\ [Next]_vars => MergeProgress'
  BY NextMerges
<1>3. SnapshotsInv /\ MergeProgress /\ [Next]_vars =>
        [/\ \A r \in Imports : pc[r] # "done" /\ pc'[r] = "done" =>
              \A n \in DOMAIN Contents[file[r]] :
                \E row \in live' : row.vin = Contents[file[r]][n] /\ row.file = file[r]
         /\ Strategy = "MERGE" => VinsOf(live) \subseteq VinsOf(live')]_vars
  <2> SUFFICES ASSUME SnapshotsInv, MergeProgress, Next
               PROVE  /\ \A r \in Imports : pc[r] # "done" /\ pc'[r] = "done" =>
                           HasAll(live', file[r])
                      /\ Strategy = "MERGE" => VinsOf(live) \subseteq VinsOf(live')
    BY DEF HasAll
  <2>1. PICK s \in Imports : Step(s)
    BY DEF Next, Step
  <2>2. TypeOK
    BY DEF SnapshotsInv
  <2>3. ASSUME NEW r \in Imports, pc[r] # "done", pc'[r] = "done" PROVE HasAll(live', file[r])
    <3>1. r = s
      BY <2>1, <2>2, <2>3, OnlyOneMoves
    <3> QED BY <2>1, <2>3, <3>1, DoneIsComplete
  <2> QED BY <2>1, <2>3, MergeForgetsNothing
<1> QED BY <1>1, <1>2, <1>3, SnapshotsInductive, PTL DEF Spec, SuccessIsComplete

(***************************************************************************)
(* The register of vehicles.                                               *)
(***************************************************************************)
DocumentAt == {"look", "drop", "create", "append", "clean"}
MonthAt == {"schema", "before", "delete", "insert", "count", "compare"}
Entries ==
  [doc : DOMAIN RowsOf \cup DOMAIN BatchesOf, src : DOMAIN RowsOf \cup DOMAIN BatchesOf, row : Nat,
   staged : Requests \cup {NULL}, by : Requests \cup {NULL},
   status : {NULL, "CONSOLIDATED", "PRELIMINARY"}]

\* Documents are filed under one name space and preliminary months under the other.
RegisterIsTyped ==
  /\ final \subseteq Entries
  /\ \A x \in final : x.status = "PRELIMINARY" <=> x.doc \in DOMAIN BatchesOf
  /\ stage = NoStage \/ stage \subseteq [src : DOMAIN RowsOf, row : Nat, by : Staged]
RequestsAreTyped ==
  /\ active \subseteq Requests
  /\ statement \in [Requests -> DocumentAt \cup MonthAt \cup Over]
  /\ \A r \in Staged : statement[r] \in DocumentAt \cup Over
  /\ \A r \in Months : statement[r] \in MonthAt \cup Over
  /\ todo \in [Requests -> Seq(DOMAIN RowsOf)]
  /\ sent \in [Requests -> Nat] /\ alone \in [Requests -> BOOLEAN]

\* Of two requests of a kind that run together neither is alone.
AloneIsAlone ==
  \A r \in Requests :
    /\ r \notin active => statement[r] = "idle"
    /\ statement[r] = "idle" => alone[r]
    /\ \A q \in Peers(r) \ {r} : Importing(r) /\ Importing(q) => ~alone[r]

\* There is a document in hand; the staging of a request that is alone holds what it has read of it.
ReadBy(r) ==
  {[src |-> Doc(r), row |-> RowsRead(r)[i], by |-> r] :
    i \in {j \in 1..sent[r] : InRange(r, RowsRead(r)[j])}}
StagingHoldsWhatWasRead ==
  \A r \in Staged :
    /\ statement[r] \in DocumentAt \cup {"idle"} =>
         todo[r] # <<>> /\ (r \in Chunks => todo[r] = <<DocOf[r]>>)
    /\ statement[r] = "append" =>
         /\ sent[r] <= Len(RowsRead(r))
         /\ alone[r] /\ stage # NoStage => stage = ReadBy(r)

Staging == {"drop", "create", "append"}
WholesAreAlone == \A r \in active \cap Staged : r \in WholeImports /\ alone[r]
AllOrNothing == \A d \in DOMAIN RowsOf : Filed(d) # {} => Exactly(d, Nat, RowsToFile(d))
WholesFileDocuments ==
  WholesAreAlone =>
    /\ AllOrNothing
    /\ \A r \in WholeImports : statement[r] \in Staging => Filed(Doc(r)) = {}
ChunksFileRanges ==
  \A r \in Chunks : alone[r] =>
    /\ statement[r] \in Staging => {x \in Filed(DocOf[r]) : x.row \in RangeOf[r]} = {}
    /\ statement[r] = "clean" =>
         Exactly(DocOf[r], RangeOf[r], RowsToFile(DocOf[r]) \cap RangeOf[r])

\* Of what each request has loaded a first part has been deleted; of one of them, nothing.
Held(base) == UNION {{Batch(q, i) : i \in base[q] + 1..sent[q]} : q \in Months}
MonthHoldsLastBatches ==
  /\ \A r \in Months :
       /\ statement[r] \in {"idle", "schema", "before", "delete"} => sent[r] = 0
       /\ statement[r] = "insert" => sent[r] < BatchesOf[FileOf[r]]
       /\ statement[r] = "count" => sent[r] = BatchesOf[FileOf[r]]
  /\ \E base \in [Months -> Nat] :
       /\ \A q \in Months : base[q] <= sent[q]
       /\ WithStatus("PRELIMINARY") = Held(base)
       /\ (\E r \in Months : statement[r] \in {"insert", "count"}) =>
            \E q \in active \cap Months : base[q] = 0

RegisterInv ==
  /\ RegisterIsTyped /\ RequestsAreTyped /\ AloneIsAlone /\ StagingHoldsWhatWasRead
  /\ WholesFileDocuments /\ ChunksFileRanges /\ MonthHoldsLastBatches
RvmStep(r) == LoadDocument(r) \/ Replace(r) \/ Unanswered(r) \/ StopImport(r)
OverNow == {"done", "failed", "stopped"}

LEMMA RequestKinds ==
  /\ \A r \in Requests : r \in Staged \/ r \in Months
  /\ \A r \in Staged : r \in Requests /\ r \notin Months /\ Peers(r) = Staged
  /\ \A r \in Months : r \in Requests /\ r \notin Staged /\ Peers(r) = Months
  /\ \A r \in WholeImports : r \in Staged /\ r \notin Chunks
  /\ \A r \in Chunks : r \in Staged /\ r \notin WholeImports /\ DocOf[r] \in DOMAIN RowsOf
  /\ \A r \in Months : FileOf[r] \in DOMAIN BatchesOf /\ FileOf[r] \notin DOMAIN RowsOf
                       /\ BatchesOf[FileOf[r]] \in Nat \ {0}
  /\ \A d \in DOMAIN RowsOf : d \notin DOMAIN BatchesOf /\ RowsOf[d] \in Seq(Nat)
BY RvmAssumption DEF Requests, Staged, Peers

\* Whoever takes a step other than the first is running, and goes on to a statement of its kind.
LEMMA RvmStepShape ==
  ASSUME RequestsAreTyped, NEW r \in Requests, RvmStep(r)
  PROVE  /\ Importing(r) /\ active' = active /\ alone' = alone
         /\ \E n \in DocumentAt \cup MonthAt \cup OverNow :
              /\ statement' = [statement EXCEPT ![r] = n]
              /\ r \in Staged => n \in DocumentAt \cup OverNow
              /\ r \in Months => n \in MonthAt \cup OverNow
<1>1. statement \in [Requests -> DocumentAt \cup MonthAt \cup Over]
  BY DEF RequestsAreTyped
<1>2. statement = [statement EXCEPT ![r] = statement[r]]
  BY <1>1
<1>3. CASE LoadDocument(r)
  <2>1. statement[r] \in DocumentAt /\ r \in Staged /\ r \notin Months
    BY <1>1, <1>3, RequestKinds
    DEF LoadDocument, Look, DropStage, CreateStage, PassRow, AppendStage, Unread, NormalizeAndAppend,
        CleanStage, DocumentAt, MonthAt, Over, RequestsAreTyped
  <2>2. Importing(r)
    BY <2>1 DEF Importing, DocumentAt, Over
  <2>3. /\ active' = active /\ alone' = alone
        /\ \E n \in DocumentAt \cup OverNow : statement' = [statement EXCEPT ![r] = n]
    <3>1. CASE PassRow(r)
      BY <2>1, <1>2, <3>1 DEF PassRow
    <3>2. CASE ~PassRow(r)
      BY <1>3, <3>2
      DEF LoadDocument, Look, DropStage, CreateStage, AppendStage, NormalizeAndAppend,
          CleanStage, DocumentAt, OverNow, Proceed, Answer, SkipDocument
    <3> QED BY <3>1, <3>2
  <2> QED BY <2>1, <2>2, <2>3
<1>4. CASE Replace(r)
  <2>1. statement[r] \in MonthAt /\ r \in Months /\ r \notin Staged
    BY <1>1, <1>4, RequestKinds
    DEF Replace, EnsureSchema, CountConsolidated, DeletePreliminary, InsertMonthBatch, CountLoaded,
        CompareRest, DocumentAt, MonthAt, Over, RequestsAreTyped
  <2>2. Importing(r)
    BY <2>1 DEF Importing, MonthAt, Over
  <2>3. /\ active' = active /\ alone' = alone
        /\ \E n \in MonthAt \cup OverNow : statement' = [statement EXCEPT ![r] = n]
    BY <1>4
    DEF Replace, EnsureSchema, CountConsolidated, DeletePreliminary, InsertMonthBatch, CountLoaded,
        CompareRest, MonthAt, OverNow, Proceed, Answer
  <2> QED BY <2>1, <2>2, <2>3
<1>5. CASE Unanswered(r) \/ StopImport(r)
  BY <1>5 DEF Unanswered, StopImport, Proceed, OverNow
<1> QED BY <1>3, <1>4, <1>5 DEF RvmStep

LEMMA RvmStepKind ==
  ASSUME RequestsAreTyped, NEW r \in Requests
  PROVE  /\ LoadDocument(r) => r \in Staged /\ r \notin Months
         /\ Replace(r) => r \in Months /\ r \notin Staged
<1>1. LoadDocument(r) => statement[r] \in DocumentAt
  BY DEF LoadDocument, Look, DropStage, CreateStage, PassRow, AppendStage, Unread, NormalizeAndAppend,
         CleanStage, DocumentAt
<1>2. Replace(r) => statement[r] \in MonthAt
  BY DEF Replace, EnsureSchema, CountConsolidated, DeletePreliminary, InsertMonthBatch, CountLoaded,
         CompareRest, MonthAt
<1> QED BY <1>1, <1>2, RequestKinds DEF DocumentAt, MonthAt, Over, RequestsAreTyped

LEMMA RvmStepAlone ==
  ASSUME RequestsAreTyped, AloneIsAlone, NEW r \in Requests, RvmStep(r)
  PROVE  AloneIsAlone'
<1>1. Importing(r) /\ active' = active /\ alone' = alone
  BY RvmStepShape
<1>2. PICK n \in DocumentAt \cup MonthAt \cup OverNow : statement' = [statement EXCEPT ![r] = n]
  BY RvmStepShape
<1>3. n # "idle"
  BY DEF DocumentAt, MonthAt, OverNow
<1>4. statement'[r] = n /\ \A q \in Requests \ {r} : statement'[q] = statement[q]
  BY <1>2 DEF RequestsAreTyped
<1>5. r \in active
  BY <1>1 DEF AloneIsAlone, Importing, Over
<1>6. \A q \in Requests : Importing(q)' => Importing(q)
  BY <1>1, <1>4 DEF Importing
<1>7. \A q \in Requests : Peers(q) \subseteq Requests
  BY DEF Peers, Requests
<1> QED BY <1>1, <1>3, <1>4, <1>5, <1>6, <1>7 DEF AloneIsAlone, Peers

LEMMA BeginAlone ==
  ASSUME RequestsAreTyped, AloneIsAlone, NEW r \in Requests, BeginImport(r)
  PROVE  /\ AloneIsAlone'
         /\ alone' \in [Requests -> BOOLEAN]
         /\ \A q \in Requests : alone'[q] => alone[q]
<1>1. /\ statement'[r] \in {"look", "schema"} /\ statement[r] = "idle" /\ r \in active
      /\ \A q \in Requests \ {r} : statement'[q] = statement[q]
  BY DEF BeginImport, Proceed, RequestsAreTyped
<1>2. /\ alone'[r] = (\A p \in Peers(r) \ {r} : ~Importing(p))
      /\ \A q \in Requests \ {r} : alone'[q] = (alone[q] /\ ~(Importing(q) /\ q \in Peers(r)))
  BY DEF BeginImport, Starts
<1>3. alone[r]
  BY <1>1 DEF AloneIsAlone
<1>4. alone' \in [Requests -> BOOLEAN]
  BY DEF BeginImport, Starts, RequestsAreTyped
<1>5. \A q \in Requests : alone'[q] => alone[q]
  BY <1>2, <1>3
<1>6. \A q \in Requests \ {r} : Importing(q)' <=> Importing(q)
  BY <1>1 DEF Importing
<1>7. \A q \in Requests : Peers(q) \subseteq Requests
  BY DEF Peers, Requests
<1>8. ASSUME NEW q \in Requests, NEW p \in Peers(q) \ {q}, Importing(q)', Importing(p)'
      PROVE  ~alone'[q]
  <2>1. p \in Requests /\ (q \in Peers(p))
    BY <1>7, RequestKinds
  <2>2. CASE q = r
    BY <2>2, <1>2, <1>6, <1>8, <2>1
  <2>3. CASE p = r
    BY <2>3, <1>2, <1>6, <1>8, <2>1
  <2>4. CASE q # r /\ p # r
    <3>1. ~alone[q]
      BY <2>4, <1>6, <1>8, <2>1 DEF AloneIsAlone
    <3> QED BY <3>1, <1>5
  <2> QED BY <2>2, <2>3, <2>4
<1>9. active' = active
  BY DEF BeginImport
<1>10. \A q \in Requests : /\ q \notin active => statement'[q] = "idle"
                           /\ statement'[q] = "idle" => alone'[q]
  <2> TAKE q \in Requests
  <2>1. CASE q = r
    BY <2>1, <1>1
  <2>2. CASE q # r
    <3>1. statement[q] = "idle" => alone[q] /\ ~Importing(q)
      BY DEF AloneIsAlone, Importing, Over
    <3> QED BY <3>1, <2>2, <1>1, <1>2 DEF AloneIsAlone
  <2> QED BY <2>1, <2>2
<1>11. AloneIsAlone'
  BY <1>8, <1>9, <1>10 DEF AloneIsAlone, Peers
<1> QED BY <1>4, <1>5, <1>11
\* A request for documents has one in hand, a chunk the one it was made for.
LEMMA DocumentInHand ==
  ASSUME RequestsAreTyped, StagingHoldsWhatWasRead,
         NEW r \in Staged, statement[r] \in DocumentAt \cup {"idle"}
  PROVE  /\ Doc(r) \in DOMAIN RowsOf /\ RowsRead(r) \in Seq(Nat) /\ Len(RowsRead(r)) \in Nat
         /\ r \in Chunks => Doc(r) = DocOf[r]
         /\ todo[r] \in Seq(DOMAIN RowsOf) /\ todo[r] # <<>> /\ Tail(todo[r]) \in Seq(DOMAIN RowsOf)
<1>1. todo[r] # <<>> /\ (r \in Chunks => todo[r] = <<DocOf[r]>>)
  BY DEF StagingHoldsWhatWasRead
<1>2. todo[r] \in Seq(DOMAIN RowsOf)
  BY RequestKinds DEF RequestsAreTyped
<1>3. Head(todo[r]) \in DOMAIN RowsOf /\ Tail(todo[r]) \in Seq(DOMAIN RowsOf)
  BY <1>1, <1>2, HeadTailProperties
<1>4. RowsOf[Head(todo[r])] \in Seq(Nat) /\ Len(RowsOf[Head(todo[r])]) \in Nat
  BY <1>3, RequestKinds
<1>5. r \in Chunks => Head(todo[r]) = DocOf[r]
  BY <1>1
<1> QED BY <1>1, <1>2, <1>3, <1>4, <1>5 DEF Doc, RowsRead

LEMMA RvmStepRequestsTyped ==
  ASSUME RequestsAreTyped, StagingHoldsWhatWasRead, NEW r \in Requests, RvmStep(r)
  PROVE  RequestsAreTyped'
<1>1. Importing(r) /\ active' = active /\ alone' = alone
  BY RvmStepShape
<1>2. PICK n \in DocumentAt \cup MonthAt \cup OverNow :
        /\ statement' = [statement EXCEPT ![r] = n]
        /\ r \in Staged => n \in DocumentAt \cup OverNow
        /\ r \in Months => n \in MonthAt \cup OverNow
  BY RvmStepShape
<1>3. n \in DocumentAt \cup MonthAt \cup Over /\ (r \in Staged => n \in DocumentAt \cup Over)
      /\ (r \in Months => n \in MonthAt \cup Over)
  BY <1>2 DEF OverNow, Over
<1>4. statement' \in [Requests -> DocumentAt \cup MonthAt \cup Over]
  BY <1>2, <1>3 DEF RequestsAreTyped
<1>5. statement'[r] = n /\ \A q \in Requests \ {r} : statement'[q] = statement[q]
  BY <1>2 DEF RequestsAreTyped
<1>6. /\ \A q \in Staged : statement'[q] \in DocumentAt \cup Over
      /\ \A q \in Months : statement'[q] \in MonthAt \cup Over
  BY <1>3, <1>5, RequestKinds DEF RequestsAreTyped
<1>7. todo' \in [Requests -> Seq(DOMAIN RowsOf)]
  <2>1. CASE todo' = todo
    BY <2>1 DEF RequestsAreTyped
  <2>2. CASE todo' # todo
    <3>1. r \in Staged /\ SkipDocument(r) /\ statement[r] \in DocumentAt
      BY <2>2, RvmStepKind
      DEF RvmStep, LoadDocument, Look, DropStage, CreateStage, PassRow, AppendStage, NormalizeAndAppend,
          CleanStage, Replace, EnsureSchema, CountConsolidated, DeletePreliminary, InsertMonthBatch,
          CountLoaded, CompareRest, Unanswered, StopImport, DocumentAt
    <3>2. todo' = [todo EXCEPT ![r] = Tail(todo[r])]
      BY <3>1 DEF SkipDocument
    <3>3. Tail(todo[r]) \in Seq(DOMAIN RowsOf)
      BY <3>1, DocumentInHand
    <3> QED BY <3>2, <3>3 DEF RequestsAreTyped
  <2> QED BY <2>1, <2>2
<1>8. sent' \in [Requests -> Nat]
  <2>1. \/ sent' = sent \/ sent' = [sent EXCEPT ![r] = 0] \/ sent' = [sent EXCEPT ![r] = sent[r] + 1]
    BY DEF RvmStep, LoadDocument, Look, DropStage, CreateStage, PassRow, AppendStage, NormalizeAndAppend,
          CleanStage, Replace, EnsureSchema, CountConsolidated, DeletePreliminary, InsertMonthBatch,
          CountLoaded, CompareRest, Unanswered, StopImport
  <2>2. sent[r] + 1 \in Nat
    BY DEF RequestsAreTyped
  <2> QED BY <2>1, <2>2 DEF RequestsAreTyped
<1> QED BY <1>1, <1>4, <1>6, <1>7, <1>8 DEF RequestsAreTyped

\* What EnsureSchema makes of a row.
Consolidated(x) == IF x.status = NULL THEN [x EXCEPT !.status = "CONSOLIDATED"] ELSE x

LEMMA SchemaFills ==
  ASSUME RegisterIsTyped, NEW r, EnsureSchema(r)
  PROVE  /\ final' = {Consolidated(x) : x \in final}
         /\ \A x \in final :
              /\ Consolidated(x) \in Entries
              /\ Consolidated(x).doc = x.doc /\ Consolidated(x).src = x.src
              /\ Consolidated(x).row = x.row
              /\ Consolidated(x).status = "PRELIMINARY" <=> x.status = "PRELIMINARY"
              /\ x.status = "PRELIMINARY" => Consolidated(x) = x
<1>1. NULL # "PRELIMINARY"
  BY RvmAssumption
<1>2. \A x \in Entries :
        /\ [x EXCEPT !.status = "CONSOLIDATED"] \in Entries
        /\ [x EXCEPT !.status = "CONSOLIDATED"].doc = x.doc
        /\ [x EXCEPT !.status = "CONSOLIDATED"].src = x.src
        /\ [x EXCEPT !.status = "CONSOLIDATED"].row = x.row
        /\ [x EXCEPT !.status = "CONSOLIDATED"].status = "CONSOLIDATED"
  BY DEF Entries
<1>3. \A x \in final : x \in Entries
  BY DEF RegisterIsTyped
<1>4. final' = {Consolidated(x) : x \in final}
  <2>1. final' = (final \ WithStatus(NULL)) \cup
                 {[x EXCEPT !.status = "CONSOLIDATED"] : x \in WithStatus(NULL)}
    BY DEF EnsureSchema
  <2> DEFINE filled(x) == [x EXCEPT !.status = "CONSOLIDATED"]
  <2>2. final' = {x \in final : x.status # NULL} \cup {filled(x) : x \in {y \in final : y.status = NULL}}
    BY <2>1 DEF WithStatus
  <2>3. \A x : Consolidated(x) = IF x.status = NULL THEN filled(x) ELSE x
    BY DEF Consolidated
  <2> HIDE DEF filled
  <2> QED BY <2>2, <2>3
<1> QED BY <1>1, <1>2, <1>3, <1>4 DEF Consolidated
\* What a document's batch files of the staging.
LEMMA FiledRows ==
  ASSUME NEW r \in Staged, Doc(r) \in DOMAIN RowsOf,
         stage \subseteq [src : DOMAIN RowsOf, row : Nat, by : Staged]
  PROVE  \A x \in FiledBy(r) :
           /\ x \in Entries /\ x.doc = Doc(r) /\ x.status = NULL
           /\ \E y \in stage : y.row \notin OtherMarket
                /\ x = [doc |-> Doc(r), src |-> y.src, row |-> y.row, staged |-> y.by,
                        by |-> r, status |-> NULL]
<1>1. ASSUME NEW y \in stage
      PROVE  [doc |-> Doc(r), src |-> y.src, row |-> y.row, staged |-> y.by,
              by |-> r, status |-> NULL] \in Entries
  BY <1>1 DEF Entries, Requests
<1> QED BY <1>1 DEF FiledBy

LEMMA BatchEntry ==
  ASSUME NEW r \in Months, NEW i \in Nat
  PROVE  /\ Batch(r, i) \in Entries
         /\ Batch(r, i).doc = FileOf[r] /\ Batch(r, i).row = i /\ Batch(r, i).by = r
         /\ Batch(r, i).status = "PRELIMINARY"
BY RequestKinds DEF Batch, Entries, Requests

LEMMA RvmStepRegisterTyped ==
  ASSUME RegisterIsTyped, RequestsAreTyped, StagingHoldsWhatWasRead, NEW r \in Requests, RvmStep(r)
  PROVE  RegisterIsTyped'
<1>1. NULL # "PRELIMINARY"
  BY RvmAssumption
<1>2. /\ final' \subseteq Entries
      /\ \A x \in final' : x.status = "PRELIMINARY" <=> x.doc \in DOMAIN BatchesOf
  <2>1. CASE final' \subseteq final
    BY <2>1 DEF RegisterIsTyped
  <2>2. CASE NormalizeAndAppend(r) /\ ~(final' \subseteq final)
    <3>1. r \in Staged /\ statement[r] = "append"
      BY <2>2, RvmStepKind DEF LoadDocument, NormalizeAndAppend
    <3>2. Doc(r) \in DOMAIN RowsOf
      BY <3>1, DocumentInHand DEF DocumentAt
    <3>3. final' = final \cup FiledBy(r) /\ stage # NoStage
      BY <2>2 DEF NormalizeAndAppend
    <3>4. \A x \in FiledBy(r) : x \in Entries /\ x.doc = Doc(r) /\ x.status = NULL
      BY <3>1, <3>2, <3>3, FiledRows DEF RegisterIsTyped
    <3> QED BY <1>1, <3>2, <3>3, <3>4, RequestKinds DEF RegisterIsTyped
  <2>3. CASE EnsureSchema(r)
    BY <2>3, SchemaFills DEF RegisterIsTyped
  <2>4. CASE InsertMonthBatch(r)
    <3>1. r \in Months
      BY <2>4, RvmStepKind DEF Replace
    <3>2. sent[r] + 1 \in Nat
      BY DEF RequestsAreTyped
    <3>3. final' = final \cup {Batch(r, sent[r] + 1)}
      BY <2>4 DEF InsertMonthBatch
    <3> QED BY <3>1, <3>2, <3>3, BatchEntry, RequestKinds DEF RegisterIsTyped
  <2>5. \/ final' \subseteq final \/ NormalizeAndAppend(r) \/ EnsureSchema(r) \/ InsertMonthBatch(r)
    BY DEF RvmStep, LoadDocument, Look, DropStage, CreateStage, PassRow, AppendStage, CleanStage, Replace,
           CountConsolidated, DeletePreliminary, CountLoaded, CompareRest, Unanswered, StopImport
  <2> QED BY <2>1, <2>2, <2>3, <2>4, <2>5
<1>3. stage' = NoStage \/ stage' \subseteq [src : DOMAIN RowsOf, row : Nat, by : Staged]
  <2>1. CASE AppendStage(r) /\ stage' # stage
    <3>1. r \in Staged /\ statement[r] = "append" /\ sent[r] < Len(RowsRead(r))
      BY <2>1, RvmStepKind DEF LoadDocument, AppendStage, Unread
    <3>2. Doc(r) \in DOMAIN RowsOf /\ RowsRead(r) \in Seq(Nat)
      BY <3>1, DocumentInHand DEF DocumentAt
    <3>3. sent[r] \in Nat
      BY DEF RequestsAreTyped
    <3>4. RowAt(r) \in Nat
      BY <3>1, <3>2, <3>3, ElementOfSeq DEF RowAt
    <3>5. stage # NoStage /\ stage' = stage \cup {[src |-> Doc(r), row |-> RowAt(r), by |-> r]}
      BY <2>1 DEF AppendStage
    <3> QED BY <3>1, <3>2, <3>4, <3>5 DEF RegisterIsTyped
  <2>2. CASE stage' \in {stage, NoStage, {}}
    BY <2>2 DEF RegisterIsTyped
  <2>3. stage' \in {stage, NoStage, {}} \/ AppendStage(r)
    BY DEF RvmStep, LoadDocument, Look, DropStage, CreateStage, PassRow, NormalizeAndAppend, CleanStage,
           Replace, EnsureSchema, CountConsolidated, DeletePreliminary, InsertMonthBatch, CountLoaded,
           CompareRest, Unanswered, StopImport
  <2> QED BY <2>1, <2>2, <2>3
<1> QED BY <1>2, <1>3 DEF RegisterIsTyped

(***************************************************************************)
(* A step keeps a document when it changes at most the status of its rows. *)
(***************************************************************************)
Keeps(f, d) ==
  /\ Filed(d)' = {f[x] : x \in Filed(d)}
  /\ \A x \in Filed(d) : f[x].row = x.row /\ f[x].src = x.src
DocumentKept(d) == \E f : Keeps(f, d)

LEMMA ExactlyKept ==
  ASSUME NEW d, DocumentKept(d), NEW within, NEW rows
  PROVE  /\ Exactly(d, within, rows) => Exactly(d, within, rows)'
         /\ Filed(d)' = {} <=> Filed(d) = {}
         /\ {x \in Filed(d) : x.row \in within} = {} => {x \in Filed(d)' : x.row \in within} = {}
<1>1. PICK f : Keeps(f, d)
  BY DEF DocumentKept
<1>2. /\ Filed(d)' = {f[x] : x \in Filed(d)}
      /\ \A x \in Filed(d) : f[x].row = x.row /\ f[x].src = x.src
  BY <1>1 DEF Keeps
<1> DEFINE there == {x \in Filed(d) : x.row \in within}
           then == {x \in Filed(d)' : x.row \in within}
<1>3. then = {f[x] : x \in there}
  BY <1>2
<1>4. \A x \in there : f[x].row = x.row /\ f[x].src = x.src
  BY <1>2
<1>5. Exactly(d, within, rows) <=>
        /\ {x.row : x \in there} = rows
        /\ \A x \in there, y \in there : x.row = y.row => x = y
        /\ \A x \in there : x.src = d
  BY DEF Exactly
<1>6. Exactly(d, within, rows)' <=>
        /\ {x.row : x \in then} = rows
        /\ \A x \in then, y \in then : x.row = y.row => x = y
        /\ \A x \in then : x.src = d
  BY DEF Exactly
<1>7. Filed(d)' = {} <=> Filed(d) = {}
  BY <1>2
<1>8. there = {} => then = {}
  BY <1>3
<1> HIDE DEF there, then
<1>9. {x.row : x \in then} = {x.row : x \in there}
  BY <1>3, <1>4
<1>10. Exactly(d, within, rows) => Exactly(d, within, rows)'
  BY <1>3, <1>4, <1>5, <1>6, <1>9
<1> QED BY <1>7, <1>8, <1>10 DEF there, then

LEMMA SameKept ==
  ASSUME NEW d, Filed(d)' = Filed(d)
  PROVE  DocumentKept(d)
<1>1. Keeps([x \in Filed(d) |-> x], d)
  BY DEF Keeps
<1> QED BY <1>1 DEF DocumentKept

\* Only a range that is cleared and a staging that is filed touch a document, and only their own.
LEMMA RvmStepKeepsDocuments ==
  ASSUME RegisterIsTyped, RequestsAreTyped, StagingHoldsWhatWasRead, NEW r \in Requests, RvmStep(r),
         NEW d \in DOMAIN RowsOf,
         d = Doc(r) => ~NormalizeAndAppend(r) /\ ~(Look(r) /\ r \in Chunks)
  PROVE  DocumentKept(d)
<1>1. CASE final' = final
  BY <1>1, SameKept DEF Filed
<1>2. CASE Look(r) /\ r \in Chunks
  <2>1. r \notin WholeImports /\ d # Doc(r)
    BY <1>2, RequestKinds
  <2>2. final' = {x \in final : ~(x.doc = Doc(r) /\ InRange(r, x.row))}
    BY <1>2, <2>1 DEF Look
  <2> QED BY <2>1, <2>2, SameKept DEF Filed
<1>3. CASE NormalizeAndAppend(r) /\ final' # final
  <2>1. r \in Staged /\ statement[r] = "append"
    BY <1>3, RvmStepKind DEF LoadDocument, NormalizeAndAppend
  <2>2. Doc(r) \in DOMAIN RowsOf
    BY <2>1, DocumentInHand DEF DocumentAt
  <2>3. final' = final \cup FiledBy(r) /\ stage # NoStage
    BY <1>3 DEF NormalizeAndAppend
  <2>4. \A x \in FiledBy(r) : x.doc = Doc(r)
    BY <2>1, <2>2, <2>3, FiledRows DEF RegisterIsTyped
  <2> QED BY <1>3, <2>3, <2>4, SameKept DEF Filed
<1>4. CASE EnsureSchema(r)
  <2> DEFINE f == [x \in final |-> Consolidated(x)]
  <2>1. final' = {f[x] : x \in final}
    BY <1>4, SchemaFills
  <2>2. \A x \in final : f[x].doc = x.doc /\ f[x].row = x.row /\ f[x].src = x.src
    BY <1>4, SchemaFills
  <2> HIDE DEF f
  <2>3. Filed(d)' = {f[x] : x \in Filed(d)}
    BY <2>1, <2>2 DEF Filed
  <2>4. Keeps(f, d)
    BY <2>2, <2>3 DEF Keeps, Filed
  <2> QED BY <2>4 DEF DocumentKept
<1>5. CASE DeletePreliminary(r)
  <2>1. final' = final \ WithStatus("PRELIMINARY")
    BY <1>5 DEF DeletePreliminary
  <2>2. \A x \in WithStatus("PRELIMINARY") : x.doc # d
    BY RequestKinds DEF WithStatus, RegisterIsTyped
  <2>3. Filed(d)' = Filed(d)
    BY <2>1, <2>2 DEF Filed
  <2> QED BY <2>3, SameKept
<1>6. CASE InsertMonthBatch(r)
  <2>1. r \in Months /\ sent[r] + 1 \in Nat
    BY <1>6, RvmStepKind DEF Replace, RequestsAreTyped
  <2>2. final' = final \cup {Batch(r, sent[r] + 1)}
    BY <1>6 DEF InsertMonthBatch
  <2>3. Batch(r, sent[r] + 1).doc # d
    BY <2>1, BatchEntry, RequestKinds
  <2>4. Filed(d)' = Filed(d)
    BY <2>2, <2>3 DEF Filed
  <2> QED BY <2>4, SameKept
<1>7. \/ final' = final \/ (Look(r) /\ r \in Chunks) \/ NormalizeAndAppend(r) \/ EnsureSchema(r)
      \/ DeletePreliminary(r) \/ InsertMonthBatch(r)
  <2>1. CASE Look(r)
    <3>1. r \in WholeImports \/ r \in Chunks
      BY <2>1, RvmStepKind DEF LoadDocument, Staged
    <3>2. CASE r \in WholeImports
      BY <2>1, <3>2 DEF Look
    <3> QED BY <2>1, <3>1, <3>2
  <2>2. CASE ~Look(r)
    BY <2>2 DEF RvmStep, LoadDocument, DropStage, CreateStage, PassRow, AppendStage, CleanStage, Replace,
                CountConsolidated, CountLoaded, CompareRest, Unanswered, StopImport
  <2> QED BY <2>1, <2>2
<1> QED BY <1>1, <1>2, <1>3, <1>4, <1>5, <1>6, <1>7

\* While one of the requests for documents takes a step, no other of them runs alone.
LEMMA OthersNotAlone ==
  ASSUME AloneIsAlone, NEW r \in Staged, Importing(r)
  PROVE  /\ \A q \in Staged \ {r} : Importing(q) => ~alone[q] /\ ~alone[r]
         /\ r \in active
<1>1. \A q \in Staged \ {r} : q \in Peers(r) \ {r} /\ r \in Peers(q) \ {q} /\ q \in Requests
  BY RequestKinds
<1>2. r \in active
  BY RequestKinds DEF AloneIsAlone, Importing, Over
<1> QED BY <1>1, <1>2, RequestKinds DEF AloneIsAlone

LEMMA FilesKept ==
  ASSUME RequestsAreTyped, StagingHoldsWhatWasRead, WholesFileDocuments, ChunksFileRanges,
         NEW r \in Requests, active' = active,
         \A q \in Requests : alone'[q] => alone[q],
         \A d \in DOMAIN RowsOf : DocumentKept(d),
         \A q \in Requests \ {r} : statement'[q] = statement[q] /\ todo'[q] = todo[q],
         statement'[r] \in Staging => statement[r] \in Staging /\ todo'[r] = todo[r],
         statement'[r] # "clean"
  PROVE  WholesFileDocuments' /\ ChunksFileRanges'
<1>1. \A d \in DOMAIN RowsOf : \A within, rows :
        /\ Exactly(d, within, rows) => Exactly(d, within, rows)'
        /\ Filed(d)' = {} <=> Filed(d) = {}
        /\ {x \in Filed(d) : x.row \in within} = {} => {x \in Filed(d)' : x.row \in within} = {}
  BY ExactlyKept
<1>2. ASSUME WholesAreAlone'
      PROVE  AllOrNothing' /\ \A q \in WholeImports : statement'[q] \in Staging => (Filed(Doc(q)) = {})'
  <2>1. WholesAreAlone
    BY <1>2, RequestKinds DEF WholesAreAlone
  <2>2. AllOrNothing
    BY <2>1 DEF WholesFileDocuments
  <2>3. AllOrNothing'
    BY <2>2, <1>1 DEF AllOrNothing
  <2>4. ASSUME NEW q \in WholeImports, statement'[q] \in Staging
        PROVE  (Filed(Doc(q)) = {})'
    <3>1. q \in Staged /\ q \in Requests /\ statement[q] \in Staging /\ todo'[q] = todo[q]
      BY <2>4, RequestKinds
    <3>2. Doc(q) \in DOMAIN RowsOf /\ Doc(q)' = Doc(q)
      BY <3>1, DocumentInHand DEF Staging, DocumentAt, Doc
    <3>3. Filed(Doc(q)) = {}
      BY <2>1, <3>1 DEF WholesFileDocuments
    <3>4. Filed(Doc(q))' = {}
      <4>1. PICK d \in DOMAIN RowsOf : d = Doc(q) /\ d = Doc(q)'
        BY <3>2
      <4>2. Filed(d)' = {}
        BY <3>3, <4>1, <1>1
      <4> QED BY <4>1, <4>2 DEF Filed
    <3> QED BY <3>4
  <2> QED BY <2>3, <2>4
<1>3. ASSUME NEW q \in Chunks, alone'[q]
      PROVE  /\ statement'[q] \in Staging => {x \in Filed(DocOf[q])' : x.row \in RangeOf[q]} = {}
             /\ statement'[q] = "clean" =>
                  Exactly(DocOf[q], RangeOf[q], RowsToFile(DocOf[q]) \cap RangeOf[q])'
  <2>1. q \in Requests /\ alone[q] /\ DocOf[q] \in DOMAIN RowsOf
    BY <1>3, RequestKinds
  <2>2. /\ statement'[q] \in Staging => statement[q] \in Staging
        /\ statement'[q] = "clean" => statement[q] = "clean"
    BY <2>1
  <2> QED BY <2>1, <2>2, <1>1 DEF ChunksFileRanges
<1>4. WholesFileDocuments'
  BY <1>2 DEF WholesFileDocuments
<1>5. ChunksFileRanges'
  BY <1>3 DEF ChunksFileRanges
<1> QED BY <1>4, <1>5

\* What a request that is alone files is what is wanted of the document, each row once.
LEMMA FiledIsWanted ==
  ASSUME NEW r \in Staged, Doc(r) \in DOMAIN RowsOf, sent[r] = Len(RowsRead(r)), stage = ReadBy(r)
  PROVE  /\ {x.row : x \in FiledBy(r)} = {w \in RowsToFile(Doc(r)) : InRange(r, w)}
         /\ \A x \in FiledBy(r), y \in FiledBy(r) : x.row = y.row => x = y
         /\ \A x \in FiledBy(r) : x.src = Doc(r) /\ x.doc = Doc(r)
<1> DEFINE entry(w) == [doc |-> Doc(r), src |-> Doc(r), row |-> w, staged |-> r, by |-> r, status |-> NULL]
           staged(w) == [src |-> Doc(r), row |-> w, by |-> r]
           wanted == {w \in RowsToFile(Doc(r)) : InRange(r, w)}
<1>1. RowsRead(r) \in Seq(Nat) /\ DOMAIN RowsRead(r) = 1..sent[r] /\ RowsRead(r) = RowsOf[Doc(r)]
  BY RequestKinds DEF RowsRead
<1>2. stage = {staged(w) : w \in {RowsRead(r)[i] : i \in {j \in 1..sent[r] : InRange(r, RowsRead(r)[j])}}}
  BY DEF ReadBy
<1>3. wanted = {w \in {RowsRead(r)[i] : i \in {j \in 1..sent[r] : InRange(r, RowsRead(r)[j])}} :
                  w \notin OtherMarket}
  BY <1>1 DEF RowsToFile
<1>4. \A w : staged(w).row = w /\ staged(w).src = Doc(r) /\ staged(w).by = r
  OBVIOUS
<1>5. {y \in stage : y.row \notin OtherMarket} = {staged(w) : w \in wanted}
  <2> HIDE DEF staged, wanted
  <2> QED BY <1>2, <1>3, <1>4
<1>6. FiledBy(r) = {entry(w) : w \in wanted}
  <2> DEFINE filed(x) == [doc |-> Doc(r), src |-> x.src, row |-> x.row, staged |-> x.by,
                          by |-> r, status |-> NULL]
  <2>1. FiledBy(r) = {filed(x) : x \in {staged(w) : w \in wanted}}
    BY <1>5 DEF FiledBy
  <2>2. \A w : filed(staged(w)) = entry(w)
    BY <1>4
  <2> HIDE DEF wanted, filed, staged, entry
  <2> QED BY <2>1, <2>2
<1>7. \A w : entry(w).row = w /\ entry(w).src = Doc(r) /\ entry(w).doc = Doc(r)
  OBVIOUS
<1> HIDE DEF entry, wanted
<1>8. {x.row : x \in FiledBy(r)} = wanted
  BY <1>6, <1>7
<1> QED BY <1>6, <1>7, <1>8 DEF wanted

LEMMA LookFiles ==
  ASSUME RegisterIsTyped, RequestsAreTyped, AloneIsAlone, StagingHoldsWhatWasRead,
         WholesFileDocuments, ChunksFileRanges, NEW r \in Requests, Look(r)
  PROVE  WholesFileDocuments' /\ ChunksFileRanges'
<1>1. r \in Staged /\ r \in Requests /\ RvmStep(r)
  BY RvmStepKind DEF RvmStep, LoadDocument
<1>2. Importing(r) /\ active' = active /\ alone' = alone
  BY <1>1, RvmStepShape
<1>3. statement[r] = "look"
  BY DEF Look
<1>4. Doc(r) \in DOMAIN RowsOf /\ (r \in Chunks => Doc(r) = DocOf[r]) /\ todo[r] \in Seq(DOMAIN RowsOf)
  BY <1>1, <1>3, DocumentInHand DEF DocumentAt
<1>5. (\A q \in Staged \ {r} : Importing(q) => ~alone[q] /\ ~alone[r]) /\ r \in active
  BY <1>1, <1>2, OthersNotAlone
<1>6. PICK n : statement' = [statement EXCEPT ![r] = n]
  BY <1>1, RvmStepShape
<1>7. statement'[r] = n /\ \A q \in Requests \ {r} : statement'[q] = statement[q]
  BY <1>6 DEF RequestsAreTyped
<1>8. \A q \in Staged : statement[q] \in Staging \cup {"clean"} => Importing(q)
  BY DEF Staging, Importing, Over
<1>9. CASE r \in WholeImports
  <2>1. final' = final
    BY <1>9 DEF Look
  <2>2. \A d \in DOMAIN RowsOf : DocumentKept(d)
    BY <2>1, SameKept DEF Filed
  <2>3. CASE DocumentLoaded(Doc(r))
    <3>1. SkipDocument(r)
      BY <1>9, <2>3 DEF Look
    <3>2. /\ todo' = [todo EXCEPT ![r] = Tail(@)]
          /\ statement' = [statement EXCEPT ![r] = IF Tail(todo[r]) = <<>> THEN "done" ELSE "look"]
      BY <3>1 DEF SkipDocument, Proceed
    <3>3. /\ \A q \in Requests \ {r} : todo'[q] = todo[q]
          /\ statement'[r] \in {"done", "look"}
      BY <3>2 DEF RequestsAreTyped
    <3> QED BY <1>2, <1>7, <2>2, <3>3, FilesKept DEF Staging
  <2>4. CASE ~DocumentLoaded(Doc(r))
    <3>1. Filed(Doc(r)) = {} /\ todo' = todo
      BY <1>9, <2>4 DEF DocumentLoaded, Look
    <3>2. statement' = [statement EXCEPT ![r] = "drop"]
      BY <1>9, <2>4 DEF Look, Proceed
    <3>3. statement'[r] = "drop"
      BY <3>2 DEF RequestsAreTyped
    <3>4. \A d : Filed(d)' = Filed(d) /\ \A w, rows : Exactly(d, w, rows)' = Exactly(d, w, rows)
      BY <2>1 DEF Filed, Exactly
    <3>5. WholesAreAlone' = WholesAreAlone /\ AllOrNothing' = AllOrNothing
      BY <1>2, <3>4 DEF WholesAreAlone, AllOrNothing
    <3>6. \A q \in Requests : Doc(q)' = Doc(q)
      BY <3>1 DEF Doc
    <3>7. \A q \in WholeImports : q \in Requests /\ q \in Staged
      BY RequestKinds
    <3>8. WholesFileDocuments'
      <4>1. ASSUME WholesAreAlone', NEW q \in WholeImports, statement'[q] \in Staging
            PROVE  (Filed(Doc(q)) = {})'
        <5>1. CASE q = r
          BY <5>1, <3>1, <3>6, <3>7, <2>1 DEF Filed
        <5>2. CASE q # r
          <6>1. statement[q] \in Staging
            BY <5>2, <4>1, <1>7, <3>7
          <6>2. Filed(Doc(q)) = {}
            BY <6>1, <4>1, <3>5 DEF WholesFileDocuments
          <6> QED BY <6>2, <3>6, <3>7, <2>1 DEF Filed
        <5> QED BY <5>1, <5>2
      <4>2. ASSUME WholesAreAlone' PROVE AllOrNothing'
        BY <4>2, <3>5 DEF WholesFileDocuments
      <4> QED BY <4>1, <4>2 DEF WholesFileDocuments
    <3>9. ChunksFileRanges'
      <4>1. \A q \in Chunks : q \in Requests /\ q # r
        BY <1>9, RequestKinds
      <4>2. \A q \in Chunks : statement'[q] = statement[q] /\ alone'[q] = alone[q]
        BY <4>1, <1>7, <1>2
      <4> QED BY <4>2, <3>4 DEF ChunksFileRanges
    <3> QED BY <3>8, <3>9
  <2> QED BY <2>3, <2>4
<1>10. CASE r \in Chunks
  <2>1. r \notin WholeImports
    BY <1>10, RequestKinds
  <2>2. ~WholesAreAlone'
    BY <1>1, <1>2, <1>5, <2>1 DEF WholesAreAlone
  <2>3. /\ final' = {x \in final : ~(x.doc = DocOf[r] /\ x.row \in RangeOf[r])}
        /\ statement'[r] \in {"drop", "failed"}
    <3>1. /\ final' = {x \in final : ~(x.doc = Doc(r) /\ InRange(r, x.row))}
          /\ statement' = [statement EXCEPT ![r] = "drop"] \/ statement' = [statement EXCEPT ![r] = "failed"]
      BY <2>1 DEF Look, Answer, Proceed
    <3> QED BY <3>1, <1>4, <1>10 DEF RequestsAreTyped, InRange
  <2>4. {x \in Filed(DocOf[r])' : x.row \in RangeOf[r]} = {}
    BY <2>3 DEF Filed
  <2>5. ASSUME NEW q \in Chunks, alone'[q]
        PROVE  /\ statement'[q] \in Staging => {x \in Filed(DocOf[q])' : x.row \in RangeOf[q]} = {}
               /\ statement'[q] # "clean" \/
                  Exactly(DocOf[q], RangeOf[q], RowsToFile(DocOf[q]) \cap RangeOf[q])'
    <3>1. CASE q = r
      BY <3>1, <2>3, <2>4
    <3>2. CASE q # r
      <4>1. q \in Staged /\ q \in Requests /\ alone[q]
        BY <2>5, <1>2, RequestKinds
      <4>2. ~Importing(q)
        BY <3>2, <4>1, <1>5
      <4> QED BY <3>2, <4>1, <4>2, <1>7, <1>8
    <3> QED BY <3>1, <3>2
  <2>6. ChunksFileRanges'
    BY <2>5 DEF ChunksFileRanges
  <2> QED BY <2>2, <2>6 DEF WholesFileDocuments
<1> QED BY <1>1, <1>9, <1>10 DEF Staged

LEMMA AppendFiles ==
  ASSUME RegisterIsTyped, RequestsAreTyped, AloneIsAlone, StagingHoldsWhatWasRead,
         WholesFileDocuments, ChunksFileRanges, NEW r \in Requests, NormalizeAndAppend(r)
  PROVE  WholesFileDocuments' /\ ChunksFileRanges'
<1>1. r \in Staged /\ RvmStep(r) /\ statement[r] = "append"
  BY RvmStepKind DEF RvmStep, LoadDocument, NormalizeAndAppend
<1>2. Importing(r) /\ active' = active /\ alone' = alone
  BY <1>1, RvmStepShape
<1>3. /\ Doc(r) \in DOMAIN RowsOf /\ (r \in Chunks => Doc(r) = DocOf[r])
      /\ sent[r] = Len(RowsRead(r)) /\ todo' = todo
  BY <1>1, DocumentInHand DEF DocumentAt, NormalizeAndAppend
<1>4. (\A q \in Staged \ {r} : Importing(q) => ~alone[q] /\ ~alone[r]) /\ r \in active
  BY <1>1, <1>2, OthersNotAlone
<1>5. \A q \in Staged : statement[q] \in Staging \cup {"clean"} => Importing(q)
  BY DEF Staging, Importing, Over
<1>6. /\ statement'[r] \in {"clean", "failed"} /\ (statement'[r] = "clean" => stage # NoStage)
      /\ \A q \in Requests \ {r} : statement'[q] = statement[q]
  <2>1. \/ statement' = [statement EXCEPT ![r] = "clean"] /\ stage # NoStage
        \/ statement' = [statement EXCEPT ![r] = "failed"]
    BY DEF NormalizeAndAppend, Answer, Proceed
  <2> QED BY <2>1 DEF RequestsAreTyped
<1>7. CASE stage = NoStage
  <2>1. final' = final /\ statement'[r] \notin Staging
    BY <1>6, <1>7 DEF NormalizeAndAppend, Staging
  <2>2. \A d \in DOMAIN RowsOf : DocumentKept(d)
    BY <2>1, SameKept DEF Filed
  <2> QED BY <1>2, <1>3, <1>6, <1>7, <2>1, <2>2, FilesKept
<1>8. CASE stage # NoStage
  <2>1. final' = final \cup FiledBy(r)
    BY <1>8 DEF NormalizeAndAppend
  <2>2. \A x \in FiledBy(r) : x.doc = Doc(r)
    BY <1>1, <1>3, <1>8, FiledRows DEF RegisterIsTyped
  <2>3. Filed(Doc(r))' = Filed(Doc(r)) \cup FiledBy(r)
    <3>1. PICK d : d = Doc(r) /\ d = Doc(r)'
      BY <1>3 DEF Doc
    <3>2. {x \in final' : x.doc = d} = {x \in final : x.doc = d} \cup FiledBy(r)
      BY <2>1, <2>2, <3>1
    <3> QED BY <3>1, <3>2 DEF Filed
  <2>4. alone[r] =>
          /\ {x.row : x \in FiledBy(r)} = {w \in RowsToFile(Doc(r)) : InRange(r, w)}
          /\ \A x \in FiledBy(r), y \in FiledBy(r) : x.row = y.row => x = y
          /\ \A x \in FiledBy(r) : x.src = Doc(r)
    BY <1>1, <1>3, <1>8, FiledIsWanted DEF StagingHoldsWhatWasRead
  <2>5. WholesFileDocuments'
    <3> SUFFICES ASSUME WholesAreAlone'
                 PROVE  /\ AllOrNothing'
                        /\ \A q \in WholeImports : statement'[q] \in Staging => (Filed(Doc(q)) = {})'
      BY DEF WholesFileDocuments
    <3>1. WholesAreAlone /\ r \in WholeImports /\ r \notin Chunks /\ alone[r]
      BY <1>1, <1>2, <1>4, RequestKinds DEF WholesAreAlone
    <3>2. AllOrNothing /\ Filed(Doc(r)) = {}
      BY <1>1, <3>1 DEF WholesFileDocuments, Staging
    <3>3. {w \in RowsToFile(Doc(r)) : InRange(r, w)} = RowsToFile(Doc(r))
      BY <3>1 DEF InRange
    <3>4. RowsToFile(Doc(r)) \subseteq Nat
      BY <1>3, RequestKinds DEF RowsToFile
    <3>5. PICK d \in DOMAIN RowsOf : d = Doc(r) /\ d = Doc(r)'
      BY <1>3 DEF Doc
    <3>6. Exactly(d, Nat, RowsToFile(d))'
      <4>1. Filed(d)' = FiledBy(r)
        BY <2>3, <3>2, <3>5 DEF Filed
      <4>2. {x.row : x \in Filed(d)'} = RowsToFile(d)
        BY <4>1, <2>4, <3>1, <3>3, <3>5
      <4>3. {x \in Filed(d)' : x.row \in Nat} = Filed(d)'
        BY <4>2, <3>4, <3>5
      <4>4. /\ \A x \in Filed(d)', y \in Filed(d)' : x.row = y.row => x = y
            /\ \A x \in Filed(d)' : x.src = d
        BY <4>1, <2>4, <3>1, <3>5
      <4> QED BY <4>2, <4>3, <4>4 DEF Exactly
    <3>7. AllOrNothing'
      <4>1. ASSUME NEW e \in DOMAIN RowsOf, Filed(e)' # {}
            PROVE  Exactly(e, Nat, RowsToFile(e))'
        <5>1. CASE e = d
          BY <5>1, <3>6
        <5>2. CASE e # d
          <6>1. DocumentKept(e)
            BY <5>2, <3>5, <2>1, <2>2, SameKept DEF Filed
          <6>2. Filed(e) # {}
            BY <4>1, <6>1, ExactlyKept
          <6>3. Exactly(e, Nat, RowsToFile(e))
            BY <6>2, <3>2 DEF AllOrNothing
          <6> QED BY <6>1, <6>3, ExactlyKept
        <5> QED BY <5>1, <5>2
      <4> QED BY <4>1 DEF AllOrNothing
    <3>8. \A q \in WholeImports : statement'[q] \notin Staging
      <4> TAKE q \in WholeImports
      <4>1. q \in Staged /\ q \in Requests
        BY RequestKinds
      <4>2. CASE q = r
        BY <4>2, <1>6 DEF Staging
      <4>3. CASE q # r
        <5>1. ~Importing(q)
          BY <4>1, <4>3, <1>4, <3>1
        <5> QED BY <4>1, <4>3, <5>1, <1>5, <1>6
      <4> QED BY <4>2, <4>3
    <3> QED BY <3>7, <3>8
  <2>6. ChunksFileRanges'
    <3>1. ASSUME NEW q \in Chunks, alone'[q]
          PROVE  /\ statement'[q] \notin Staging
                 /\ statement'[q] = "clean" =>
                      Exactly(DocOf[q], RangeOf[q], RowsToFile(DocOf[q]) \cap RangeOf[q])'
      <4>1. q \in Staged /\ q \in Requests /\ alone[q]
        BY <3>1, <1>2, RequestKinds
      <4>2. CASE q # r
        <5>1. ~Importing(q)
          BY <4>1, <4>2, <1>4
        <5> QED BY <4>1, <4>2, <5>1, <1>5, <1>6
      <4>3. CASE q = r
        <5>1. r \in Chunks /\ alone[r] /\ Doc(r) = DocOf[r] /\ Doc(r)' = Doc(r)
          BY <3>1, <4>1, <4>3, <1>3 DEF Doc
        <5>2. {x \in Filed(DocOf[r]) : x.row \in RangeOf[r]} = {}
          BY <1>1, <5>1 DEF ChunksFileRanges, Staging
        <5>3. {w \in RowsToFile(Doc(r)) : InRange(r, w)} = RowsToFile(DocOf[r]) \cap RangeOf[r]
          BY <5>1 DEF InRange
        <5>4. {x.row : x \in FiledBy(r)} = RowsToFile(DocOf[r]) \cap RangeOf[r]
          BY <2>4, <5>1, <5>3
        <5>5. Filed(DocOf[r])' = Filed(DocOf[r]) \cup FiledBy(r)
          BY <2>3, <5>1 DEF Filed
        <5>6. {x \in Filed(DocOf[r])' : x.row \in RangeOf[r]} = FiledBy(r)
          BY <5>2, <5>4, <5>5
        <5>7. /\ \A x \in FiledBy(r), y \in FiledBy(r) : x.row = y.row => x = y
              /\ \A x \in FiledBy(r) : x.src = DocOf[r]
          BY <2>4, <5>1
        <5>8. Exactly(DocOf[r], RangeOf[r], RowsToFile(DocOf[r]) \cap RangeOf[r])'
          BY <5>4, <5>6, <5>7 DEF Exactly
        <5> QED BY <4>3, <5>8, <1>6 DEF Staging
      <4> QED BY <4>2, <4>3
    <3> QED BY <3>1 DEF ChunksFileRanges
  <2> QED BY <2>5, <2>6
<1> QED BY <1>7, <1>8

LEMMA RvmStepFiles ==
  ASSUME RegisterIsTyped, RequestsAreTyped, AloneIsAlone, StagingHoldsWhatWasRead,
         WholesFileDocuments, ChunksFileRanges, NEW r \in Requests, RvmStep(r)
  PROVE  WholesFileDocuments' /\ ChunksFileRanges'
<1>1. CASE Look(r)
  BY <1>1, LookFiles
<1>2. CASE NormalizeAndAppend(r)
  BY <1>2, AppendFiles
<1>3. CASE ~Look(r) /\ ~NormalizeAndAppend(r)
  <2>1. active' = active /\ alone' = alone
    BY RvmStepShape
  <2>2. \A d \in DOMAIN RowsOf : DocumentKept(d)
    BY <1>3, RvmStepKeepsDocuments
  <2>3. \A q \in Requests \ {r} : statement'[q] = statement[q]
    <3>1. PICK n : statement' = [statement EXCEPT ![r] = n]
      BY RvmStepShape
    <3> QED BY <3>1 DEF RequestsAreTyped
  <2>4. /\ \A q \in Requests \ {r} : todo'[q] = todo[q]
        /\ statement'[r] \in Staging => statement[r] \in Staging /\ todo'[r] = todo[r]
        /\ statement'[r] # "clean"
    <3>1. CASE LoadDocument(r)
      <4>1. CASE CleanStage(r)
        <5>1. \/ /\ todo' = [todo EXCEPT ![r] = Tail(@)]
                 /\ statement' = [statement EXCEPT ![r] = IF Tail(todo[r]) = <<>> THEN "done" ELSE "look"]
              \/ statement' = [statement EXCEPT ![r] = "failed"] /\ todo' = todo
          BY <4>1 DEF CleanStage, SkipDocument, Proceed
        <5>2. statement'[r] \in {"done", "look", "failed"}
          BY <5>1 DEF RequestsAreTyped
        <5> QED BY <5>1, <5>2 DEF RequestsAreTyped, Staging
      <4>2. CASE DropStage(r) \/ CreateStage(r) \/ PassRow(r) \/ AppendStage(r)
        <5>1. /\ todo' = todo /\ statement[r] \in Staging
              /\ \/ statement' = statement
                 \/ \E n \in {"create", "append", "failed"} : statement' = [statement EXCEPT ![r] = n]
          BY <4>2 DEF DropStage, CreateStage, PassRow, AppendStage, Unread, Answer, Proceed, Staging
        <5>2. statement'[r] # "clean"
          BY <5>1 DEF RequestsAreTyped, Staging
        <5> QED BY <5>1, <5>2
      <4> QED BY <1>3, <3>1, <4>1, <4>2 DEF LoadDocument
    <3>2. CASE Replace(r)
      <4>1. r \in Months
        BY <3>2, RvmStepKind
      <4>2. statement'[r] \in MonthAt \cup OverNow
        <5>1. PICK n \in MonthAt \cup OverNow : statement' = [statement EXCEPT ![r] = n]
          BY <4>1, RvmStepShape
        <5> QED BY <5>1 DEF RequestsAreTyped
      <4>3. todo' = todo
        BY <3>2 DEF Replace, EnsureSchema, CountConsolidated, DeletePreliminary, InsertMonthBatch,
                    CountLoaded, CompareRest
      <4> QED BY <4>2, <4>3 DEF MonthAt, OverNow, Staging
    <3>3. CASE Unanswered(r) \/ StopImport(r)
      <4>1. todo' = todo /\ \E n \in {"failed", "stopped"} : statement' = [statement EXCEPT ![r] = n]
        BY <3>3 DEF Unanswered, StopImport, Proceed
      <4>2. statement'[r] \in {"failed", "stopped"}
        BY <4>1 DEF RequestsAreTyped
      <4> QED BY <4>1, <4>2 DEF Staging
    <3> QED BY <3>1, <3>2, <3>3 DEF RvmStep
  <2> QED BY <2>1, <2>2, <2>3, <2>4, FilesKept
<1> QED BY <1>1, <1>2, <1>3

LEMMA BeginFiles ==
  ASSUME RequestsAreTyped, AloneIsAlone, StagingHoldsWhatWasRead, WholesFileDocuments, ChunksFileRanges,
         NEW r \in Requests, BeginImport(r)
  PROVE  WholesFileDocuments' /\ ChunksFileRanges'
<1>1. \A q \in Requests : alone'[q] => alone[q]
  BY BeginAlone
<1>2. final' = final /\ active' = active /\ todo' = todo
  BY DEF BeginImport
<1>3. \A d \in DOMAIN RowsOf : DocumentKept(d)
  BY <1>2, SameKept DEF Filed
<1>4. statement'[r] \in {"look", "schema"} /\ \A q \in Requests \ {r} : statement'[q] = statement[q]
  BY DEF BeginImport, Proceed, RequestsAreTyped
<1> QED BY <1>1, <1>2, <1>3, <1>4, FilesKept DEF Staging

\* The part of StagingHoldsWhatWasRead about one request.
InHand(r) ==
  statement[r] \in DocumentAt \cup {"idle"} => todo[r] # <<>> /\ (r \in Chunks => todo[r] = <<DocOf[r]>>)
HasRead(r) ==
  statement[r] = "append" =>
    sent[r] <= Len(RowsRead(r)) /\ (alone[r] /\ stage # NoStage => stage = ReadBy(r))

LEMMA OneRowMore ==
  ASSUME RequestsAreTyped, StagingHoldsWhatWasRead, NEW r \in Staged, Unread(r),
         todo' = todo, sent' = [sent EXCEPT ![r] = @ + 1]
  PROVE  /\ sent'[r] <= Len(RowsRead(r))' /\ \A q \in Requests \ {r} : sent'[q] = sent[q]
         /\ ReadBy(r)' = ReadBy(r) \cup
              (IF InRange(r, RowAt(r)) THEN {[src |-> Doc(r), row |-> RowAt(r), by |-> r]} ELSE {})
<1>1. statement[r] = "append" /\ sent[r] < Len(RowsRead(r)) /\ sent[r] \in Nat /\ r \in Requests
  BY RequestKinds DEF Unread, RequestsAreTyped
<1>2. RowsRead(r) \in Seq(Nat) /\ Len(RowsRead(r)) \in Nat
  BY <1>1, DocumentInHand DEF DocumentAt
<1>3. sent'[r] = sent[r] + 1 /\ \A q \in Requests \ {r} : sent'[q] = sent[q]
  BY <1>1 DEF RequestsAreTyped
<1>4. Doc(r)' = Doc(r) /\ RowsRead(r)' = RowsRead(r)
  BY DEF Doc, RowsRead
<1>5. 1..(sent[r] + 1) = (1..sent[r]) \cup {sent[r] + 1}
  BY <1>1
<1> DEFINE put(i) == [src |-> Doc(r), row |-> RowsRead(r)[i], by |-> r]
           within(i) == InRange(r, RowsRead(r)[i])
<1>6. ReadBy(r) = {put(i) : i \in {j \in 1..sent[r] : within(j)}}
  BY DEF ReadBy
<1>7. ReadBy(r)' = {put(i) : i \in {j \in 1..(sent[r] + 1) : within(j)}}
  BY <1>3, <1>4 DEF ReadBy, InRange
<1>8. within(sent[r] + 1) <=> InRange(r, RowAt(r))
  BY DEF RowAt
<1>9. put(sent[r] + 1) = [src |-> Doc(r), row |-> RowAt(r), by |-> r]
  BY DEF RowAt
<1> HIDE DEF put, within
<1>10. ReadBy(r)' = ReadBy(r) \cup (IF within(sent[r] + 1) THEN {put(sent[r] + 1)} ELSE {})
  BY <1>5, <1>6, <1>7
<1> QED BY <1>1, <1>2, <1>3, <1>4, <1>8, <1>9, <1>10

LEMMA RvmStepStaging ==
  ASSUME RegisterIsTyped, RequestsAreTyped, AloneIsAlone, StagingHoldsWhatWasRead,
         NEW r \in Requests, RvmStep(r)
  PROVE  StagingHoldsWhatWasRead'
<1>1. Importing(r) /\ active' = active /\ alone' = alone
  BY RvmStepShape
<1>2. PICK n \in DocumentAt \cup MonthAt \cup OverNow : statement' = [statement EXCEPT ![r] = n]
  BY RvmStepShape
<1>3. statement'[r] = n /\ \A q \in Requests \ {r} : statement'[q] = statement[q]
  BY <1>2 DEF RequestsAreTyped
<1>4. \A q \in Staged : q \in Requests
  BY RequestKinds
<1>5. \A q \in Staged : InHand(q) /\ HasRead(q)
  BY DEF StagingHoldsWhatWasRead, InHand, HasRead
<1>6. \/ todo' = todo
      \/ /\ r \in Staged /\ SkipDocument(r) /\ statement[r] \in DocumentAt
  BY RvmStepKind
  DEF RvmStep, LoadDocument, Look, DropStage, CreateStage, PassRow, AppendStage, NormalizeAndAppend,
      CleanStage, Replace, EnsureSchema, CountConsolidated, DeletePreliminary, InsertMonthBatch,
      CountLoaded, CompareRest, Unanswered, StopImport, DocumentAt
<1>7. \A q \in Requests \ {r} : todo'[q] = todo[q]
  BY <1>6 DEF SkipDocument, RequestsAreTyped
<1>8. \A q \in Requests \ {r} : sent'[q] = sent[q]
  <2>1. \/ sent' = sent \/ \E m : sent' = [sent EXCEPT ![r] = m]
    BY DEF RvmStep, LoadDocument, Look, DropStage, CreateStage, PassRow, AppendStage, NormalizeAndAppend,
          CleanStage, Replace, EnsureSchema, CountConsolidated, DeletePreliminary, InsertMonthBatch,
          CountLoaded, CompareRest, Unanswered, StopImport
  <2> QED BY <2>1 DEF RequestsAreTyped
<1>9. r \in Months => stage' = stage
  BY RvmStepKind, RequestKinds
  DEF RvmStep, Replace, EnsureSchema, CountConsolidated, DeletePreliminary, InsertMonthBatch,
      CountLoaded, CompareRest, Unanswered, StopImport
<1>10. ASSUME NEW q \in Staged \ {r}
       PROVE  InHand(q)' /\ HasRead(q)'
  <2>1. /\ statement'[q] = statement[q] /\ todo'[q] = todo[q] /\ sent'[q] = sent[q]
        /\ alone'[q] = alone[q]
    BY <1>1, <1>3, <1>4, <1>7, <1>8
  <2>2. Doc(q)' = Doc(q) /\ RowsRead(q)' = RowsRead(q) /\ ReadBy(q)' = ReadBy(q)
    BY <2>1 DEF Doc, RowsRead, ReadBy, InRange
  <2>3. statement[q] = "append" /\ alone[q] => stage' = stage
    <3>1. CASE r \in Months
      BY <3>1, <1>9
    <3>2. CASE r \in Staged
      BY <3>2, <1>1, OthersNotAlone DEF Importing, Over
    <3> QED BY <3>1, <3>2, RequestKinds
  <2> QED BY <1>5, <2>1, <2>2, <2>3 DEF InHand, HasRead
<1>11. ASSUME r \in Staged
       PROVE  InHand(r)' /\ HasRead(r)'
  <2>1. InHand(r)'
    <3>1. CASE todo' = todo
      <4>1. statement[r] \in DocumentAt
        BY <1>1, <1>11 DEF RequestsAreTyped, Importing
      <4> QED BY <3>1, <4>1, <1>5, <1>11 DEF InHand
    <3>2. CASE SkipDocument(r) /\ statement[r] \in DocumentAt
      <4>1. /\ todo' = [todo EXCEPT ![r] = Tail(@)]
            /\ statement' = [statement EXCEPT ![r] = IF Tail(todo[r]) = <<>> THEN "done" ELSE "look"]
        BY <3>2 DEF SkipDocument, Proceed
      <4>2. /\ todo'[r] = Tail(todo[r])
            /\ statement'[r] = IF Tail(todo[r]) = <<>> THEN "done" ELSE "look"
        BY <4>1 DEF RequestsAreTyped
      <4>3. r \in Chunks => todo[r] = <<DocOf[r]>>
        BY <3>2, <1>11, <1>5 DEF InHand
      <4>4. r \in Chunks => Tail(todo[r]) = <<>>
        <5>1. todo[r] \in Seq(DOMAIN RowsOf) /\ todo[r] # <<>> /\ Tail(todo[r]) \in Seq(DOMAIN RowsOf)
          BY <3>2, <1>11, DocumentInHand
        <5>2. Len(Tail(todo[r])) = Len(todo[r]) - 1
          BY <5>1, HeadTailProperties
        <5>3. r \in Chunks => Len(todo[r]) = 1
          BY <4>3
        <5>4. Tail(todo[r]) # <<>> => Len(Tail(todo[r])) \in Nat \ {0}
          BY <5>1, EmptySeq
        <5> QED BY <5>2, <5>3, <5>4
      <4>5. "done" \notin DocumentAt \cup {"idle"}
        BY DEF DocumentAt
      <4> QED BY <4>2, <4>4, <4>5 DEF InHand
    <3> QED BY <3>1, <3>2, <1>6
  <2>2. CASE statement'[r] # "append"
    BY <2>1, <2>2 DEF HasRead
  <2>3. CASE statement'[r] = "append"
    <3>1. CreateStage(r) \/ PassRow(r) \/ AppendStage(r)
      <4>1. CASE LoadDocument(r) /\ ~(CreateStage(r) \/ PassRow(r) \/ AppendStage(r))
        <5>1. \E m \in {"done", "look", "drop", "create", "clean", "failed"} :
                statement' = [statement EXCEPT ![r] = m]
          BY <4>1 DEF LoadDocument, Look, DropStage, NormalizeAndAppend, CleanStage, SkipDocument,
                      Answer, Proceed
        <5> QED BY <5>1, <2>3 DEF RequestsAreTyped
      <4>2. CASE Unanswered(r) \/ StopImport(r)
        <5>1. \E m \in {"failed", "stopped"} : statement' = [statement EXCEPT ![r] = m]
          BY <4>2 DEF Unanswered, StopImport, Proceed
        <5> QED BY <5>1, <2>3 DEF RequestsAreTyped
      <4> QED BY <1>11, <4>1, <4>2, RvmStepKind DEF RvmStep
    <3>2. CASE CreateStage(r)
      <4>1. sent' = [sent EXCEPT ![r] = 0] /\ todo' = todo /\ statement[r] = "create"
        BY <3>2 DEF CreateStage
      <4>2. sent'[r] = 0
        BY <4>1 DEF RequestsAreTyped
      <4>3. stage' = {}
        <5>1. CASE stage = NoStage
          BY <3>2, <5>1 DEF CreateStage
        <5>2. CASE stage # NoStage
          <6>1. statement' = [statement EXCEPT ![r] = "failed"]
            BY <3>2, <5>2 DEF CreateStage, Proceed
          <6> QED BY <6>1, <2>3 DEF RequestsAreTyped
        <5> QED BY <5>1, <5>2
      <4>4. Len(RowsRead(r)) \in Nat /\ RowsRead(r)' = RowsRead(r)
        BY <4>1, <1>11, DocumentInHand DEF DocumentAt, RowsRead, Doc
      <4>5. ReadBy(r)' = {}
        BY <4>2 DEF ReadBy
      <4> QED BY <2>1, <4>2, <4>3, <4>4, <4>5 DEF HasRead
    <3>3. CASE PassRow(r)
      <4>1. /\ Unread(r) /\ ~InRange(r, RowAt(r)) /\ todo' = todo /\ stage' = stage
            /\ sent' = [sent EXCEPT ![r] = @ + 1]
        BY <3>3 DEF PassRow
      <4>2. sent'[r] <= Len(RowsRead(r))' /\ ReadBy(r)' = ReadBy(r)
        BY <4>1, <1>11, OneRowMore
      <4>3. statement[r] = "append"
        BY <4>1 DEF Unread
      <4> QED BY <1>1, <1>5, <1>11, <2>1, <4>1, <4>2, <4>3 DEF HasRead
    <3>4. CASE AppendStage(r)
      <4>1. Unread(r) /\ InRange(r, RowAt(r)) /\ todo' = todo /\ statement[r] = "append"
        BY <3>4 DEF AppendStage, Unread
      <4>2. stage # NoStage
        <5> SUFFICES ASSUME stage = NoStage PROVE FALSE
          OBVIOUS
        <5>1. statement' = [statement EXCEPT ![r] = "failed"]
          BY <3>4 DEF AppendStage, Proceed
        <5> QED BY <5>1, <2>3 DEF RequestsAreTyped
      <4>3. /\ stage' = stage \cup {[src |-> Doc(r), row |-> RowAt(r), by |-> r]}
            /\ sent' = [sent EXCEPT ![r] = @ + 1]
        BY <3>4, <4>2 DEF AppendStage
      <4>4. /\ sent'[r] <= Len(RowsRead(r))'
            /\ ReadBy(r)' = ReadBy(r) \cup {[src |-> Doc(r), row |-> RowAt(r), by |-> r]}
        BY <4>1, <4>3, <1>11, OneRowMore
      <4>5. alone[r] => stage = ReadBy(r)
        BY <1>5, <1>11, <4>1, <4>2 DEF HasRead
      <4> QED BY <1>1, <2>1, <4>3, <4>4, <4>5 DEF HasRead
    <3> QED BY <2>1, <3>1, <3>2, <3>3, <3>4
  <2> QED BY <2>1, <2>2, <2>3
<1> QED BY <1>10, <1>11 DEF StagingHoldsWhatWasRead, InHand, HasRead

LEMMA BeginStaging ==
  ASSUME RequestsAreTyped, AloneIsAlone, StagingHoldsWhatWasRead, NEW r \in Requests, BeginImport(r)
  PROVE  StagingHoldsWhatWasRead'
<1>1. \A q \in Requests : alone'[q] => alone[q]
  BY BeginAlone
<1>2. stage' = stage /\ todo' = todo /\ sent' = sent
  BY DEF BeginImport
<1>3. /\ statement'[r] \in {"look", "schema"} /\ statement[r] = "idle"
      /\ \A q \in Requests \ {r} : statement'[q] = statement[q]
  BY DEF BeginImport, Proceed, RequestsAreTyped
<1>4. \A q \in Staged : RowsRead(q)' = RowsRead(q) /\ ReadBy(q)' = ReadBy(q)
  BY <1>2 DEF RowsRead, ReadBy, Doc, InRange
<1>5. ASSUME NEW q \in Staged
      PROVE  /\ statement'[q] \in DocumentAt \cup {"idle"} => statement[q] \in DocumentAt \cup {"idle"}
             /\ statement'[q] = "append" => statement[q] = "append"
             /\ q \in Requests
  BY <1>3, RequestKinds
<1> QED BY <1>1, <1>2, <1>4, <1>5 DEF StagingHoldsWhatWasRead

(***************************************************************************)
(* The preliminary month.                                                  *)
(***************************************************************************)
Earlier == {"idle", "schema", "before", "delete"}

LEMMA MonthKept ==
  ASSUME MonthHoldsLastBatches, WithStatus("PRELIMINARY")' = WithStatus("PRELIMINARY"), active' = active,
         \A q \in Months :
           /\ sent'[q] = sent[q]
           /\ statement'[q] \in Earlier => statement[q] \in Earlier
           /\ statement'[q] = "insert" => statement[q] = "insert"
           /\ statement'[q] = "count" => statement[q] = "count"
  PROVE  MonthHoldsLastBatches'
<1>1. PICK base \in [Months -> Nat] :
        /\ \A q \in Months : base[q] <= sent[q]
        /\ WithStatus("PRELIMINARY") = Held(base)
        /\ (\E q \in Months : statement[q] \in {"insert", "count"}) =>
             \E q \in active \cap Months : base[q] = 0
  BY DEF MonthHoldsLastBatches
<1>2. Held(base)' = Held(base)
  BY DEF Held, Batch
<1>3. /\ \A q \in Months : base[q] <= sent'[q]
      /\ WithStatus("PRELIMINARY")' = Held(base)'
      /\ (\E q \in Months : statement'[q] \in {"insert", "count"}) =>
           \E q \in active' \cap Months : base[q] = 0
  BY <1>1, <1>2
<1>4. \A q \in Months :
        /\ statement'[q] \in Earlier => sent'[q] = 0
        /\ statement'[q] = "insert" => sent'[q] < BatchesOf[FileOf[q]]
        /\ statement'[q] = "count" => sent'[q] = BatchesOf[FileOf[q]]
  BY DEF MonthHoldsLastBatches, Earlier
<1> QED BY <1>3, <1>4 DEF MonthHoldsLastBatches, Earlier

\* Only the two statements that are about preliminary rows change them.
LEMMA PreliminaryKept ==
  ASSUME RegisterIsTyped, RequestsAreTyped, StagingHoldsWhatWasRead, NEW r \in Requests, RvmStep(r),
         ~DeletePreliminary(r), ~InsertMonthBatch(r)
  PROVE  WithStatus("PRELIMINARY")' = WithStatus("PRELIMINARY")
<1>1. CASE final' = final
  BY <1>1 DEF WithStatus
<1>2. CASE Look(r) /\ final' # final
  <2>1. r \in Staged /\ Doc(r) \in DOMAIN RowsOf
    BY <1>2, RvmStepKind, DocumentInHand DEF LoadDocument, Look, DocumentAt
  <2>2. final' = {x \in final : ~(x.doc = Doc(r) /\ InRange(r, x.row))}
    BY <1>2 DEF Look
  <2>3. \A x \in WithStatus("PRELIMINARY") : x.doc # Doc(r)
    BY <2>1, RequestKinds DEF WithStatus, RegisterIsTyped
  <2> QED BY <2>2, <2>3 DEF WithStatus
<1>3. CASE NormalizeAndAppend(r) /\ final' # final
  <2>1. r \in Staged /\ Doc(r) \in DOMAIN RowsOf
    BY <1>3, RvmStepKind, DocumentInHand DEF LoadDocument, NormalizeAndAppend, DocumentAt
  <2>2. final' = final \cup FiledBy(r) /\ stage # NoStage
    BY <1>3 DEF NormalizeAndAppend
  <2>3. \A x \in FiledBy(r) : x.status # "PRELIMINARY"
    BY <2>1, <2>2, FiledRows, RvmAssumption DEF RegisterIsTyped
  <2> QED BY <2>2, <2>3 DEF WithStatus
<1>4. CASE EnsureSchema(r)
  <2>1. final' = {Consolidated(x) : x \in final}
    BY <1>4, SchemaFills
  <2>2. \A x \in final : /\ Consolidated(x).status = "PRELIMINARY" <=> x.status = "PRELIMINARY"
                         /\ x.status = "PRELIMINARY" => Consolidated(x) = x
    BY <1>4, SchemaFills
  <2> QED BY <2>1, <2>2 DEF WithStatus
<1>5. final' = final \/ Look(r) \/ NormalizeAndAppend(r) \/ EnsureSchema(r)
  BY DEF RvmStep, LoadDocument, DropStage, CreateStage, PassRow, AppendStage, CleanStage, Replace,
         CountConsolidated, CountLoaded, CompareRest, Unanswered, StopImport
<1> QED BY <1>1, <1>2, <1>3, <1>4, <1>5

LEMMA RvmStepMonth ==
  ASSUME RegisterIsTyped, RequestsAreTyped, AloneIsAlone, StagingHoldsWhatWasRead, MonthHoldsLastBatches,
         NEW r \in Requests, RvmStep(r)
  PROVE  MonthHoldsLastBatches'
<1>1. Importing(r) /\ active' = active /\ r \in active
  BY RvmStepShape DEF AloneIsAlone, Importing, Over
<1>2. PICK n \in DocumentAt \cup MonthAt \cup OverNow : statement' = [statement EXCEPT ![r] = n]
  BY RvmStepShape
<1>3. statement'[r] = n /\ \A q \in Requests \ {r} : statement'[q] = statement[q]
  BY <1>2 DEF RequestsAreTyped
<1>4. \A q \in Months : q \in Requests /\ q \notin Staged /\ sent[q] \in Nat
  BY RequestKinds DEF RequestsAreTyped
<1>5. PICK base \in [Months -> Nat] :
        /\ \A q \in Months : base[q] <= sent[q]
        /\ WithStatus("PRELIMINARY") = Held(base)
        /\ (\E q \in Months : statement[q] \in {"insert", "count"}) =>
             \E q \in active \cap Months : base[q] = 0
  BY DEF MonthHoldsLastBatches
<1>6. CASE DeletePreliminary(r)
  <2>1. r \in Months /\ statement[r] = "delete" /\ sent' = sent
    BY <1>6, RvmStepKind DEF Replace, DeletePreliminary
  <2>2. WithStatus("PRELIMINARY")' = {}
    BY <1>6 DEF DeletePreliminary, WithStatus
  <2>3. statement'[r] \in {"insert", "failed"}
    <3>1. statement' = [statement EXCEPT ![r] = "insert"] \/ statement' = [statement EXCEPT ![r] = "failed"]
      BY <1>6 DEF DeletePreliminary, Answer, Proceed
    <3> QED BY <3>1 DEF RequestsAreTyped
  <2>4. sent[r] = 0
    BY <2>1 DEF MonthHoldsLastBatches
  <2>5. PICK gone \in [Months -> Nat] : \A q \in Months : gone[q] = sent'[q]
    <3>1. [q \in Months |-> sent[q]] \in [Months -> Nat]
      BY <1>4
    <3> QED BY <3>1, <2>1
  <2>6. gone[r] = 0
    BY <2>1, <2>4, <2>5
  <2>7. Held(gone)' = {}
    <3>1. \A q \in Months : gone[q] + 1..sent'[q] = {}
      BY <1>4, <2>1, <2>5
    <3>2. Held(gone)' = UNION {{Batch(q, i) : i \in gone[q] + 1..sent'[q]} : q \in Months}
      BY DEF Held, Batch
    <3> QED BY <3>1, <3>2
  <2>8. \A q \in Months : gone[q] <= sent'[q]
    BY <1>4, <2>1, <2>5
  <2>9. \A q \in Months :
          /\ statement'[q] \in Earlier => sent'[q] = 0
          /\ statement'[q] = "insert" => sent'[q] < BatchesOf[FileOf[q]]
          /\ statement'[q] = "count" => sent'[q] = BatchesOf[FileOf[q]]
    <3> TAKE q \in Months
    <3>1. CASE q = r
      BY <3>1, <2>1, <2>3, <2>4, RequestKinds DEF Earlier
    <3>2. CASE q # r
      BY <3>2, <1>3, <1>4, <2>1 DEF MonthHoldsLastBatches, Earlier
    <3> QED BY <3>1, <3>2
  <2> QED BY <1>1, <2>1, <2>2, <2>5, <2>6, <2>7, <2>8, <2>9 DEF MonthHoldsLastBatches, Earlier
<1>7. CASE InsertMonthBatch(r)
  <2>1. r \in Months /\ statement[r] = "insert" /\ sent' = [sent EXCEPT ![r] = @ + 1]
    BY <1>7, RvmStepKind DEF Replace, InsertMonthBatch
  <2>2. sent'[r] = sent[r] + 1 /\ \A q \in Months \ {r} : sent'[q] = sent[q]
    BY <2>1, <1>4 DEF RequestsAreTyped
  <2>3. /\ statement'[r] \in {"count", "insert", "failed"}
        /\ statement'[r] = "count" <=> sent[r] + 1 = BatchesOf[FileOf[r]] /\ statement'[r] # "failed"
    <3>1. \/ statement' = [statement EXCEPT ![r] =
                             IF sent[r] + 1 = BatchesOf[FileOf[r]] THEN "count" ELSE "insert"]
          \/ statement' = [statement EXCEPT ![r] = "failed"]
      BY <1>7 DEF InsertMonthBatch, Answer, Proceed
    <3>2. \/ statement'[r] = IF sent[r] + 1 = BatchesOf[FileOf[r]] THEN "count" ELSE "insert"
          \/ statement'[r] = "failed"
      BY <3>1 DEF RequestsAreTyped
    <3> QED BY <3>2
  <2>4. WithStatus("PRELIMINARY")' = WithStatus("PRELIMINARY") \cup {Batch(r, sent[r] + 1)}
    <3>1. final' = final \cup {Batch(r, sent[r] + 1)}
      BY <1>7 DEF InsertMonthBatch
    <3>2. Batch(r, sent[r] + 1).status = "PRELIMINARY"
      BY DEF Batch
    <3> QED BY <3>1, <3>2 DEF WithStatus
  <2>5. Held(base)' = Held(base) \cup {Batch(r, sent[r] + 1)}
    <3> DEFINE part(q) == {Batch(q, i) : i \in base[q] + 1..sent[q]}
               next(q) == {Batch(q, i) : i \in base[q] + 1..sent'[q]}
    <3>1. Held(base) = UNION {part(q) : q \in Months} /\ Held(base)' = UNION {next(q) : q \in Months}
      BY DEF Held, Batch
    <3>2. base[r] \in Nat /\ base[r] <= sent[r] /\ sent[r] \in Nat
      BY <1>4, <1>5, <2>1
    <3>3. base[r] + 1..sent[r] + 1 = (base[r] + 1..sent[r]) \cup {sent[r] + 1}
      BY <3>2
    <3>4. next(r) = part(r) \cup {Batch(r, sent[r] + 1)}
      BY <3>3, <2>2
    <3>5. \A q \in Months \ {r} : next(q) = part(q)
      BY <2>2
    <3> HIDE DEF part, next
    <3> QED BY <2>1, <3>1, <3>4, <3>5
  <2>6. \A q \in Months : base[q] <= sent'[q]
    BY <1>4, <1>5, <2>1, <2>2
  <2>7. \E q \in active' \cap Months : base[q] = 0
    BY <1>1, <1>5, <2>1
  <2>8. \A q \in Months :
          /\ statement'[q] \in Earlier => sent'[q] = 0
          /\ statement'[q] = "insert" => sent'[q] < BatchesOf[FileOf[q]]
          /\ statement'[q] = "count" => sent'[q] = BatchesOf[FileOf[q]]
    <3> TAKE q \in Months
    <3>1. CASE q = r
      <4>1. sent[r] < BatchesOf[FileOf[r]] /\ BatchesOf[FileOf[r]] \in Nat
        BY <2>1, RequestKinds DEF MonthHoldsLastBatches
      <4> QED BY <3>1, <4>1, <1>4, <2>1, <2>2, <2>3 DEF Earlier
    <3>2. CASE q # r
      BY <3>2, <1>3, <1>4, <2>2 DEF MonthHoldsLastBatches, Earlier
    <3> QED BY <3>1, <3>2
  <2> QED BY <1>5, <2>4, <2>5, <2>6, <2>7, <2>8 DEF MonthHoldsLastBatches, Earlier
<1>8. CASE ~DeletePreliminary(r) /\ ~InsertMonthBatch(r)
  <2>1. WithStatus("PRELIMINARY")' = WithStatus("PRELIMINARY")
    BY <1>8, PreliminaryKept
  <2>2. \A q \in Months : sent'[q] = sent[q]
    <3>1. CASE r \in Staged
      <4>1. \/ sent' = sent \/ \E m : sent' = [sent EXCEPT ![r] = m]
        BY <1>8 DEF RvmStep, LoadDocument, Look, DropStage, CreateStage, PassRow, AppendStage,
                    NormalizeAndAppend, CleanStage, Replace, EnsureSchema, CountConsolidated, CountLoaded,
                    CompareRest, Unanswered, StopImport
      <4> QED BY <3>1, <4>1, <1>4 DEF RequestsAreTyped
    <3>2. CASE r \notin Staged
      BY <1>8, <3>2, RvmStepKind
      DEF RvmStep, Replace, EnsureSchema, CountConsolidated, CountLoaded, CompareRest, Unanswered, StopImport
    <3> QED BY <3>1, <3>2
  <2>3. ASSUME r \in Months
        PROVE  /\ statement'[r] \in Earlier => statement[r] \in Earlier
               /\ statement'[r] \notin {"insert", "count"}
    <3>1. CASE EnsureSchema(r) \/ CountConsolidated(r)
      <4>1. /\ statement[r] \in Earlier
            /\ \E m \in {"before", "delete", "failed"} : statement' = [statement EXCEPT ![r] = m]
        BY <3>1 DEF EnsureSchema, CountConsolidated, Answer, Proceed, Earlier
      <4> QED BY <4>1 DEF RequestsAreTyped
    <3>2. CASE CountLoaded(r) \/ CompareRest(r) \/ Unanswered(r) \/ StopImport(r)
      <4>1. \E m \in {"compare", "done", "failed", "stopped"} : statement' = [statement EXCEPT ![r] = m]
        BY <3>2 DEF CountLoaded, CompareRest, Unanswered, StopImport, Proceed
      <4>2. statement'[r] \in {"compare", "done", "failed", "stopped"}
        BY <4>1 DEF RequestsAreTyped
      <4> QED BY <4>2 DEF Earlier
    <3> QED BY <1>8, <2>3, <3>1, <3>2, RvmStepKind DEF RvmStep, Replace
  <2> QED BY <1>1, <1>3, <1>4, <2>1, <2>2, <2>3, MonthKept
<1> QED BY <1>6, <1>7, <1>8

LEMMA BeginKeepsRegister ==
  ASSUME RegisterInv, NEW r \in Requests, BeginImport(r)
  PROVE  RegisterInv'
<1>1. /\ RegisterIsTyped /\ RequestsAreTyped /\ AloneIsAlone /\ StagingHoldsWhatWasRead
      /\ WholesFileDocuments /\ ChunksFileRanges /\ MonthHoldsLastBatches
  BY DEF RegisterInv
<1>2. final' = final /\ stage' = stage /\ active' = active /\ todo' = todo /\ sent' = sent
  BY DEF BeginImport
<1>3. /\ statement'[r] \in {"look", "schema"} /\ statement[r] = "idle"
      /\ statement' \in [Requests -> DocumentAt \cup MonthAt \cup Over]
      /\ r \in Months => statement'[r] = "schema"
      /\ r \notin Months => statement'[r] = "look"
      /\ \A q \in Requests \ {r} : statement'[q] = statement[q]
  BY <1>1 DEF BeginImport, Proceed, RequestsAreTyped, DocumentAt, MonthAt
<1>4. RegisterIsTyped'
  BY <1>1, <1>2 DEF RegisterIsTyped
<1>5. AloneIsAlone' /\ alone' \in [Requests -> BOOLEAN]
  BY <1>1, BeginAlone
<1>6. RequestsAreTyped'
  <2>1. \A q \in Staged : statement'[q] \in DocumentAt \cup Over
    BY <1>1, <1>3, RequestKinds DEF RequestsAreTyped, DocumentAt
  <2>2. \A q \in Months : statement'[q] \in MonthAt \cup Over
    BY <1>1, <1>3, RequestKinds DEF RequestsAreTyped, MonthAt
  <2> QED BY <1>1, <1>2, <1>3, <1>5, <2>1, <2>2 DEF RequestsAreTyped
<1>7. StagingHoldsWhatWasRead'
  BY <1>1, BeginStaging
<1>8. WholesFileDocuments' /\ ChunksFileRanges'
  BY <1>1, BeginFiles
<1>9. MonthHoldsLastBatches'
  <2>1. WithStatus("PRELIMINARY")' = WithStatus("PRELIMINARY")
    BY <1>2 DEF WithStatus
  <2>2. \A q \in Months :
          /\ sent'[q] = sent[q]
          /\ statement'[q] \in Earlier => statement[q] \in Earlier
          /\ statement'[q] = "insert" => statement[q] = "insert"
          /\ statement'[q] = "count" => statement[q] = "count"
    BY <1>2, <1>3, RequestKinds DEF Earlier
  <2> QED BY <1>1, <1>2, <2>1, <2>2, MonthKept
<1> QED BY <1>4, <1>5, <1>6, <1>7, <1>8, <1>9 DEF RegisterInv

LEMMA NextKeepsRegister == RegisterInv /\ [RvmNext]_rvmVars => RegisterInv'
<1>1. ASSUME RegisterInv, NEW r \in Requests, RvmStep(r) PROVE RegisterInv'
  <2>1. /\ RegisterIsTyped /\ RequestsAreTyped /\ AloneIsAlone /\ StagingHoldsWhatWasRead
        /\ WholesFileDocuments /\ ChunksFileRanges /\ MonthHoldsLastBatches
    BY <1>1 DEF RegisterInv
  <2>2. RegisterIsTyped'
    BY <1>1, <2>1, RvmStepRegisterTyped
  <2>3. RequestsAreTyped'
    BY <1>1, <2>1, RvmStepRequestsTyped
  <2>4. AloneIsAlone'
    BY <1>1, <2>1, RvmStepAlone
  <2>5. StagingHoldsWhatWasRead'
    BY <1>1, <2>1, RvmStepStaging
  <2>6. WholesFileDocuments' /\ ChunksFileRanges'
    BY <1>1, <2>1, RvmStepFiles
  <2>7. MonthHoldsLastBatches'
    BY <1>1, <2>1, RvmStepMonth
  <2> QED BY <2>2, <2>3, <2>4, <2>5, <2>6, <2>7 DEF RegisterInv
<1>2. ASSUME RegisterInv, UNCHANGED rvmVars PROVE RegisterInv'
  <2>1. /\ final' = final /\ stage' = stage /\ active' = active /\ statement' = statement
        /\ todo' = todo /\ sent' = sent /\ alone' = alone
    BY <1>2 DEF rvmVars
  <2>2. \A d : Filed(d)' = Filed(d) /\ \A w, rows : Exactly(d, w, rows)' = Exactly(d, w, rows)
    BY <2>1 DEF Filed, Exactly
  <2>3. \A q \in Requests : Doc(q)' = Doc(q) /\ RowsRead(q)' = RowsRead(q) /\ ReadBy(q)' = ReadBy(q)
    BY <2>1 DEF Doc, RowsRead, ReadBy, InRange
  <2>4. RegisterIsTyped' /\ RequestsAreTyped' /\ AloneIsAlone'
    BY <1>2, <2>1 DEF RegisterInv, RegisterIsTyped, RequestsAreTyped, AloneIsAlone, Importing, Peers
  <2>5. StagingHoldsWhatWasRead'
    BY <1>2, <2>1, <2>3, RequestKinds DEF RegisterInv, StagingHoldsWhatWasRead
  <2>6. WholesFileDocuments' /\ ChunksFileRanges'
    <3>1. WholesAreAlone' = WholesAreAlone /\ AllOrNothing' = AllOrNothing
      BY <2>1, <2>2 DEF WholesAreAlone, AllOrNothing
    <3>2. \A q \in WholeImports : Filed(Doc(q))' = Filed(Doc(q))
      BY <2>1 DEF Filed, Doc
    <3> QED BY <1>2, <2>1, <2>2, <3>1, <3>2 DEF RegisterInv, WholesFileDocuments, ChunksFileRanges
  <2>7. MonthHoldsLastBatches'
    <3>1. WithStatus("PRELIMINARY")' = WithStatus("PRELIMINARY")
      BY <2>1 DEF WithStatus
    <3> QED BY <1>2, <2>1, <3>1, MonthKept DEF RegisterInv
  <2> QED BY <2>4, <2>5, <2>6, <2>7 DEF RegisterInv
<1> QED BY <1>1, <1>2, BeginKeepsRegister DEF RvmNext, RvmStep

LEMMA InitRegister == RvmInit => RegisterInv
<1> SUFFICES ASSUME RvmInit PROVE RegisterInv
  OBVIOUS
<1> DEFINE filed(d, w) == [doc |-> d, src |-> d, row |-> w, staged |-> NULL, by |-> NULL,
                           status |-> "CONSOLIDATED"]
<1>1. PICK docs \in SUBSET DOMAIN RowsOf : final = FiledWhole(docs)
  BY DEF RvmInit
<1>2. /\ stage = NoStage /\ active \in Scenarios
      /\ statement = [r \in Requests |-> "idle"] /\ sent = [r \in Requests |-> 0]
      /\ alone = [r \in Requests |-> TRUE]
      /\ todo = [r \in Requests |-> IF r \in WholeImports THEN Documents
                                    ELSE IF r \in Chunks THEN <<DocOf[r]>> ELSE <<>>]
  BY DEF RvmInit, RequestsAtRest
<1>3. \A x : x \in final <=> \E d \in docs : \E w \in RowsToFile(d) : x = filed(d, w)
  <2> DEFINE pairs == UNION {{d} \X RowsToFile(d) : d \in docs}
  <2>1. \A p : p \in pairs <=> \E d \in docs : \E w \in RowsToFile(d) : p = <<d, w>>
    OBVIOUS
  <2>2. final = {filed(p[1], p[2]) : p \in pairs}
    BY <1>1 DEF FiledWhole
  <2> HIDE DEF pairs, filed
  <2>3. ASSUME NEW d \in docs, NEW w \in RowsToFile(d) PROVE filed(d, w) \in final
    <3>1. <<d, w>> \in pairs /\ <<d, w>>[1] = d /\ <<d, w>>[2] = w
      BY <2>1
    <3> QED BY <3>1, <2>2
  <2>4. ASSUME NEW x \in final PROVE \E d \in docs : \E w \in RowsToFile(d) : x = filed(d, w)
    <3>1. PICK p \in pairs : x = filed(p[1], p[2])
      BY <2>2
    <3>2. PICK d \in docs : \E w \in RowsToFile(d) : p = <<d, w>>
      BY <2>1
    <3>3. PICK w \in RowsToFile(d) : p = <<d, w>>
      BY <3>2
    <3>4. p[1] = d /\ p[2] = w
      BY <3>3
    <3> QED BY <3>1, <3>3, <3>4
  <2> QED BY <2>3, <2>4
<1>4. \A d, w : /\ filed(d, w).doc = d /\ filed(d, w).src = d /\ filed(d, w).row = w
                /\ filed(d, w).status = "CONSOLIDATED"
  OBVIOUS
<1>5. \A d \in DOMAIN RowsOf : RowsToFile(d) \subseteq Nat
  BY RequestKinds DEF RowsToFile
<1>6. \A d \in DOMAIN RowsOf, w \in Nat : filed(d, w) \in Entries
  BY DEF Entries
<1> HIDE DEF filed
<1>7. RegisterIsTyped
  <2>1. \A x \in final : x \in Entries /\ x.doc \in DOMAIN RowsOf /\ x.status = "CONSOLIDATED"
    BY <1>3, <1>4, <1>5, <1>6
  <2> QED BY <1>2, <2>1, RequestKinds DEF RegisterIsTyped
<1>8. RequestsAreTyped
  <2>1. \A r \in Requests : todo[r] \in Seq(DOMAIN RowsOf)
    <3> TAKE r \in Requests
    <3>1. CASE r \in WholeImports
      BY <3>1, <1>2, RvmAssumption
    <3>2. CASE r \in Chunks
      <4>1. <<DocOf[r]>> \in Seq(DOMAIN RowsOf)
        BY <3>2, RequestKinds
      <4> QED BY <3>2, <4>1, <1>2, RequestKinds
    <3>3. CASE r \notin WholeImports /\ r \notin Chunks
      BY <3>3, <1>2
    <3> QED BY <3>1, <3>2, <3>3
  <2>2. active \subseteq Requests
    BY <1>2, RvmAssumption
  <2>3. todo \in [Requests -> Seq(DOMAIN RowsOf)]
    BY <1>2, <2>1
  <2> QED BY <1>2, <2>2, <2>3, RequestKinds DEF RequestsAreTyped, Over
<1>9. AloneIsAlone
  BY <1>2 DEF AloneIsAlone, Importing, Over
<1>10. StagingHoldsWhatWasRead
  <2>1. \A r \in WholeImports : todo[r] # <<>> /\ r \notin Chunks /\ r \in Requests
    BY <1>2, RvmAssumption, RequestKinds
  <2>2. \A r \in Chunks : todo[r] = <<DocOf[r]>> /\ todo[r] # <<>> /\ r \in Requests
    BY <1>2, RequestKinds
  <2> QED BY <1>2, <2>1, <2>2 DEF StagingHoldsWhatWasRead, Staged
<1>11. AllOrNothing
  <2> SUFFICES ASSUME NEW d \in DOMAIN RowsOf, Filed(d) # {} PROVE Exactly(d, Nat, RowsToFile(d))
    BY DEF AllOrNothing
  <2>1. d \in docs
    BY <1>3, <1>4 DEF Filed
  <2>2. \A x : x \in Filed(d) <=> \E w \in RowsToFile(d) : x = filed(d, w)
    BY <1>3, <1>4, <2>1 DEF Filed
  <2>3. {x \in Filed(d) : x.row \in Nat} = Filed(d)
    BY <2>2, <1>4, <1>5
  <2>4. {x.row : x \in Filed(d)} = RowsToFile(d)
    BY <2>2, <1>4
  <2>5. /\ \A x \in Filed(d), y \in Filed(d) : x.row = y.row => x = y
        /\ \A x \in Filed(d) : x.src = d
    BY <2>2, <1>4
  <2> QED BY <2>3, <2>4, <2>5 DEF Exactly
<1>12. WholesFileDocuments /\ ChunksFileRanges
  <2>1. \A r \in Staged : statement[r] = "idle"
    BY <1>2, RequestKinds
  <2> QED BY <1>11, <2>1, RequestKinds DEF WholesFileDocuments, ChunksFileRanges, Staging
<1>13. MonthHoldsLastBatches
  <2>1. WithStatus("PRELIMINARY") = {}
    BY <1>3, <1>4 DEF WithStatus
  <2>2. \A r \in Months : statement[r] = "idle" /\ sent[r] = 0
    BY <1>2, RequestKinds
  <2>3. PICK base \in [Months -> Nat] : \A q \in Months : base[q] = 0
    <3>1. [q \in Months |-> 0] \in [Months -> Nat]
      OBVIOUS
    <3> QED BY <3>1
  <2>4. Held(base) = {}
    <3>1. \A q \in Months : base[q] + 1..sent[q] = {}
      BY <2>2, <2>3
    <3> QED BY <3>1 DEF Held
  <2>5. \A q \in Months : base[q] <= sent[q]
    BY <2>2, <2>3
  <2> QED BY <2>1, <2>2, <2>4, <2>5 DEF MonthHoldsLastBatches
<1> QED BY <1>7, <1>8, <1>9, <1>10, <1>12, <1>13 DEF RegisterInv

\* RegisterInv is an inductive invariant of the imports of the register, for any documents, ranges,
\* files and requests.
THEOREM RegisterInductive == RvmSpec => []RegisterInv
<1> QED BY InitRegister, NextKeepsRegister, PTL DEF RvmSpec

\* As many rows as there are places.
LEMMA BatchesCounted ==
  ASSUME NEW r \in Months, NEW a \in Nat, NEW b \in Nat, a <= b
  PROVE  /\ IsFiniteSet({Batch(r, i) : i \in a + 1..b})
         /\ Cardinality({Batch(r, i) : i \in a + 1..b}) = b - a
<1> DEFINE T == {Batch(r, i) : i \in a + 1..b}
           f == [i \in a + 1..b |-> Batch(r, i)]
<1>1. IsFiniteSet(a + 1..b) /\ Cardinality(a + 1..b) = b - a
  <2>1. a + 1 \in Int /\ b \in Int
    OBVIOUS
  <2>2. IsFiniteSet(a + 1..b) /\ Cardinality(a + 1..b) = IF a + 1 > b THEN 0 ELSE b - (a + 1) + 1
    BY <2>1, FS_Interval
  <2> QED BY <2>2
<1>2. \A i, j \in a + 1..b : Batch(r, i) = Batch(r, j) => i = j
  BY DEF Batch
<1>3. \A i \in a + 1..b : f[i] = Batch(r, i)
  OBVIOUS
<1>4. f \in [a + 1..b -> T] /\ \A y \in T : \E i \in a + 1..b : f[i] = y
  OBVIOUS
<1> HIDE DEF T, f
<1>5. f \in Bijection(a + 1..b, T)
  BY <1>2, <1>3, <1>4 DEF Bijection, Injection, Surjection, IsInjective
<1> QED BY <1>1, <1>5, FS_Bijection DEF ExistsBijection, T

\* When two requests have deleted and inserted across one another and the checks pass, what is missing
\* of one has been put there again by the other, from the same file if dates tell files apart.
LEMMA CountedMonth ==
  ASSUME RegisterInv, NEW r \in Months, statement[r] = "count", CountsMatch(r),
         Cardinality(active \cap Months) <= 2, DatesTellFiles, active \in Scenarios
  PROVE  {<<x.doc, x.row>> : x \in WithStatus("PRELIMINARY")} = {FileOf[r]} \X (1..BatchesOf[FileOf[r]])
<1> DEFINE part(q, n) == {Batch(q, i) : i \in n + 1..sent[q]}
<1>1. RequestsAreTyped /\ AloneIsAlone /\ MonthHoldsLastBatches
  BY DEF RegisterInv
<1>2. PICK base \in [Months -> Nat] :
        /\ \A q \in Months : base[q] <= sent[q]
        /\ WithStatus("PRELIMINARY") = Held(base)
        /\ (\E q \in Months : statement[q] \in {"insert", "count"}) =>
             \E q \in active \cap Months : base[q] = 0
  BY <1>1 DEF MonthHoldsLastBatches
<1>3. \A q \in Months : sent[q] \in Nat /\ base[q] \in Nat /\ q \in Requests
  BY <1>1, <1>2, RequestKinds DEF RequestsAreTyped
<1>4. sent[r] = BatchesOf[FileOf[r]] /\ r \in active
  BY <1>1, RequestKinds DEF MonthHoldsLastBatches, AloneIsAlone
<1>5. PICK first \in active \cap Months : base[first] = 0
  BY <1>2
<1>6. ASSUME NEW q \in Months, q \notin active PROVE part(q, base[q]) = {}
  <2>1. sent[q] = 0
    BY <1>1, <1>3, <1>6 DEF AloneIsAlone, MonthHoldsLastBatches
  <2> QED BY <2>1, <1>3
<1>7. ASSUME NEW q \in Months
      PROVE  /\ IsFiniteSet(part(q, base[q])) /\ Cardinality(part(q, base[q])) = sent[q] - base[q]
             /\ \A x \in part(q, base[q]) : x.by = q /\ x.doc = FileOf[q]
             /\ {x.row : x \in part(q, base[q])} = base[q] + 1..sent[q]
  <2>1. sent[q] \in Nat /\ base[q] \in Nat /\ base[q] <= sent[q]
    BY <1>2, <1>3
  <2>2. ASSUME NEW i \in base[q] + 1..sent[q] PROVE Batch(q, i).row = i /\ Batch(q, i).by = q /\ Batch(q, i).doc = FileOf[q]
    <3>1. i \in Nat
      BY <2>1
    <3> HIDE DEF part
    <3> QED BY <3>1, BatchEntry
  <2>3. IsFiniteSet(part(q, base[q])) /\ Cardinality(part(q, base[q])) = sent[q] - base[q]
    BY <2>1, BatchesCounted
  <2> QED BY <2>2, <2>3
<1>8. WithStatus("PRELIMINARY") = UNION {part(q, base[q]) : q \in Months}
  BY <1>2 DEF Held
<1>9. Cardinality(WithStatus("PRELIMINARY")) = sent[r]
  BY <1>4 DEF CountsMatch
<1>10. PICK q \in active \cap Months : active \cap Months = {r, q}
  <2>1. CASE active \cap Months = {r}
    BY <2>1
  <2>2. CASE active \cap Months # {r}
    <3>1. PICK q \in active \cap Months : q # r
      BY <1>4, <2>2
    <3>2. IsFiniteSet(active \cap Months)
      BY FS_Subset, RvmAssumption
    <3>3. {r, q} \in SUBSET (active \cap Months)
      BY <1>4, <3>1
    <3>4. Cardinality({r, q}) = 2
      <4>1. IsFiniteSet({r}) /\ Cardinality({r}) = 1
        BY FS_Singleton
      <4>2. q \notin {r}
        BY <3>1
      <4>3. Cardinality({r} \cup {q}) = IF q \in {r} THEN 1 ELSE 1 + 1
        BY <4>1, FS_AddElement
      <4>4. {r} \cup {q} = {r, q}
        OBVIOUS
      <4> QED BY <4>2, <4>3, <4>4
    <3>5. Cardinality({r, q}) <= Cardinality(active \cap Months) /\ Cardinality(active \cap Months) \in Nat
      BY <3>2, <3>3, FS_Subset, FS_CardinalityType
    <3>6. Cardinality({r, q}) = Cardinality(active \cap Months)
      BY <3>4, <3>5
    <3> QED BY <3>2, <3>3, <3>6, FS_Subset
  <2> QED BY <2>1, <2>2
<1> HIDE DEF part
<1>11. WithStatus("PRELIMINARY") = part(r, base[r]) \cup part(q, base[q])
  BY <1>6, <1>8, <1>10
<1>12. {x.row : x \in WithStatus("PRELIMINARY")} = (base[r] + 1..sent[r]) \cup (base[q] + 1..sent[q])
  BY <1>7, <1>10, <1>11
<1>13. ASSUME q = r PROVE {x.row : x \in WithStatus("PRELIMINARY")} = 1..BatchesOf[FileOf[r]]
  <2>1. base[r] = 0
    BY <1>5, <1>10, <1>13
  <2> QED BY <1>3, <1>4, <1>12, <1>13, <2>1
<1>14. ASSUME q # r PROVE {x.row : x \in WithStatus("PRELIMINARY")} = 1..BatchesOf[FileOf[r]]
  <2>1. part(r, base[r]) \cap part(q, base[q]) = {}
    BY <1>7, <1>10, <1>14
  <2>2. Cardinality(part(r, base[r]) \cup part(q, base[q])) =
          Cardinality(part(r, base[r])) + Cardinality(part(q, base[q])) - Cardinality({})
    BY <1>7, <1>10, <2>1, FS_Union
  <2>3. sent[r] = (sent[r] - base[r]) + (sent[q] - base[q]) - 0
    BY <1>7, <1>9, <1>10, <1>11, <2>2, FS_EmptySet
  <2>4. /\ sent[r] \in Nat /\ base[r] \in Nat /\ sent[q] \in Nat /\ base[q] \in Nat
        /\ base[r] <= sent[r] /\ base[q] <= sent[q]
    BY <1>2, <1>3, <1>10
  <2>5. sent[q] - base[q] = base[r]
    BY <2>3, <2>4
  <2>6. base[r] = 0 \/ base[q] = 0
    BY <1>5, <1>10
  <2>7. (base[r] + 1..sent[r]) \cup (base[q] + 1..sent[q]) = 1..sent[r]
    <3>1. CASE base[r] = 0
      BY <3>1, <2>4, <2>5
    <3>2. CASE base[q] = 0
      BY <3>2, <2>4, <2>5
    <3> QED BY <2>6, <3>1, <3>2
  <2> QED BY <1>4, <1>12, <2>7
<1>15. \A x \in WithStatus("PRELIMINARY") : x.doc = FileOf[r]
  <2> SUFFICES ASSUME NEW x \in WithStatus("PRELIMINARY") PROVE x.doc = FileOf[r]
    OBVIOUS
  <2>1. PICK p \in active \cap Months : x.doc = FileOf[p]
    BY <1>4, <1>7, <1>10, <1>11
  <2>2. SnapshotDate[FileOf[p]] = SnapshotDate[FileOf[r]]
    BY <2>1 DEF CountsMatch, LoadedDates
  <2> QED BY <1>4, <2>1, <2>2 DEF DatesTellFiles
<1>16. {x.row : x \in WithStatus("PRELIMINARY")} = 1..BatchesOf[FileOf[r]]
  BY <1>13, <1>14
<1> QED BY <1>15, <1>16

\* ImportsAreWhole: a document taken for loaded is whole as long as whole imports run one at a time,
\* a chunk loaded with no other import beside it has exactly its rows in the register, and a
\* preliminary load whose checks pass has the month whole and its own, if no more than two were made
\* together and of two files of one date none: for any documents, ranges, files and requests, and
\* whatever stops or fails.
THEOREM AlwaysImportsAreWhole == RvmSpec => ImportsAreWhole
<1>1. RvmSpec => [](active \in Scenarios)
  <2>1. RvmInit => active \in Scenarios
    BY DEF RvmInit, RequestsAtRest
  <2>2. RegisterInv /\ active \in Scenarios /\ [RvmNext]_rvmVars => (active \in Scenarios)'
    <3> SUFFICES ASSUME RegisterInv, active \in Scenarios, [RvmNext]_rvmVars PROVE active' = active
      OBVIOUS
    <3>1. RequestsAreTyped
      BY DEF RegisterInv
    <3>2. CASE UNCHANGED rvmVars
      BY <3>2 DEF rvmVars
    <3>3. CASE RvmNext
      <4>1. PICK r \in Requests : BeginImport(r) \/ RvmStep(r)
        BY <3>3 DEF RvmNext, RvmStep
      <4> QED BY <3>1, <4>1, RvmStepShape DEF BeginImport
    <3> QED BY <3>2, <3>3
  <2> QED BY <2>1, <2>2, RegisterInductive, PTL DEF RvmSpec
<1>2. RegisterInv /\ RegisterInv' /\ active \in Scenarios /\ [RvmNext]_rvmVars =>
        [DocumentsAreWhole' /\ ChunkIsReplaced /\ CountIsWhole]_rvmVars
  <2> SUFFICES ASSUME RegisterInv, RegisterInv', active \in Scenarios, RvmNext
               PROVE  DocumentsAreWhole' /\ ChunkIsReplaced /\ CountIsWhole
    OBVIOUS
  <2>1. DocumentsAreWhole'
    BY DEF RegisterInv, WholesFileDocuments, WholesAreAlone, AllOrNothing, DocumentsAreWhole
  <2>2. ChunkIsReplaced
    BY DEF RegisterInv, ChunksFileRanges, ChunkIsReplaced
  <2>3. CountIsWhole
    <3> SUFFICES ASSUME Cardinality(active \cap Months) <= 2, DatesTellFiles, NEW r \in Months,
                        statement[r] = "count", statement'[r] = "compare"
                 PROVE  {<<x.doc, x.row>> : x \in WithStatus("PRELIMINARY")} =
                          {FileOf[r]} \X (1..BatchesOf[FileOf[r]])
      BY DEF CountIsWhole
    <3>1. RequestsAreTyped /\ r \in Requests /\ r \notin Staged
      BY RequestKinds DEF RegisterInv
    <3>2. PICK p \in Requests : BeginImport(p) \/ RvmStep(p)
      BY DEF RvmNext, RvmStep
    <3>3. PICK n : statement' = [statement EXCEPT ![p] = n]
      BY <3>1, <3>2, RvmStepShape DEF BeginImport, Proceed
    <3>4. p = r
      BY <3>1, <3>3 DEF RequestsAreTyped
    <3>5. CountLoaded(r)
      <4>1. ~BeginImport(r) /\ ~LoadDocument(r)
        BY <3>1, RvmStepKind DEF BeginImport
      <4>2. ~(Unanswered(r) \/ StopImport(r))
        <5> SUFFICES ASSUME Unanswered(r) \/ StopImport(r) PROVE FALSE
          OBVIOUS
        <5>1. \E m \in {"failed", "stopped"} : statement' = [statement EXCEPT ![r] = m]
          BY DEF Unanswered, StopImport, Proceed
        <5> QED BY <3>1, <5>1 DEF RequestsAreTyped
      <4>3. Replace(r)
        BY <3>2, <3>4, <4>1, <4>2 DEF RvmStep
      <4> QED BY <4>3 DEF Replace, EnsureSchema, CountConsolidated, DeletePreliminary,
                          InsertMonthBatch, CompareRest
    <3>6. CountsMatch(r)
      <4> SUFFICES ASSUME ~CountsMatch(r) PROVE FALSE
        OBVIOUS
      <4>1. statement' = [statement EXCEPT ![r] = "failed"]
        BY <3>5 DEF CountLoaded, Proceed
      <4> QED BY <3>1, <4>1 DEF RequestsAreTyped
    <3> QED BY <3>6, CountedMonth
  <2> QED BY <2>1, <2>2, <2>3
<1> QED BY <1>1, <1>2, RegisterInductive, PTL DEF RvmSpec, ImportsAreWhole
=============================================================================
