----------------------------- MODULE RvmImport -----------------------------
(***************************************************************************)
(* The imports of the vehicle register into rvm_raw.  Consolidated         *)
(* documents (import-rvm.js over rvm-cleaner.js) pass through one staging  *)
(* table whose name every request shares, whole or by ranges of rows;      *)
(* a preliminary month (import-rvm-preliminary.js) replaces the one before *)
(* it between a BEGIN and a COMMIT that are HTTP requests of their own and *)
(* hold no transaction.  All preliminary files are of one month: loads of  *)
(* different ones meet no row of each other.                               *)
(*                                                                         *)
(* Nothing is retried.  A statement is done, not done, or done with its    *)
(* answer lost, and a request may stop between two of them.                *)
(***************************************************************************)
EXTENDS Integers, Sequences, FiniteSets, FiniteSetsExt

CONSTANTS
  WholeImports, Chunks, Months,  \* requests: import_rvm, the same with a range, import_rvm_preliminary
  Scenarios,              \* sets of requests that are made together
  Documents,              \* the documents a whole import finds, oldest first
  DocOf, RangeOf,         \* what a chunk asks for
  RowsOf,                 \* the rows of each document as they are read, one batch each
  OtherMarket,            \* the rows normalizeAndAppend filters out
  FileOf, BatchesOf,      \* the file of a preliminary request, the batches of the file
  SnapshotDate,           \* the date a preliminary file is loaded under, the last one of its rows
  MonthRows, QuantityOf,  \* the rows of each document of that same month, and their quantities
  NULL

Staged == WholeImports \cup Chunks
Requests == Staged \cup Months
NoStage == {NULL}

\* A folder without documents is refused; documents are called RVM_..., preliminary files data....
ASSUME RvmAssumption ==
  /\ Documents \in Seq(DOMAIN RowsOf) /\ Documents # <<>> /\ DocOf \in [Chunks -> DOMAIN RowsOf]
  /\ \A d \in DOMAIN RowsOf : RowsOf[d] \in Seq(Nat)
  /\ FileOf \in [Months -> DOMAIN BatchesOf] /\ DOMAIN RowsOf \cap DOMAIN BatchesOf = {}
  /\ \A f \in DOMAIN BatchesOf : BatchesOf[f] \in Nat \ {0} /\ f \in DOMAIN SnapshotDate
  /\ \A d \in DOMAIN RowsOf : \A i \in MonthRows[d] : QuantityOf[d][i] \in Nat
  /\ WholeImports \cap Chunks = {} /\ Staged \cap Months = {}
  /\ \A s \in Scenarios : s \subseteq Requests /\ IsFiniteSet(s)
  /\ NULL # "PRELIMINARY"

VARIABLES
  final,    \* the rows of rvm_raw: document they are filed under, row, data_status;
            \* with the document they come from and the request that put them there
  stage,    \* the rows of rvm_stage_raw, or NoStage
  active,   \* the scenario
  statement,  \* the statement each request is about to send
  todo,     \* the documents it has still to load
  sent,     \* rows it has read of the current one, or batches it has loaded
  before,   \* the consolidated rows of the month a preliminary request counted first
  alone     \* history: no other request of its kind has run since it began

rvmVars == <<final, stage, active, statement, todo, sent, before, alone>>

Over == {"idle", "done", "failed", "stopped"}
Proceed(r, next) == statement' = [statement EXCEPT ![r] = next]
Importing(r) == statement[r] \notin Over
Peers(r) == IF r \in Months THEN Months ELSE Staged

\* The request that begins is not alone if others of its kind run, and no longer are they.
Starts(r) ==
  alone' = [q \in Requests |->
    IF q = r THEN \A p \in Peers(r) \ {r} : ~Importing(p)
    ELSE alone[q] /\ ~(Importing(q) /\ q \in Peers(r))]

RequestsAtRest ==
  /\ stage = NoStage /\ active \in Scenarios
  /\ statement = [r \in Requests |-> "idle"]
  /\ todo = [r \in Requests |-> IF r \in WholeImports THEN Documents
                                ELSE IF r \in Chunks THEN <<DocOf[r]>> ELSE <<>>]
  /\ sent = [r \in Requests |-> 0] /\ before = [r \in Requests |-> {}]
  /\ alone = [r \in Requests |-> TRUE]

\* The register holds what earlier imports have filed, whole.
RowsToFile(d) == {RowsOf[d][i] : i \in DOMAIN RowsOf[d]} \ OtherMarket
FiledWhole(docs) ==
  {[doc |-> x[1], src |-> x[1], row |-> x[2], staged |-> NULL, by |-> NULL, status |-> "CONSOLIDATED"] :
    x \in UNION {{d} \X RowsToFile(d) : d \in docs}}

RvmInit == RequestsAtRest /\ \E docs \in SUBSET DOMAIN RowsOf : final = FiledWhole(docs)

BeginImport(r) ==
  /\ r \in active /\ statement[r] = "idle"
  /\ Proceed(r, IF r \in Months THEN "schema" ELSE "look")
  /\ Starts(r)
  /\ UNCHANGED <<final, stage, active, todo, sent, before>>

\* A statement whose answer does not come: the request throws, done or not.
Answer(r, next) == Proceed(r, next) \/ Proceed(r, "failed")
Unanswered(r) ==
  /\ Importing(r)
  /\ Proceed(r, "failed")
  /\ UNCHANGED <<final, stage, active, todo, sent, before, alone>>

StopImport(r) ==
  /\ Importing(r)
  /\ Proceed(r, "stopped")
  /\ UNCHANGED <<final, stage, active, todo, sent, before, alone>>

(***************************************************************************)
(* Consolidated documents.                                                 *)
(***************************************************************************)
Doc(r) == Head(todo[r])

InRange(r, row) == r \in Chunks => row \in RangeOf[r]
RowsRead(r) == RowsOf[Doc(r)]
RowAt(r) == RowsRead(r)[sent[r] + 1]
Unread(r) == statement[r] = "append" /\ sent[r] < Len(RowsRead(r))
Filed(d) == {x \in final : x.doc = d}

DocumentLoaded(d) == Filed(d) # {}

SkipDocument(r) ==
  /\ todo' = [todo EXCEPT ![r] = Tail(@)]
  /\ Proceed(r, IF Tail(todo[r]) = <<>> THEN "done" ELSE "look")

\* documentLoaded for a whole import, clearDocumentRange for a chunk.
Look(r) ==
  /\ statement[r] = "look"
  /\ IF r \in WholeImports
     THEN /\ IF DocumentLoaded(Doc(r)) THEN SkipDocument(r) ELSE Proceed(r, "drop") /\ UNCHANGED todo
          /\ UNCHANGED final
     ELSE /\ final' = {x \in final : ~(x.doc = Doc(r) /\ InRange(r, x.row))}
          /\ Answer(r, "drop") /\ UNCHANGED todo
  /\ UNCHANGED <<stage, active, sent, before, alone>>

\* resetStage: two statements.
DropStage(r) ==
  /\ statement[r] = "drop"
  /\ stage' = NoStage
  /\ Answer(r, "create")
  /\ UNCHANGED <<final, active, todo, sent, before, alone>>

CreateStage(r) ==
  /\ statement[r] = "create"
  /\ IF stage = NoStage THEN stage' = {} /\ Answer(r, "append")
                        ELSE Proceed(r, "failed") /\ UNCHANGED stage
  /\ sent' = [sent EXCEPT ![r] = 0]
  /\ UNCHANGED <<final, active, todo, before, alone>>

\* A row outside of the range is passed over, the others are sent.
PassRow(r) ==
  /\ Unread(r) /\ ~InRange(r, RowAt(r))
  /\ sent' = [sent EXCEPT ![r] = @ + 1]
  /\ UNCHANGED <<final, stage, active, statement, todo, before, alone>>

AppendStage(r) ==
  /\ Unread(r) /\ InRange(r, RowAt(r))
  /\ IF stage = NoStage
     THEN Proceed(r, "failed") /\ UNCHANGED <<stage, sent>>
     ELSE /\ stage' = stage \cup {[src |-> Doc(r), row |-> RowAt(r), by |-> r]}
          /\ sent' = [sent EXCEPT ![r] = @ + 1]
          /\ Answer(r, "append")
  /\ UNCHANGED <<final, active, todo, before, alone>>

\* normalizeAndAppend: whatever the staging holds is filed under the document of the request.

FiledBy(r) ==
  {[doc |-> Doc(r), src |-> x.src, row |-> x.row, staged |-> x.by, by |-> r, status |-> NULL] :
    x \in {y \in stage : y.row \notin OtherMarket}}

NormalizeAndAppend(r) ==
  /\ statement[r] = "append" /\ sent[r] = Len(RowsRead(r))
  /\ IF stage = NoStage
     THEN Proceed(r, "failed") /\ UNCHANGED final
     ELSE final' = final \cup FiledBy(r) /\ Answer(r, "clean")
  /\ UNCHANGED <<stage, active, todo, sent, before, alone>>

CleanStage(r) ==
  /\ statement[r] = "clean"
  /\ stage' = NoStage
  /\ SkipDocument(r) \/ (Proceed(r, "failed") /\ UNCHANGED todo)
  /\ UNCHANGED <<final, active, sent, before, alone>>

(***************************************************************************)
(* A preliminary month.                                                    *)
(***************************************************************************)
WithStatus(s) == {x \in final : x.status = s}
ConsolidatedOfMonth == {x \in WithStatus("CONSOLIDATED") : x.row \in MonthRows[x.src]}
Quantity(rows) == MapThenSumSet(LAMBDA x : QuantityOf[x.src][x.row], rows)

EnsureSchema(r) ==
  /\ statement[r] = "schema"
  /\ final' = (final \ WithStatus(NULL)) \cup
              {[x EXCEPT !.status = "CONSOLIDATED"] : x \in WithStatus(NULL)}
  /\ Answer(r, "before")
  /\ UNCHANGED <<stage, active, todo, sent, before, alone>>

CountConsolidated(r) ==
  /\ statement[r] = "before"
  /\ before' = [before EXCEPT ![r] = ConsolidatedOfMonth]
  /\ Proceed(r, "delete")
  /\ UNCHANGED <<final, stage, active, todo, sent, alone>>

DeletePreliminary(r) ==
  /\ statement[r] = "delete"
  /\ final' = final \ WithStatus("PRELIMINARY")
  /\ Answer(r, "insert")
  /\ UNCHANGED <<stage, active, todo, sent, before, alone>>

Batch(r, i) ==
  [doc |-> FileOf[r], src |-> FileOf[r], row |-> i, staged |-> r, by |-> r, status |-> "PRELIMINARY"]

\* After the last batch comes COMMIT, after a failure ROLLBACK: neither has anything to end.
InsertMonthBatch(r) ==
  /\ statement[r] = "insert"
  /\ final' = final \cup {Batch(r, sent[r] + 1)}
  /\ sent' = [sent EXCEPT ![r] = @ + 1]
  /\ Answer(r, IF sent[r] + 1 = BatchesOf[FileOf[r]] THEN "count" ELSE "insert")
  /\ UNCHANGED <<stage, active, todo, before, alone>>

\* The checks after the load: the number of rows and their one snapshot_date, ...  Neither says which
\* file a row comes from.
LoadedDates == {SnapshotDate[x.doc] : x \in WithStatus("PRELIMINARY")}

\* Mutant of CountsMatch: only the snapshot_date is looked at.
DatesMatch(r) == LoadedDates = {SnapshotDate[FileOf[r]]}

CountsMatch(r) ==
  /\ Cardinality(WithStatus("PRELIMINARY")) = BatchesOf[FileOf[r]]
  /\ LoadedDates = {SnapshotDate[FileOf[r]]}

CountLoaded(r) ==
  /\ statement[r] = "count"
  /\ Proceed(r, IF CountsMatch(r) THEN "compare" ELSE "failed")
  /\ UNCHANGED <<final, stage, active, todo, sent, before, alone>>

\* ... no row of another date, and as many consolidated rows, of as much, as there were.
CompareRest(r) ==
  /\ statement[r] = "compare"
  /\ Proceed(r, IF /\ LoadedDates \subseteq {SnapshotDate[FileOf[r]]}
                   /\ Cardinality(ConsolidatedOfMonth) = Cardinality(before[r])
                   /\ Quantity(ConsolidatedOfMonth) = Quantity(before[r])
                THEN "done" ELSE "failed")
  /\ UNCHANGED <<final, stage, active, todo, sent, before, alone>>

LoadDocument(r) ==
  \/ Look(r) \/ DropStage(r) \/ CreateStage(r) \/ PassRow(r) \/ AppendStage(r)
  \/ NormalizeAndAppend(r) \/ CleanStage(r)

Replace(r) ==
  \/ EnsureSchema(r) \/ CountConsolidated(r) \/ DeletePreliminary(r) \/ InsertMonthBatch(r)
  \/ CountLoaded(r) \/ CompareRest(r)

RvmNext ==
  \E r \in Requests :
    BeginImport(r) \/ LoadDocument(r) \/ Replace(r) \/ Unanswered(r) \/ StopImport(r)

RvmSpec == RvmInit /\ [][RvmNext]_rvmVars
----------------------------------------------------------------------------

\* Exactly these rows of the document, from the document, each of them once.
Exactly(d, within, rows) ==
  LET there == {x \in Filed(d) : x.row \in within}
  IN /\ {x.row : x \in there} = rows
     /\ \A x \in there, y \in there : x.row = y.row => x = y
     /\ \A x \in there : x.src = d

\* What documentLoaded takes for a loaded document is the whole of it, as long as whole imports
\* run one at a time and no range was asked for: a failure leaves all of a document or nothing.
DocumentsAreWhole ==
  (\A r \in active \cap Staged : r \in WholeImports /\ alone[r]) =>
    \A d \in DOMAIN RowsOf : Filed(d) # {} => Exactly(d, Nat, RowsToFile(d))

\* A chunk that was loaded with no other import of documents beside it has put exactly its rows in
\* the register, whatever stopped or failed requests, whole or by ranges, had left there.
ChunkIsReplaced ==
  \A r \in Chunks : statement[r] = "clean" /\ statement'[r] = "done" /\ alone[r] =>
    Exactly(DocOf[r], RangeOf[r], RowsToFile(DocOf[r]) \cap RangeOf[r])

\* When the checks of the loaded rows pass, the month holds every batch of the request's own file,
\* once, and nothing else, even if two requests have deleted and inserted across one another: as long
\* as the dates of their files tell them apart.  Of two files of one last day the checks can accept a
\* mixture: one request deletes and inserts its first batch, the other deletes that and inserts, and
\* the first adds its second.  Three requests can deceive them with one file: the rows two of them
\* repeat make up for the ones the third has deleted.
DatesTellFiles ==
  \A q \in active \cap Months, p \in active \cap Months :
    SnapshotDate[FileOf[q]] = SnapshotDate[FileOf[p]] => FileOf[q] = FileOf[p]

CountIsWhole ==
  Cardinality(active \cap Months) <= 2 /\ DatesTellFiles =>
    \A r \in Months : statement[r] = "count" /\ statement'[r] = "compare" =>
      {<<x.doc, x.row>> : x \in WithStatus("PRELIMINARY")} = {FileOf[r]} \X (1..BatchesOf[FileOf[r]])

\* What the imports promise: a document taken for loaded is whole, a chunk that ran alone has its rows
\* there, once, and so has a preliminary load whose checks pass, of files their dates tell apart.
ImportsAreWhole == [][DocumentsAreWhole' /\ ChunkIsReplaced /\ CountIsWhole]_rvmVars
=============================================================================
