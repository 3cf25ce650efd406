---------------------------- MODULE Clarification ----------------------------
(***************************************************************************)
(* Semantic grounding (lib/protocol/grounding).  A question becomes a      *)
(* draft whose fields are bound, deferred, omitted or unresolved; what is  *)
(* materially unresolved is asked, one request at a time, until the draft  *)
(* can be finalized into a QuestionContract.                               *)
(*                                                                         *)
(* The caller asks again whenever it likes, time passes, the version of    *)
(* the protocol's state advances, and the person may answer any request    *)
(* ever made, late, twice or with two different choices: the answers need  *)
(* no variable, an answer to an issued request may arrive at every moment. *)
(*                                                                         *)
(* A draft's hash stands for its content (text and context excluded), and  *)
(* a request's fingerprint for the content of the request.                 *)
(***************************************************************************)
EXTENDS Naturals, FiniteSets, Sequences

CONSTANTS
    Asked,      \* the questions that may be asked, and how each is read
    FreeText,   \* the fields a free-text grounder may return
    Ttl,        \* how long a request can be answered, in ticks
    MaxClock, MaxVersion, MaxAnswers   \* bounds of the model

VARIABLES
    draft,      \* the QuestionDraft the caller holds
    requests,   \* every ClarificationRequest ever issued
    consumed,   \* InMemoryClarificationHarness.#consumed
    version,    \* the version of the protocol's state
    clock,
    contract    \* the QuestionContract, once finalized

clarificationVars == <<draft, requests, consumed, version, clock, contract>>

-----------------------------------------------------------------------------
(* Fields *)

Paths == {"subject", "operation", "breadth", "concepts", "temporal",
          "universe", "organization", "market", "geography", "comparison", "grain"}
Statuses == {"BOUND", "OMITTED", "UNRESOLVED", "AUTHORITY_PENDING", "DEFERRED_SELECTION"}
(* OTHER stands for every value the grounding does not tell apart. *)
Values == {"NONE", "OTHER", "ONE_TYPE", "ASSESS", "COMPARE", "EXPLAIN", "FOCUSED", "BROAD",
           "COMPANY", "OWN_STORES", "DEALERS", "CIDEF", "MARKET", "YOY", "PREVIOUS_PERIOD",
           "CURRENT_MONTH", "LAST_MONTH", "LAST_QUARTER"}
Provenances == {"NOBODY", "USER_EXPLICIT", "INFERRED", "CARRIED", "USER_CLARIFIED"}
Field == [status : Statuses, value : Values, by : Provenances]

Said(v)     == [status |-> "BOUND", value |-> v, by |-> "USER_EXPLICIT"]
Inferred(v) == [status |-> "BOUND", value |-> v, by |-> "INFERRED"]
Pending(v)  == [status |-> "AUTHORITY_PENDING", value |-> v, by |-> "USER_EXPLICIT"]
SaidOmitted == [status |-> "OMITTED", value |-> "NONE", by |-> "USER_EXPLICIT"]
Unresolved  == [status |-> "UNRESOLVED", value |-> "NONE", by |-> "NOBODY"]
Omitted     == [status |-> "OMITTED", value |-> "NONE", by |-> "INFERRED"]
Deferred    == [status |-> "DEFERRED_SELECTION", value |-> "NONE", by |-> "INFERRED"]

(* A candidate binds some of the fields, grain excepted, which is always inferred; where
   two bind the same field the first one wins. *)
Nothing == [p \in {} |-> Unresolved]
Bind(path, field) == [p \in {path} |-> field]
MergeCandidate(lexical, external) ==
    [p \in DOMAIN lexical \cup DOMAIN external |->
        IF p \in DOMAIN lexical THEN lexical[p] ELSE external[p]]

CandidateFields == Paths \ {"grain"}
IsCandidate(c) ==
    /\ DOMAIN c \subseteq CandidateFields
    /\ \A p \in DOMAIN c : c[p] \in Field /\ c[p].by # "USER_CLARIFIED"

-----------------------------------------------------------------------------
(* What the lexical grammar recognizes.  The intent comes whole or not at all. *)

Intent(operation, breadth) ==
    [p \in {"operation", "breadth", "concepts"} |->
        CASE p = "operation" -> Said(operation)
          [] p = "breadth"   -> Inferred(breadth)
          [] OTHER           -> Inferred("OTHER")]

IntentCandidates ==
    {Intent(o, "FOCUSED") : o \in {"OTHER", "COMPARE", "EXPLAIN", "ASSESS"}}
        \cup {Intent("ASSESS", "BROAD"), Nothing}

SubjectCandidates ==
    {Nothing} \cup {Bind("subject", [Pending("ONE_TYPE") EXCEPT !.by = b]) : b \in {"USER_EXPLICIT", "INFERRED"}}
TemporalCandidates   == {Nothing, Bind("temporal", Said("OTHER"))}
ComparisonCandidates == {Nothing, Bind("comparison", Said("MARKET")), Bind("comparison", Said("OTHER"))}
OwnStores  == Bind("universe", Said("OWN_STORES"))
SinMercado == Bind("market", SaidOmitted)
ScopeCandidates == {Nothing, OwnStores, SinMercado, MergeCandidate(OwnStores, SinMercado)}

LexicalCandidates ==
    {MergeCandidate(i, MergeCandidate(s, MergeCandidate(t, MergeCandidate(c, u)))) :
        i \in IntentCandidates, s \in SubjectCandidates, t \in TemporalCandidates,
        c \in ComparisonCandidates, u \in ScopeCandidates}

(* A question as it is asked: what the grammar finds in its text, what an external
   semantic candidate adds, whether the explicit constraints of both contradict each
   other, and what the contract of an earlier question can carry over to it. *)
AskedAssumption(q) ==
    /\ q.lexical \in LexicalCandidates
    /\ IsCandidate(q.external)
    /\ q.clash \in BOOLEAN
    /\ DOMAIN q.prior \subseteq Paths
    /\ \A p \in DOMAIN q.prior : q.prior[p] \in Field

ASSUME QuestionsAssumption == \A q \in Asked : AskedAssumption(q)
ASSUME FreeTextAssumption == FreeText \subseteq Field
ASSUME BoundsAssumption ==
    Ttl \in Nat \ {0} /\ MaxClock \in Nat /\ MaxVersion \in Nat /\ MaxAnswers \in Nat

-----------------------------------------------------------------------------
(* createGroundedQuestionDraft *)

Given(c, p, otherwise) == IF p \in DOMAIN c THEN c[p] ELSE otherwise
Relates(c, relation) == Given(c, "comparison", Unresolved).value = relation

InferGrain(subject) ==
    IF subject.status \in {"BOUND", "AUTHORITY_PENDING"} /\ subject.value = "ONE_TYPE"
    THEN Inferred("OTHER") ELSE Unresolved

ScopeField(c, axis) ==
    LET broad  == Given(c, "breadth", Unresolved).value = "BROAD"
        market == Relates(c, "MARKET")
    IN  CASE axis = "universe"     -> IF broad THEN Deferred ELSE IF market THEN Omitted ELSE Unresolved
          [] axis = "organization" -> IF broad THEN Deferred ELSE Omitted
          [] axis = "market"       -> IF market THEN Said("MARKET") ELSE IF broad THEN Deferred ELSE Omitted
          [] axis = "geography"    -> IF market THEN Unresolved ELSE IF broad THEN Deferred ELSE Omitted

ComparisonField(c) ==
    CASE Given(c, "breadth", Unresolved).value = "BROAD" -> Deferred
      [] Given(c, "operation", Unresolved).value \in {"COMPARE", "EXPLAIN"} -> Unresolved
      [] OTHER -> Inferred("NONE")

(* What is bound before a prior contract is looked at. *)
FirstFields(c) ==
    [p \in Paths |->
        CASE p = "grain"      -> InferGrain(Given(c, "subject", Unresolved))
          [] p = "comparison" -> Given(c, p, ComparisonField(c))
          [] p = "temporal"   -> Given(c, p, IF Given(c, "breadth", Unresolved).value = "BROAD"
                                             THEN Deferred ELSE Unresolved)
          [] p \in {"universe", "organization", "market", "geography"} -> Given(c, p, ScopeField(c, p))
          [] OTHER            -> Given(c, p, Unresolved)]

CarryMissing(f, prior) ==
    [p \in Paths |-> IF f[p].status = "UNRESOLVED" /\ p \in DOMAIN prior
                     THEN [prior[p] EXCEPT !.by = "CARRIED"] ELSE f[p]]

NormalizeBroadDeferred(f) ==
    [p \in Paths |->
        IF /\ f["breadth"].value = "BROAD" /\ f[p].status = "UNRESOLVED"
           /\ p \in {"temporal", "universe", "organization", "market", "geography", "comparison"}
        THEN Deferred ELSE f[p]]

-----------------------------------------------------------------------------
(* analyzeGrounding: what a draft leaves materially open.  explicit_constraints
   is a path a request can be about although no patch can name it. *)

IssueOrder == <<"explicit_constraints", "subject", "operation", "concepts", "temporal",
                "universe", "comparison", "geography", "grain">>
Askable == {IssueOrder[i] : i \in DOMAIN IssueOrder}

Broad(f) == f["breadth"].value = "BROAD"

\* Mutant of RequiredAlways: a missing evidence proposition is not asked for.
WithoutConcepts(f) ==
    {p \in {"subject"} : f[p].status \notin {"BOUND", "AUTHORITY_PENDING"}}
        \cup {p \in {"operation"} : f[p].status # "BOUND"}

RequiredAlways(f) ==
    {p \in {"subject"} : f[p].status \notin {"BOUND", "AUTHORITY_PENDING"}}
        \cup {p \in {"operation", "concepts"} : f[p].status # "BOUND"}
RequiredBroad(f) == {p \in {"operation"} : Broad(f) /\ f[p].value # "ASSESS"}
RequiredFocused(f) ==
    {p \in {"temporal", "universe", "grain"} : ~Broad(f) /\ f[p].status # "BOUND"}
        \cup {p \in {"comparison", "geography"} : ~Broad(f) /\ f[p].status = "UNRESOLVED"}
Contradictions(clash) == {p \in {"explicit_constraints"} : clash}

AnalyzeGrounding(f, clash) ==
    Contradictions(clash) \cup RequiredAlways(f) \cup RequiredBroad(f) \cup RequiredFocused(f)

Open(d) == AnalyzeGrounding(d.field, d.clash)
FirstIssue(d) ==
    LET i == CHOOSE i \in DOMAIN IssueOrder :
                /\ IssueOrder[i] \in Open(d)
                /\ \A j \in 1 .. (i - 1) : IssueOrder[j] \notin Open(d)
    IN  IssueOrder[i]

CreateGroundedQuestionDraft(q) ==
    LET c == MergeCandidate(q.lexical, q.external)
        f == NormalizeBroadDeferred(CarryMissing(FirstFields(c), q.prior))
    IN  [field |-> f, clash |-> q.clash, issues |-> AnalyzeGrounding(f, q.clash), refs |-> {}]

-----------------------------------------------------------------------------
(* Requests, patches and the contract *)

Request(d, v, now) == [draft |-> d, version |-> v, issued |-> now, path |-> FirstIssue(d)]

(* The options of an issue: each a patch, a function from paths to fields. *)
OptionsFor(path) ==
    CASE path = "temporal" ->
            {Bind("temporal", Said(v)) : v \in {"CURRENT_MONTH", "LAST_MONTH", "LAST_QUARTER"}}
      [] path = "universe" ->
            {MergeCandidate(Bind("universe", Said(v)), Bind("organization", Said("CIDEF"))) :
                v \in {"COMPANY", "OWN_STORES", "DEALERS"}}
      [] path = "comparison" -> {Bind("comparison", Said(v)) : v \in {"YOY", "PREVIOUS_PERIOD"}}
      [] OTHER -> {}

(* The grounder's patches name a path of the request.  Spreading a patch's value
   makes an object of it, which explicit_constraints, an array, may not be. *)
FreeTextPatches(path) == {Bind(path, v) : v \in IF path \in Paths THEN FreeText ELSE {}}

ClarifiedFields(f, patch) ==
    [p \in Paths |-> IF p \in DOMAIN patch THEN [patch[p] EXCEPT !.by = "USER_CLARIFIED"] ELSE f[p]]

\* Mutant of Clarified: the issue that was answered stays with the draft.
KeepIssues(d, r, patch) ==
    [d EXCEPT !.field = ClarifiedFields(d.field, patch), !.refs = d.refs \cup {r}]

Clarified(d, r, patch) ==
    [field  |-> ClarifiedFields(d.field, patch),
     clash  |-> d.clash,
     issues |-> d.issues \ {r.path},
     refs   |-> d.refs \cup {r}]

\* Mutant of SameDraft: the hash of the draft is not compared.
AnyDraft(r) == TRUE

SameDraft(r) == r.draft = draft
SameVersion(r) == r.version = version
InTime(r) == clock <= r.issued + Ttl
Unconsumed(r) == r \notin consumed
Accepts(r) == SameDraft(r) /\ SameVersion(r) /\ InTime(r) /\ Unconsumed(r)

(* toQuestionContract writes operation, breadth and concepts without a status:
   an absent value cannot be serialized. *)
ContractIsValid(d) ==
    /\ d.field["subject"].status \in {"BOUND", "AUTHORITY_PENDING"}
    /\ \A p \in {"operation", "breadth", "concepts"} : d.field[p].value # "NONE"
    /\ d.field["temporal"].status \in {"BOUND", "OMITTED", "DEFERRED_SELECTION"}
    /\ \A p \in {"comparison"} : d.field[p].status # "UNRESOLVED"

NoContract == [none |-> TRUE]

-----------------------------------------------------------------------------
ClarificationInit ==
    /\ \E q \in Asked : draft = CreateGroundedQuestionDraft(q)
    /\ requests = {}
    /\ consumed = {}
    /\ version = 1
    /\ clock = 0
    /\ contract = NoContract

(* finalizeQuestionContract, when something is open. *)
IssueClarification ==
    /\ contract = NoContract
    /\ Open(draft) # {}
    /\ requests' = requests \cup {Request(draft, version, clock)}
    /\ UNCHANGED <<draft, consumed, version, clock, contract>>

(* finalizeQuestionContract, when nothing is. *)
FinalizeQuestionContract ==
    /\ contract = NoContract
    /\ Open(draft) = {}
    /\ draft.issues = {}
    /\ ContractIsValid(draft)
    /\ contract' = draft
    /\ UNCHANGED <<draft, requests, consumed, version, clock>>

(* InMemoryClarificationHarness.apply: every failed check of applyClarification
   throws before anything is kept. *)
ApplyClarification(r, patch) ==
    /\ Cardinality(draft.refs) < MaxAnswers
    /\ Accepts(r)
    /\ draft' = Clarified(draft, r, patch)
    /\ consumed' = consumed \cup {r}
    /\ UNCHANGED <<requests, version, clock, contract>>

SelectOption(r) == \E patch \in OptionsFor(r.path) : ApplyClarification(r, patch)
GroundFreeText(r) == \E patch \in FreeTextPatches(r.path) : ApplyClarification(r, patch)
Answer == \E r \in requests : SelectOption(r) \/ GroundFreeText(r)

(* The harness keeps what was consumed in memory only. *)
Restart ==
    /\ consumed # {}
    /\ consumed' = {}
    /\ UNCHANGED <<draft, requests, version, clock, contract>>

AdvanceState ==
    /\ version < MaxVersion
    /\ version' = version + 1
    /\ UNCHANGED <<draft, requests, consumed, clock, contract>>

Tick ==
    /\ clock < MaxClock
    /\ clock' = clock + 1
    /\ UNCHANGED <<draft, requests, consumed, version, contract>>

ClarificationNext ==
    IssueClarification \/ FinalizeQuestionContract \/ Answer \/ Restart \/ AdvanceState \/ Tick

ClarificationSpec == ClarificationInit /\ [][ClarificationNext]_clarificationVars

(* The caller asks and finalizes when it can, and a person who can again and
   again answer in time finally does. *)
ClarificationFairness ==
    /\ WF_clarificationVars(IssueClarification)
    /\ WF_clarificationVars(FinalizeQuestionContract)
    /\ SF_clarificationVars(Answer)
LiveClarificationSpec == ClarificationSpec /\ ClarificationFairness

-----------------------------------------------------------------------------
(* Invariants *)

\* The draft, the requests and the contract are of the shapes their validators require.
TypeOK ==
    /\ draft.field \in [Paths -> Field]
    /\ draft.clash \in BOOLEAN
    /\ draft.issues \subseteq Askable
    /\ \A r \in requests : r.path \in Askable /\ r.version \in Nat /\ r.issued \in Nat
    /\ consumed \subseteq requests /\ draft.refs \subseteq requests
    /\ version \in Nat /\ clock \in Nat

\* The issues stored with a draft and those its analysis finds never part ways: an issue that
\* is stored is still open, so none that nobody will ask about blocks the finalization.
IssuesAreOpen == draft.issues \subseteq Open(draft)

\* When the analysis asks for nothing more of a draft that has a breadth, it makes a contract its
\* validator accepts.  A question without a recognized intent, asked with no contract before it, has no
\* breadth: no issue asks for one, no answer gives it, and toQuestionContract makes what is thrown out.
HasBreadth == draft.field["breadth"].value # "NONE"
AnalysisIsEnough == HasBreadth /\ Open(draft) = {} => ContractIsValid(draft)

\* No late, repeated or crossed answer changes a draft behind its finalized contract.
FinalIsFinal == contract # NoContract => draft = contract

\* What an answered request was issued for lies strictly before the draft.
RefsArePast == \A r \in draft.refs : r.draft.refs \subseteq draft.refs /\ r.draft.refs # draft.refs

\* The inductive invariant.
ClarificationInv ==
    /\ TypeOK
    /\ IssuesAreOpen
    /\ RefsArePast
    /\ \A r \in requests : r.path \in Open(r.draft)
    /\ contract # NoContract => draft = contract /\ Open(draft) = {}
    /\ draft.field["organization"].by = "USER_CLARIFIED" => draft.field["universe"].status = "BOUND"

-----------------------------------------------------------------------------
(* Action and temporal properties *)

\* An answer changes the draft by consuming a request for the first time, even when the
\* harness has forgotten what was consumed.
EveryAnswerCountsOnce ==
    [][draft' # draft =>
        \E r \in requests : r \notin draft.refs /\ draft'.refs = draft.refs \cup {r}]_clarificationVars

\* What a person has settled is not changed by another answer, whatever the order in which
\* the answers of two tabs arrive.
Settled(p) == draft.field[p].by = "USER_CLARIFIED" /\ p \notin Open(draft)
ClarifiedSticks ==
    [][\A p \in Paths : Settled(p) => draft'.field[p] = draft.field[p]]_clarificationVars

\* A question that is asked with a breadth and does not contradict itself becomes a contract, if its
\* person keeps answering.  The others never do: nothing gives a breadth, and a contradiction, which no
\* patch can name, is asked about again and again.
EveryQuestionIsFinalized == HasBreadth /\ ~draft.clash => <>(contract # NoContract)
=============================================================================
