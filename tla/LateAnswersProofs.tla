-------------------------- MODULE LateAnswersProofs --------------------------
(***************************************************************************)
(* The two components that people answer from several tabs, late, twice    *)
(* and out of order.  Clarification: no draft is blocked by an issue       *)
(* nobody will ask about, every answer counts once, what was settled and   *)
(* what was finalized stays.  WeeklyProjections: an opportunity is         *)
(* projected once a week, a suggested link resolved while its request ran, *)
(* and what was deleted stays so.                                          *)
(***************************************************************************)
EXTENDS Clarification, WeeklyProjections, FiniteSetTheorems, TLAPS

-----------------------------------------------------------------------------
(* The order of the issues *)

LEMMA AskableIs ==
  Askable = {"explicit_constraints", "subject", "operation", "concepts", "temporal",
             "universe", "comparison", "geography", "grain"}
<1>1. DOMAIN IssueOrder = 1 .. 9
  BY DEF IssueOrder
<1>2. Askable = {IssueOrder[1], IssueOrder[2], IssueOrder[3], IssueOrder[4], IssueOrder[5],
                 IssueOrder[6], IssueOrder[7], IssueOrder[8], IssueOrder[9]}
  BY <1>1 DEF Askable
<1> QED
  BY <1>2 DEF IssueOrder

\* The analysis finds nothing that no request can be about.
LEMMA OpenIsAskable ==
  ASSUME NEW f, NEW clash
  PROVE  AnalyzeGrounding(f, clash) \subseteq Askable
BY AskableIs DEF AnalyzeGrounding, Contradictions, RequiredAlways, RequiredBroad, RequiredFocused

\* A request is about an open issue.
LEMMA FirstIssueIsOpen ==
  ASSUME NEW d, Open(d) # {}
  PROVE  FirstIssue(d) \in Open(d)
<1> DEFINE Least(i) == /\ IssueOrder[i] \in Open(d)
                       /\ \A j \in 1 .. (i - 1) : IssueOrder[j] \notin Open(d)
<1>1. DOMAIN IssueOrder = 1 .. 9
  BY DEF IssueOrder
<1>2. \E i \in 1 .. 9 : IssueOrder[i] \in Open(d)
  BY OpenIsAskable, <1>1 DEF Open, Askable
<1>3. \E i \in 1 .. 9 : Least(i)
  <2>1. CASE IssueOrder[1] \in Open(d)  BY <2>1
  <2>2. CASE IssueOrder[1] \notin Open(d) /\ IssueOrder[2] \in Open(d)  BY <2>2
  <2>3. CASE (\A j \in 1 .. 2 : IssueOrder[j] \notin Open(d)) /\ IssueOrder[3] \in Open(d)  BY <2>3
  <2>4. CASE (\A j \in 1 .. 3 : IssueOrder[j] \notin Open(d)) /\ IssueOrder[4] \in Open(d)  BY <2>4
  <2>5. CASE (\A j \in 1 .. 4 : IssueOrder[j] \notin Open(d)) /\ IssueOrder[5] \in Open(d)  BY <2>5
  <2>6. CASE (\A j \in 1 .. 5 : IssueOrder[j] \notin Open(d)) /\ IssueOrder[6] \in Open(d)  BY <2>6
  <2>7. CASE (\A j \in 1 .. 6 : IssueOrder[j] \notin Open(d)) /\ IssueOrder[7] \in Open(d)  BY <2>7
  <2>8. CASE (\A j \in 1 .. 7 : IssueOrder[j] \notin Open(d)) /\ IssueOrder[8] \in Open(d)  BY <2>8
  <2>9. CASE (\A j \in 1 .. 8 : IssueOrder[j] \notin Open(d)) /\ IssueOrder[9] \in Open(d)  BY <2>9
  <2> HIDE DEF Least
  <2> QED
    BY <1>2, <2>1, <2>2, <2>3, <2>4, <2>5, <2>6, <2>7, <2>8, <2>9
<1>4. Least(CHOOSE i \in DOMAIN IssueOrder : Least(i))
  <2> HIDE DEF Least
  <2> QED
    BY <1>1, <1>3
<1> QED
  BY <1>4 DEF FirstIssue

-----------------------------------------------------------------------------
(* Candidates and the first draft *)

LEMMA Fields ==
  /\ \A v \in Values : Said(v) \in Field /\ Inferred(v) \in Field /\ Pending(v) \in Field
  /\ Unresolved \in Field /\ Omitted \in Field /\ Deferred \in Field
  /\ SaidOmitted \in Field
  /\ \A v : /\ Said(v).by # "USER_CLARIFIED" /\ Inferred(v).by # "USER_CLARIFIED"
            /\ Pending(v).by # "USER_CLARIFIED"
  /\ Unresolved.by # "USER_CLARIFIED" /\ Omitted.by # "USER_CLARIFIED"
  /\ Deferred.by # "USER_CLARIFIED" /\ SaidOmitted.by # "USER_CLARIFIED"
BY DEF Field, Statuses, Provenances, Values, Said, Inferred, Pending, SaidOmitted,
       Unresolved, Omitted, Deferred

LEMMA MergeIsCandidate ==
  ASSUME NEW a, NEW b, IsCandidate(a), IsCandidate(b)
  PROVE  IsCandidate(MergeCandidate(a, b))
BY DEF IsCandidate, MergeCandidate

LEMMA SingletonIsCandidate ==
  ASSUME NEW p \in CandidateFields, NEW v \in Field, v.by # "USER_CLARIFIED"
  PROVE  IsCandidate(Bind(p, v))
BY DEF IsCandidate, Bind

\* What the grammar recognizes is a candidate.
LEMMA LexicalIsCandidate ==
  ASSUME NEW c \in LexicalCandidates
  PROVE  IsCandidate(c)
<1> USE DEF CandidateFields, Paths
<1>1. IsCandidate(Nothing)
  BY DEF IsCandidate, Nothing
<1>2. \A i \in IntentCandidates : IsCandidate(i)
  <2>1. ASSUME NEW o \in {"OTHER", "COMPARE", "EXPLAIN", "ASSESS"}, NEW b \in {"FOCUSED", "BROAD"}
        PROVE  IsCandidate(Intent(o, b))
    BY Fields DEF IsCandidate, Intent, Values
  <2> QED
    BY <1>1, <2>1 DEF IntentCandidates
<1>3. \A s \in SubjectCandidates : IsCandidate(s)
  <2>1. \A b \in {"USER_EXPLICIT", "INFERRED"} :
          LET v == [Pending("ONE_TYPE") EXCEPT !.by = b] IN v \in Field /\ v.by # "USER_CLARIFIED"
    BY DEF Pending, Field, Statuses, Values, Provenances
  <2> QED
    BY <1>1, <2>1, SingletonIsCandidate DEF SubjectCandidates
<1>4. \A t \in TemporalCandidates : IsCandidate(t)
  BY <1>1, Fields, SingletonIsCandidate DEF TemporalCandidates, Values
<1>5. \A k \in ComparisonCandidates : IsCandidate(k)
  BY <1>1, Fields, SingletonIsCandidate DEF ComparisonCandidates, Values
<1>6. \A u \in ScopeCandidates : IsCandidate(u)
  <2>1. IsCandidate(OwnStores) /\ IsCandidate(SinMercado)
    BY Fields, SingletonIsCandidate DEF OwnStores, SinMercado, Values
  <2> QED
    BY <1>1, <2>1, MergeIsCandidate DEF ScopeCandidates
<1>7. PICK i \in IntentCandidates, s \in SubjectCandidates, t \in TemporalCandidates,
           k \in ComparisonCandidates, u \in ScopeCandidates :
        c = MergeCandidate(i, MergeCandidate(s, MergeCandidate(t, MergeCandidate(k, u))))
  BY DEF LexicalCandidates
<1>8. IsCandidate(MergeCandidate(k, u))
  BY <1>5, <1>6, MergeIsCandidate
<1>9. IsCandidate(MergeCandidate(t, MergeCandidate(k, u)))
  BY <1>4, <1>8, MergeIsCandidate
<1>10. IsCandidate(MergeCandidate(s, MergeCandidate(t, MergeCandidate(k, u))))
  BY <1>3, <1>9, MergeIsCandidate
<1> QED
  BY <1>2, <1>7, <1>10, MergeIsCandidate

LEMMA FirstFieldsType ==
  ASSUME NEW c, IsCandidate(c)
  PROVE  /\ FirstFields(c) \in [Paths -> Field]
         /\ \A p \in Paths : FirstFields(c)[p].by # "USER_CLARIFIED"
<1>1. ASSUME NEW p \in Paths, NEW e \in Field, e.by # "USER_CLARIFIED"
      PROVE  Given(c, p, e) \in Field /\ Given(c, p, e).by # "USER_CLARIFIED"
  BY <1>1 DEF Given, IsCandidate
<1>2. ASSUME NEW s
      PROVE  InferGrain(s) \in Field /\ InferGrain(s).by # "USER_CLARIFIED"
  BY Fields DEF InferGrain, Values
<1>3. ASSUME NEW axis \in {"universe", "organization", "market", "geography"}
      PROVE  ScopeField(c, axis) \in Field /\ ScopeField(c, axis).by # "USER_CLARIFIED"
  BY <1>3, Fields DEF ScopeField, Values
<1>4. ComparisonField(c) \in Field /\ ComparisonField(c).by # "USER_CLARIFIED"
  BY Fields DEF ComparisonField, Values
<1>5. ASSUME NEW p \in Paths
      PROVE  FirstFields(c)[p] \in Field /\ FirstFields(c)[p].by # "USER_CLARIFIED"
  BY <1>1, <1>2, <1>3, <1>4, Fields DEF FirstFields
<1> QED
  BY <1>5 DEF FirstFields

LEMMA FirstDraft ==
  ASSUME NEW q \in Asked
  PROVE  LET d == CreateGroundedQuestionDraft(q)
         IN  /\ d.field \in [Paths -> Field] /\ d.clash \in BOOLEAN
             /\ d.issues = Open(d) /\ d.refs = {}
             /\ d.field["organization"].by # "USER_CLARIFIED"
<1> DEFINE c == MergeCandidate(q.lexical, q.external)
           carried == CarryMissing(FirstFields(c), q.prior)
           f == NormalizeBroadDeferred(carried)
<1>1. IsCandidate(c)
  BY QuestionsAssumption, LexicalIsCandidate, MergeIsCandidate DEF AskedAssumption, MergeCandidate
<1>2. FirstFields(c) \in [Paths -> Field] /\ \A p \in Paths : FirstFields(c)[p].by # "USER_CLARIFIED"
  BY <1>1, FirstFieldsType
<1>3. ASSUME NEW p \in Paths
      PROVE  carried[p] \in Field /\ carried[p].by # "USER_CLARIFIED"
  <2>1. CASE FirstFields(c)[p].status = "UNRESOLVED" /\ p \in DOMAIN q.prior
    <3>1. q.prior[p] \in Field
      BY <2>1, QuestionsAssumption DEF AskedAssumption
    <3>2. carried[p] = [q.prior[p] EXCEPT !.by = "CARRIED"]
      BY <2>1 DEF CarryMissing
    <3> QED
      BY <3>1, <3>2 DEF Field, Provenances
  <2>2. CASE ~(FirstFields(c)[p].status = "UNRESOLVED" /\ p \in DOMAIN q.prior)
    BY <1>2, <2>2 DEF CarryMissing
  <2> QED
    BY <2>1, <2>2
<1>4. ASSUME NEW p \in Paths
      PROVE  f[p] \in Field /\ f[p].by # "USER_CLARIFIED"
  <2> HIDE DEF carried
  <2> QED
    BY <1>3, Fields DEF NormalizeBroadDeferred
<1>5. f \in [Paths -> Field]
  <2>1. f = [p \in Paths |-> f[p]]
    BY DEF NormalizeBroadDeferred
  <2> HIDE DEF f
  <2> QED
    BY <1>4, <2>1
<1>6. CreateGroundedQuestionDraft(q) =
        [field |-> f, clash |-> q.clash, issues |-> AnalyzeGrounding(f, q.clash), refs |-> {}]
  BY DEF CreateGroundedQuestionDraft
<1> HIDE DEF f
<1>7. q.clash \in BOOLEAN
  BY QuestionsAssumption DEF AskedAssumption
<1> QED
  BY <1>4, <1>5, <1>6, <1>7 DEF Open, Paths

-----------------------------------------------------------------------------
(* Patches *)

\* A patch binds the path it was asked for, and the organization only together with the
\* universe.
PatchFor(path, patch) ==
  /\ DOMAIN patch \subseteq Paths
  /\ \A p \in DOMAIN patch : patch[p] \in Field
  /\ \/ DOMAIN patch \subseteq {path}
     \/ /\ path = "universe"
        /\ DOMAIN patch = {"universe", "organization"}
        /\ patch["universe"].status = "BOUND"

LEMMA PatchesAreFor ==
  ASSUME NEW path \in Askable, NEW patch \in OptionsFor(path) \cup FreeTextPatches(path)
  PROVE  PatchFor(path, patch)
<1>1. ASSUME NEW v \in Field, NEW p \in Paths
      PROVE  PatchFor(p, Bind(p, v))
  BY DEF PatchFor, Bind
<1>2. ASSUME NEW v \in {"COMPANY", "OWN_STORES", "DEALERS"}
      PROVE  PatchFor("universe", MergeCandidate(Bind("universe", Said(v)),
                                                 Bind("organization", Said("CIDEF"))))
  BY Fields DEF PatchFor, MergeCandidate, Bind, Said, Values, Paths
<1>3. CASE patch \in FreeTextPatches(path)
  BY <1>1, <1>3, FreeTextAssumption DEF FreeTextPatches
<1>4. CASE patch \in OptionsFor(path)
  <2>1. CASE path = "temporal"
    BY <1>1, <1>4, <2>1, Fields DEF OptionsFor, Values, Paths
  <2>2. CASE path = "universe"
    BY <1>2, <1>4, <2>2 DEF OptionsFor
  <2>3. CASE path = "comparison"
    BY <1>1, <1>4, <2>3, Fields DEF OptionsFor, Values, Paths
  <2>4. CASE path \notin {"temporal", "universe", "comparison"}
    BY <1>4, <2>4 DEF OptionsFor
  <2> QED
    BY <2>1, <2>2, <2>3, <2>4
<1> QED
  BY <1>3, <1>4

\* An issue that was not asked about stays open.
LEMMA OthersStayOpen ==
  ASSUME NEW f \in [Paths -> Field], NEW clash, NEW path \in Askable, NEW patch,
         PatchFor(path, patch), NEW p \in AnalyzeGrounding(f, clash), p # path
  PROVE  p \in AnalyzeGrounding(ClarifiedFields(f, patch), clash)
<1>1. \A x \in Paths \ {path, "organization"} : ClarifiedFields(f, patch)[x] = f[x]
  BY DEF PatchFor, ClarifiedFields
<1>2. p \in Askable /\ p # "organization"
  BY OpenIsAskable, AskableIs
<1>3. ClarifiedFields(f, patch)["breadth"] = f["breadth"]
  BY <1>1, AskableIs DEF Paths
<1>4. p \in Paths => ClarifiedFields(f, patch)[p] = f[p]
  BY <1>1, <1>2
<1> QED
  BY <1>3, <1>4, AskableIs
     DEF AnalyzeGrounding, Contradictions, RequiredAlways, RequiredBroad, RequiredFocused, Broad, Paths

-----------------------------------------------------------------------------
(* The inductive invariant *)

\* The request an answer is accepted for has not been answered before, and what it asks for
\* is still open.
LEMMA AcceptedIsNew ==
  ASSUME ClarificationInv, NEW r \in requests, Accepts(r)
  PROVE  /\ r \notin draft.refs /\ r.path \in Open(draft) /\ r.path \in Askable
         /\ contract = NoContract
BY DEF ClarificationInv, RefsArePast, Accepts, SameDraft, TypeOK

LEMMA InitInv ==
  ASSUME ClarificationInit
  PROVE  ClarificationInv
<1>1. PICK q \in Asked : draft = CreateGroundedQuestionDraft(q)
  BY DEF ClarificationInit
<1>2. /\ draft.field \in [Paths -> Field] /\ draft.clash \in BOOLEAN
      /\ draft.issues = Open(draft) /\ draft.refs = {}
      /\ draft.field["organization"].by # "USER_CLARIFIED"
  BY <1>1, FirstDraft
<1>3. draft.issues \subseteq Askable
  BY <1>2, OpenIsAskable DEF Open
<1>4. TypeOK
  BY <1>2, <1>3 DEF TypeOK, ClarificationInit
<1> QED
  BY <1>2, <1>4 DEF ClarificationInv, IssuesAreOpen, RefsArePast, ClarificationInit

LEMMA IssueKeepsInv ==
  ASSUME ClarificationInv, IssueClarification
  PROVE  ClarificationInv'
<1> DEFINE r == Request(draft, version, clock)
<1>1. r.path \in Open(draft) /\ r.path \in Askable /\ r.draft = draft
  BY FirstIssueIsOpen, OpenIsAskable DEF Request, IssueClarification, Open
<1>2. r.version \in Nat /\ r.issued \in Nat
  BY DEF Request, ClarificationInv, TypeOK
<1>3. /\ requests' = requests \cup {r}
      /\ UNCHANGED <<draft, consumed, version, clock, contract>>
  BY DEF IssueClarification
<1>4. Open(draft') = Open(draft)
  BY <1>3
<1> HIDE DEF r
<1>5. TypeOK'
  BY <1>1, <1>2, <1>3 DEF TypeOK, ClarificationInv
<1>6. IssuesAreOpen' /\ RefsArePast'
  BY <1>3, <1>4 DEF ClarificationInv, IssuesAreOpen, RefsArePast
<1>7. \A x \in requests' : x.path \in Open(x.draft)
  BY <1>1, <1>3 DEF ClarificationInv
<1> QED
  BY <1>3, <1>4, <1>5, <1>6, <1>7 DEF ClarificationInv

LEMMA AnswerKeepsInv ==
  ASSUME ClarificationInv, NEW r \in requests, NEW patch, PatchFor(r.path, patch),
         ApplyClarification(r, patch)
  PROVE  ClarificationInv'
<1>1. /\ draft' = Clarified(draft, r, patch) /\ consumed' = consumed \cup {r}
      /\ UNCHANGED <<requests, version, clock, contract>>
      /\ Accepts(r)
  BY DEF ApplyClarification
<1>2. /\ draft'.field = ClarifiedFields(draft.field, patch) /\ draft'.clash = draft.clash
      /\ draft'.issues = draft.issues \ {r.path} /\ draft'.refs = draft.refs \cup {r}
  BY <1>1 DEF Clarified
<1>3. r \notin draft.refs /\ r.path \in Open(draft) /\ r.path \in Askable /\ contract = NoContract
  BY <1>1, AcceptedIsNew
<1>4. r.draft = draft
  BY <1>1 DEF Accepts, SameDraft
<1>5. draft.field \in [Paths -> Field]
  BY DEF ClarificationInv, TypeOK
<1>6. ASSUME NEW p \in Paths
      PROVE  /\ ClarifiedFields(draft.field, patch)[p] \in Field
             /\ p \in DOMAIN patch =>
                  ClarifiedFields(draft.field, patch)[p].status = patch[p].status
             /\ p \notin DOMAIN patch => ClarifiedFields(draft.field, patch)[p] = draft.field[p]
  BY <1>5 DEF ClarifiedFields, PatchFor, Field, Provenances
<1>7. TypeOK'
  <2>1. draft'.field \in [Paths -> Field]
    BY <1>2, <1>6 DEF ClarifiedFields
  <2> QED
    BY <1>1, <1>2, <2>1 DEF ClarificationInv, TypeOK
<1>8. IssuesAreOpen'
  BY <1>2, <1>3, <1>5, OthersStayOpen DEF IssuesAreOpen, Open, ClarificationInv
<1>9. RefsArePast'
  BY <1>2, <1>3, <1>4 DEF RefsArePast, ClarificationInv
<1>10. \A x \in requests' : x.path \in Open(x.draft)
  BY <1>1 DEF ClarificationInv
<1>11. draft'.field["organization"].by = "USER_CLARIFIED" => draft'.field["universe"].status = "BOUND"
  <2>1. CASE "organization" \in DOMAIN patch
    BY <1>2, <1>3, <1>6, <2>1, AskableIs DEF PatchFor, Paths
  <2>2. CASE "organization" \notin DOMAIN patch /\ r.path = "universe"
    <3>1. draft.field["universe"].status # "BOUND"
      BY <1>3, <2>2
         DEF Open, AnalyzeGrounding, Contradictions, RequiredAlways, RequiredBroad, RequiredFocused
    <3> QED
      BY <1>2, <1>6, <2>2, <3>1 DEF ClarificationInv, Paths
  <2>3. CASE "organization" \notin DOMAIN patch /\ r.path # "universe"
    BY <1>2, <1>6, <2>3 DEF ClarificationInv, PatchFor, Paths
  <2> QED
    BY <2>1, <2>2, <2>3
<1> QED
  BY <1>1, <1>3, <1>7, <1>8, <1>9, <1>10, <1>11 DEF ClarificationInv

\* Finalizing, restarting and time leave the draft and the requests alone.
LEMMA OthersKeepInv ==
  ASSUME ClarificationInv, UNCHANGED <<draft, requests>>,
         consumed' \subseteq requests, version' \in Nat, clock' \in Nat,
         contract' # contract => contract' = draft /\ Open(draft) = {}
  PROVE  ClarificationInv'
<1>1. Open(draft') = Open(draft)
  OBVIOUS
<1>2. TypeOK'
  BY DEF TypeOK, ClarificationInv
<1> QED
  BY <1>1, <1>2 DEF ClarificationInv, IssuesAreOpen, RefsArePast

LEMMA NextKeepsInv ==
  ASSUME ClarificationInv, [ClarificationNext]_clarificationVars
  PROVE  ClarificationInv'
<1>0. consumed \subseteq requests /\ version \in Nat /\ clock \in Nat
  BY DEF ClarificationInv, TypeOK
<1>1. CASE IssueClarification
  BY <1>1, IssueKeepsInv
<1>2. CASE Answer
  <2>1. PICK r \in requests :
          \E patch \in OptionsFor(r.path) \cup FreeTextPatches(r.path) : ApplyClarification(r, patch)
    BY <1>2 DEF Answer, SelectOption, GroundFreeText
  <2>2. PICK patch \in OptionsFor(r.path) \cup FreeTextPatches(r.path) : ApplyClarification(r, patch)
    BY <2>1
  <2>3. PatchFor(r.path, patch)
    BY <2>2, PatchesAreFor DEF ClarificationInv, TypeOK
  <2> QED
    BY <2>2, <2>3, AnswerKeepsInv
<1>3. CASE FinalizeQuestionContract
  BY <1>0, <1>3, OthersKeepInv DEF FinalizeQuestionContract
<1>4. CASE Restart
  <2>1. /\ UNCHANGED <<draft, requests>> /\ contract' = contract
        /\ consumed' \subseteq requests /\ version' \in Nat /\ clock' \in Nat
    BY <1>0, <1>4 DEF Restart
  <2> QED
    BY <2>1, OthersKeepInv
<1>5. CASE AdvanceState
  <2>1. /\ UNCHANGED <<draft, requests>> /\ contract' = contract
        /\ consumed' \subseteq requests /\ version' \in Nat /\ clock' \in Nat
    BY <1>0, <1>5 DEF AdvanceState
  <2> QED
    BY <2>1, OthersKeepInv
<1>6. CASE Tick
  <2>1. /\ UNCHANGED <<draft, requests>> /\ contract' = contract
        /\ consumed' \subseteq requests /\ version' \in Nat /\ clock' \in Nat
    BY <1>0, <1>6 DEF Tick
  <2> QED
    BY <2>1, OthersKeepInv
<1>7. CASE UNCHANGED clarificationVars
  <2>1. /\ UNCHANGED <<draft, requests>> /\ contract' = contract
        /\ consumed' \subseteq requests /\ version' \in Nat /\ clock' \in Nat
    BY <1>0, <1>7 DEF clarificationVars
  <2> QED
    BY <2>1, OthersKeepInv
<1> QED
  BY <1>1, <1>2, <1>3, <1>4, <1>5, <1>6, <1>7 DEF ClarificationNext

-----------------------------------------------------------------------------
(* Theorems *)

\* In every conversation the invariant holds: the draft is well formed, each request asks for
\* what its draft left open, and what a draft has answered lies behind it.
THEOREM ClarificationInductive == ClarificationSpec => []ClarificationInv
BY InitInv, NextKeepsInv, PTL DEF ClarificationSpec

\* The issues stored with the draft are always among those the analysis finds, so the check
\* for unresolved issues never refuses a draft the analysis has passed.
THEOREM StoredIssuesAreOpen == ClarificationSpec => []IssuesAreOpen
<1>1. ClarificationInv => IssuesAreOpen
  BY DEF ClarificationInv
<1> QED
  BY <1>1, ClarificationInductive, PTL

\* A finalized contract is never overtaken by an answer that arrives afterwards.
THEOREM FinalizedStays == ClarificationSpec => []FinalIsFinal
<1>1. ClarificationInv => FinalIsFinal
  BY DEF ClarificationInv, FinalIsFinal
<1> QED
  BY <1>1, ClarificationInductive, PTL

\* Only an accepted answer changes the draft.
LEMMA ChangeIsAnswer ==
  ASSUME [ClarificationNext]_clarificationVars, draft' # draft
  PROVE  \E r \in requests :
           \E patch \in OptionsFor(r.path) \cup FreeTextPatches(r.path) : ApplyClarification(r, patch)
BY DEF ClarificationNext, Answer, SelectOption, GroundFreeText, IssueClarification,
   FinalizeQuestionContract, Restart, AdvanceState, Tick, clarificationVars

\* An accepted answer consumes a request that had not been answered, with or without the
\* list the harness keeps in memory.
THEOREM AnswersCountOnce == ClarificationSpec => EveryAnswerCountsOnce
<1>1. ASSUME ClarificationInv, [ClarificationNext]_clarificationVars, draft' # draft
      PROVE  \E r \in requests : r \notin draft.refs /\ draft'.refs = draft.refs \cup {r}
  <2>1. PICK r \in requests : \E patch : ApplyClarification(r, patch)
    BY <1>1, ChangeIsAnswer
  <2> QED
    BY <1>1, <2>1, AcceptedIsNew DEF ApplyClarification, Clarified
<1> QED
  BY <1>1, ClarificationInductive, PTL DEF ClarificationSpec, EveryAnswerCountsOnce

\* A field the person has settled is never changed by another answer: a request about it is
\* not accepted, and the organization follows the universe only while that is open.
THEOREM SettledStays == ClarificationSpec => ClarifiedSticks
<1>1. ASSUME ClarificationInv, [ClarificationNext]_clarificationVars, NEW p \in Paths, Settled(p)
      PROVE  draft'.field[p] = draft.field[p]
  <2>1. CASE draft' = draft
    BY <2>1
  <2>2. CASE draft' # draft
    <3>0. PICK r \in requests :
            \E patch \in OptionsFor(r.path) \cup FreeTextPatches(r.path) : ApplyClarification(r, patch)
      BY <1>1, <2>2, ChangeIsAnswer
    <3>1. PICK patch \in OptionsFor(r.path) \cup FreeTextPatches(r.path) : ApplyClarification(r, patch)
      BY <3>0
    <3>2. PatchFor(r.path, patch)
      BY <1>1, <3>1, PatchesAreFor DEF ClarificationInv, TypeOK
    <3>3. r.path \in Open(draft)
      BY <1>1, <3>1, AcceptedIsNew DEF ApplyClarification
    <3>4. p \notin DOMAIN patch
      <4>1. p # r.path
        BY <1>1, <3>3 DEF Settled
      <4>2. ~(p = "organization" /\ r.path = "universe")
        BY <1>1, <3>3
           DEF Settled, ClarificationInv, Open, AnalyzeGrounding, Contradictions,
               RequiredAlways, RequiredBroad, RequiredFocused
      <4> QED
        BY <3>2, <4>1, <4>2 DEF PatchFor
    <3> QED
      BY <1>1, <3>1, <3>4 DEF ApplyClarification, Clarified, ClarifiedFields
  <2> QED
    BY <2>1, <2>2
<1>2. ASSUME ClarificationInv, [ClarificationNext]_clarificationVars
      PROVE  \A p \in Paths : Settled(p) => draft'.field[p] = draft.field[p]
  BY <1>1, <1>2
<1> QED
  BY <1>2, ClarificationInductive, PTL DEF ClarificationSpec, ClarifiedSticks
-----------------------------------------------------------------------------
(* What the analysis finds is all a contract lacks                         *)

\* What a reading binds of the intent has a value, and no broad one waits for an authority to tell
\* the period.
Meant(f) ==
  /\ \A p \in {"operation", "concepts"} : f[p].status = "BOUND" => f[p].value # "NONE"
  /\ Broad(f) => f["temporal"].status # "AUTHORITY_PENDING"
QuestionsAreMeant == \A q \in Asked : Meant(CreateGroundedQuestionDraft(q).field)
AnswersHaveValues == \A v \in FreeText : v.status = "BOUND" => v.value # "NONE"

\* What a broad question leaves open has been deferred.
BroadIsDeferred(f) ==
  Broad(f) => \A p \in {"temporal", "comparison"} : f[p].status # "UNRESOLVED"
MeantInv == Meant(draft.field) /\ BroadIsDeferred(draft.field)

LEMMA NormalizedIsDeferred ==
  ASSUME NEW f
  PROVE  BroadIsDeferred(NormalizeBroadDeferred(f))
<1> DEFINE g == NormalizeBroadDeferred(f)
<1>1. ASSUME NEW p \in Paths
      PROVE  g[p] = IF /\ f["breadth"].value = "BROAD" /\ f[p].status = "UNRESOLVED"
                       /\ p \in {"temporal", "universe", "organization", "market", "geography",
                                 "comparison"}
                    THEN Deferred ELSE f[p]
  BY DEF NormalizeBroadDeferred
<1> HIDE DEF g
<1>2. g["breadth"] = f["breadth"]
  BY <1>1 DEF Paths
<1>3. ASSUME Broad(g), NEW p \in {"temporal", "comparison"} PROVE g[p].status # "UNRESOLVED"
  <2>1. CASE f[p].status = "UNRESOLVED"
    <3>1. g[p] = Deferred
      BY <1>1, <1>2, <1>3, <2>1 DEF Paths, Broad
    <3> QED BY <3>1 DEF Deferred
  <2>2. CASE f[p].status # "UNRESOLVED"
    BY <1>1, <2>2 DEF Paths
  <2> QED BY <2>1, <2>2
<1>4. BroadIsDeferred(g)
  BY <1>3 DEF BroadIsDeferred
<1> QED BY <1>4 DEF g

LEMMA InitMeant ==
  ASSUME QuestionsAreMeant, ClarificationInit
  PROVE  MeantInv
<1>1. PICK q \in Asked : draft = CreateGroundedQuestionDraft(q)
  BY DEF ClarificationInit
<1>2. BroadIsDeferred(draft.field)
  BY <1>1, NormalizedIsDeferred DEF CreateGroundedQuestionDraft
<1> QED BY <1>1, <1>2 DEF QuestionsAreMeant, MeantInv

LEMMA AnswerMeant ==
  ASSUME AnswersHaveValues, ClarificationInv, MeantInv, NEW r \in requests,
         NEW patch \in OptionsFor(r.path) \cup FreeTextPatches(r.path), ApplyClarification(r, patch)
  PROVE  MeantInv'
<1>1. draft'.field = ClarifiedFields(draft.field, patch) /\ r.path \in Open(draft) /\ r.path \in Askable
  BY AcceptedIsNew DEF ApplyClarification, Clarified
<1>2. PatchFor(r.path, patch) /\ draft.field \in [Paths -> Field]
  BY <1>1, PatchesAreFor DEF ClarificationInv, TypeOK
<1>3. ASSUME NEW p \in Paths, p \notin {r.path, "organization"}
      PROVE  draft'.field[p] = draft.field[p]
  BY <1>1, <1>2, <1>3 DEF PatchFor, ClarifiedFields
<1>4. draft'.field["breadth"] = draft.field["breadth"]
  BY <1>1, <1>3, AskableIs DEF Paths
<1>5. ASSUME NEW p \in {"operation", "concepts"}, draft'.field[p].status = "BOUND"
      PROVE  draft'.field[p].value # "NONE"
  <2>1. CASE p \notin DOMAIN patch
    BY <1>1, <1>5, <2>1 DEF ClarifiedFields, MeantInv, Meant, Paths
  <2>2. CASE p \in DOMAIN patch
    <3>1. p = r.path
      BY <1>2, <2>2 DEF PatchFor
    <3>2. patch \in FreeTextPatches(p)
      BY <3>1 DEF OptionsFor
    <3>3. PICK v \in FreeText : patch = Bind(p, v)
      BY <3>2 DEF FreeTextPatches
    <3>4. patch[p] = v /\ v \in Field
      BY <3>3, FreeTextAssumption DEF Bind
    <3>5. draft'.field[p] = [v EXCEPT !.by = "USER_CLARIFIED"]
      BY <1>1, <2>2, <3>4 DEF ClarifiedFields, Paths
    <3>6. draft'.field[p].status = v.status /\ draft'.field[p].value = v.value
      BY <3>4, <3>5 DEF Field
    <3> QED BY <1>5, <3>6 DEF AnswersHaveValues
  <2> QED BY <2>1, <2>2
<1>6. ASSUME Broad(draft.field), NEW p \in {"temporal", "comparison"}
      PROVE  draft'.field[p] = draft.field[p]
  <2>1. p # r.path
    BY <1>1, <1>6
       DEF Open, AnalyzeGrounding, Contradictions, RequiredAlways, RequiredBroad, RequiredFocused
  <2> QED BY <1>3, <2>1 DEF Paths
<1>7. Broad(draft'.field) = Broad(draft.field)
  BY <1>4 DEF Broad
<1>8. Meant(draft'.field)
  BY <1>5, <1>6, <1>7 DEF MeantInv, Meant
<1>9. BroadIsDeferred(draft'.field)
  BY <1>6, <1>7 DEF MeantInv, BroadIsDeferred
<1> QED BY <1>8, <1>9 DEF MeantInv

\* Such a draft lacks a breadth or nothing.
LEMMA MeantIsEnough ==
  ASSUME TypeOK, MeantInv, HasBreadth, Open(draft) = {}
  PROVE  ContractIsValid(draft)
<1> DEFINE f == draft.field
<1>1. f \in [Paths -> Field]
  BY DEF TypeOK
<1>2. \A p \in Askable : p \notin AnalyzeGrounding(f, draft.clash)
  BY DEF Open
<1>3. f["subject"].status \in {"BOUND", "AUTHORITY_PENDING"}
  BY <1>2, AskableIs DEF AnalyzeGrounding, RequiredAlways
<1>4. \A p \in {"operation", "concepts"} : f[p].status = "BOUND"
  BY <1>2, AskableIs DEF AnalyzeGrounding, RequiredAlways
<1>5. CASE Broad(f)
  <2>1. f["temporal"].status \in Statuses
    BY <1>1 DEF Field, Paths
  <2>2. f["temporal"].status \in {"BOUND", "OMITTED", "DEFERRED_SELECTION"}
    BY <1>5, <2>1 DEF MeantInv, Meant, BroadIsDeferred, Statuses
  <2> QED BY <1>3, <1>4, <1>5, <2>2 DEF ContractIsValid, HasBreadth, MeantInv, Meant, BroadIsDeferred
<1>6. CASE ~Broad(f)
  <2>1. f["temporal"].status = "BOUND" /\ f["comparison"].status # "UNRESOLVED"
    BY <1>2, <1>6, AskableIs DEF AnalyzeGrounding, RequiredFocused
  <2> QED BY <1>3, <1>4, <2>1 DEF ContractIsValid, HasBreadth, MeantInv, Meant
<1> QED BY <1>5, <1>6

\* AnalysisIsEnough: whatever is asked, answered and carried over, a draft that has a breadth and of
\* which nothing is asked any more makes a contract that its validator accepts.
THEOREM NothingAskedIsEnough ==
  ASSUME QuestionsAreMeant, AnswersHaveValues
  PROVE  ClarificationSpec => []AnalysisIsEnough
<1>1. ClarificationInit => MeantInv
  BY InitMeant
<1>2. ClarificationInv /\ MeantInv /\ [ClarificationNext]_clarificationVars => MeantInv'
  <2> SUFFICES ASSUME ClarificationInv, MeantInv, [ClarificationNext]_clarificationVars PROVE MeantInv'
    OBVIOUS
  <2>1. CASE draft' = draft
    BY <2>1 DEF MeantInv
  <2>2. CASE draft' # draft
    <3>1. PICK r \in requests :
            \E patch \in OptionsFor(r.path) \cup FreeTextPatches(r.path) : ApplyClarification(r, patch)
      BY <2>2, ChangeIsAnswer
    <3>2. PICK patch \in OptionsFor(r.path) \cup FreeTextPatches(r.path) : ApplyClarification(r, patch)
      BY <3>1
    <3> QED BY <3>2, AnswerMeant
  <2> QED BY <2>1, <2>2
<1>3. ClarificationInv /\ MeantInv => AnalysisIsEnough
  BY MeantIsEnough DEF ClarificationInv, AnalysisIsEnough
<1> QED BY <1>1, <1>2, <1>3, ClarificationInductive, PTL DEF ClarificationSpec

-----------------------------------------------------------------------------
(* The weekly projections *)

Writers == Lines \cup Edits
Statements == {"dimensions", "open", "compatible", "write"}
Places == Statements \cup {"idle", "read", "saved", "rejected", "failed"}
Owners == {Body[l].owner : l \in Lines}
StoredRows == {Stored(r, o) : r \in Writers, o \in Owners}

\* Identifiers are 1, 2, ... in the order of insertion, and every row is what a request stored.
RowsInv ==
  /\ \E n \in Nat : Ids = 1..n
  /\ rows \in [Ids -> StoredRows \cup {NULL}]
RequestsInv ==
  /\ pc \in [Requests -> Places]
  /\ target \in [Requests -> Ids \cup {NULL}]
  /\ about \in [Requests -> Owners \cup {NULL}]
  /\ held \in [Requests -> BOOLEAN]
  /\ \A r \in Requests : pc[r] = "read" => r \in Edits
  /\ \A r \in Edits \cup Removals : pc[r] # "idle" => target[r] \in Ids

\* A request is about the branch, the seller and the week of the row it is to write.
AboutInv ==
  /\ \A l \in Lines : pc[l] \in Statements => about[l] = Body[l].owner
  /\ \A e \in Edits : pc[e] \in Statements /\ target[e] \in Live =>
       about[e] = rows[target[e]].owner

\* A request about to write a suggested link has seen it resolve, or the row is gone.
HeldInv ==
  \A r \in Writers : pc[r] = "write" /\ Body[r].method = "SUGGESTED" =>
    held[r] \/ (r \in Edits /\ target[r] \notin Live)

ProjectionsInv == RowsInv /\ RequestsInv /\ AboutInv /\ HeldInv /\ ProjectedOnce

-----------------------------------------------------------------------------
(* What a step does to the rows.                                           *)

\* A row keeps its identifier and its owner, and one that was deleted stays deleted.
RowsKept ==
  /\ Ids \subseteq Ids'
  /\ \A i \in Ids \ Live : rows'[i] = NULL
  /\ \A i \in Live : rows'[i] # NULL => rows'[i].owner = rows[i].owner

RowsStep == RowsInv' /\ ProjectedOnce' /\ RowsKept

LEMMA StoredFields ==
  ASSUME NEW r \in Writers, NEW o \in Owners
  PROVE  /\ Stored(r, o) \in StoredRows
         /\ Stored(r, o).owner = o
         /\ Stored(r, o).method = Body[r].method
         /\ Stored(r, o).by = r
BY DEF Stored, StoredRows

LEMMA RowOwner ==
  ASSUME RowsInv, NEW i \in Live
  PROVE  rows[i].owner \in Owners
<1>1. rows[i] \in StoredRows
  BY DEF RowsInv, Live
<1>2. PICK r \in Writers, o \in Owners : rows[i] = Stored(r, o)
  BY <1>1 DEF StoredRows
<1> QED BY <1>2, StoredFields

\* The next identifier is new.
LEMMA NextIdentifier ==
  ASSUME RowsInv
  PROVE  /\ Cardinality(Ids) + 1 \notin Ids
         /\ \E n \in Nat : Ids \cup {Cardinality(Ids) + 1} = 1..n
<1>1. PICK n \in Nat : Ids = 1..n
  BY DEF RowsInv
<1>2. Cardinality(Ids) = n
  BY <1>1, FS_Interval
<1>3. 1..n \cup {n + 1} = 1..(n + 1)
  BY <1>1
<1> QED BY <1>1, <1>2, <1>3

\* A row that the unique index accepts leaves every opportunity projected once a week.
LEMMA AcceptedOnce ==
  ASSUME ProjectedOnce, NEW i, NEW row, ~Taken(row, i),
         \A j \in Live' : j = i \/ (j \in Live /\ rows'[j] = rows[j]),
         rows'[i] = row
  PROVE  ProjectedOnce'
BY DEF ProjectedOnce, Taken, Live

LEMMA UnchangedRows ==
  ASSUME ProjectionsInv, UNCHANGED rows
  PROVE  RowsStep
BY DEF ProjectionsInv, RowsInv, ProjectedOnce, RowsStep, RowsKept, Live, Ids

LEMMA InsertedRow ==
  ASSUME ProjectionsInv, NEW l \in Requests, InsertProjection(l)
  PROVE  RowsStep
<1> DEFINE i == Cardinality(Ids) + 1
           row == Stored(l, about[l])
<1>1. CASE Taken(row, i)
  BY <1>1, UnchangedRows DEF InsertProjection
<1>2. CASE ~Taken(row, i)
  <2>1. rows' = [j \in Ids \cup {i} |-> IF j = i THEN row ELSE rows[j]]
    BY <1>2 DEF InsertProjection
  <2>2. about[l] \in Owners /\ l \in Writers
    BY DEF InsertProjection, ProjectionsInv, AboutInv, Statements, Owners, Writers
  <2>3. row \in StoredRows
    BY <2>2, StoredFields
  <2>4. i \notin Ids /\ \E n \in Nat : Ids \cup {i} = 1..n
    BY NextIdentifier DEF ProjectionsInv
  <2> HIDE DEF i, row
  <2>5. Ids' = Ids \cup {i}
    BY <2>1 DEF Ids
  <2>6. rows' \in [Ids' -> StoredRows \cup {NULL}]
    BY <2>1, <2>3, <2>5 DEF ProjectionsInv, RowsInv
  <2>7. RowsInv'
    BY <2>4, <2>5, <2>6 DEF RowsInv
  <2>8. \A j \in Ids : rows'[j] = rows[j]
    BY <2>1, <2>4
  <2>9. RowsKept
    BY <2>5, <2>8 DEF RowsKept, Live
  <2>10. ProjectedOnce'
    BY <1>2, <2>1, <2>5, <2>8, AcceptedOnce DEF ProjectionsInv, Live
  <2> QED BY <2>7, <2>9, <2>10 DEF RowsStep
<1> QED BY <1>1, <1>2

LEMMA UpdatedRow ==
  ASSUME ProjectionsInv, NEW e \in Requests, UpdateProjection(e)
  PROVE  RowsStep
<1> DEFINE i == target[e]
<1>1. CASE UNCHANGED rows
  BY <1>1, UnchangedRows
<1>2. CASE ~UNCHANGED rows
  <2>1. /\ i \in Live /\ ~Taken(Changed(e), i)
        /\ rows' = [rows EXCEPT ![i] = Changed(e)]
    BY <1>2 DEF UpdateProjection, Touched
  <2>2. e \in Writers /\ rows[i].owner \in Owners
    BY <2>1, RowOwner DEF UpdateProjection, Writers, ProjectionsInv
  <2>3. Changed(e) \in StoredRows /\ Changed(e).owner = rows[i].owner
    BY <2>2, StoredFields DEF Changed
  <2> HIDE DEF i
  <2>4. i \in Ids /\ Ids' = Ids /\ rows' \in [Ids' -> StoredRows \cup {NULL}]
    BY <2>1, <2>3 DEF Live, Ids, ProjectionsInv, RowsInv
  <2>5. RowsInv'
    BY <2>4 DEF RowsInv, ProjectionsInv
  <2>6. rows'[i] = Changed(e) /\ \A j \in Ids \ {i} : rows'[j] = rows[j]
    BY <2>1, <2>4 DEF ProjectionsInv, RowsInv
  <2>7. RowsKept
    BY <2>1, <2>3, <2>4, <2>6 DEF RowsKept, Live
  <2>8. ProjectedOnce'
    BY <2>1, <2>4, <2>6, AcceptedOnce DEF ProjectionsInv, Live
  <2> QED BY <2>5, <2>7, <2>8 DEF RowsStep
<1> QED BY <1>1, <1>2

LEMMA DeletedRow ==
  ASSUME ProjectionsInv, NEW d \in Requests, DeleteProjection(d)
  PROVE  RowsStep
<1>1. Ids' = Ids /\ rows' \in [Ids' -> StoredRows \cup {NULL}]
  BY DEF DeleteProjection, ProjectionsInv, RowsInv, Ids
<1>2. \A i \in Ids : rows'[i] = NULL \/ rows'[i] = rows[i]
  BY DEF DeleteProjection, ProjectionsInv, RowsInv
<1>3. RowsKept
  BY <1>1, <1>2 DEF RowsKept, Live
<1>4. ProjectedOnce'
  BY <1>1, <1>2 DEF ProjectedOnce, ProjectionsInv, Live
<1> QED BY <1>1, <1>3, <1>4 DEF RowsStep, RowsInv, ProjectionsInv

LEMMA RowsOfStep ==
  ASSUME ProjectionsInv, Step
  PROVE  RowsStep
<1>1. ASSUME NEW r \in Requests, InsertProjection(r) PROVE RowsStep
  BY <1>1, InsertedRow
<1>2. ASSUME NEW r \in Requests, UpdateProjection(r) PROVE RowsStep
  BY <1>2, UpdatedRow
<1>3. ASSUME NEW r \in Requests, DeleteProjection(r) PROVE RowsStep
  BY <1>3, DeletedRow
<1>4. CASE UNCHANGED rows
  BY <1>4, UnchangedRows
<1> QED
  BY <1>1, <1>2, <1>3, <1>4
  DEF Step, Handle, Change, SaveLine, Ask, Unanswered, ReadCurrent, ValidateDimensions,
      FindOpen, FindCompatible

-----------------------------------------------------------------------------
(* What a step does to the requests.                                       *)

\* A suggested link that resolves when a statement finds it does so in the state after it, too.
LEMMA ResolvedIsHeld ==
  ASSUME ProjectionsInv, NEW r \in Writers, FindCompatible(r), Observed,
         pc'[r] = "write", Body[r].method = "SUGGESTED"
  PROVE  held'[r] \/ (r \in Edits /\ target'[r] \notin Live')
<1>1. /\ pc[r] = "compatible" /\ UNCHANGED <<rows, target, about, roster, portfolio, crm>>
      /\ Resolves(Body[r].opportunity, about[r].branch, about[r].seller, Body[r].model)
  BY DEF FindCompatible, ProjectionsInv, RequestsInv, Goto, Masters, Writers, Requests
<1>2. Live' = Live
  BY <1>1 DEF Live, Ids
<1>3. CASE r \in Edits /\ target[r] \notin Live
  BY <1>1, <1>2, <1>3
<1>4. CASE r \in Lines \/ target[r] \in Live
  <2>1. about[r] = OwnerOf(r)
    BY <1>1, <1>4, ProjectionsAssumption
    DEF ProjectionsInv, AboutInv, OwnerOf, Statements, Writers
  <2>2. Holds(r)
    BY <1>1, <1>4, <2>1 DEF Holds, Writers
  <2>3. Holds(r)' = Holds(r)
    BY <1>1, <1>2
    DEF Holds, OwnerOf, Resolves, InBase, IsOpen, BestSellers, BestModels
  <2>4. Running(r)'
    BY DEF Running
  <2> QED BY <2>2, <2>3, <2>4 DEF Observed, Writers, Requests
<1> QED BY <1>3, <1>4 DEF Writers

\* What was seen to resolve is remembered while the request runs.
LEMMA HeldPersists ==
  ASSUME NEW r \in Requests, Observed, held[r], Running(r), Running(r)'
  PROVE  held'[r]
BY DEF Observed

\* A request none of whose statements is sent stays where it is.
Waits(r) == pc'[r] = pc[r] /\ target'[r] = target[r] /\ about'[r] = about[r]

LEMMA WaitingInv ==
  ASSUME ProjectionsInv, Observed, RowsKept, NEW r \in Writers, Waits(r)
  PROVE  /\ r \in Lines /\ pc'[r] \in Statements => about'[r] = Body[r].owner
         /\ r \in Edits /\ pc'[r] \in Statements /\ target'[r] \in Live' =>
              about'[r] = rows'[target'[r]].owner
         /\ pc'[r] = "write" /\ Body[r].method = "SUGGESTED" =>
              held'[r] \/ (r \in Edits /\ target'[r] \notin Live')
<1>1. r \in Edits /\ pc[r] # "idle" => target[r] \in Ids
  BY DEF ProjectionsInv, RequestsInv
<1>2. r \in Edits /\ pc[r] # "idle" /\ target[r] \in Live' =>
        target[r] \in Live /\ rows'[target[r]].owner = rows[target[r]].owner
  BY <1>1 DEF RowsKept, Live
<1>3. pc'[r] = "write" /\ Body[r].method = "SUGGESTED" =>
        held'[r] \/ (r \in Edits /\ target'[r] \notin Live')
  <2> SUFFICES ASSUME pc'[r] = "write", Body[r].method = "SUGGESTED" PROVE
        held'[r] \/ (r \in Edits /\ target'[r] \notin Live')
    OBVIOUS
  <2>1. held[r] \/ (r \in Edits /\ target[r] \notin Live)
    BY DEF Waits, ProjectionsInv, HeldInv
  <2>2. CASE held[r]
    BY <2>2, HeldPersists DEF Waits, Running, Writers, Requests
  <2>3. CASE r \in Edits /\ target[r] \notin Live
    BY <2>3, <1>2 DEF Waits
  <2> QED BY <2>1, <2>2, <2>3
<1> QED BY <1>2, <1>3 DEF Waits, ProjectionsInv, AboutInv, Statements

\* What a request knows when its statement has been sent.
Knows(r) ==
  /\ r \in Lines /\ pc'[r] \in Statements => about'[r] = Body[r].owner
  /\ r \in Edits /\ pc'[r] \in Statements /\ target'[r] \in Live' =>
       about'[r] = rows'[target'[r]].owner
  /\ r \in Writers /\ pc'[r] = "write" /\ Body[r].method = "SUGGESTED" =>
       held'[r] \/ (r \in Edits /\ target'[r] \notin Live')

Acts(r) == SaveLine(r) \/ Ask(r) \/ Unanswered(r) \/ Handle(r)
RequestStep(r) == Knows(r) /\ RequestsInv' /\ \A q \in Requests \ {r} : Waits(q)

\* A statement that only moves its request on, to a place where it knows no less.
LEMMA MovedOn ==
  ASSUME ProjectionsInv, Observed, RowsKept, NEW r \in Requests, NEW next \in Places,
         Goto(r, next), UNCHANGED <<target, about>>,
         pc[r] # "idle", next \in Statements => pc[r] \in Statements, next # "read",
         next = "write" /\ r \in Writers /\ Body[r].method = "SUGGESTED" =>
           held'[r] \/ (r \in Edits /\ target'[r] \notin Live')
  PROVE  RequestStep(r)
<1>1. pc' = [pc EXCEPT ![r] = next] /\ pc \in [Requests -> Places]
  BY DEF Goto, ProjectionsInv, RequestsInv
<1>2. pc'[r] = next /\ \A q \in Requests \ {r} : Waits(q)
  BY <1>1 DEF Waits
<1>3. Knows(r)
  BY <1>2 DEF Knows, ProjectionsInv, AboutInv, RequestsInv, RowsKept, Live
<1>4. RequestsInv'
  <2>1. held' \in [Requests -> BOOLEAN]
    BY DEF Observed
  <2>2. target' \in [Requests -> Ids' \cup {NULL}]
    BY DEF ProjectionsInv, RequestsInv, RowsKept
  <2>3. \A q \in Requests : pc'[q] = pc[q] \/ (q = r /\ pc'[q] = next)
    BY <1>1
  <2>4. /\ \A q \in Requests : pc'[q] = "read" => q \in Edits
        /\ \A q \in Edits \cup Removals : pc'[q] # "idle" => target'[q] \in Ids'
    BY <2>3 DEF ProjectionsInv, RequestsInv, RowsKept, Requests
  <2> QED BY <1>1, <2>1, <2>2, <2>4 DEF ProjectionsInv, RequestsInv
<1> QED BY <1>2, <1>3, <1>4 DEF RequestStep

LEMMA Started ==
  ASSUME ProjectionsInv, Observed, RowsKept, NEW r \in Requests, SaveLine(r) \/ Ask(r)
  PROVE  RequestStep(r)
<1>1. pc \in [Requests -> Places] /\ about \in [Requests -> Owners \cup {NULL}]
      /\ target \in [Requests -> Ids \cup {NULL}] /\ held' \in [Requests -> BOOLEAN]
  BY DEF ProjectionsInv, RequestsInv, Observed
<1>2. CASE SaveLine(r)
  <2>1. /\ r \in Lines /\ r \notin Edits /\ r \notin Removals
        /\ pc' = [pc EXCEPT ![r] = "dimensions"] /\ UNCHANGED target
        /\ about' = [about EXCEPT ![r] = Body[r].owner]
    BY <1>2, ProjectionsAssumption DEF SaveLine, Goto
  <2>2. pc'[r] = "dimensions" /\ about'[r] = Body[r].owner
        /\ \A q \in Requests \ {r} : Waits(q)
    BY <1>1, <2>1 DEF Waits
  <2>3. RequestsInv'
    BY <1>1, <2>1
    DEF ProjectionsInv, RequestsInv, RowsKept, Owners, Places, Statements
  <2> QED BY <2>1, <2>2, <2>3 DEF RequestStep, Knows
<1>3. CASE Ask(r)
  <2>1. PICK i \in Ids : target' = [target EXCEPT ![r] = i]
    BY <1>3 DEF Ask
  <2>2. /\ r \notin Lines /\ UNCHANGED about
        /\ pc' = [pc EXCEPT ![r] = IF r \in Edits THEN "read" ELSE "write"]
    BY <1>3 DEF Ask, Goto
  <2>3. /\ pc'[r] = IF r \in Edits THEN "read" ELSE "write"
        /\ \A q \in Requests \ {r} : Waits(q)
    BY <1>1, <2>1, <2>2 DEF Waits
  <2>4. RequestsInv'
    BY <1>1, <2>1, <2>2 DEF ProjectionsInv, RequestsInv, RowsKept, Places, Statements
  <2> QED BY <2>2, <2>3, <2>4 DEF RequestStep, Knows, Statements, Writers
<1> QED BY <1>2, <1>3

LEMMA WasRead ==
  ASSUME ProjectionsInv, Observed, RowsKept, NEW r \in Requests, ReadCurrent(r)
  PROVE  RequestStep(r)
<1>1. r \in Edits /\ r \notin Lines /\ pc[r] = "read"
  BY ProjectionsAssumption DEF ReadCurrent, ProjectionsInv, RequestsInv
<1>2. CASE target[r] \notin Live
  BY <1>1, <1>2, MovedOn DEF ReadCurrent, Places, Statements
<1>3. CASE target[r] \in Live
  <2>1. /\ pc' = [pc EXCEPT ![r] = "dimensions"] /\ UNCHANGED <<rows, target>>
        /\ about' = [about EXCEPT ![r] = rows[target[r]].owner]
    BY <1>3 DEF ReadCurrent, Goto, Current
  <2>2. pc \in [Requests -> Places] /\ about \in [Requests -> Owners \cup {NULL}]
        /\ held' \in [Requests -> BOOLEAN] /\ rows[target[r]].owner \in Owners
    BY <1>3, RowOwner DEF ProjectionsInv, RequestsInv, Observed
  <2>3. /\ pc'[r] = "dimensions" /\ about'[r] = rows[target[r]].owner
        /\ \A q \in Requests \ {r} : Waits(q)
    BY <2>1, <2>2 DEF Waits
  <2>4. RequestsInv'
    BY <1>1, <2>1, <2>2 DEF ProjectionsInv, RequestsInv, Places, Statements, Ids
  <2> QED BY <1>1, <2>1, <2>3, <2>4 DEF RequestStep, Knows
<1> QED BY <1>2, <1>3

LEMMA Validated ==
  ASSUME ProjectionsInv, Observed, RowsKept, NEW r \in Requests,
         ValidateDimensions(r) \/ FindOpen(r) \/ FindCompatible(r)
  PROVE  RequestStep(r)
<1>1. CASE ValidateDimensions(r)
  <2>1. PICK next \in {"rejected", "write", "open"} :
          Goto(r, next) /\ (next = "write" => Body[r].method = "NONE")
    BY <1>1 DEF ValidateDimensions
  <2> QED BY <1>1, <2>1, MovedOn DEF ValidateDimensions, Places, Statements
<1>2. CASE FindOpen(r)
  <2>1. PICK next \in {"rejected", "compatible"} : Goto(r, next)
    BY <1>2 DEF FindOpen
  <2> QED BY <1>2, <2>1, MovedOn DEF FindOpen, Places, Statements
<1>3. CASE FindCompatible(r)
  <2>1. PICK next \in {"rejected", "write"} : Goto(r, next)
    BY <1>3 DEF FindCompatible
  <2>2. pc'[r] = next
    BY <2>1 DEF Goto, ProjectionsInv, RequestsInv
  <2> QED BY <1>3, <2>1, <2>2, MovedOn, ResolvedIsHeld DEF FindCompatible, Places, Statements
<1> QED BY <1>1, <1>2, <1>3

LEMMA Over ==
  ASSUME ProjectionsInv, Observed, RowsKept, NEW r \in Requests,
         \/ Unanswered(r) \/ InsertProjection(r) \/ UpdateProjection(r) \/ DeleteProjection(r)
  PROVE  RequestStep(r)
<1>1. PICK next \in {"rejected", "saved", "failed"} : Goto(r, next)
  BY DEF Unanswered, InsertProjection, UpdateProjection, DeleteProjection
<1>2. pc[r] # "idle" /\ UNCHANGED <<target, about>>
  BY DEF Unanswered, Running, InsertProjection, UpdateProjection, DeleteProjection
<1> QED BY <1>1, <1>2, MovedOn DEF Places, Statements

LEMMA RequestsOfStep ==
  ASSUME ProjectionsInv, Step, Observed, RowsKept
  PROVE  RequestsInv' /\ AboutInv' /\ HeldInv'
<1>1. ASSUME NEW r \in Requests, Acts(r) PROVE RequestsInv' /\ AboutInv' /\ HeldInv'
  <2>1. RequestStep(r)
    BY <1>1, Started, WasRead, Validated, Over DEF Acts, Handle
  <2>2. \A q \in Writers : Knows(q)
    BY <2>1, WaitingInv DEF RequestStep, Knows, Writers, Requests
  <2> QED BY <2>1, <2>2 DEF RequestStep, Knows, AboutInv, HeldInv, Writers
<1>2. CASE Change
  <2>1. UNCHANGED <<rows, pc, target, about>>
    BY <1>2 DEF Change
  <2>2. \A q \in Requests : Waits(q)
    BY <2>1 DEF Waits
  <2>3. \A q \in Writers : Knows(q)
    BY <2>2, WaitingInv DEF Knows, Writers, Requests
  <2>4. RequestsInv'
    BY <2>1 DEF ProjectionsInv, RequestsInv, Observed, Ids
  <2> QED BY <2>3, <2>4 DEF Knows, AboutInv, HeldInv, Writers
<1> QED BY <1>1, <1>2 DEF Step, Acts

-----------------------------------------------------------------------------
LEMMA InitProjections == Init => ProjectionsInv
<1> SUFFICES ASSUME Init PROVE ProjectionsInv
  OBVIOUS
<1>1. Ids = 1..0 /\ Live = {}
  BY DEF Init, Ids, Live
<1>2. RowsInv
  BY <1>1 DEF Init, RowsInv, Ids
<1>3. RequestsInv
  BY DEF Init, RequestsInv, Places, Statements, Requests
<1>4. AboutInv /\ HeldInv /\ ProjectedOnce
  BY <1>1 DEF Init, AboutInv, HeldInv, ProjectedOnce, Statements, Writers, Requests
<1> QED BY <1>2, <1>3, <1>4 DEF ProjectionsInv

LEMMA NextProjections == ProjectionsInv /\ [Next]_vars => ProjectionsInv'
<1> SUFFICES ASSUME ProjectionsInv, [Next]_vars PROVE ProjectionsInv'
  OBVIOUS
<1>1. CASE Next
  BY <1>1, RowsOfStep, RequestsOfStep DEF Next, RowsStep, ProjectionsInv
<1>2. CASE UNCHANGED vars
  BY <1>2
  DEF vars, ProjectionsInv, RowsInv, RequestsInv, AboutInv, HeldInv, ProjectedOnce, Live, Ids
<1> QED BY <1>1, <1>2

\* The parts of ProjectionsInv hold in every state: a row is what one request stored, a request is
\* about its row's branch and seller, and a link about to be stored has been seen to resolve.
THEOREM AlwaysProjections == Spec => []ProjectionsInv
<1>1. Init => ProjectionsInv
  BY InitProjections
<1>2. ProjectionsInv /\ [Next]_vars => ProjectionsInv'
  BY NextProjections
<1> QED BY <1>1, <1>2, PTL DEF Spec

\* However lines are sent again and edits cross (projections.js), an opportunity is projected in
\* one row of a week, and it is suggested to one seller and for one model.
THEOREM AlwaysOneToOne == Spec => []LinksAreOneToOne
<1>1. ProjectionsInv => LinksAreOneToOne
  BY DEF ProjectionsInv, LinksAreOneToOne, SuggestedToOne, Resolves
<1> QED BY <1>1, AlwaysProjections, PTL

\* A row is stored with a suggested opportunity only by a request that has seen it resolve, while
\* it ran, to the row's branch, seller and model (assertCompatible, before the statement).
LEMMA StoredWasHeld ==
  ASSUME ProjectionsInv, Step, NEW i \in Live', ~(i \in Live /\ rows[i] = rows'[i]),
         rows'[i].method = "SUGGESTED"
  PROVE  held[rows'[i].by]
<1>1. PICK r \in Requests : InsertProjection(r) \/ UpdateProjection(r) \/ DeleteProjection(r)
  BY DEF Step, Handle, Change, SaveLine, Ask, Unanswered, ReadCurrent, ValidateDimensions,
         FindOpen, FindCompatible, Live, Ids
<1>2. CASE InsertProjection(r)
  <2>1. rows'[i] = Stored(r, about[r])
    BY <1>2 DEF InsertProjection, Live, Ids
  <2>2. about[r] \in Owners /\ r \in Writers /\ r \notin Edits /\ pc[r] = "write"
    BY <1>2, ProjectionsAssumption
    DEF InsertProjection, ProjectionsInv, AboutInv, Statements, Owners, Writers
  <2> QED BY <2>1, <2>2, StoredFields DEF ProjectionsInv, HeldInv
<1>3. CASE UpdateProjection(r)
  <2>1. r \in Writers /\ pc[r] = "write"
    BY <1>3 DEF UpdateProjection, Writers
  <2>2. /\ target[r] \in Live
        /\ rows' = [rows EXCEPT ![target[r]] = Changed(r)]
    BY <1>3 DEF UpdateProjection, Touched, Live, Ids
  <2>3. rows'[i] = Changed(r)
    BY <2>2 DEF Live, Ids, ProjectionsInv, RowsInv
  <2>4. rows[target[r]].owner \in Owners
    BY <2>2, RowOwner DEF ProjectionsInv
  <2> QED BY <2>1, <2>2, <2>3, <2>4, StoredFields DEF Changed, ProjectionsInv, HeldInv
<1>4. CASE DeleteProjection(r)
  BY <1>4 DEF DeleteProjection, ProjectionsInv, RowsInv, Live, Ids
<1> QED BY <1>1, <1>2, <1>3, <1>4

\* However its request was interleaved with edits, retries and changes of the masters, a row stored
\* with a suggested opportunity (resolveOpportunity) has the branch, the seller and the model that
\* opportunity resolved to since the request began.
THEOREM AlwaysSuggestedCompatible == Spec => SuggestedWasCompatible
<1>1. ProjectionsInv /\ [Next]_vars =>
        [\A i \in Live' :
           ~(i \in Live /\ rows[i] = rows'[i]) /\ rows'[i].method = "SUGGESTED"
             => held[rows'[i].by]]_vars
  BY StoredWasHeld DEF Next
<1> QED BY <1>1, AlwaysProjections, PTL DEF Spec, SuggestedWasCompatible

\* No edit, however old the row it read, brings back what a page deleted.
THEOREM AlwaysDeleted == Spec => DeletedStaysDeleted
<1>1. ProjectionsInv /\ [Next]_vars => [\A i \in Ids \ Live : rows'[i] = NULL]_vars
  BY RowsOfStep DEF Next, RowsStep, RowsKept
<1> QED BY <1>1, AlwaysProjections, PTL DEF Spec, DeletedStaysDeleted
=============================================================================
