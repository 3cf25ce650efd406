----------------------- MODULE ProtocolRuntimeProofs -----------------------
(***************************************************************************)
(* Theorems about ProtocolRuntime, for every value of its constants: its   *)
(* types, its inductive invariant InductiveInv with the invariants and     *)
(* action properties that follow from it (one lemma for each handler), and *)
(* the refinement of EvidenceLifecycle: every handler maps to one step of  *)
(* the lifecycle of one goal, to its closure, or to no step.               *)
(***************************************************************************)
EXTENDS ProtocolRuntime, FiniteSetTheorems, TLAPS

-----------------------------------------------------------------------------
(* Operators that build values have the expected types. *)

LEMMA ActionTypes ==
  ASSUME NEW gs \in SUBSET Goals, NEW v \in Nat
  PROVE  GoalActions(gs) \subseteq Action /\ CandidateActions(gs, v) \subseteq Action
BY DEF GoalActions, CandidateActions, Action

LEMMA TransitionActionTypes ==
  ASSUME NEW cs \in SUBSET Candidates, NEW v \in Nat
  PROVE  TransitionActions(cs, v) \subseteq Action
BY RulesAssumption DEF TransitionActions, Action, Candidates

LEMMA DerivedTypes ==
  ASSUME ledger \in SUBSET Records
  PROVE  /\ DerivedSignals \subseteq Signals
         /\ ProjectedCandidates \subseteq Candidates
<1>1. Current \in SUBSET Records
  BY DEF Current
<1>2. ASSUME NEW s \in DerivedSignals
      PROVE  \E rule \in SignalRules : s = [rule |-> rule, basis |-> Current]
  BY DEF DerivedSignals
<1>3. ASSUME NEW c \in ProjectedCandidates
      PROVE  \E rule \in TransitionRules : c = [rule |-> rule, basis |-> Current]
  BY DEF ProjectedCandidates
<1> QED BY <1>1, <1>2, <1>3 DEF Signals, Candidates

LEMMA InitTypes == Init => TypeOK
<1> SUFFICES ASSUME Init PROVE TypeOK
  OBVIOUS
<1> USE GoalsAssumption, BudgetAssumption
<1>1. 0 \in 0..MaxSelections
  OBVIOUS
<1>2. [g \in Goals |-> <<>>] \in [Goals -> Seq(Failures \cup {"SUCCEEDED"})]
  OBVIOUS
<1>3. ASSUME InitFocused PROVE TypeOK
  <2>1. PICK root \in FocusedGoals :
          /\ goals = [g \in Goals |-> IF g = root THEN "PENDING" ELSE "ABSENT"]
          /\ menu = {} /\ open = {root} /\ actions = GoalActions({root}) /\ InitCommon
    BY <1>3 DEF InitFocused
  <2>2. root \in Goals
    OBVIOUS
  <2>3. actions \subseteq Action
    BY <2>1, <2>2, ActionTypes
  <2>4. goals \in [Goals -> {"ABSENT", "PENDING", "SATISFIED"}] /\ open \subseteq Goals
    BY <2>1, <2>2
  <2>5. attempts \in [Goals -> Seq(Failures \cup {"SUCCEEDED"})]
    BY <1>2, <2>1 DEF InitCommon
  <2>6. menu = {} /\ InitCommon
    BY <2>1
  <2> QED BY <1>1, <2>3, <2>4, <2>5, <2>6 DEF TypeOK, InitCommon
<1>4. ASSUME InitBroad PROVE TypeOK
  <2>1. actions \subseteq Action
    BY <1>4, ActionTypes DEF InitBroad
  <2>2. goals \in [Goals -> {"ABSENT", "PENDING", "SATISFIED"}]
    BY <1>4 DEF InitBroad
  <2>3. attempts \in [Goals -> Seq(Failures \cup {"SUCCEEDED"})]
    BY <1>4, <1>2 DEF InitBroad, InitCommon
  <2> QED BY <1>1, <1>4, <2>1, <2>2, <2>3 DEF TypeOK, InitBroad, InitCommon
<1> QED BY <1>3, <1>4 DEF Init

LEMMA SelectTypes == TypeOK /\ Select => TypeOK'
<1> SUFFICES ASSUME TypeOK, Select PROVE TypeOK'
  OBVIOUS
<1> USE DEF TypeOK
<1>1. PICK a \in offered : SelectAction(a) \/ SelectTransitionAction(a)
  BY DEF Select
<1>2. a \in Action /\ a.goal \in Goals
  BY DEF Action
<1>3. CurrentCommand(a) /\ TakeSelection(a)
  BY <1>1 DEF SelectAction, SelectTransitionAction
<1>4. used' \in 0..MaxSelections
  BY <1>3, BudgetAssumption DEF CurrentCommand, TakeSelection
<1>5. objective' \in [status : {"PENDING", "AUTHORIZED"}, action : Action] \cup {Omitted}
  BY <1>2, <1>3 DEF TakeSelection
<1>6. CASE SelectAction(a)
  BY <1>2, <1>3, <1>4, <1>5, <1>6 DEF SelectAction, TakeSelection, navigation, evidence
<1>7. CASE SelectTransitionAction(a)
  BY <1>2, <1>3, <1>4, <1>5, <1>7 DEF SelectTransitionAction, TakeSelection, evidence
<1> QED BY <1>1, <1>6, <1>7

LEMMA AuthorizeTypes == TypeOK /\ Authorize => TypeOK'
<1> SUFFICES ASSUME TypeOK, NEW a \in consumed, AuthorizeExecution(a) PROVE TypeOK'
  BY DEF Authorize
<1> USE DEF TypeOK
<1>1. a \in Action /\ a.goal \in Goals
  BY DEF Action
<1>2. objective' = [status |-> "AUTHORIZED", action |-> a]
  BY DEF AuthorizeExecution
<1> QED BY <1>1, <1>2 DEF AuthorizeExecution, navigation, evidence

LEMMA ExecuteTypes == TypeOK /\ Execute => TypeOK'
<1> SUFFICES ASSUME TypeOK, NEW g \in authorized, ExecuteAndAdmitEvidence(g) PROVE TypeOK'
  BY DEF Execute
<1> USE DEF TypeOK
<1>1. attempts' \in [Goals -> Seq(Failures \cup {"SUCCEEDED"})]
  <2>1. PICK outcome \in Failures \cup {"SUCCEEDED"} : Attempted(g, outcome)
    BY DEF ExecuteAndAdmitEvidence, MotorFails, EvidenceRejected, EvidenceAdmitted
  <2> QED BY <2>1 DEF Attempted
<1>2. ledger' \in SUBSET Records
  BY DEF ExecuteAndAdmitEvidence, MotorFails, EvidenceRejected, EvidenceAdmitted, Records
<1>3. status' \in {"EXECUTING", "ASSESSING"}
  BY DEF ExecuteAndAdmitEvidence, Executable, MotorFails, EvidenceRejected, EvidenceAdmitted
<1> QED BY <1>1, <1>2, <1>3 DEF ExecuteAndAdmitEvidence, navigation

LEMMA CallerTypes ==
  TypeOK /\ (Age \/ Evaluate \/ EvaluateProtocolClosure) => TypeOK'
<1> SUFFICES ASSUME TypeOK, Age \/ Evaluate \/ EvaluateProtocolClosure PROVE TypeOK'
  OBVIOUS
<1> USE DEF TypeOK, protocolVars, navigation
<1>1. CASE Age
  BY <1>1 DEF Age, EvidenceAges
<1>2. CASE Evaluate
  BY <1>2 DEF Evaluate, EvaluateSufficiency, Evaluation
<1>3. CASE EvaluateProtocolClosure
  BY <1>3 DEF EvaluateProtocolClosure
<1> QED BY <1>1, <1>2, <1>3

LEMMA ApplyTypes == TypeOK /\ (Apply \/ ApplyProtocolClosure) => TypeOK'
<1> SUFFICES ASSUME TypeOK, Apply \/ ApplyProtocolClosure PROVE TypeOK'
  OBVIOUS
<1> USE DEF TypeOK, callerVars, navigation
<1>1. CASE Apply
  BY <1>1 DEF Apply, ApplySufficiencyEvaluation, Applies, PendingBlocking, Evaluation
<1>2. CASE ApplyProtocolClosure
  BY <1>2 DEF ApplyProtocolClosure
<1> QED BY <1>1, <1>2

LEMMA InvestigationTypes == TypeOK /\ (Review \/ Assess) => TypeOK'
<1> SUFFICES ASSUME TypeOK, Review \/ Assess PROVE TypeOK'
  OBVIOUS
<1> USE GoalsAssumption DEF TypeOK
<1>1. CASE Review
  <2>1. PICK viable \in SUBSET menu : AssessBroadCandidateViability(viable)
    BY <1>1 DEF Review
  <2>2. viable \in SUBSET Goals /\ version + 1 \in Nat
    OBVIOUS
  <2>3. actions' \subseteq Action
    BY <2>1, <2>2, ActionTypes DEF AssessBroadCandidateViability
  <2> QED BY <2>1, <2>3 DEF AssessBroadCandidateViability, navigation, evidence
<1>2. CASE Assess
  <2>1. PICK held \in SUBSET MayHold, clear \in BOOLEAN :
          AssessInvestigationFixedPoint(held, clear)
    BY <1>2 DEF Assess
  <2>2. held \cup NewCandidates(held) \subseteq Candidates
    BY DerivedTypes DEF MayHold, NewCandidates
  <2>3. actions' \subseteq Action
    BY <2>1, <2>2, TransitionActionTypes DEF AssessInvestigationFixedPoint, Assessable
  <2>4. DerivedSignals \subseteq Signals
    BY DerivedTypes
  <2>5. PendingBlocking(goals) \subseteq Goals
    BY DEF PendingBlocking
  <2>6. status' \in {"AWAITING_SELECTION", "ASSESSING", "COMPLETE"} /\ menu' \subseteq BroadMenu
    BY <2>1 DEF AssessInvestigationFixedPoint, Assessable
  <2>7. activations' \subseteq Candidates
    BY <2>1, <2>2 DEF AssessInvestigationFixedPoint, Assessable
  <2>8. /\ version' = version + 1 /\ offered' = offered \cup actions'
        /\ signals' = DerivedSignals /\ candidates' = held \cup NewCandidates(held)
        /\ assessment' = "STABLE" /\ open' = PendingBlocking(goals) /\ objective' = Omitted
        /\ UNCHANGED <<goals, authorized, consumed, used, proofs, evidence>>
    BY <2>1 DEF AssessInvestigationFixedPoint, Assessable
  <2> QED BY <2>2, <2>3, <2>4, <2>5, <2>6, <2>7, <2>8 DEF evidence
<1> QED BY <1>1, <1>2

\* Every variable keeps its type, in every behaviour and for every value of the constants.
THEOREM TypeCorrect == Spec => []TypeOK
<1>1. Init => TypeOK
  BY InitTypes
<1>2. TypeOK /\ [Next]_vars => TypeOK'
  <2> SUFFICES ASSUME TypeOK, [Next]_vars PROVE TypeOK'
    OBVIOUS
  <2>1. CASE UNCHANGED vars
    BY <2>1 DEF TypeOK, vars, protocolVars, callerVars
  <2> QED BY <2>1, SelectTypes, AuthorizeTypes, ExecuteTypes, CallerTypes, ApplyTypes,
             InvestigationTypes DEF Next
<1> QED BY <1>1, <1>2, PTL DEF Spec

-----------------------------------------------------------------------------
\* The inductive invariant.

\* Only a selected goal is authorized, so before the first selection nothing is authorized and
\* nothing was attempted.
LEMMA NothingBeforeSelection ==
  ASSUME TypeOK, SelectionInv, EvidenceInv, consumed = {}
  PROVE  authorized = {} /\ ledger = {}
<1>1. authorized = {}
  BY DEF SelectionInv, EverySelectionPaidOnce
<1> QED BY <1>1 DEF TypeOK, EvidenceInv, ExecutionAtMostOnce, Records

\* A goal with a record was attempted and authorized.
LEMMA RecordedIsAuthorized ==
  ASSUME TypeOK, EvidenceInv, NEW r \in ledger
  PROVE  r.goal \in authorized
<1>1. r.goal \in Goals /\ attempts[r.goal] # <<>>
  BY DEF TypeOK, EvidenceInv, ExecutionAtMostOnce, Records
<1>2. 1 \in DOMAIN attempts[r.goal]
  BY <1>1 DEF TypeOK
<1> QED BY <1>1, <1>2 DEF EvidenceInv, ExecutionAtMostOnce

LEMMA InitInv == Init => InductiveInv
<1> SUFFICES ASSUME Init PROVE InductiveInv
  OBVIOUS
<1>1. TypeOK
  BY InitTypes
<1>2. InitCommon
  BY DEF Init, InitFocused, InitBroad
<1>3. Satisfied = {}
  BY DEF Init, InitFocused, InitBroad, Satisfied
<1>4. PhaseInv
  BY <1>2 DEF InitCommon, PhaseInv, Omitted
<1>5. SelectionInv
  BY <1>2, FS_EmptySet DEF InitCommon, SelectionInv, EverySelectionPaidOnce
<1>6. EvidenceInv
  BY <1>2, <1>3 DEF InitCommon, EvidenceInv, ExecutionAtMostOnce
<1>7. CASE InitFocused
  <2>1. PICK root \in FocusedGoals :
          /\ goals = [g \in Goals |-> IF g = root THEN "PENDING" ELSE "ABSENT"]
          /\ menu = {} /\ open = {root} /\ actions = GoalActions({root})
    BY <1>7 DEF InitFocused
  <2>2. root \in Goals /\ Blocking(root)
    BY GoalsAssumption DEF Blocking
  <2>3. Present = {root} /\ open = PendingBlocking(goals)
    BY <2>1, <2>2 DEF Present, PendingBlocking
  <2>4. \A a \in actions : a.kind = "GOAL" /\ a.goal = root /\ a.issued = 1
    BY <2>1 DEF GoalActions
  <2>5. OfferInv
    BY <1>2, <2>1, <2>2, <2>3, <2>4 DEF OfferInv, OffersAreLive, InitCommon
  <2>6. OneGoalAtATime
    BY <1>2, <2>1, <2>3 DEF OneGoalAtATime, InitCommon
  <2> QED BY <1>1, <1>4, <1>5, <1>6, <2>3, <2>5, <2>6 DEF InductiveInv
<1>8. CASE InitBroad
  <2>1. Present = {} /\ open = PendingBlocking(goals)
    BY <1>8 DEF InitBroad, Present, PendingBlocking
  <2>2. \A a \in actions : a.kind = "CANDIDATE" /\ a.goal \in menu /\ a.issued = 1
    BY <1>8 DEF InitBroad, CandidateActions
  <2>3. OfferInv
    BY <1>2, <2>1, <2>2 DEF OfferInv, OffersAreLive, InitCommon
  <2>4. OneGoalAtATime
    BY <2>1 DEF OneGoalAtATime, Present
  <2> QED BY <1>1, <1>4, <1>5, <1>6, <2>1, <2>3, <2>4 DEF InductiveInv
<1> QED BY <1>7, <1>8 DEF Init

-----------------------------------------------------------------------------
\* A selection takes the one goal there is: the focused goal, or the first from the menu.
LEMMA SelectActionInv ==
  ASSUME InductiveInv, NEW a \in offered, SelectAction(a)
  PROVE  InductiveInv'
<1> USE DEF InductiveInv
<1>1. TypeOK'
  BY SelectTypes DEF Select
<1>2. /\ a \in actions /\ a \in Action /\ a.goal \in Goals
      /\ CurrentCommand(a) /\ TakeSelection(a)
      /\ UNCHANGED navigation /\ open' = {a.goal}
  BY DEF SelectAction, CurrentCommand, TypeOK, Action
<1>3. objective = Omitted /\ status = "AWAITING_SELECTION"
  BY <1>2 DEF OfferInv
<1>4. /\ consumed = {} /\ Satisfied = {} /\ menu' = {}
      /\ goals' = [g \in Goals |-> IF g = a.goal THEN "PENDING" ELSE "ABSENT"]
  <2>1. CASE a.kind = "CANDIDATE"
    <3>1. a.goal \in menu /\ menu' = {} /\ goals' = [goals EXCEPT ![a.goal] = "PENDING"]
      BY <2>1 DEF SelectAction
    <3>2. Present = {} /\ consumed = {}
      BY <3>1 DEF OfferInv
    <3> QED BY <1>2, <3>1, <3>2 DEF Present, Satisfied, TypeOK
  <2>2. CASE a.kind = "GOAL"
    <3>1. UNCHANGED <<goals, menu>>
      BY <2>2 DEF SelectAction
    <3>2. Present = {a.goal} /\ consumed = {} /\ goals[a.goal] = "PENDING"
      BY <1>2, <2>2 DEF OfferInv, OffersAreLive
    <3>3. menu = {}
      BY <3>2 DEF OfferInv
    <3> QED BY <1>2, <3>1, <3>2, <3>3 DEF Present, Satisfied, TypeOK
  <2> QED BY <2>1, <2>2 DEF SelectAction
<1>5. Blocking(a.goal)
  <2>1. a.kind = "CANDIDATE" => a.goal \in menu
    BY DEF SelectAction
  <2>2. a.kind = "GOAL" => a.goal \in FocusedGoals
    BY <1>2 DEF OfferInv
  <2> QED BY <2>1, <2>2, GoalsAssumption DEF SelectAction, TypeOK, Blocking
<1>6. authorized = {} /\ ledger = {} /\ candidates = {}
  BY <1>4, NothingBeforeSelection DEF OfferInv
<1>7. Present' = {a.goal} /\ Satisfied' = {}
  BY <1>2, <1>4 DEF Present, Satisfied
<1>8. PhaseInv'
  BY <1>2, <1>3, <1>4, <1>6 DEF PhaseInv, TakeSelection, evidence, Omitted
<1>9. OfferInv'
  BY <1>2, <1>4, <1>6 DEF OfferInv, OffersAreLive, TakeSelection, navigation
<1>10. SelectionInv'
  <2>1. consumed' = {a} /\ used' = used + 1 /\ used = 0 /\ a.issued < version'
    BY <1>2, <1>4, FS_EmptySet
    DEF TakeSelection, CurrentCommand, SelectionInv, EverySelectionPaidOnce, TypeOK
  <2>2. IsFiniteSet(consumed') /\ Cardinality(consumed') = 1
    BY <2>1, FS_Singleton
  <2> QED BY <1>2, <1>6, <1>7, <2>1, <2>2 DEF SelectionInv, EverySelectionPaidOnce, TakeSelection
<1>11. EvidenceInv'
  BY <1>2, <1>6, <1>7 DEF EvidenceInv, ExecutionAtMostOnce, TakeSelection, evidence, TypeOK, Evaluation
<1>12. OneGoalAtATime'
  BY <1>2, <1>4 DEF OneGoalAtATime, TakeSelection, Omitted
<1>13. open' = PendingBlocking(goals')
  BY <1>2, <1>4, <1>5 DEF PendingBlocking
<1> QED BY <1>1, <1>8, <1>9, <1>10, <1>11, <1>12, <1>13

\* A transition adds one goal beside satisfied ones.
LEMMA SelectTransitionInv ==
  ASSUME InductiveInv, NEW a \in offered, SelectTransitionAction(a)
  PROVE  InductiveInv'
<1> USE DEF InductiveInv
<1>1. TypeOK'
  BY SelectTypes DEF Select
<1>2. /\ a \in actions /\ a \in Action /\ a.goal \in Goals
      /\ CurrentCommand(a) /\ TakeSelection(a)
      /\ a.candidate \in candidates /\ a.goal \notin Present
      /\ goals' = [goals EXCEPT ![a.goal] = "PENDING"]
      /\ open' = open \cup {g \in {a.goal} : Blocking(g)}
      /\ candidates' = candidates \ {a.candidate}
      /\ UNCHANGED <<menu, signals, activations, assessment>>
  BY DEF SelectTransitionAction, CurrentCommand, TypeOK, Action
<1>3. objective = Omitted /\ status = "AWAITING_SELECTION" /\ Satisfied # {}
  BY <1>2 DEF OfferInv
<1>4. \A g \in Goals : goals[g] # "PENDING"
  BY <1>3 DEF OneGoalAtATime, Satisfied, Present
<1>5. /\ Present' = Present \cup {a.goal} /\ Satisfied' = Satisfied /\ menu = {}
      /\ a.goal \notin Satisfied
  BY <1>2, <1>3 DEF Present, Satisfied, TypeOK, OfferInv
<1>6. a.goal \notin authorized /\ \A b \in consumed : b.goal # a.goal
  BY <1>2 DEF SelectionInv, EverySelectionPaidOnce
<1>7. \A r \in ledger : r.goal # a.goal
  BY <1>6, RecordedIsAuthorized
<1>8. PhaseInv'
  BY <1>2, <1>3, <1>6 DEF PhaseInv, TakeSelection, evidence, Omitted, TypeOK
<1>9. OfferInv'
  BY <1>2, <1>3, <1>5 DEF OfferInv, OffersAreLive, TakeSelection
<1>10. SelectionInv'
  <2>1. consumed' = consumed \cup {a} /\ used' = used + 1 /\ a.issued < version'
        /\ version' = version + 1 /\ authorized' = authorized
    BY <1>2 DEF TakeSelection, CurrentCommand, TypeOK
  <2>2. a \notin consumed
    BY <1>6
  <2>3. IsFiniteSet(consumed') /\ Cardinality(consumed') = Cardinality(consumed) + 1
    BY <2>1, <2>2, FS_AddElement DEF SelectionInv
  <2>4. \A b \in consumed' : b.issued < version' /\ b.goal \in Present'
    BY <1>5, <2>1 DEF SelectionInv, TypeOK, Action
  <2>5. EverySelectionPaidOnce'
    BY <1>6, <2>1, <2>3 DEF SelectionInv, EverySelectionPaidOnce
  <2> QED BY <2>3, <2>4, <2>5 DEF SelectionInv
<1>11. EvidenceInv'
  <2>1. UNCHANGED <<ledger, attempts, evaluations, closures, authorized, proofs>>
        /\ version' = version + 1
    BY <1>2 DEF TakeSelection, evidence
  <2>2. ExecutionAtMostOnce'
    BY <2>1 DEF EvidenceInv, ExecutionAtMostOnce
  <2>3. \A g \in Satisfied' : Evaluated(g)' /\ \E r \in ledger' : r.goal = g /\ r.proof
    BY <1>5, <2>1 DEF EvidenceInv, Evaluated
  <2>4. \A e \in evaluations' : e.version <= version'
    BY <2>1 DEF EvidenceInv, TypeOK, Evaluation
  <2>5. \A v \in closures' : v <= version' /\ v # version'
    BY <2>1 DEF EvidenceInv, TypeOK
  <2> QED BY <2>1, <2>2, <2>3, <2>4, <2>5 DEF EvidenceInv
<1>12. OneGoalAtATime'
  BY <1>2, <1>4 DEF OneGoalAtATime, TakeSelection, Omitted, TypeOK
<1>13. open' = PendingBlocking(goals')
  BY <1>2, <1>4 DEF PendingBlocking, TypeOK
<1> QED BY <1>1, <1>8, <1>9, <1>10, <1>11, <1>12, <1>13

-----------------------------------------------------------------------------
LEMMA AuthorizeInv ==
  ASSUME InductiveInv, NEW a \in consumed, AuthorizeExecution(a)
  PROVE  InductiveInv'
<1> USE DEF InductiveInv
<1>1. TypeOK'
  BY AuthorizeTypes DEF Authorize
<1>2. /\ a \in Action /\ a.goal \in Goals /\ a.goal \notin authorized
      /\ goals[a.goal] = "PENDING" /\ objective.status = "PENDING" /\ objective.action = a
      /\ objective' = [status |-> "AUTHORIZED", action |-> a]
      /\ status = "AWAITING_SELECTION" /\ status' = "EXECUTING" /\ version' = version + 1
      /\ authorized' = authorized \cup {a.goal} /\ actions' = {}
      /\ UNCHANGED <<goals, menu, open, consumed, used, proofs, navigation, evidence, offered>>
  BY DEF AuthorizeExecution, TypeOK, Action
<1>3. objective # Omitted /\ objective' # Omitted
  BY <1>2 DEF Omitted
<1>4. Present' = Present /\ Satisfied' = Satisfied /\ menu = {}
  BY <1>2 DEF Present, Satisfied, OfferInv
<1>5. \A r \in ledger : r.goal # a.goal
  BY <1>2, RecordedIsAuthorized
<1>6. PhaseInv'
  BY <1>2, <1>5 DEF PhaseInv, evidence
<1>7. OfferInv'
  BY <1>2, <1>4 DEF OfferInv, OffersAreLive, navigation
<1>8. SelectionInv'
  <2>1. \A b \in consumed' : b.issued < version' /\ b.goal \in Present'
    BY <1>2, <1>4 DEF SelectionInv, TypeOK, Action
  <2>2. EverySelectionPaidOnce'
    BY <1>2 DEF SelectionInv, EverySelectionPaidOnce
  <2> QED BY <1>2, <2>1, <2>2 DEF SelectionInv
<1>9. EvidenceInv'
  <2>1. UNCHANGED <<ledger, attempts, evaluations, closures, proofs>>
    BY <1>2 DEF evidence
  <2>2. ExecutionAtMostOnce'
    BY <1>2, <2>1 DEF EvidenceInv, ExecutionAtMostOnce
  <2>3. \A g \in Satisfied' : Evaluated(g)' /\ \E r \in ledger' : r.goal = g /\ r.proof
    BY <1>4, <2>1 DEF EvidenceInv, Evaluated
  <2>4. \A e \in evaluations' : e.version <= version'
    BY <1>2, <2>1 DEF EvidenceInv, TypeOK, Evaluation
  <2>5. \A v \in closures' : v <= version' /\ v # version'
    BY <1>2, <2>1 DEF EvidenceInv, TypeOK
  <2> QED BY <2>1, <2>2, <2>3, <2>4, <2>5 DEF EvidenceInv
<1>10. OneGoalAtATime'
  BY <1>2, <1>3 DEF OneGoalAtATime
<1>11. open' = PendingBlocking(goals')
  BY <1>2 DEF PendingBlocking
<1> QED BY <1>1, <1>6, <1>7, <1>8, <1>9, <1>10, <1>11

-----------------------------------------------------------------------------
\* Whatever it answers, an execution appends one status after retryable failures only.
LEMMA AttemptsStayOrdered ==
  ASSUME TypeOK, EvidenceInv, NEW g \in authorized, RetryAllowed(g),
         NEW outcome \in Failures \cup {"SUCCEEDED"}, Attempted(g, outcome),
         UNCHANGED authorized
  PROVE  /\ \A h \in Goals : \A i \in DOMAIN attempts'[h] :
              h \in authorized' /\ (i < Len(attempts'[h]) => attempts'[h][i] = "FAILED_RETRYABLE")
         /\ attempts'[g] # <<>> /\ attempts'[g][Len(attempts'[g])] = outcome
         /\ \A h \in Goals \ {g} : attempts'[h] = attempts[h]
         /\ \A r \in ledger : r.goal # g
<1>1. /\ g \in Goals /\ attempts[g] \in Seq(Failures \cup {"SUCCEEDED"})
      /\ attempts' = [attempts EXCEPT ![g] = Append(attempts[g], outcome)]
  BY DEF TypeOK, Attempted
<1>2. attempts'[g] = Append(attempts[g], outcome) /\ \A h \in Goals \ {g} : attempts'[h] = attempts[h]
  BY <1>1 DEF TypeOK
<1>3. \A i \in DOMAIN attempts[g] : attempts[g][i] = "FAILED_RETRYABLE"
  BY <1>1 DEF RetryAllowed, EvidenceInv, ExecutionAtMostOnce
<1>4. \A i \in DOMAIN attempts'[g] :
        i < Len(attempts'[g]) => attempts'[g][i] = "FAILED_RETRYABLE"
  BY <1>1, <1>2, <1>3
<1>5. attempts'[g] # <<>> /\ attempts'[g][Len(attempts'[g])] = outcome
  BY <1>1, <1>2
<1>6. \A r \in ledger : r.goal # g
  <2> SUFFICES ASSUME NEW r \in ledger, r.goal = g PROVE FALSE
    OBVIOUS
  <2>1. attempts[g] # <<>> /\ attempts[g][Len(attempts[g])] = "SUCCEEDED"
    BY DEF EvidenceInv, ExecutionAtMostOnce
  <2>2. Len(attempts[g]) \in DOMAIN attempts[g]
    BY <1>1, <2>1
  <2> QED BY <2>1, <2>2 DEF RetryAllowed
<1> QED BY <1>2, <1>4, <1>5, <1>6 DEF EvidenceInv, ExecutionAtMostOnce

LEMMA ExecuteInv ==
  ASSUME InductiveInv, NEW g \in authorized, ExecuteAndAdmitEvidence(g)
  PROVE  InductiveInv'
<1> USE DEF InductiveInv
<1>1. TypeOK'
  BY ExecuteTypes DEF Execute
<1>2. /\ g \in Goals /\ RetryAllowed(g) /\ version' = version + 1
      /\ status = "EXECUTING" /\ objective.status = "AUTHORIZED" /\ objective.action.goal = g
      /\ MotorFails(g) \/ EvidenceRejected(g) \/ EvidenceAdmitted(g)
      /\ UNCHANGED <<goals, menu, open, actions, objective, authorized, consumed, used, proofs,
                     signals, candidates, activations, assessment, stale, offered, evaluations,
                     closures>>
  BY DEF ExecuteAndAdmitEvidence, Executable, TypeOK, navigation
<1>3. objective # Omitted /\ actions = {} /\ goals[g] = "PENDING"
  BY <1>2 DEF Omitted, OfferInv, PhaseInv
<1>4. Present' = Present /\ Satisfied' = Satisfied /\ g \notin Satisfied
  BY <1>2, <1>3 DEF Present, Satisfied
<1>5. PICK outcome \in Failures \cup {"SUCCEEDED"} :
        /\ Attempted(g, outcome)
        /\ \/ UNCHANGED <<status, ledger>>
           \/ /\ outcome = "SUCCEEDED" /\ status' = "ASSESSING"
              /\ \E r \in Records : r.goal = g /\ ledger' = ledger \cup {r}
  <2>1. CASE MotorFails(g)
    BY <2>1 DEF MotorFails
  <2>2. CASE EvidenceRejected(g)
    BY <2>2 DEF EvidenceRejected
  <2>3. CASE EvidenceAdmitted(g)
    <3>1. PICK amount \in Amounts \cup {NoAmount}, proof \in BOOLEAN :
            ledger' = ledger \cup {[goal |-> g, amount |-> amount, proof |-> proof]}
      BY <2>3 DEF EvidenceAdmitted
    <3>2. [goal |-> g, amount |-> amount, proof |-> proof] \in Records
      BY <1>2 DEF Records
    <3> QED BY <2>3, <3>1, <3>2 DEF EvidenceAdmitted
  <2> QED BY <1>2, <2>1, <2>2, <2>3
<1>6. /\ \A h \in Goals : \A i \in DOMAIN attempts'[h] :
           h \in authorized' /\ (i < Len(attempts'[h]) => attempts'[h][i] = "FAILED_RETRYABLE")
      /\ attempts'[g] # <<>> /\ attempts'[g][Len(attempts'[g])] = outcome
      /\ \A h \in Goals \ {g} : attempts'[h] = attempts[h]
      /\ \A r \in ledger : r.goal # g
  BY <1>2, <1>5, AttemptsStayOrdered
<1>7. /\ ledger \subseteq ledger'
      /\ status' = "EXECUTING" \/ status' = "ASSESSING"
      /\ status' = "EXECUTING" <=> ~\E r \in ledger' : r.goal = g
  BY <1>2, <1>5, <1>6
<1>8. PhaseInv'
  BY <1>2, <1>3, <1>7 DEF PhaseInv, Omitted
<1>9. OfferInv'
  BY <1>2, <1>3, <1>4 DEF OfferInv, OffersAreLive
<1>10. SelectionInv'
  <2>1. \A b \in consumed' : b.issued < version' /\ b.goal \in Present'
    BY <1>2, <1>4 DEF SelectionInv, TypeOK, Action
  <2>2. EverySelectionPaidOnce'
    BY <1>2 DEF SelectionInv, EverySelectionPaidOnce
  <2> QED BY <1>2, <2>1, <2>2 DEF SelectionInv
<1>11. EvidenceInv'
  <2>1. \A r \in ledger' :
          /\ attempts'[r.goal] # <<>> /\ attempts'[r.goal][Len(attempts'[r.goal])] = "SUCCEEDED"
          /\ \A q \in ledger' : q.goal = r.goal => q = r
    <3>1. \A r \in ledger : r.goal \in Goals /\ attempts'[r.goal] = attempts[r.goal]
      BY <1>6 DEF TypeOK, Records
    <3>2. CASE ledger' = ledger
      BY <3>1, <3>2 DEF EvidenceInv, ExecutionAtMostOnce
    <3>3. CASE outcome = "SUCCEEDED" /\ \E r \in Records : r.goal = g /\ ledger' = ledger \cup {r}
      BY <1>6, <3>1, <3>3 DEF EvidenceInv, ExecutionAtMostOnce
    <3> QED BY <1>5, <3>2, <3>3
  <2>2. ExecutionAtMostOnce'
    BY <1>6, <2>1 DEF ExecutionAtMostOnce
  <2>3. \A h \in Satisfied' : Evaluated(h)' /\ \E r \in ledger' : r.goal = h /\ r.proof
    BY <1>2, <1>4, <1>7 DEF EvidenceInv, Evaluated
  <2>4. \A e \in evaluations' : e.version <= version' /\ \E r \in ledger' : r.goal = e.goal /\ r.proof
    BY <1>2, <1>7 DEF EvidenceInv, TypeOK, Evaluation
  <2>5. \A v \in closures' : v <= version' /\ v # version'
    BY <1>2 DEF EvidenceInv, TypeOK
  <2> QED BY <2>2, <2>3, <2>4, <2>5 DEF EvidenceInv
<1>12. OneGoalAtATime'
  BY <1>2, <1>3, <1>7 DEF OneGoalAtATime, Omitted
<1>13. open' = PendingBlocking(goals')
  BY <1>2 DEF PendingBlocking
<1> QED BY <1>1, <1>8, <1>9, <1>10, <1>11, <1>12, <1>13

-----------------------------------------------------------------------------
\* The steps of the caller: evidence ages, an evaluation is computed, a closure is computed.
LEMMA CallerInv ==
  ASSUME InductiveInv, Age \/ Evaluate \/ EvaluateProtocolClosure
  PROVE  InductiveInv'
<1> USE DEF InductiveInv
<1>1. TypeOK'
  BY CallerTypes
<1>2. /\ UNCHANGED <<version, status, goals, menu, open, actions, objective, authorized, consumed,
                     used, proofs, signals, candidates, activations, assessment>>
      /\ UNCHANGED <<ledger, attempts>>
  BY DEF Age, EvidenceAges, Evaluate, EvaluateSufficiency, EvaluateProtocolClosure, protocolVars
<1>3. \A e \in evaluations' : e.version <= version /\ \E r \in ledger : r.goal = e.goal /\ r.proof
  <2>1. CASE evaluations' = evaluations
    BY <2>1 DEF EvidenceInv
  <2>2. ASSUME NEW g \in Goals, EvaluateSufficiency(g)
        PROVE  \A e \in evaluations' :
                 e.version <= version /\ \E r \in ledger : r.goal = e.goal /\ r.proof
    <3>1. evaluations' = {[goal |-> g, version |-> version]} /\ version <= version
      BY <2>2 DEF EvaluateSufficiency, TypeOK
    <3>2. PICK r \in ledger : r.goal = g /\ r.proof
      BY <2>2 DEF EvaluateSufficiency, ProvedNow, Current
    <3> QED BY <3>1, <3>2
  <2> QED BY <2>1, <2>2 DEF Age, EvidenceAges, Evaluate, EvaluateProtocolClosure
<1>4. \A v \in closures' : v <= version /\ (v = version => Closable)
  <2>1. CASE closures' = closures
    BY <2>1 DEF EvidenceInv
  <2>2. CASE EvaluateProtocolClosure
    BY <2>2 DEF EvaluateProtocolClosure, TypeOK
  <2> QED BY <2>1, <2>2 DEF Age, EvidenceAges, Evaluate, EvaluateSufficiency
<1>5. Closable' = Closable /\ Present' = Present /\ Satisfied' = Satisfied
  BY <1>2 DEF Closable, Present, Satisfied, Evaluated
<1>6. PhaseInv'
  BY <1>2, <1>5 DEF PhaseInv
<1>7. OfferInv'
  BY <1>2, <1>5 DEF OfferInv, OffersAreLive
<1>8. SelectionInv'
  BY <1>2, <1>5 DEF SelectionInv, EverySelectionPaidOnce
<1>9. EvidenceInv'
  BY <1>2, <1>3, <1>4, <1>5 DEF EvidenceInv, ExecutionAtMostOnce, Evaluated
<1>10. OneGoalAtATime'
  BY <1>2, <1>5 DEF OneGoalAtATime
<1>11. open' = PendingBlocking(goals')
  BY <1>2 DEF PendingBlocking
<1> QED BY <1>1, <1>6, <1>7, <1>8, <1>9, <1>10, <1>11

\* Satisfying the pursued goal leaves no goal pending.
LEMMA ApplyInv ==
  ASSUME InductiveInv, NEW e \in evaluations, ApplySufficiencyEvaluation(e)
  PROVE  InductiveInv'
<1> USE DEF InductiveInv
<1>1. TypeOK'
  BY ApplyTypes DEF Apply
<1>2. /\ e.goal \in Goals /\ goals[e.goal] = "PENDING" /\ e.version = version
      /\ goals' = [goals EXCEPT ![e.goal] = "SATISFIED"]
      /\ open' = PendingBlocking(goals') /\ objective' = Omitted
      /\ proofs' = proofs \cup {e} /\ version' = version + 1
      /\ status = "ASSESSING" /\ status' = "ASSESSING"
      /\ UNCHANGED <<menu, actions, authorized, consumed, used, signals, candidates, activations,
                     assessment, ledger, attempts, stale, offered, evaluations, closures>>
  BY DEF ApplySufficiencyEvaluation, Applies, TypeOK, Evaluation, navigation, callerVars
<1>3. PICK r \in ledger : r.goal = e.goal /\ r.proof
  BY DEF EvidenceInv
<1>4. e.goal \in authorized /\ consumed # {}
  BY <1>3, RecordedIsAuthorized DEF SelectionInv, EverySelectionPaidOnce
<1>5. objective # Omitted /\ objective.action.goal = e.goal
  BY <1>2, <1>4 DEF OneGoalAtATime
<1>6. actions = {} /\ menu = {}
  BY <1>4, <1>5 DEF OfferInv
<1>7. \A g \in Goals : goals'[g] # "PENDING"
  BY <1>2, <1>5 DEF OneGoalAtATime, TypeOK
<1>8. Present' = Present /\ Satisfied' = Satisfied \cup {e.goal}
  BY <1>2 DEF Present, Satisfied, TypeOK
<1>9. PhaseInv'
  BY <1>2 DEF PhaseInv, Omitted
<1>10. OfferInv'
  BY <1>2, <1>6, <1>8 DEF OfferInv, OffersAreLive
<1>11. SelectionInv'
  <2>1. \A b \in consumed' : b.issued < version' /\ b.goal \in Present'
    BY <1>2, <1>8 DEF SelectionInv, TypeOK, Action
  <2>2. EverySelectionPaidOnce'
    BY <1>2 DEF SelectionInv, EverySelectionPaidOnce
  <2> QED BY <1>2, <2>1, <2>2 DEF SelectionInv
<1>12. EvidenceInv'
  <2>1. ExecutionAtMostOnce'
    BY <1>2 DEF EvidenceInv, ExecutionAtMostOnce
  <2>2. \A g \in Satisfied' : Evaluated(g)' /\ \E q \in ledger' : q.goal = g /\ q.proof
    BY <1>2, <1>3, <1>8 DEF EvidenceInv, Evaluated
  <2>3. \A f \in evaluations' : f.version <= version' /\ \E q \in ledger' : q.goal = f.goal /\ q.proof
    BY <1>2 DEF EvidenceInv, TypeOK, Evaluation
  <2>4. \A v \in closures' : v <= version' /\ v # version'
    BY <1>2 DEF EvidenceInv, TypeOK
  <2> QED BY <2>1, <2>2, <2>3, <2>4 DEF EvidenceInv
<1>13. OneGoalAtATime'
  BY <1>7 DEF OneGoalAtATime
<1> QED BY <1>1, <1>2, <1>9, <1>10, <1>11, <1>12, <1>13

\* A closure at this version is still true: no blocking goal is pending.
LEMMA CloseInv ==
  ASSUME InductiveInv, ApplyProtocolClosure
  PROVE  InductiveInv'
<1> USE DEF InductiveInv
<1>1. TypeOK'
  BY ApplyTypes
<1>2. /\ Closable /\ version' = version + 1 /\ status' = "COMPLETE"
      /\ open' = {} /\ actions' = {} /\ menu' = {} /\ objective' = Omitted
      /\ UNCHANGED <<goals, authorized, consumed, used, proofs, signals, candidates, activations,
                     assessment, ledger, attempts, stale, offered, evaluations, closures>>
  BY DEF ApplyProtocolClosure, EvidenceInv, navigation, callerVars
<1>3. Present' = Present /\ Satisfied' = Satisfied /\ Closable'
  BY <1>2 DEF Present, Satisfied, Closable, Evaluated
<1>4. PhaseInv'
  BY <1>2, <1>3 DEF PhaseInv, Omitted
<1>5. OfferInv'
  BY <1>2, <1>3 DEF OfferInv, OffersAreLive
<1>6. SelectionInv'
  <2>1. \A b \in consumed' : b.issued < version' /\ b.goal \in Present'
    BY <1>2, <1>3 DEF SelectionInv, TypeOK, Action
  <2>2. EverySelectionPaidOnce'
    BY <1>2 DEF SelectionInv, EverySelectionPaidOnce
  <2> QED BY <1>2, <2>1, <2>2 DEF SelectionInv
<1>7. EvidenceInv'
  <2>1. ExecutionAtMostOnce'
    BY <1>2 DEF EvidenceInv, ExecutionAtMostOnce
  <2>2. \A g \in Satisfied' : Evaluated(g)' /\ \E q \in ledger' : q.goal = g /\ q.proof
    BY <1>2, <1>3 DEF EvidenceInv, Evaluated
  <2>3. \A f \in evaluations' : f.version <= version' /\ \E q \in ledger' : q.goal = f.goal /\ q.proof
    BY <1>2 DEF EvidenceInv, TypeOK, Evaluation
  <2>4. \A v \in closures' : v <= version' /\ v # version'
    BY <1>2 DEF EvidenceInv, TypeOK
  <2> QED BY <2>1, <2>2, <2>3, <2>4 DEF EvidenceInv
<1>8. OneGoalAtATime'
  BY <1>2 DEF OneGoalAtATime
<1>9. open' = PendingBlocking(goals')
  BY <1>2 DEF Closable, Present, PendingBlocking
<1> QED BY <1>1, <1>4, <1>5, <1>6, <1>7, <1>8, <1>9

-----------------------------------------------------------------------------
\* A review happens before any selection and offers entries of the menu at the new version.
LEMMA ReviewInv ==
  ASSUME InductiveInv, NEW viable \in SUBSET menu, AssessBroadCandidateViability(viable)
  PROVE  InductiveInv'
<1> USE DEF InductiveInv
<1>1. TypeOK'
  BY InvestigationTypes DEF Review
<1>2. /\ Present = {} /\ menu # {} /\ version' = version + 1
      /\ status' = "AWAITING_SELECTION" /\ actions' = CandidateActions(viable, version + 1)
      /\ UNCHANGED <<goals, menu, open, objective, authorized, consumed, used, proofs, signals,
                     candidates, activations, assessment, ledger, attempts, stale, evaluations,
                     closures>>
  BY DEF AssessBroadCandidateViability, navigation, evidence
<1>3. consumed = {} /\ objective = Omitted
  BY <1>2 DEF OfferInv, PhaseInv
<1>4. \A a \in actions' : a.kind = "CANDIDATE" /\ a.goal \in menu /\ a.issued = version'
  BY <1>2 DEF CandidateActions
<1>5. Present' = {} /\ Satisfied' = Satisfied /\ Satisfied = {}
  BY <1>2 DEF Present, Satisfied
<1>6. PhaseInv'
  BY <1>2, <1>3 DEF PhaseInv, Omitted
<1>7. OfferInv'
  BY <1>2, <1>3, <1>4, <1>5 DEF OfferInv, OffersAreLive
<1>8. SelectionInv'
  BY <1>2, <1>3 DEF SelectionInv, EverySelectionPaidOnce
<1>9. EvidenceInv'
  <2>1. ExecutionAtMostOnce'
    BY <1>2 DEF EvidenceInv, ExecutionAtMostOnce
  <2>2. \A e \in evaluations' : e.version <= version' /\ \E r \in ledger' : r.goal = e.goal /\ r.proof
    BY <1>2 DEF EvidenceInv, TypeOK, Evaluation
  <2>3. \A v \in closures' : v <= version' /\ v # version'
    BY <1>2 DEF EvidenceInv, TypeOK
  <2> QED BY <1>5, <2>1, <2>2, <2>3 DEF EvidenceInv
<1>10. OneGoalAtATime'
  BY <1>2 DEF OneGoalAtATime, Present
<1>11. open' = PendingBlocking(goals')
  BY <1>2 DEF PendingBlocking
<1> QED BY <1>1, <1>6, <1>7, <1>8, <1>9, <1>10, <1>11

\* A candidate is derived from satisfied goals only.
LEMMA ProjectedFromSatisfied ==
  ASSUME NEW c \in ProjectedCandidates
  PROVE  Satisfied # {}
BY RulesAssumption DEF ProjectedCandidates, Satisfied

\* An assessment changes no goal; it replaces what is on offer by held and new candidates, or
\* completes.
LEMMA AssessInv ==
  ASSUME InductiveInv,
         NEW held \in SUBSET MayHold, NEW clear \in BOOLEAN, Assess,
         AssessInvestigationFixedPoint(held, clear)
  PROVE  InductiveInv'
<1> DEFINE kept == held \cup NewCandidates(held)
           grown == activations \cup NewCandidates(held)
           complete == clear /\ Closable /\ ~SelectionBlocks(kept)
<1> USE DEF InductiveInv
<1>1. TypeOK'
  BY InvestigationTypes
<1>2. /\ status \in {"ASSESSING", "AWAITING_SELECTION"} /\ objective.status = "OMITTED"
      /\ version' = version + 1
      /\ status' = IF complete THEN "COMPLETE"
                   ELSE IF kept # {} THEN "AWAITING_SELECTION" ELSE "ASSESSING"
      /\ menu' = IF complete THEN {} ELSE menu
      /\ actions' = IF complete THEN {} ELSE TransitionActions(kept, version + 1)
      /\ candidates' = kept /\ activations' = grown
      /\ open' = PendingBlocking(goals) /\ objective' = Omitted
      /\ UNCHANGED <<goals, authorized, consumed, used, proofs, ledger, attempts, stale,
                     evaluations, closures>>
  BY Zenon DEF AssessInvestigationFixedPoint, Assessable, evidence
<1>3. objective = Omitted
  BY <1>2 DEF TypeOK
<1>4. kept \subseteq grown /\ kept \subseteq ProjectedCandidates
  BY DEF MayHold, NewCandidates, OfferInv
<1> HIDE DEF kept, grown
<1>5. kept # {} => Satisfied # {}
  BY <1>4, ProjectedFromSatisfied
<1>6. \A a \in actions' : /\ a.kind = "TRANSITION" /\ a.issued = version' /\ a.candidate \in kept
                          /\ a.goal = a.candidate.rule.target
  BY <1>2 DEF TransitionActions
<1>7. actions' # {} => kept # {} /\ ~complete
  BY <1>2 DEF TransitionActions
<1>8. Present' = Present /\ Satisfied' = Satisfied /\ Closable' = Closable
  BY <1>2 DEF Present, Satisfied, Closable, Evaluated
<1>9. PhaseInv'
  BY <1>2, <1>8 DEF PhaseInv, Omitted
<1>10. OfferInv'
  <2>1. \A a \in actions' : a \notin consumed'
    BY <1>2, <1>6 DEF SelectionInv, TypeOK, Action
  <2>2. OffersAreLive'
    BY <1>2, <1>4, <1>6, <2>1 DEF OffersAreLive
  <2>3. actions' # {} => status' = "AWAITING_SELECTION" /\ objective' = Omitted
    BY <1>2, <1>7
  <2>4. menu' # {} => Present' = {} /\ consumed' = {}
    BY <1>2, <1>8 DEF OfferInv
  <2>5. candidates' \subseteq activations' /\ (candidates' # {} => Satisfied' # {})
    BY <1>2, <1>4, <1>5, <1>8
  <2> QED BY <1>6, <2>2, <2>3, <2>4, <2>5 DEF OfferInv
<1>11. SelectionInv'
  <2>1. \A b \in consumed' : b.issued < version' /\ b.goal \in Present'
    BY <1>2, <1>8 DEF SelectionInv, TypeOK, Action
  <2>2. EverySelectionPaidOnce'
    BY <1>2 DEF SelectionInv, EverySelectionPaidOnce
  <2> QED BY <1>2, <2>1, <2>2 DEF SelectionInv
<1>12. EvidenceInv'
  <2>1. ExecutionAtMostOnce'
    BY <1>2 DEF EvidenceInv, ExecutionAtMostOnce
  <2>2. \A g \in Satisfied' : Evaluated(g)' /\ \E q \in ledger' : q.goal = g /\ q.proof
    BY <1>2, <1>8 DEF EvidenceInv, Evaluated
  <2>3. \A e \in evaluations' : e.version <= version' /\ \E q \in ledger' : q.goal = e.goal /\ q.proof
    BY <1>2 DEF EvidenceInv, TypeOK, Evaluation
  <2>4. \A v \in closures' : v <= version' /\ v # version'
    BY <1>2 DEF EvidenceInv, TypeOK
  <2> QED BY <2>1, <2>2, <2>3, <2>4 DEF EvidenceInv
<1>13. OneGoalAtATime'
  BY <1>2, <1>3, <1>8 DEF OneGoalAtATime
<1>14. open' = PendingBlocking(goals')
  BY <1>2 DEF PendingBlocking
<1> QED BY <1>1, <1>9, <1>10, <1>11, <1>12, <1>13, <1>14

LEMMA StutterInv == InductiveInv /\ UNCHANGED vars => InductiveInv'
<1> SUFFICES ASSUME InductiveInv, UNCHANGED vars PROVE InductiveInv'
  OBVIOUS
<1>1. /\ UNCHANGED <<version, status, goals, menu, open, actions, objective, authorized, consumed>>
      /\ UNCHANGED <<used, proofs, signals, candidates, activations, assessment, ledger, attempts>>
      /\ UNCHANGED <<stale, offered, evaluations, closures>>
  BY DEF vars, protocolVars, callerVars
<1>2. Closable' = Closable /\ Present' = Present /\ Satisfied' = Satisfied
  BY <1>1 DEF Closable, Present, Satisfied, Evaluated
<1>3. TypeOK'
  BY <1>1 DEF InductiveInv, TypeOK
<1>4. PhaseInv' /\ OfferInv' /\ SelectionInv' /\ OneGoalAtATime' /\ open' = PendingBlocking(goals')
  BY <1>1, <1>2 DEF InductiveInv, PhaseInv, OfferInv, OffersAreLive, SelectionInv,
                    EverySelectionPaidOnce, OneGoalAtATime, PendingBlocking
<1>5. EvidenceInv'
  BY <1>1, <1>2 DEF InductiveInv, EvidenceInv, ExecutionAtMostOnce, Evaluated
<1> QED BY <1>3, <1>4, <1>5 DEF InductiveInv

LEMMA NextInv == InductiveInv /\ [Next]_vars => InductiveInv'
<1> SUFFICES ASSUME InductiveInv, [Next]_vars PROVE InductiveInv'
  OBVIOUS
<1>1. CASE Select
  BY <1>1, SelectActionInv, SelectTransitionInv DEF Select
<1>2. CASE Authorize
  BY <1>2, AuthorizeInv DEF Authorize
<1>3. CASE Execute
  BY <1>3, ExecuteInv DEF Execute
<1>4. CASE Age \/ Evaluate \/ EvaluateProtocolClosure
  BY <1>4, CallerInv
<1>5. CASE Apply
  BY <1>5, ApplyInv DEF Apply
<1>6. CASE ApplyProtocolClosure
  BY <1>6, CloseInv
<1>7. CASE Review
  BY <1>7, ReviewInv DEF Review
<1>8. CASE Assess
  <2>1. PICK held \in SUBSET MayHold, clear \in BOOLEAN : AssessInvestigationFixedPoint(held, clear)
    BY <1>8 DEF Assess
  <2> QED BY <1>8, <2>1, AssessInv
<1>9. CASE UNCHANGED vars
  BY <1>9, StutterInv
<1> QED BY <1>1, <1>2, <1>3, <1>4, <1>5, <1>6, <1>7, <1>8, <1>9 DEF Next

-----------------------------------------------------------------------------
(* The theorems *)

\* The invariant that explains the protocol is inductive: whoever calls the handlers, in
\* whatever order, with whatever delay.
THEOREM Inductive == Spec => []InductiveInv
<1>1. Init => InductiveInv
  BY InitInv
<1>2. InductiveInv /\ [Next]_vars => InductiveInv'
  BY NextInv
<1> QED BY <1>1, <1>2, PTL DEF Spec

\* Every state a handler builds passes the validation of createProtocolState, so none of them
\* can fail half-way with a state its own contract rejects.
THEOREM StateAlwaysValid == Spec => []ValidState
<1>1. InductiveInv => ValidState
  <2> SUFFICES ASSUME InductiveInv PROVE ValidState
    OBVIOUS
  <2> USE DEF InductiveInv
  <2>1. open = PendingBlocking(goals) /\ used <= MaxSelections
    BY BudgetAssumption DEF TypeOK
  <2>2. \A g \in Satisfied : Evaluated(g)
    BY DEF EvidenceInv
  <2>3. status = "EXECUTING" => objective.status = "AUTHORIZED" /\ authorized # {}
    BY DEF PhaseInv
  <2>4. ASSUME status = "COMPLETE"
        PROVE  Closable /\ open = {} /\ actions = {} /\ menu = {} /\ objective = Omitted
    <3>1. Closable /\ menu = {} /\ objective = Omitted
      BY <2>4 DEF PhaseInv
    <3>2. actions = {}
      BY <2>4 DEF OfferInv
    <3>3. open = {}
      BY <2>1, <3>1 DEF Closable, Present, PendingBlocking
    <3> QED BY <3>1, <3>2, <3>3
  <2> QED BY <2>1, <2>2, <2>3, <2>4 DEF ValidState
<1> QED BY <1>1, Inductive, PTL

\* A satisfied goal was selected, authorized, executed with success and proved by a record.
THEOREM SatisfactionIsProven == Spec => []SatisfiedIsProven
<1>1. InductiveInv => SatisfiedIsProven
  <2> SUFFICES ASSUME InductiveInv, NEW g \in Satisfied
               PROVE  /\ \E a \in consumed : a.goal = g
                      /\ g \in authorized
                      /\ \E i \in DOMAIN attempts[g] : attempts[g][i] = "SUCCEEDED"
                      /\ \E r \in ledger : r.goal = g /\ r.proof
    BY DEF SatisfiedIsProven
  <2> USE DEF InductiveInv
  <2>1. PICK r \in ledger : r.goal = g /\ r.proof
    BY DEF EvidenceInv
  <2>2. g \in authorized
    BY <2>1, RecordedIsAuthorized
  <2>3. attempts[g] # <<>> /\ attempts[g][Len(attempts[g])] = "SUCCEEDED"
    BY <2>1 DEF EvidenceInv, ExecutionAtMostOnce
  <2>4. g \in Goals /\ Len(attempts[g]) \in DOMAIN attempts[g]
    BY <2>3 DEF Satisfied, TypeOK
  <2> QED BY <2>1, <2>2, <2>3, <2>4 DEF SelectionInv, EverySelectionPaidOnce
<1> QED BY <1>1, Inductive, PTL

\* Two goals are never half done at the same time.
THEOREM OneGoal == Spec => []OneGoalAtATime
<1>1. InductiveInv => OneGoalAtATime
  BY DEF InductiveInv
<1> QED BY <1>1, Inductive, PTL

\* An action on offer can be taken.
THEOREM OffersLive == Spec => []OffersAreLive
<1>1. InductiveInv => OffersAreLive
  BY DEF InductiveInv, OfferInv
<1> QED BY <1>1, Inductive, PTL

\* The semantic budget counts the selections, and each selection has a goal of its own.
THEOREM PaidOnce == Spec => []EverySelectionPaidOnce
<1>1. InductiveInv => EverySelectionPaidOnce
  BY DEF InductiveInv, SelectionInv
<1> QED BY <1>1, Inductive, PTL

\* No authorization succeeds twice, and nothing else puts evidence in the ledger.
THEOREM AtMostOnce == Spec => []ExecutionAtMostOnce
<1>1. InductiveInv => ExecutionAtMostOnce
  BY DEF InductiveInv, EvidenceInv
<1> QED BY <1>1, Inductive, PTL

-----------------------------------------------------------------------------
\* In a COMPLETE protocol only the caller's steps and a second closure remain enabled.
LEMMA CompleteStep ==
  ASSUME InductiveInv, [Next]_vars, status = "COMPLETE"
  PROVE  /\ status' = "COMPLETE"
         /\ UNCHANGED <<goals, ledger, attempts, authorized, consumed, used, proofs, candidates,
                        actions>>
<1>1. actions = {}
  BY DEF InductiveInv, OfferInv
<1>2. menu = {}
  BY DEF InductiveInv, PhaseInv
<1>3. CASE ApplyProtocolClosure
  BY <1>1, <1>3 DEF ApplyProtocolClosure, navigation, callerVars
<1>4. CASE Age \/ Evaluate \/ EvaluateProtocolClosure
  BY <1>4 DEF Age, EvidenceAges, Evaluate, EvaluateSufficiency, EvaluateProtocolClosure,
              protocolVars
<1>5. CASE Select \/ Authorize \/ Execute \/ Apply
  BY <1>5 DEF Select, SelectAction, SelectTransitionAction, CurrentCommand, Authorize,
              AuthorizeExecution, Execute, ExecuteAndAdmitEvidence, Executable, Apply,
              ApplySufficiencyEvaluation, Applies
<1>6. CASE Review \/ Assess
  BY <1>2, <1>6 DEF Review, AssessBroadCandidateViability, Assess, AssessInvestigationFixedPoint, Assessable
<1>7. CASE UNCHANGED vars
  BY <1>7 DEF vars, protocolVars, callerVars
<1> QED BY <1>3, <1>4, <1>5, <1>6, <1>7 DEF Next

\* Nothing that arrives late changes a COMPLETE protocol.
THEOREM Final == Spec => CompleteIsFinal
<1>1. InductiveInv /\ [Next]_vars =>
        [status = "COMPLETE" =>
           /\ status' = "COMPLETE"
           /\ UNCHANGED <<goals, ledger, attempts, authorized, consumed, used, proofs,
                          candidates, actions>>]_vars
  BY CompleteStep
<1> QED BY <1>1, Inductive, PTL DEF Spec, CompleteIsFinal

LEMMA HistoryStep ==
  ASSUME InductiveInv, [Next]_vars
  PROVE  /\ protocolVars' # protocolVars => version' = version + 1
         /\ ledger \subseteq ledger' /\ proofs \subseteq proofs' /\ authorized \subseteq authorized'
         /\ consumed \subseteq consumed' /\ activations \subseteq activations'
         /\ \A g \in Goals : goals[g] # goals'[g] =>
              <<goals[g], goals'[g]>> \in {<<"ABSENT", "PENDING">>, <<"PENDING", "SATISFIED">>}
<1>1. CASE Select
  <2>1. PICK a \in offered : SelectAction(a) \/ SelectTransitionAction(a)
    BY <1>1 DEF Select
  <2>2. TakeSelection(a) /\ activations' = activations /\ ledger' = ledger /\ a.goal \in Goals
    BY <2>1 DEF SelectAction, SelectTransitionAction, TakeSelection, navigation, evidence,
                CurrentCommand, InductiveInv, TypeOK, Action
  <2>3. CASE UNCHANGED goals
    BY <2>2, <2>3 DEF TakeSelection
  <2>4. CASE goals' = [goals EXCEPT ![a.goal] = "PENDING"] /\ goals[a.goal] = "ABSENT"
    BY <2>2, <2>4 DEF TakeSelection, InductiveInv, TypeOK
  <2>5. a.goal \notin Present => goals[a.goal] = "ABSENT"
    BY <2>2 DEF Present
  <2>6. CASE SelectAction(a)
    <3>1. a.kind = "CANDIDATE" => a.goal \notin Present
      BY <2>6 DEF SelectAction, CurrentCommand, InductiveInv, OfferInv, OffersAreLive
    <3> QED BY <2>3, <2>4, <2>5, <2>6, <3>1 DEF SelectAction
  <2> QED BY <2>1, <2>4, <2>5, <2>6 DEF SelectTransitionAction
<1>2. CASE Authorize
  BY <1>2 DEF Authorize, AuthorizeExecution, navigation, evidence
<1>3. CASE Execute
  <2>1. PICK g \in authorized : ExecuteAndAdmitEvidence(g)
    BY <1>3 DEF Execute
  <2>2. version' = version + 1 /\ UNCHANGED <<goals, authorized, consumed, proofs, navigation>>
    BY <2>1 DEF ExecuteAndAdmitEvidence
  <2>3. ledger \subseteq ledger'
    BY <2>1 DEF ExecuteAndAdmitEvidence, MotorFails, EvidenceRejected, EvidenceAdmitted
  <2> QED BY <2>2, <2>3 DEF navigation
<1>4. CASE Age \/ Evaluate \/ EvaluateProtocolClosure \/ UNCHANGED vars
  <2>1. UNCHANGED protocolVars /\ ledger' = ledger
    BY <1>4 DEF Age, EvidenceAges, Evaluate, EvaluateSufficiency, EvaluateProtocolClosure, vars,
                callerVars
  <2> QED BY <2>1 DEF protocolVars
<1>5. CASE Apply
  <2>1. PICK e \in evaluations : ApplySufficiencyEvaluation(e)
    BY <1>5 DEF Apply
  <2>2. goals[e.goal] = "PENDING" /\ goals' = [goals EXCEPT ![e.goal] = "SATISFIED"]
    BY <2>1 DEF ApplySufficiencyEvaluation, Applies
  <2>3. \A g \in Goals : goals[g] # goals'[g] => goals[g] = "PENDING" /\ goals'[g] = "SATISFIED"
    BY <2>2 DEF InductiveInv, TypeOK
  <2> QED BY <2>1, <2>3 DEF ApplySufficiencyEvaluation, Applies, navigation, callerVars
<1>6. CASE ApplyProtocolClosure
  BY <1>6 DEF ApplyProtocolClosure, navigation, callerVars
<1>7. CASE Review
  BY <1>7 DEF Review, AssessBroadCandidateViability, navigation, evidence
<1>8. CASE Assess
  BY <1>8 DEF Assess, AssessInvestigationFixedPoint, Assessable, evidence
<1> QED BY <1>1, <1>2, <1>3, <1>4, <1>5, <1>6, <1>7, <1>8 DEF Next

\* Every change of the state has a version of its own, and what is recorded stays recorded.
THEOREM HistoryGrows == Spec => HistoryOnlyGrows
<1>1. InductiveInv /\ [Next]_vars =>
        [/\ protocolVars' # protocolVars => version' = version + 1
         /\ ledger \subseteq ledger' /\ proofs \subseteq proofs' /\ authorized \subseteq authorized'
         /\ consumed \subseteq consumed' /\ activations \subseteq activations'
         /\ \A g \in Goals : goals[g] # goals'[g] =>
              <<goals[g], goals'[g]>> \in {<<"ABSENT", "PENDING">>, <<"PENDING", "SATISFIED">>}]_vars
  BY HistoryStep
<1> QED BY <1>1, Inductive, PTL DEF Spec, HistoryOnlyGrows

-----------------------------------------------------------------------------
\* The refinement.

Stages == [g \in Goals |-> Stage(g)]
BlockingGoals == {g \in Goals : Blocking(g)}

\* A goal that does not exist was never asked.
LEMMA AbsentIsUnasked ==
  ASSUME InductiveInv, NEW g \in Goals, goals[g] = "ABSENT"
  PROVE  Stage(g) = "unasked"
<1>1. ~Asked(g)
  BY DEF InductiveInv, SelectionInv, Asked, Present
<1>2. g \notin authorized
  BY <1>1 DEF InductiveInv, SelectionInv, EverySelectionPaidOnce, Asked
<1>3. ~Evidenced(g)
  BY <1>2, RecordedIsAuthorized DEF InductiveInv, Evidenced
<1> QED BY <1>1, <1>2, <1>3 DEF Stage

\* The stages depend on these four variables only.
LEMMA StagesSame ==
  ASSUME UNCHANGED <<goals, ledger, authorized, consumed>>
  PROVE  Stages' = Stages
BY DEF Stages, Stage, Asked, Evidenced

\* One goal moves and the others stay where they are.
LEMMA OneMoves ==
  ASSUME NEW g \in Goals, NEW to,
         Stage(g)' = to, \A h \in Goals \ {g} : Stage(h)' = Stage(h)
  PROVE  Stages' = [Stages EXCEPT ![g] = to]
BY DEF Stages

-----------------------------------------------------------------------------
\* A command is taken only when no goal is in progress.
LEMMA SelectAsks ==
  ASSUME InductiveInv, NEW a \in offered, SelectAction(a) \/ SelectTransitionAction(a)
  PROVE  \E g \in Goals : Lifecycle!Ask(g)
<1> USE DEF InductiveInv
<1>1. /\ a \in actions /\ a.goal \in Goals /\ status = "AWAITING_SELECTION"
      /\ status' = status /\ objective = Omitted
      /\ consumed' = consumed \cup {a} /\ UNCHANGED <<authorized, ledger>>
  BY DEF SelectAction, SelectTransitionAction, CurrentCommand, TakeSelection, evidence, OfferInv,
         TypeOK, Action
<1>2. \A g \in Goals : goals[g] = "PENDING" => consumed = {}
  BY <1>1 DEF OneGoalAtATime
<1>3. \A g \in Goals : goals[g] = "PENDING" => Stage(g) = "unasked"
  <2> SUFFICES ASSUME NEW g \in Goals, goals[g] = "PENDING" PROVE Stage(g) = "unasked"
    OBVIOUS
  <2>1. consumed = {} /\ authorized = {} /\ ledger = {}
    BY <1>2, NothingBeforeSelection
  <2> QED BY <2>1 DEF Stage, Asked, Evidenced
<1>4. \A g \in Goals : Stage(g) \in {"unasked", "proven"}
  BY <1>3, AbsentIsUnasked DEF TypeOK, Stage
<1>5. Stage(a.goal) = "unasked" /\ goals'[a.goal] = "PENDING"
      /\ \A h \in Goals \ {a.goal} : goals'[h] = goals[h]
  <2>1. goals[a.goal] # "SATISFIED"
    BY <1>1 DEF SelectAction, SelectTransitionAction, OfferInv, OffersAreLive, Present
  <2>2. Stage(a.goal) = "unasked"
    BY <1>1, <1>3, <2>1, AbsentIsUnasked DEF TypeOK
  <2>3. CASE UNCHANGED goals /\ a.kind = "GOAL"
    BY <1>1, <2>2, <2>3 DEF OfferInv, OffersAreLive
  <2>4. CASE goals' = [goals EXCEPT ![a.goal] = "PENDING"]
    BY <1>1, <2>2, <2>4 DEF TypeOK
  <2> QED BY <2>3, <2>4 DEF SelectAction, SelectTransitionAction
<1>6. ~Evidenced(a.goal) /\ a.goal \notin authorized
  BY <1>5 DEF Stage
<1>7. Stage(a.goal)' = "asked"
  BY <1>1, <1>5, <1>6 DEF Stage, Asked, Evidenced
<1>8. \A h \in Goals \ {a.goal} : Stage(h)' = Stage(h)
  BY <1>1, <1>5 DEF Stage, Asked, Evidenced
<1>9. Stages' = [Stages EXCEPT ![a.goal] = "asked"]
  BY <1>1, <1>7, <1>8, OneMoves
<1>10. Lifecycle!Idle
  BY <1>4 DEF Lifecycle!Idle, Lifecycle!InProgress
<1>11. Stages[a.goal] = "unasked" /\ status # "COMPLETE" /\ status' # "COMPLETE"
  BY <1>1, <1>5 DEF Stages
<1> QED BY <1>1, <1>9, <1>10, <1>11 DEF Lifecycle!Ask, Lifecycle!Move, Stages

LEMMA AuthorizePermits ==
  ASSUME InductiveInv, NEW a \in consumed, AuthorizeExecution(a)
  PROVE  \E g \in Goals : Lifecycle!Permit(g)
<1>1. /\ a.goal \in Goals /\ goals[a.goal] = "PENDING" /\ a.goal \notin authorized
      /\ status # "COMPLETE" /\ status' # "COMPLETE"
      /\ authorized' = authorized \cup {a.goal} /\ UNCHANGED <<goals, ledger, consumed>>
  BY DEF AuthorizeExecution, InductiveInv, TypeOK, Action, evidence
<1>2. ~Evidenced(a.goal)
  BY <1>1, RecordedIsAuthorized DEF Evidenced, InductiveInv
<1>3. Stage(a.goal) = "asked" /\ Stage(a.goal)' = "authorized"
  BY <1>1, <1>2 DEF Stage, Evidenced, Asked
<1>4. \A h \in Goals \ {a.goal} : Stage(h)' = Stage(h)
  BY <1>1 DEF Stage, Evidenced, Asked
<1>5. Stages' = [Stages EXCEPT ![a.goal] = "authorized"] /\ Stages[a.goal] = "asked"
  BY <1>1, <1>3, <1>4, OneMoves DEF Stages
<1> QED BY <1>1, <1>5 DEF Lifecycle!Permit, Lifecycle!Move, Stages

\* A failed attempt and a rejected record leave the goal authorized; an admitted record moves it.
LEMMA ExecuteAdmits ==
  ASSUME InductiveInv, NEW g \in authorized, ExecuteAndAdmitEvidence(g)
  PROVE  (\E h \in Goals : Lifecycle!Admit(h)) \/ UNCHANGED <<Stages, status>>
<1>1. /\ g \in Goals /\ UNCHANGED <<goals, authorized, consumed>>
      /\ MotorFails(g) \/ EvidenceRejected(g) \/ EvidenceAdmitted(g)
      /\ status = "EXECUTING" /\ objective.status = "AUTHORIZED" /\ objective.action.goal = g
  BY DEF ExecuteAndAdmitEvidence, Executable, InductiveInv, TypeOK
<1>2. CASE MotorFails(g) \/ EvidenceRejected(g)
  <2>1. UNCHANGED <<ledger, status>>
    BY <1>2 DEF MotorFails, EvidenceRejected
  <2> QED BY <1>1, <2>1, StagesSame
<1>3. CASE EvidenceAdmitted(g)
  <2>1. ~Evidenced(g)
    BY <1>1 DEF InductiveInv, PhaseInv, Evidenced
  <2>2. PICK r : r.goal = g /\ ledger' = ledger \cup {r}
    <3>1. PICK amount \in Amounts \cup {NoAmount}, proof \in BOOLEAN :
            ledger' = ledger \cup {[goal |-> g, amount |-> amount, proof |-> proof]}
      BY <1>3 DEF EvidenceAdmitted
    <3> QED BY <3>1
  <2>3. goals[g] = "PENDING" /\ status' = "ASSESSING"
    BY <1>3 DEF EvidenceAdmitted
  <2>4. Stage(g) = "authorized" /\ Stage(g)' = "evidenced"
    BY <1>1, <2>1, <2>2, <2>3 DEF Stage, Evidenced
  <2>5. \A h \in Goals \ {g} : Stage(h)' = Stage(h)
    BY <1>1, <2>2 DEF Stage, Evidenced, Asked
  <2>6. Stages' = [Stages EXCEPT ![g] = "evidenced"] /\ Stages[g] = "authorized"
    BY <1>1, <2>4, <2>5, OneMoves DEF Stages
  <2> QED BY <1>1, <2>3, <2>6 DEF Lifecycle!Admit, Lifecycle!Move, Stages
<1> QED BY <1>1, <1>2, <1>3

LEMMA ApplyProves ==
  ASSUME InductiveInv, NEW e \in evaluations, ApplySufficiencyEvaluation(e)
  PROVE  \E g \in Goals : Lifecycle!Prove(g)
<1>1. /\ e.goal \in Goals /\ goals[e.goal] = "PENDING"
      /\ goals' = [goals EXCEPT ![e.goal] = "SATISFIED"]
      /\ status # "COMPLETE" /\ status' = status
      /\ UNCHANGED <<authorized, consumed, ledger>>
  BY DEF ApplySufficiencyEvaluation, Applies, InductiveInv, TypeOK, Evaluation, callerVars
<1>2. Evidenced(e.goal)
  BY DEF InductiveInv, EvidenceInv, Evidenced
<1>3. Stage(e.goal) = "evidenced" /\ Stage(e.goal)' = "proven"
  BY <1>1, <1>2 DEF Stage, InductiveInv, TypeOK
<1>4. \A h \in Goals \ {e.goal} : Stage(h)' = Stage(h)
  BY <1>1 DEF Stage, Evidenced, Asked, InductiveInv, TypeOK
<1>5. Stages' = [Stages EXCEPT ![e.goal] = "proven"] /\ Stages[e.goal] = "evidenced"
  BY <1>1, <1>3, <1>4, OneMoves DEF Stages
<1> QED BY <1>1, <1>5 DEF Lifecycle!Prove, Lifecycle!Move, Stages

-----------------------------------------------------------------------------
\* What makes a protocol closable is what the lifecycle asks for its closure.
LEMMA ClosableCloses ==
  ASSUME InductiveInv, Closable
  PROVE  /\ \E g \in BlockingGoals : Stages[g] = "proven"
         /\ \A g \in BlockingGoals : Stages[g] \in {"unasked", "proven"}
<1>1. \A g \in Present \cap BlockingGoals : Stages[g] = "proven"
  BY DEF Closable, Present, BlockingGoals, Stages, Stage
<1>2. \A g \in BlockingGoals \ Present : Stages[g] = "unasked"
  BY AbsentIsUnasked DEF Present, BlockingGoals, Stages
<1>3. \E g \in BlockingGoals : g \in Present
  BY DEF Closable, Present, BlockingGoals
<1> QED BY <1>1, <1>2, <1>3

\* The first closure closes the lifecycle; a later one is not seen.
LEMMA Closes ==
  ASSUME InductiveInv, Closable, Stages' = Stages, status' = "COMPLETE"
  PROVE  Lifecycle!Close \/ UNCHANGED <<Stages, status>>
<1>1. CASE status = "COMPLETE"
  BY <1>1
<1>2. CASE status # "COMPLETE"
  BY ClosableCloses DEF Lifecycle!Close, Stages, BlockingGoals
<1> QED BY <1>1, <1>2

LEMMA AssessCloses ==
  ASSUME InductiveInv, Assess
  PROVE  Lifecycle!Close \/ (UNCHANGED Stages /\ status # "COMPLETE" /\ status' # "COMPLETE")
<1>1. PICK held, clear : AssessInvestigationFixedPoint(held, clear)
  BY DEF Assess
<1>2. /\ UNCHANGED <<goals, ledger, authorized, consumed>> /\ status # "COMPLETE"
      /\ status' = "COMPLETE" => Closable
  BY <1>1 DEF AssessInvestigationFixedPoint, Assessable, evidence
<1>3. UNCHANGED Stages
  BY <1>2, StagesSame
<1> QED BY <1>2, <1>3, Closes

-----------------------------------------------------------------------------
LEMMA InitLifecycle == Init => Lifecycle!LifecycleInit
<1> SUFFICES ASSUME Init PROVE Lifecycle!LifecycleInit
  OBVIOUS
<1>1. /\ consumed = {} /\ authorized = {} /\ ledger = {} /\ status # "COMPLETE"
      /\ \A g \in Goals : goals[g] # "SATISFIED"
  BY DEF Init, InitFocused, InitBroad, InitCommon
<1>2. \A g \in Goals : Stage(g) = "unasked"
  BY <1>1 DEF Stage, Evidenced, Asked
<1> QED BY <1>1, <1>2 DEF Lifecycle!LifecycleInit

LEMMA NextLifecycle ==
  InductiveInv /\ [Next]_vars => [Lifecycle!LifecycleNext]_(Lifecycle!lifecycle)
<1> SUFFICES ASSUME InductiveInv, [Next]_vars
             PROVE  Lifecycle!LifecycleNext \/ UNCHANGED Lifecycle!lifecycle
  OBVIOUS
<1>0. UNCHANGED Stages /\ (status' = "COMPLETE" <=> status = "COMPLETE") =>
        UNCHANGED Lifecycle!lifecycle
  BY DEF Lifecycle!lifecycle, Stages
<1>1. CASE Select
  BY <1>1, SelectAsks DEF Select, Lifecycle!LifecycleNext
<1>2. CASE Authorize
  BY <1>2, AuthorizePermits DEF Authorize, Lifecycle!LifecycleNext
<1>3. CASE Execute
  BY <1>0, <1>3, ExecuteAdmits DEF Execute, Lifecycle!LifecycleNext
<1>4. CASE Age \/ Evaluate \/ EvaluateProtocolClosure \/ UNCHANGED vars
  <2>1. UNCHANGED <<goals, ledger, authorized, consumed, status>>
    BY <1>4 DEF Age, EvidenceAges, Evaluate, EvaluateSufficiency, EvaluateProtocolClosure, vars,
                callerVars, protocolVars
  <2> QED BY <1>0, <2>1, StagesSame
<1>5. CASE Apply
  BY <1>5, ApplyProves DEF Apply, Lifecycle!LifecycleNext
<1>6. CASE ApplyProtocolClosure
  <2>1. /\ UNCHANGED <<goals, ledger, authorized, consumed>> /\ status' = "COMPLETE" /\ Closable
    BY <1>6 DEF ApplyProtocolClosure, callerVars, InductiveInv, EvidenceInv
  <2> QED BY <1>0, <2>1, StagesSame, Closes DEF Lifecycle!LifecycleNext
<1>7. CASE Review
  <2>1. /\ UNCHANGED <<goals, ledger, authorized, consumed>>
        /\ status # "COMPLETE" /\ status' # "COMPLETE"
    BY <1>7 DEF Review, AssessBroadCandidateViability, evidence, InductiveInv, PhaseInv
  <2> QED BY <1>0, <2>1, StagesSame
<1>8. CASE Assess
  BY <1>0, <1>8, AssessCloses DEF Lifecycle!LifecycleNext
<1> QED BY <1>1, <1>2, <1>3, <1>4, <1>5, <1>6, <1>7, <1>8 DEF Next

\* The decision protocol implements the evidence lifecycle.
THEOREM Refinement == Spec => ImplementsLifecycle
<1>1. Init => Lifecycle!LifecycleInit
  BY InitLifecycle
<1>2. InductiveInv /\ [Next]_vars => [Lifecycle!LifecycleNext]_(Lifecycle!lifecycle)
  BY NextLifecycle
<1> QED BY <1>1, <1>2, Inductive, PTL DEF Spec, ImplementsLifecycle, Lifecycle!LifecycleSpec
-----------------------------------------------------------------------------
(* What blocks a closure.                                                  *)

Conditional(c) == Class[c.rule.target] = "CONDITIONAL"
WithinDepth == {t \in TransitionRules : t.depth <= MaxDepth}

\* The rules offer one CONDITIONAL candidate, and nothing they lead to is observed again.  So it is
\* with TARGET_TRANSITION_RULES, which is empty, and with SYNTHETIC_TRANSITION_RULES, which has one
\* rule, to a trajectory, whose evidence has no OBSERVED_VALUE (registries.js).
OneConditionalRule ==
  \A s, t \in WithinDepth :
    Class[s.target] = "CONDITIONAL" /\ Class[t.target] = "CONDITIONAL" => s = t
ObservedOnce == \A t \in TransitionRules : t.target \notin ObservedGoals

ObservedIn(basis) == {r.amount : r \in {x \in basis : x.goal \in ObservedGoals}}

\* A candidate keeps what it was derived from.
Founded(c) ==
  /\ c.rule.depth <= MaxDepth
  /\ goals[c.rule.source] = "SATISFIED"
  /\ \E g \in c.rule.signal.accepts : goals[g] = "SATISFIED"
  /\ \E m \in c.rule.signal.matches : ObservedIn(c.basis) = {m}

\* What the candidates were derived from is at least what is current of all that ever was; a
\* CONDITIONAL one waits only while no CONDITIONAL goal exists; a closure that is still to be applied
\* was evaluated with nothing executing and none waiting.
NavigationInv ==
  /\ \A a \in activations : a.basis \subseteq ledger
  /\ \A c \in candidates : Founded(c) /\ \A a \in activations : a.basis \ stale \subseteq c.basis
  /\ \A c, d \in candidates : c.basis = d.basis
  /\ \A c \in candidates : Conditional(c) => \A g \in Present : Class[g] # "CONDITIONAL"
  /\ \A g, h \in Present \cap ObservedGoals : g = h
  /\ version \in closures => ~ActiveExecution /\ ~BlockingSelection

LEMMA ProjectedAre ==
  ASSUME TypeOK, NEW c \in ProjectedCandidates
  PROVE  c \in Candidates /\ c.basis = Current /\ Founded(c)
<1>1. PICK t \in TransitionRules :
        /\ c = [rule |-> t, basis |-> Current]
        /\ [rule |-> t.signal, basis |-> Current] \in DerivedSignals
        /\ goals[t.source] = "SATISFIED" /\ t.depth <= MaxDepth
  BY DEF ProjectedCandidates
<1>2. PICK s \in SignalRules :
        /\ [rule |-> t.signal, basis |-> Current] = [rule |-> s, basis |-> Current]
        /\ \E g \in s.accepts : goals[g] = "SATISFIED"
        /\ \E m \in s.matches : ObservedIn(Current) = {m}
  BY <1>1 DEF DerivedSignals, ObservedIn
<1>3. t.signal = s
  BY <1>2
<1>4. c.rule = t /\ c.basis = Current
  BY <1>1
<1>5. c \in Candidates
  BY <1>1 DEF Candidates, Current, TypeOK
<1> QED BY <1>1, <1>2, <1>3, <1>4, <1>5 DEF Founded

\* A candidate that is founded on what is current is projected.
LEMMA FoundedIsProjected ==
  ASSUME NEW t \in TransitionRules, Founded([rule |-> t, basis |-> Current])
  PROVE  [rule |-> t, basis |-> Current] \in ProjectedCandidates
<1>1. /\ t.depth <= MaxDepth /\ goals[t.source] = "SATISFIED"
      /\ \E g \in t.signal.accepts : goals[g] = "SATISFIED"
      /\ \E m \in t.signal.matches : ObservedIn(Current) = {m}
  BY DEF Founded
<1>2. t.signal \in SignalRules
  BY RulesAssumption
<1>3. [rule |-> t.signal, basis |-> Current] \in DerivedSignals
  BY <1>1, <1>2 DEF DerivedSignals, ObservedIn
<1> QED BY <1>1, <1>3 DEF ProjectedCandidates

LEMMA InitNavigation == Init => NavigationInv
<1> SUFFICES ASSUME Init PROVE NavigationInv
  OBVIOUS
<1>1. activations = {} /\ candidates = {} /\ closures = {}
  BY DEF Init, InitFocused, InitBroad, InitCommon
<1>2. \A g, h \in Present : g = h
  BY DEF Init, InitFocused, InitBroad, Present
<1> QED BY <1>1, <1>2 DEF NavigationInv

\* A step that leaves the investigation and the goals alone, takes no evidence back, and changes the
\* version unless it leaves the closures what they are.
LEMMA NavigationKept ==
  ASSUME InductiveInv, NavigationInv,
         UNCHANGED <<candidates, activations>>, Present' = Present,
         \A g \in Goals : goals[g] = "SATISFIED" => goals'[g] = "SATISFIED",
         ledger \subseteq ledger', stale \subseteq stale',
         \/ version' = version + 1 /\ closures' = closures
         \/ UNCHANGED <<version, closures, status>>
  PROVE  NavigationInv'
<1>1. candidates \subseteq Candidates
  BY DEF InductiveInv, TypeOK
<1>2. ASSUME NEW c \in candidates PROVE Founded(c)'
  <2>1. Founded(c) /\ c.rule \in TransitionRules
    BY <1>1 DEF NavigationInv, Candidates
  <2>2. c.rule.source \in Goals /\ c.rule.signal.accepts \subseteq Goals
    BY <2>1, RulesAssumption
  <2> QED BY <2>1, <2>2 DEF Founded
<1>3. version' \in closures' => ~ActiveExecution' /\ ~BlockingSelection'
  <2>1. CASE version' = version + 1 /\ closures' = closures
    BY <2>1 DEF InductiveInv, TypeOK, EvidenceInv
  <2>2. CASE UNCHANGED <<version, closures, status>>
    BY <2>2 DEF NavigationInv, ActiveExecution, BlockingSelection
  <2> QED BY <2>1, <2>2
<1> QED BY <1>2, <1>3 DEF NavigationInv

LEMMA SelectNavigation ==
  ASSUME OneConditionalRule, ObservedOnce, InductiveInv, NavigationInv, NEW a \in offered,
         SelectAction(a) \/ SelectTransitionAction(a)
  PROVE  NavigationInv'
<1>1. /\ a \in actions /\ version' = version + 1
      /\ UNCHANGED <<activations, ledger, stale, closures, status>>
  BY DEF SelectAction, SelectTransitionAction, CurrentCommand, TakeSelection, navigation, evidence
<1>2. a.goal \in Goals /\ goals \in [Goals -> {"ABSENT", "PENDING", "SATISFIED"}]
  BY <1>1 DEF InductiveInv, TypeOK, Action
<1>3. version' \notin closures'
  BY <1>1 DEF InductiveInv, TypeOK, EvidenceInv
<1>4. CASE SelectAction(a) /\ a.kind = "GOAL"
  <2>1. goals' = goals /\ candidates' = candidates
    BY <1>4 DEF SelectAction, navigation
  <2> QED BY <1>1, <2>1, NavigationKept DEF Present
<1>5. CASE SelectAction(a) /\ a.kind = "CANDIDATE"
  <2>1. a.goal \in menu /\ goals' = [goals EXCEPT ![a.goal] = "PENDING"] /\ candidates' = candidates
    BY <1>5 DEF SelectAction, navigation
  <2>2. Present = {} /\ candidates = {}
    BY <2>1 DEF InductiveInv, OfferInv, Present, Satisfied
  <2>3. Present' = {a.goal}
    BY <1>2, <2>1, <2>2 DEF Present
  <2> QED BY <1>1, <1>3, <2>1, <2>2, <2>3 DEF NavigationInv
<1>6. CASE SelectTransitionAction(a)
  <2>1. /\ a.goal \notin Present /\ a.candidate \in candidates
        /\ goals' = [goals EXCEPT ![a.goal] = "PENDING"]
        /\ candidates' = candidates \ {a.candidate}
        /\ a.goal = a.candidate.rule.target
    BY <1>1, <1>6 DEF SelectTransitionAction, InductiveInv, OfferInv
  <2>2. Present' = Present \cup {a.goal}
    BY <1>2, <2>1 DEF Present
  <2>3. candidates \subseteq Candidates
    BY DEF InductiveInv, TypeOK
  <2>4. ASSUME NEW c \in candidates' PROVE Founded(c)'
    <3>1. Founded(c) /\ c.rule \in TransitionRules
      BY <2>1, <2>3 DEF NavigationInv, Candidates
    <3>2. c.rule.source \in Goals /\ c.rule.signal.accepts \subseteq Goals
      BY <3>1, RulesAssumption
    <3>3. ASSUME NEW g \in Goals, goals[g] = "SATISFIED" PROVE goals'[g] = "SATISFIED"
      BY <1>2, <2>1, <3>3 DEF Present
    <3> QED BY <3>1, <3>2, <3>3 DEF Founded
  <2>5. ASSUME NEW c \in candidates', Conditional(c), NEW g \in Present'
        PROVE  Class[g] # "CONDITIONAL"
    <3>1. CASE g \in Present
      BY <2>1, <2>5, <3>1 DEF NavigationInv
    <3>2. CASE g = a.goal /\ Class[g] = "CONDITIONAL"
      <4>1. c \in Candidates /\ a.candidate \in Candidates /\ c # a.candidate
        BY <2>1, <2>3
      <4>2. c.basis = a.candidate.basis
        BY <2>1 DEF NavigationInv
      <4>3. c.rule \in WithinDepth /\ a.candidate.rule \in WithinDepth
        BY <2>1, <4>1 DEF NavigationInv, Founded, WithinDepth, Candidates
      <4>4. c.rule = a.candidate.rule
        BY <2>1, <2>5, <3>2, <4>3 DEF OneConditionalRule, Conditional
      <4> QED BY <4>1, <4>2, <4>4 DEF Candidates
    <3> QED BY <2>2, <3>1, <3>2
  <2>6. a.goal \notin ObservedGoals
    BY <2>1, <2>3 DEF ObservedOnce, Candidates
  <2> QED BY <1>1, <1>3, <2>1, <2>2, <2>4, <2>5, <2>6 DEF NavigationInv
<1> QED BY <1>4, <1>5, <1>6 DEF SelectAction

LEMMA AssessNavigation ==
  ASSUME HonestCaller, InductiveInv, NavigationInv, Assess
  PROVE  NavigationInv'
<1> DEFINE kept == MayHold \cup NewCandidates(MayHold)
<1>1. /\ version' = version + 1 /\ candidates' = kept
      /\ activations' = activations \cup NewCandidates(MayHold)
      /\ UNCHANGED <<goals, ledger, stale, closures>>
  BY DEF Assess, AssessInvestigationFixedPoint, evidence
<1>2. version' \notin closures'
  BY <1>1 DEF InductiveInv, TypeOK, EvidenceInv
<1>3. ASSUME NEW c \in kept PROVE c.basis = Current /\ Founded(c)
  BY ProjectedAre DEF MayHold, NewCandidates, InductiveInv
<1>4. Current \subseteq ledger
  BY DEF Current
<1>5. \A a \in activations' : a.basis \subseteq ledger
  BY <1>1, <1>3, <1>4 DEF NavigationInv
<1>6. \A a \in activations' : a.basis \ stale \subseteq Current
  BY <1>5 DEF Current
<1>7. ASSUME NEW c \in kept, Conditional(c), NEW g \in Present
      PROVE  Class[g] # "CONDITIONAL"
  <2>1. CASE c \in MayHold
    BY <1>7, <2>1 DEF MayHold, NavigationInv
  <2>2. CASE c \in NewCandidates(MayHold)
    BY <1>7, <2>2 DEF NewCandidates, TakenForExisting, Conditional
  <2> QED BY <2>1, <2>2
<1>8. Present' = Present
  BY <1>1 DEF Present
<1>9. \A c \in kept : Founded(c)'
  BY <1>1, <1>3 DEF Founded
<1> HIDE DEF kept
<1> QED BY <1>1, <1>2, <1>3, <1>5, <1>6, <1>7, <1>8, <1>9 DEF NavigationInv

LEMMA NextNavigation ==
  ASSUME HonestCaller, OneConditionalRule, ObservedOnce, InductiveInv, NavigationInv, [Next]_vars
  PROVE  NavigationInv'
<1>0. goals \in [Goals -> {"ABSENT", "PENDING", "SATISFIED"}]
  BY DEF InductiveInv, TypeOK
<1>1. CASE UNCHANGED vars
  BY <1>1, NavigationKept DEF vars, protocolVars, callerVars, Present
<1>2. CASE Select
  BY <1>2, SelectNavigation DEF Select
<1>3. CASE Authorize \/ Review
  BY <1>3, NavigationKept
     DEF Authorize, AuthorizeExecution, Review, AssessBroadCandidateViability, navigation, evidence,
         Present
<1>4. CASE Execute
  <2>1. /\ UNCHANGED <<candidates, activations, goals, stale, closures>> /\ version' = version + 1
        /\ ledger \subseteq ledger'
    BY <1>4 DEF Execute, ExecuteAndAdmitEvidence, MotorFails, EvidenceRejected, EvidenceAdmitted,
       navigation
  <2> QED BY <2>1, NavigationKept DEF Present
<1>5. CASE Age
  <2>1. /\ UNCHANGED <<candidates, activations, goals, ledger, version, closures, status>>
        /\ stale \subseteq stale'
    BY <1>5 DEF Age, EvidenceAges, protocolVars
  <2> QED BY <2>1, NavigationKept DEF Present
<1>6. CASE Evaluate
  <2>1. UNCHANGED <<candidates, activations, goals, ledger, stale, version, closures, status>>
    BY <1>6 DEF Evaluate, EvaluateSufficiency, protocolVars
  <2> QED BY <2>1, NavigationKept DEF Present
<1>7. CASE Apply
  <2>1. PICK e \in evaluations : ApplySufficiencyEvaluation(e)
    BY <1>7 DEF Apply
  <2>2. /\ UNCHANGED <<candidates, activations, ledger, stale, closures>> /\ version' = version + 1
        /\ goals[e.goal] = "PENDING" /\ goals' = [goals EXCEPT ![e.goal] = "SATISFIED"]
    BY <2>1 DEF ApplySufficiencyEvaluation, Applies, navigation, callerVars
  <2>3. Present' = Present /\ \A g \in Goals : goals[g] = "SATISFIED" => goals'[g] = "SATISFIED"
    BY <1>0, <2>2 DEF Present
  <2> QED BY <2>2, <2>3, NavigationKept
<1>8. CASE EvaluateProtocolClosure
  <2>1. /\ UNCHANGED <<candidates, activations, goals, ledger, stale, version, status>>
        /\ ~ActiveExecution /\ ~BlockingSelection
    BY <1>8 DEF EvaluateProtocolClosure, protocolVars
  <2>2. Present' = Present /\ ~ActiveExecution' /\ ~BlockingSelection'
    BY <2>1 DEF Present, ActiveExecution, BlockingSelection
  <2>3. \A c \in candidates : Founded(c) => Founded(c)'
    BY <2>1 DEF Founded
  <2> QED BY <2>1, <2>2, <2>3 DEF NavigationInv
<1>9. CASE ApplyProtocolClosure
  <2>1. UNCHANGED <<candidates, activations, goals, ledger, stale, closures>> /\ version' = version + 1
    BY <1>9 DEF ApplyProtocolClosure, navigation, callerVars
  <2> QED BY <2>1, NavigationKept DEF Present
<1>10. CASE Assess
  BY <1>10, AssessNavigation
<1> QED BY <1>1, <1>2, <1>3, <1>4, <1>5, <1>6, <1>7, <1>8, <1>9, <1>10 DEF Next

\* A candidate whose evidence is current is founded on all that is current: nothing observed came
\* later.
LEMMA FoundedOnCurrent ==
  ASSUME InductiveInv, NavigationInv, NEW c \in candidates, ~Aged(c)
  PROVE  [rule |-> c.rule, basis |-> Current] \in ProjectedCandidates
<1>1. c \in activations /\ c \in Candidates
  BY DEF InductiveInv, OfferInv, TypeOK
<1>2. c.basis \subseteq Current
  BY <1>1 DEF NavigationInv, Current, Aged
<1>3. PICK m \in c.rule.signal.matches : ObservedIn(c.basis) = {m}
  BY DEF NavigationInv, Founded
<1>4. PICK o \in c.basis : o.goal \in ObservedGoals /\ o.amount = m
  BY <1>3 DEF ObservedIn
<1>5. ASSUME NEW r \in ledger PROVE r.goal \in Present
  <2>1. r.goal \in authorized
    BY RecordedIsAuthorized DEF InductiveInv
  <2> QED BY <2>1 DEF InductiveInv, SelectionInv, EverySelectionPaidOnce
<1>6. ASSUME NEW r \in Current, r.goal \in ObservedGoals PROVE r = o
  <2>1. r \in ledger /\ o \in ledger
    BY <1>2 DEF Current
  <2>2. r.goal = o.goal
    BY <1>4, <1>5, <1>6, <2>1 DEF NavigationInv
  <2> QED BY <2>1, <2>2 DEF InductiveInv, EvidenceInv, ExecutionAtMostOnce
<1>7. ObservedIn(Current) = {m}
  BY <1>2, <1>4, <1>6 DEF ObservedIn
<1>8. c.rule \in TransitionRules
  BY <1>1 DEF Candidates
<1>9. Founded([rule |-> c.rule, basis |-> Current])
  BY <1>7 DEF NavigationInv, Founded
<1> QED BY <1>8, <1>9, FoundedIsProjected

\* So an assessment holds it, or derives it again.
LEMMA ConditionalIsKept ==
  ASSUME HonestCaller, InductiveInv, NavigationInv, NEW c \in candidates, Conditional(c), ~Aged(c)
  PROVE  SelectionBlocks(MayHold \cup NewCandidates(MayHold))
<1> DEFINE n == [rule |-> c.rule, basis |-> Current]
<1>1. n \in ProjectedCandidates /\ n.rule = c.rule
  BY FoundedOnCurrent
<1>2. c \in activations /\ c \in Candidates
  BY DEF InductiveInv, OfferInv, TypeOK
<1>3. c.basis \subseteq Current
  BY <1>2 DEF NavigationInv, Current, Aged
<1>4. CASE n \in activations
  <2>1. n.basis \ stale \subseteq c.basis
    BY <1>4 DEF NavigationInv
  <2>2. Current \subseteq c.basis
    BY <2>1 DEF Current
  <2>3. n = c
    BY <1>2, <1>3, <2>2 DEF Candidates
  <2> QED BY <1>1, <2>3 DEF MayHold, SelectionBlocks, Conditional
<1>5. CASE n \notin activations
  <2>1. n \notin MayHold
    BY <1>5 DEF MayHold, InductiveInv, OfferInv
  <2>2. ~TakenForExisting(n)
    BY <1>1 DEF TakenForExisting, NavigationInv, Conditional
  <2>3. n \in NewCandidates(MayHold)
    BY <1>1, <1>5, <2>1, <2>2 DEF NewCandidates
  <2> QED BY <1>1, <2>3 DEF SelectionBlocks, Conditional
<1> QED BY <1>4, <1>5

LEMMA ClosesUnblocked ==
  ASSUME HonestCaller, InductiveInv, NavigationInv, Next, status # "COMPLETE", status' = "COMPLETE"
  PROVE  /\ ~ActiveExecution
         /\ \A c \in candidates : Class[c.rule.target] = "CONDITIONAL" => Aged(c)
<1>1. ApplyProtocolClosure \/ Assess
  BY DEF Next, Select, SelectAction, SelectTransitionAction, TakeSelection, Authorize,
     AuthorizeExecution, Execute, ExecuteAndAdmitEvidence, MotorFails, EvidenceRejected,
     EvidenceAdmitted, Age, EvidenceAges, Evaluate, EvaluateSufficiency, Apply,
     ApplySufficiencyEvaluation, EvaluateProtocolClosure, Review, AssessBroadCandidateViability,
     protocolVars
<1>2. CASE ApplyProtocolClosure
  BY <1>2 DEF ApplyProtocolClosure, NavigationInv, BlockingSelection
<1>3. CASE Assess
  <2>1. Assessable /\ ~SelectionBlocks(MayHold \cup NewCandidates(MayHold))
    BY <1>3 DEF Assess, AssessInvestigationFixedPoint
  <2>2. ~ActiveExecution
    BY <2>1 DEF Assessable, ActiveExecution
  <2> QED BY <2>1, <2>2, ConditionalIsKept DEF Conditional
<1> QED BY <1>1, <1>2, <1>3

\* NothingBlockingAtClose: where the rules offer one CONDITIONAL candidate and what they lead to is
\* not observed again, a protocol driven by a caller that looks at the state never closes during an
\* execution, nor over a CONDITIONAL candidate whose evidence is current, whatever selections,
\* executions, ageings and assessments came between.
THEOREM ClosesWithNothingBlocking ==
  ASSUME HonestCaller, OneConditionalRule, ObservedOnce
  PROVE  Spec => NothingBlockingAtClose
<1>1. Init => NavigationInv
  BY InitNavigation
<1>2. InductiveInv /\ NavigationInv /\ [Next]_vars => NavigationInv'
  BY NextNavigation
<1>3. InductiveInv /\ NavigationInv /\ [Next]_vars =>
        [status # "COMPLETE" /\ status' = "COMPLETE" =>
           /\ ~ActiveExecution
           /\ \A c \in candidates : Class[c.rule.target] = "CONDITIONAL" => Aged(c)]_vars
  BY ClosesUnblocked
<1> QED BY <1>1, <1>2, <1>3, Inductive, PTL DEF Spec, NothingBlockingAtClose
=============================================================================
