-------------------------- MODULE ProtocolRuntime --------------------------
(***************************************************************************)
(* The decision protocol of lib/protocol: one protocol_state.v1 value that *)
(* pure handlers replace by its successor, together with what its caller   *)
(* keeps beside it (the evidence ledger, the previous attempts, the        *)
(* evaluations already computed, the lifecycle of each record).            *)
(*                                                                         *)
(* A handler that throws leaves the state as it was, so every invariant()  *)
(* the code raises on its inputs is a conjunct of the action's guard.  The *)
(* validation of the state a handler has just built (createProtocolState)  *)
(* is no guard here: ValidState states that it never fails.                *)
(***************************************************************************)
EXTENDS Naturals, Sequences, FiniteSets

CONSTANTS
  Goals,            \* semantic goals: a goal type together with its evidence class
  Class,            \* the evidence class of each goal
  FocusedGoals,     \* goals a FOCUSED question compiles to
  BroadMenu,        \* initial candidates of a BROAD question
  ObservedGoals,    \* goals whose evidence carries an OBSERVED_VALUE claim
  Applicable,       \* goals for which some capability is applicable
  Amounts,          \* observed amounts
  NoAmount,         \* evidence without an OBSERVED_VALUE claim
  SignalRules,      \* [accepts: goals whose satisfaction counts, matches: amounts over the threshold]
  TransitionRules,  \* [signal: signal rule, source: goal, target: goal, depth: Nat]
  MaxDepth,         \* budget.max_transition_depth
  MaxSelections,    \* budget.max_semantic_selections
  MaxConditional,   \* budget.max_active_conditional_goals
  MaxIterations,    \* budget.max_fixed_point_iterations
  MaxRetries,       \* bound of the model on the retryable failures of one authorization
  MaxReviews,       \* bound of the model on the reviews of the initial menu
  MaxVersion,       \* bound of the model on closures and careless assessments that repeat for ever
  HonestCaller,     \* the caller declares what blocks closure and returns what it was given
  NoCandidate,      \* an action that does not come from a transition
  NoAction          \* no action is selected

Classes == {"REQUIRED", "CONDITIONAL", "SUPPLEMENTAL"}
Blocking(g) == Class[g] \in {"REQUIRED", "CONDITIONAL"}

ASSUME GoalsAssumption ==
  /\ Class \in [Goals -> Classes]
  /\ FocusedGoals \cup BroadMenu \subseteq {g \in Goals : Class[g] = "REQUIRED"}
  /\ ObservedGoals \subseteq Goals
ASSUME RulesAssumption ==
  /\ SignalRules \subseteq [accepts : SUBSET Goals, matches : SUBSET Amounts]
  /\ TransitionRules \subseteq [signal : SignalRules, source : Goals,
                                target : {g \in Goals : Class[g] # "REQUIRED"}, depth : Nat]
ASSUME BudgetAssumption ==
  /\ {MaxDepth, MaxSelections, MaxConditional, MaxIterations} \subseteq Nat \ {0}
  /\ {MaxRetries, MaxReviews, MaxVersion} \subseteq Nat

Records == [goal : Goals, amount : Amounts \cup {NoAmount}, proof : BOOLEAN]
Signals == [rule : SignalRules, basis : SUBSET Records]
Candidates == [rule : TransitionRules, basis : SUBSET Records]
Action == [kind : {"GOAL", "CANDIDATE", "TRANSITION"}, goal : Goals,
           candidate : Candidates \cup {NoCandidate}, issued : Nat]
Evaluation == [goal : Goals, version : Nat]
Failures == {"FAILED_RETRYABLE", "FAILED_FINAL", "TIMED_OUT", "CANCELLED"}

VARIABLES
  version,      \* state_version
  status,       \* status (terminal.status is TERMINAL exactly when it is COMPLETE)
  goals,        \* the status of each goal instance; ABSENT until it is created
  menu,         \* initial_goal_candidates
  open,         \* open_obligations
  actions,      \* actions currently offered
  objective,    \* pending_execution_objective, with the selected_action_ref it was made from
  authorized,   \* goals with a physical_authorization_ref
  consumed,     \* consumed_action_fingerprints
  used,         \* budget.semantic_selections_used
  proofs,       \* sufficiency_evaluation_refs
  signals,      \* typed_signal_refs
  candidates,   \* candidate_goal_refs
  activations,  \* transition_activation_refs
  assessment,   \* STABLE once there is an assessment
  ledger,       \* records of the evidence ledger; admitted_evidence_refs names the same records
  attempts,     \* statuses of the previous execution attempts for each goal's authorization
  stale,        \* records the evidence lifecycle no longer reports CURRENT
  offered,      \* every action ever shown to a client, whose command may arrive late or twice
  evaluations,  \* the SATISFIED evaluation the caller computed last, if any
  closures      \* the version of the COMPLETE closure evaluation it computed last, if any

protocolVars == <<version, status, goals, menu, open, actions, objective, authorized, consumed,
                  used, proofs, signals, candidates, activations, assessment>>
callerVars == <<ledger, attempts, stale, offered, evaluations, closures>>
vars == <<protocolVars, callerVars>>

navigation == <<signals, candidates, activations, assessment>>
evidence == <<ledger, attempts, stale, evaluations, closures>>

Omitted == [status |-> "OMITTED", action |-> NoAction]

Present == {g \in Goals : goals[g] # "ABSENT"}
PendingBlocking(gs) == {g \in Goals : gs[g] = "PENDING" /\ Blocking(g)}

-----------------------------------------------------------------------------
(* Initialisation: initializeProtocol, over compileInitialGoals and        *)
(* generateActions.  A FOCUSED question has one REQUIRED goal, a BROAD one *)
(* a menu of candidates and no goal.                                       *)

GoalActions(gs) == [kind : {"GOAL"}, goal : gs, candidate : {NoCandidate}, issued : {1}]
CandidateActions(gs, v) ==
  [kind : {"CANDIDATE"}, goal : gs, candidate : {NoCandidate}, issued : {v}]

InitCommon ==
  /\ version = 1
  /\ status = "AWAITING_SELECTION"
  /\ objective = Omitted
  /\ used = 0
  /\ authorized = {} /\ consumed = {} /\ proofs = {}
  /\ signals = {} /\ candidates = {} /\ activations = {} /\ assessment = "ABSENT"
  /\ ledger = {} /\ stale = {} /\ evaluations = {} /\ closures = {}
  /\ attempts = [g \in Goals |-> <<>>]
  /\ offered = actions

InitFocused ==
  \E root \in FocusedGoals :
    /\ goals = [g \in Goals |-> IF g = root THEN "PENDING" ELSE "ABSENT"]
    /\ menu = {}
    /\ open = {root}
    /\ actions = GoalActions({root})
    /\ InitCommon

InitBroad ==
  /\ BroadMenu # {}
  /\ goals = [g \in Goals |-> "ABSENT"]
  /\ menu = BroadMenu
  /\ open = {}
  /\ actions = CandidateActions(BroadMenu, 1)
  /\ InitCommon

Init == InitFocused \/ InitBroad

-----------------------------------------------------------------------------
(* Selection of an offered action: selectAction and selectTransitionAction *)

\* The command carries the version at which its action was offered.
CurrentCommand(a) ==
  /\ status = "AWAITING_SELECTION"
  /\ used < MaxSelections
  /\ a \in actions
  /\ a.issued = version

\* Mutant of TakeSelection: the selection is not counted.
FreeSelection(a) ==
  /\ version' = version + 1
  /\ actions' = {}
  /\ objective' = [status |-> "PENDING", action |-> a]
  /\ consumed' = consumed \cup {a}
  /\ UNCHANGED <<used, status, authorized, proofs, offered, evidence>>

\* What both selections write: the objective, the spent budget, no action left on offer.
TakeSelection(a) ==
  /\ version' = version + 1
  /\ actions' = {}
  /\ objective' = [status |-> "PENDING", action |-> a]
  /\ consumed' = consumed \cup {a}
  /\ used' = used + 1
  /\ UNCHANGED <<status, authorized, proofs, offered, evidence>>

SelectAction(a) ==
  /\ CurrentCommand(a)
  /\ a \notin consumed
  /\ \/ /\ a.kind = "CANDIDATE" /\ a.goal \in menu
        /\ goals' = [goals EXCEPT ![a.goal] = "PENDING"]
        /\ menu' = {}
     \/ /\ a.kind = "GOAL" /\ a.goal \in Present
        /\ UNCHANGED <<goals, menu>>
  /\ open' = {a.goal}
  /\ TakeSelection(a)
  /\ UNCHANGED navigation

\* A goal instance created twice has the same goal_id: the new state is refused.
SelectTransitionAction(a) ==
  /\ CurrentCommand(a)
  /\ a.kind = "TRANSITION" /\ a.candidate \in candidates
  /\ Class[a.goal] = "CONDITIONAL" =>
       Cardinality({g \in Goals : goals[g] = "PENDING" /\ Class[g] = "CONDITIONAL"}) < MaxConditional
  /\ a.goal \notin Present
  /\ goals' = [goals EXCEPT ![a.goal] = "PENDING"]
  /\ open' = open \cup {g \in {a.goal} : Blocking(g)}
  /\ candidates' = candidates \ {a.candidate}
  /\ TakeSelection(a)
  /\ UNCHANGED <<menu, signals, activations, assessment>>

-----------------------------------------------------------------------------
(* Physical authorization and execution.  The client's command names the   *)
(* action it selected; an authorization is issued once for each goal.      *)

AuthorizeExecution(a) ==
  /\ status = "AWAITING_SELECTION"
  /\ version = a.issued + 1
  /\ objective = [status |-> "PENDING", action |-> a]
  /\ goals[a.goal] = "PENDING"
  /\ a.goal \notin authorized
  /\ a.goal \in Applicable
  /\ version' = version + 1
  /\ status' = "EXECUTING"
  /\ actions' = {}
  /\ objective' = [objective EXCEPT !.status = "AUTHORIZED"]
  /\ authorized' = authorized \cup {a.goal}
  /\ UNCHANGED <<goals, menu, open, consumed, used, proofs, navigation, evidence, offered>>

\* Mutant of Executable: the objective is expected before its authorization.
ExecutableUnauthorized(g) ==
  status = "EXECUTING" /\ objective.status = "PENDING" /\ objective.action.goal = g

\* validateAuthorizationForExecution, for the authorization issued for goal g.
Executable(g) ==
  /\ status = "EXECUTING"
  /\ objective.status = "AUTHORIZED" /\ objective.action.goal = g

\* Mutant of RetryAllowed: whatever did not succeed may be retried.
RetryAnything(g) == \A i \in DOMAIN attempts[g] : attempts[g][i] # "SUCCEEDED"

RetryAllowed(g) ==
  /\ \A i \in DOMAIN attempts[g] : attempts[g][i] # "SUCCEEDED"
  /\ attempts[g] # <<>> => attempts[g][Len(attempts[g])] = "FAILED_RETRYABLE"

Attempted(g, outcome) == attempts' = [attempts EXCEPT ![g] = Append(@, outcome)]

MotorFails(g) ==
  /\ \E outcome \in Failures :
       /\ outcome = "FAILED_RETRYABLE" => Len(attempts[g]) < MaxRetries
       /\ Attempted(g, outcome)
  /\ UNCHANGED <<status, ledger>>

\* The motor answered but the projected record does not pass admission.
EvidenceRejected(g) ==
  /\ Attempted(g, "SUCCEEDED")
  /\ UNCHANGED <<status, ledger>>

EvidenceAdmitted(g) ==
  /\ goals[g] = "PENDING"
  /\ \E amount \in IF g \in ObservedGoals THEN Amounts ELSE {NoAmount}, proof \in BOOLEAN :
       ledger' = ledger \cup {[goal |-> g, amount |-> amount, proof |-> proof]}
  /\ Attempted(g, "SUCCEEDED")
  /\ status' = "ASSESSING"

ExecuteAndAdmitEvidence(g) ==
  /\ Executable(g)
  /\ RetryAllowed(g)
  /\ version' = version + 1
  /\ MotorFails(g) \/ EvidenceRejected(g) \/ EvidenceAdmitted(g)
  /\ UNCHANGED <<goals, menu, open, actions, objective, authorized, consumed, used, proofs,
                 navigation, stale, offered, evaluations, closures>>

\* External: the evidence lifecycle reports a record STALE or SUPERSEDED.
EvidenceAges(r) ==
  /\ r \in ledger \ stale
  /\ stale' = stale \cup {r}
  /\ UNCHANGED <<protocolVars, ledger, attempts, offered, evaluations, closures>>

-----------------------------------------------------------------------------
(* Sufficiency and closure.  Each is a pure evaluation followed by a       *)
(* separate call that applies it if the state still has the version that   *)
(* was evaluated; between the two calls anything may happen.               *)

Current == ledger \ stale

\* Mutant of ProvedNow: any record of the goal is a proof.
RecordedNow(g) == \E r \in Current : r.goal = g

ProvedNow(g) == \E r \in Current : r.goal = g /\ r.proof

EvaluateSufficiency(g) ==
  /\ goals[g] = "PENDING"
  /\ ProvedNow(g)
  /\ evaluations' = {[goal |-> g, version |-> version]}
  /\ UNCHANGED <<protocolVars, ledger, attempts, stale, offered, closures>>

Applies(e) ==
  /\ status = "ASSESSING"
  /\ e.version = version
  /\ goals[e.goal] = "PENDING"

ApplySufficiencyEvaluation(e) ==
  /\ Applies(e)
  /\ version' = version + 1
  /\ goals' = [goals EXCEPT ![e.goal] = "SATISFIED"]
  /\ open' = PendingBlocking(goals')
  /\ objective' = Omitted
  /\ proofs' = proofs \cup {e}
  /\ UNCHANGED <<status, menu, actions, authorized, consumed, used, navigation, callerVars>>

Evaluated(g) == \E e \in proofs : e.goal = g

\* Mutant of Closable: a CONDITIONAL goal does not hold the protocol open.
ClosableOnRequired ==
  /\ \E g \in Present : Blocking(g)
  /\ \A g \in Present : Class[g] = "REQUIRED" => goals[g] = "SATISFIED" /\ Evaluated(g)

\* evaluateProtocolClosure, before the blockers only its caller can declare.
Closable ==
  /\ \E g \in Present : Blocking(g)
  /\ \A g \in Present : Blocking(g) => goals[g] = "SATISFIED" /\ Evaluated(g)

\* activeExecutionRefs and blockingSemanticSelection are arguments that default to none; these
\* are the values a caller that looks at the state passes.
ActiveExecution == status = "EXECUTING"
\* Mutant of BlockingSelection: only the initial menu is waited for.
BlockingMenu == Present = {} /\ menu # {}
BlockingSelection == \E c \in candidates : Class[c.rule.target] = "CONDITIONAL"

EvaluateProtocolClosure ==
  /\ Closable
  /\ HonestCaller => ~ActiveExecution /\ ~BlockingSelection
  /\ closures' = {version}
  /\ UNCHANGED <<protocolVars, ledger, attempts, stale, offered, evaluations>>

\* The status is not looked at: a COMPLETE protocol closes again at the next version.
ApplyProtocolClosure ==
  /\ version \in closures
  /\ status = "COMPLETE" => version < MaxVersion
  /\ version' = version + 1
  /\ status' = "COMPLETE"
  /\ open' = {} /\ actions' = {} /\ menu' = {}
  /\ objective' = Omitted
  /\ UNCHANGED <<goals, authorized, consumed, used, proofs, navigation, callerVars>>

-----------------------------------------------------------------------------
(* Investigation.  All goals of a protocol inherit one semantic binding,   *)
(* so the identity of a signal is its rule and the whole set of current    *)
(* records, and the identity of a candidate (and of its activation) is the *)
(* transition rule and that set.                                           *)

\* The catalogue, the resolution and the snapshot are arguments not compared with the
\* state's own, so any part of the menu may come out viable.
AssessBroadCandidateViability(viable) ==
  /\ Present = {} /\ menu # {}
  /\ version <= MaxReviews
  /\ version' = version + 1
  /\ status' = "AWAITING_SELECTION"
  /\ actions' = CandidateActions(viable, version + 1)
  /\ offered' = offered \cup actions'
  /\ UNCHANGED <<goals, menu, open, objective, authorized, consumed, used, proofs, navigation,
                 evidence>>

\* deriveTypedSignals: one observed amount across the current records, over the threshold.
DerivedSignals ==
  {[rule |-> rule, basis |-> Current] : rule \in
     {s \in SignalRules :
        /\ \E g \in s.accepts : goals[g] = "SATISFIED"
        /\ \E m \in s.matches : {r.amount : r \in {x \in Current : x.goal \in ObservedGoals}} = {m}}}

\* evaluateTransitionRules
ProjectedCandidates ==
  {[rule |-> rule, basis |-> Current] : rule \in
     {t \in TransitionRules :
        /\ [rule |-> t.signal, basis |-> Current] \in DerivedSignals
        /\ goals[t.source] = "SATISFIED"
        /\ t.depth <= MaxDepth}}

\* The candidate is compared with itself under the class of each goal: a candidate is taken
\* for a goal that exists as soon as any goal has its class.
TakenForExisting(c) == \E g \in Present : Class[g] = Class[c.rule.target]

NewCandidates(held) ==
  {c \in ProjectedCandidates : c \notin activations \cup held /\ ~TakenForExisting(c)}

\* The loop adds everything in its first pass; a second pass finds nothing to add.
Iterations(held) == IF NewCandidates(held) = {} /\ DerivedSignals \subseteq signals THEN 1 ELSE 2

\* existingCandidates: any other candidate is refused as unauthorized.
MayHold == (IF HonestCaller THEN candidates ELSE activations) \cap ProjectedCandidates

\* The second assessment of a state returns that state, whether its actions are on offer or not.
Unchanged(held) ==
  assessment = "STABLE" /\ signals = DerivedSignals /\ candidates = held /\ NewCandidates(held) = {}

\* Mutant of TransitionActions: issued at the version that was assessed.
StaleTransitionActions(cs, v) ==
  {[kind |-> "TRANSITION", goal |-> c.rule.target, candidate |-> c, issued |-> version] : c \in cs}

TransitionActions(cs, v) ==
  {[kind |-> "TRANSITION", goal |-> c.rule.target, candidate |-> c, issued |-> v] : c \in cs}

SelectionBlocks(cs) ==
  \/ \E c \in cs : Class[c.rule.target] = "CONDITIONAL"
  \/ Present = {} /\ menu # {}

\* Mutant of Assessable: a COMPLETE state is assessed again instead of returned.
AssessableWhenClosed ==
  status \in {"ASSESSING", "AWAITING_SELECTION", "COMPLETE"} /\ objective.status = "OMITTED"

Assessable == status \in {"ASSESSING", "AWAITING_SELECTION"} /\ objective.status = "OMITTED"

\* clear: the caller reports no conflict and supplies the evaluations it has.
AssessInvestigationFixedPoint(held, clear) ==
  LET kept == held \cup NewCandidates(held)
      grown == activations \cup NewCandidates(held)
      complete == clear /\ Closable /\ ~SelectionBlocks(kept)
  IN
  /\ Assessable
  /\ Iterations(held) <= MaxIterations
  /\ ~Unchanged(held)
  /\ HonestCaller \/ version < MaxVersion
  /\ version' = version + 1
  /\ status' = IF complete THEN "COMPLETE"
               ELSE IF kept # {} THEN "AWAITING_SELECTION" ELSE "ASSESSING"
  /\ menu' = IF complete THEN {} ELSE menu
  /\ actions' = IF complete THEN {} ELSE TransitionActions(kept, version + 1)
  /\ offered' = offered \cup actions'
  /\ signals' = DerivedSignals
  /\ candidates' = kept
  /\ activations' = grown
  /\ assessment' = "STABLE"
  /\ open' = PendingBlocking(goals)
  /\ objective' = Omitted
  /\ UNCHANGED <<goals, authorized, consumed, used, proofs, evidence>>

-----------------------------------------------------------------------------
Select == \E a \in offered : SelectAction(a) \/ SelectTransitionAction(a)
Authorize == \E a \in consumed : AuthorizeExecution(a)
Execute == \E g \in authorized : ExecuteAndAdmitEvidence(g)
Age == \E r \in ledger : EvidenceAges(r)
Evaluate == \E g \in Goals : EvaluateSufficiency(g)
Apply == \E e \in evaluations : ApplySufficiencyEvaluation(e)
Review == \E viable \in SUBSET menu : AssessBroadCandidateViability(viable)
Assess ==
  \E held \in (IF HonestCaller THEN {MayHold} ELSE SUBSET MayHold), clear \in BOOLEAN :
    AssessInvestigationFixedPoint(held, clear)

Next ==
  \/ Select \/ Authorize \/ Execute \/ Age
  \/ Evaluate \/ Apply \/ EvaluateProtocolClosure \/ ApplyProtocolClosure
  \/ Review \/ Assess

Spec == Init /\ [][Next]_vars
-----------------------------------------------------------------------------
(* Invariants *)

\* Every variable has its type.
TypeOK ==
  /\ version \in Nat \ {0}
  /\ status \in {"AWAITING_SELECTION", "EXECUTING", "ASSESSING", "COMPLETE"}
  /\ goals \in [Goals -> {"ABSENT", "PENDING", "SATISFIED"}]
  /\ menu \in SUBSET BroadMenu
  /\ open \in SUBSET Goals
  /\ actions \in SUBSET Action
  /\ objective \in [status : {"PENDING", "AUTHORIZED"}, action : Action] \cup {Omitted}
  /\ authorized \in SUBSET Goals
  /\ consumed \in SUBSET Action
  /\ used \in 0..MaxSelections
  /\ proofs \in SUBSET Evaluation
  /\ signals \in SUBSET Signals
  /\ candidates \in SUBSET Candidates
  /\ activations \in SUBSET Candidates
  /\ assessment \in {"ABSENT", "STABLE"}
  /\ ledger \in SUBSET Records
  /\ attempts \in [Goals -> Seq(Failures \cup {"SUCCEEDED"})]
  /\ stale \in SUBSET Records
  /\ offered \in SUBSET Action
  /\ evaluations \in SUBSET Evaluation
  /\ closures \in SUBSET Nat

Satisfied == {g \in Goals : goals[g] = "SATISFIED"}

\* No handler ever builds a state that validateProtocolState rejects: the open obligations are
\* exactly the pending blocking goals, the budget is not overspent, a satisfied goal has its
\* evaluation, EXECUTING has an authorized objective and COMPLETE has no work left.
ValidState ==
  /\ open = PendingBlocking(goals)
  /\ used <= MaxSelections
  /\ \A g \in Satisfied : Evaluated(g)
  /\ status = "EXECUTING" => objective.status = "AUTHORIZED" /\ authorized # {}
  /\ status = "COMPLETE" =>
       /\ Closable
       /\ open = {} /\ actions = {} /\ menu = {}
       /\ objective = Omitted

\* A goal is marked SATISFIED only at the end of the whole chain: an action consumed for it, an
\* authorization, a succeeded attempt and an admitted record that proves it.
SatisfiedIsProven ==
  \A g \in Satisfied :
    /\ \E a \in consumed : a.goal = g
    /\ g \in authorized
    /\ \E i \in DOMAIN attempts[g] : attempts[g][i] = "SUCCEEDED"
    /\ \E r \in ledger : r.goal = g /\ r.proof

\* Until the protocol closes, the only goal that can be pending is the one being pursued, or the
\* goal of a FOCUSED question nobody has selected yet: the order in which selections,
\* executions and assessments alternate never leaves two goals half done.
OneGoalAtATime ==
  \A g \in Goals : goals[g] = "PENDING" /\ status # "COMPLETE" =>
    \/ objective # Omitted /\ objective.action.goal = g
    \/ objective = Omitted /\ consumed = {} /\ Present = {g}

\* An action on offer can be taken by a command with the version it was issued at, was not
\* consumed before, and still leads somewhere: to a goal, a menu entry or a held candidate.
OffersAreLive ==
  \A a \in actions :
    /\ a.issued = version /\ a \notin consumed
    /\ a.kind = "GOAL" => goals[a.goal] = "PENDING"
    /\ a.kind = "CANDIDATE" => a.goal \in menu /\ Present = {}
    /\ a.kind = "TRANSITION" => a.candidate \in candidates /\ a.candidate \in activations

\* However late or often a command arrives, every selection is paid for once and goes to a goal
\* of its own, and nothing is authorized that nobody selected.
EverySelectionPaidOnce ==
  /\ used = Cardinality(consumed)
  /\ \A a, b \in consumed : a.goal = b.goal => a = b
  /\ \A g \in authorized : \E a \in consumed : a.goal = g

\* One execution fingerprint succeeds at most once, nothing is attempted after a success or a
\* final failure, nothing is attempted without authorization, and evidence enters the ledger
\* only from the success that ends the attempts, at most one record a goal.
ExecutionAtMostOnce ==
  /\ \A g \in Goals : \A i \in DOMAIN attempts[g] :
       /\ g \in authorized
       /\ i < Len(attempts[g]) => attempts[g][i] = "FAILED_RETRYABLE"
  /\ \A r \in ledger :
       /\ attempts[r.goal] # <<>> /\ attempts[r.goal][Len(attempts[r.goal])] = "SUCCEEDED"
       /\ \A q \in ledger : q.goal = r.goal => q = r

-----------------------------------------------------------------------------
(* The inductive invariant behind the invariants above.                    *)

\* The phase of the selected objective: selected and not yet authorized, executing without
\* evidence, or evidenced and waiting for its evaluation.
PhaseInv ==
  /\ status = "EXECUTING" => objective.status = "AUTHORIZED"
  /\ status = "COMPLETE" => objective = Omitted /\ menu = {} /\ Closable
  /\ objective.status = "PENDING" =>
       status = "AWAITING_SELECTION" /\ objective.action.goal \notin authorized
  /\ objective.status = "AUTHORIZED" =>
       /\ status \in {"EXECUTING", "ASSESSING"}
       /\ objective.action.goal \in authorized
       /\ status = "EXECUTING" <=> ~\E r \in ledger : r.goal = objective.action.goal
  /\ objective # Omitted =>
       objective.action \in consumed /\ goals[objective.action.goal] = "PENDING"

\* Actions are on offer only while the user is to choose and nothing is pursued.
OfferInv ==
  /\ OffersAreLive
  /\ actions # {} => status = "AWAITING_SELECTION" /\ objective = Omitted
  /\ \A a \in actions :
       /\ a.kind = "GOAL" => consumed = {} /\ Present = {a.goal} /\ a.goal \in FocusedGoals
       /\ a.kind = "TRANSITION" => a.goal = a.candidate.rule.target
  /\ menu # {} => Present = {} /\ consumed = {}
  /\ candidates \subseteq activations
  /\ candidates # {} => Satisfied # {}

\* Consumed actions belong to past versions and to goals that exist.
SelectionInv ==
  /\ IsFiniteSet(consumed)
  /\ EverySelectionPaidOnce
  /\ \A a \in consumed : a.issued < version /\ a.goal \in Present

\* What the caller keeps agrees with the state it was computed from.
EvidenceInv ==
  /\ ExecutionAtMostOnce
  /\ \A g \in Satisfied : Evaluated(g) /\ \E r \in ledger : r.goal = g /\ r.proof
  /\ \A e \in evaluations : e.version <= version /\ \E r \in ledger : r.goal = e.goal /\ r.proof
  /\ \A v \in closures : v <= version /\ (v = version => Closable)

InductiveInv ==
  /\ TypeOK
  /\ PhaseInv
  /\ OfferInv
  /\ SelectionInv
  /\ EvidenceInv
  /\ OneGoalAtATime
  /\ open = PendingBlocking(goals)

-----------------------------------------------------------------------------
(* Action properties *)

\* A COMPLETE protocol is terminal: whatever commands, answers and assessments are still on
\* their way, its goals, evidence, authorizations and budget stay as they are.
CompleteIsFinal ==
  [][status = "COMPLETE" =>
       /\ status' = "COMPLETE"
       /\ UNCHANGED <<goals, ledger, attempts, authorized, consumed, used, proofs, candidates,
                      actions>>]_vars

\* The version grows by one with every change of the state, so a command, an evaluation or a
\* closure computed for one state can never be applied to another; what is recorded is never
\* taken back.
HistoryOnlyGrows ==
  [][/\ protocolVars' # protocolVars => version' = version + 1
     /\ ledger \subseteq ledger' /\ proofs \subseteq proofs' /\ authorized \subseteq authorized'
     /\ consumed \subseteq consumed' /\ activations \subseteq activations'
     /\ \A g \in Goals : goals[g] # goals'[g] =>
          <<goals[g], goals'[g]>> \in {<<"ABSENT", "PENDING">>, <<"PENDING", "SATISFIED">>}]_vars

Aged(c) == c.basis \cap stale # {}

\* The protocol closes COMPLETE only when no execution is active and no CONDITIONAL candidate
\* still waits to be selected (evaluateProtocolClosure's ACTIVE_EXECUTION and
\* BLOCKING_SEMANTIC_SELECTION), unless evidence it was derived from has aged.
NothingBlockingAtClose ==
  [][status # "COMPLETE" /\ status' = "COMPLETE" =>
       /\ ~ActiveExecution
       /\ \A c \in candidates : Class[c.rule.target] = "CONDITIONAL" => Aged(c)]_vars

-----------------------------------------------------------------------------
(* The protocol implements EvidenceLifecycle.  A focused goal exists from  *)
(* the start but is asked only when its action is consumed.                *)

Asked(g) == \E a \in consumed : a.goal = g
Evidenced(g) == \E r \in ledger : r.goal = g

Stage(g) ==
  IF goals[g] = "SATISFIED" THEN "proven"
  ELSE IF Evidenced(g) THEN "evidenced"
  ELSE IF g \in authorized THEN "authorized"
  ELSE IF Asked(g) THEN "asked" ELSE "unasked"

Lifecycle == INSTANCE EvidenceLifecycle WITH
  BlockingGoals <- {g \in Goals : Blocking(g)},
  stage <- [g \in Goals |-> Stage(g)],
  closed <- status = "COMPLETE"

ImplementsLifecycle == Lifecycle!LifecycleSpec

-----------------------------------------------------------------------------
(* Liveness.  A backend keeps driving a selected objective: it authorizes, *)
(* executes until the motor gives an answer that is not retryable,         *)
(* evaluates, applies and closes or assesses.  The user is never fair.     *)

Settle == \E g \in authorized :
  ExecuteAndAdmitEvidence(g) /\ attempts'[g][Len(attempts'[g])] # "FAILED_RETRYABLE"

Fairness ==
  /\ WF_vars(Authorize)
  /\ WF_vars(Settle)
  /\ WF_vars(Evaluate)
  /\ WF_vars(Apply)
  /\ WF_vars(Assess)
  /\ WF_vars(EvaluateProtocolClosure)
  /\ WF_vars(ApplyProtocolClosure)

FairSpec == Spec /\ Fairness

Selectable(a) ==
  /\ CurrentCommand(a)
  /\ a.kind = "TRANSITION" => a.goal \notin Present

\* Every way in which a selected objective may come to a halt before the protocol completes.
NoCapability == objective.status = "PENDING" /\ objective.action.goal \notin Applicable
ExecutionOver == status = "EXECUTING" /\ ~RetryAllowed(objective.action.goal)
NotSufficient ==
  status = "ASSESSING" /\ objective # Omitted /\ ~ProvedNow(objective.action.goal)
BudgetSpent == status = "AWAITING_SELECTION" /\ actions # {} /\ used = MaxSelections
OfferLost == status = "ASSESSING" /\ objective = Omitted /\ candidates # {} /\ Unchanged(candidates)
UserToDecide == \E a \in actions : Selectable(a)

\* What the backend does with a selection always comes to an end: the protocol completes, hands
\* the turn back to the user, or stops for one of the reasons named above.
SelectionIsAnswered ==
  objective.status = "PENDING" ~>
    \/ status = "COMPLETE" \/ UserToDecide
    \/ NoCapability \/ ExecutionOver \/ NotSufficient \/ BudgetSpent \/ OfferLost
=============================================================================
