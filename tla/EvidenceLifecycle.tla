-------------------------- MODULE EvidenceLifecycle --------------------------
(***************************************************************************)
(* What the decision protocol promises of the evidence it gathers, with    *)
(* no version, command, action or attempt: a goal is proven only after it  *)
(* was asked, authorized and evidenced, one goal is in progress at a time, *)
(* nothing moves once the protocol is closed, and it closes only when      *)
(* every blocking goal that was ever asked is proven.                      *)
(***************************************************************************)
CONSTANTS
  Goals,
  BlockingGoals     \* the goals that must be proven, once asked, before the protocol closes

VARIABLES
  stage,            \* unasked, asked, authorized, evidenced or proven, for each goal
  closed

lifecycle == <<stage, closed>>

InProgress == {"asked", "authorized", "evidenced"}

LifecycleInit ==
  /\ stage = [g \in Goals |-> "unasked"]
  /\ closed = FALSE

Idle == \A g \in Goals : stage[g] \notin InProgress

Move(g, from, to) ==
  /\ ~closed
  /\ stage[g] = from
  /\ stage' = [stage EXCEPT ![g] = to]
  /\ closed' = closed

Ask(g) == Idle /\ Move(g, "unasked", "asked")
Permit(g) == Move(g, "asked", "authorized")
Admit(g) == Move(g, "authorized", "evidenced")
Prove(g) == Move(g, "evidenced", "proven")

Close ==
  /\ \E g \in BlockingGoals : stage[g] = "proven"
  /\ \A g \in BlockingGoals : stage[g] \in {"unasked", "proven"}
  /\ closed' = TRUE
  /\ stage' = stage

LifecycleNext ==
  Close \/ \E g \in Goals : Ask(g) \/ Permit(g) \/ Admit(g) \/ Prove(g)

LifecycleSpec == LifecycleInit /\ [][LifecycleNext]_lifecycle
=============================================================================
