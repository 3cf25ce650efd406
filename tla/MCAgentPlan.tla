---------------------------- MODULE MCAgentPlan ----------------------------
(***************************************************************************)
(* Every kind of question about every type of entity, over the current     *)
(* month, a quarter and two years; one question resolved twice, and two    *)
(* questions; intents that leave all to the defaults or override them.     *)
(***************************************************************************)
EXTENDS AgentPlan

Period(type, closed, whole, months) ==
  [type |-> type, closed |-> closed, whole |-> whole, months |-> months]
Current == Period("CURRENT_MTD", FALSE, FALSE, 1)
Quarter == Period("LAST_CLOSED_QUARTER", TRUE, TRUE, 3)
Years == Period("EXPLICIT_RANGE", TRUE, TRUE, 24)

Question(kind, entity, period, comparison, universe) ==
  [kind |-> kind, entity |-> entity, period |-> period, comparison |-> comparison,
   universe |-> universe]

MCQuestions ==
  {Question(k, e, p, NULL, u) :
     k \in Kinds, e \in {"COMPANY", "STORE", "BRAND"}, p \in {Current, Quarter, Years},
     u \in {NULL, "OWN_STORES"}}
  \cup {Question("RISK", e, Quarter, "PREVIOUS_PERIOD", u) :
          e \in EntityTypes \cup {NULL}, u \in Universes}

MCSessions ==
  {<<q>> : q \in MCQuestions}
  \cup {<<Question("EXPECTATION", "COMPANY", Current, NULL, "OWN_STORES"),
          Question(k, "COMPANY", Current, NULL, "OWN_STORES")>> : k \in {"EXPECTATION", "RISK"}}

MCRawIntents ==
  {[comparison |-> c, universe |-> u] : c \in {NULL, "YOY"}, u \in {NULL, "DEALERS"}}
=============================================================================
