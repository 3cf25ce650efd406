---------------------------- MODULE DecisionPlan ----------------------------
(***************************************************************************)
(* From a parsed question to the investigations that answer it: what       *)
(* /resolve allows and defaults (resolveSemanticParse.js), the plan of     *)
(* /analyze (decideIntent.js), the executions it maps to                   *)
(* (executionRegistry.js) and what they can be projected to                *)
(* (publicProjectionRegistry.js).                                          *)
(*                                                                         *)
(* A question is [kind, entity, period, comparison, universe]; the last    *)
(* two, and the entity, may be NULL.  A period is [type, closed, whole,    *)
(* months]: whole if it is made of whole months, of which it touches that  *)
(* many.                                                                   *)
(* Organization scope and depth, which travel beside the universe and      *)
(* choose nothing below, are left out.                                     *)
(***************************************************************************)
EXTENDS Naturals, FiniteSets, SequencesExt

CONSTANT NULL

Kinds == {"STATUS", "PERFORMANCE", "CHANGE", "EXPECTATION", "EXPLANATION", "COMPARISON",
          "OPPORTUNITY", "RISK", "ACTION"}
EntityTypes == {"COMPANY", "STORE", "SELLER", "BRAND", "MODEL"}
Comparisons == {"NONE", "YOY", "SAME_CUTOFF_YOY", "PREVIOUS_PERIOD", "EXPECTED", "PEERS", "MARKET"}
Universes == {"COMPANY", "OWN_STORES", "DEALERS"}
Periods == [type : STRING, closed : BOOLEAN, whole : BOOLEAN, months : Nat]

OrElse(v, default) == IF v # NULL THEN v ELSE default
IsMTD(q) == q.period.type = "CURRENT_MTD"

\* A current month ends today, and a period that ends today is not closed (periodMath.js).
Questions ==
  {q \in [kind : Kinds, entity : EntityTypes \cup {NULL}, period : Periods,
          comparison : Comparisons \cup {NULL}, universe : Universes \cup {NULL}] :
     IsMTD(q) => ~q.period.closed}
Intents == [comparison : Comparisons \cup {NULL}, universe : Universes \cup {NULL}]

(***************************************************************************)
(* comparisonPolicy, scopePolicy.                                          *)
(***************************************************************************)
AllowedComparisons(q) ==
  {"NONE"}
  \cup (IF q.kind \in {"PERFORMANCE", "CHANGE", "COMPARISON", "EXPLANATION", "RISK", "OPPORTUNITY",
                       "ACTION"} THEN {"YOY", "PREVIOUS_PERIOD"} ELSE {})
  \cup (IF IsMTD(q) THEN {"SAME_CUTOFF_YOY"} ELSE {})
  \cup (IF q.kind \in {"PERFORMANCE", "EXPECTATION", "EXPLANATION", "RISK", "OPPORTUNITY", "ACTION"}
        THEN {"EXPECTED"} ELSE {})
  \cup (IF q.kind \in {"PERFORMANCE", "COMPARISON", "OPPORTUNITY", "RISK"}
        THEN {"PEERS", "MARKET"} ELSE {})

\* Mutant of DefaultComparison: the default of the open month for every period.
DefaultOfOpenMonth(q) ==
  CASE q.kind = "EXPECTATION" -> "EXPECTED"
    [] q.kind \in {"PERFORMANCE", "RISK"} -> "SAME_CUTOFF_YOY"
    [] q.kind \in {"CHANGE", "EXPLANATION"} -> "PREVIOUS_PERIOD"
    [] OTHER -> "NONE"

DefaultComparison(q) ==
  CASE q.kind = "EXPECTATION" /\ IsMTD(q) -> "EXPECTED"
    [] q.kind \in {"PERFORMANCE", "RISK"} -> IF IsMTD(q) THEN "SAME_CUTOFF_YOY" ELSE "YOY"
    [] q.kind \in {"CHANGE", "EXPLANATION"} -> "PREVIOUS_PERIOD"
    [] OTHER -> "NONE"

AllowedUniverses(q) == IF q.entity \in {"STORE", "SELLER"} THEN {"OWN_STORES"} ELSE Universes

DefaultUniverse(q) ==
  CASE q.entity \in {"STORE", "SELLER"} -> "OWN_STORES"
    [] q.entity = "COMPANY" -> "COMPANY"
    [] OTHER -> NULL

Allows(q, comparison, universe) ==
  comparison \in AllowedComparisons(q) /\ (universe = NULL \/ universe \in AllowedUniverses(q))

\* ready: the entity resolved to one name, and what was said is allowed.
Ready(q, unique) ==
  /\ q.entity # NULL /\ (q.entity = "COMPANY" \/ unique)
  /\ Allows(q, OrElse(q.comparison, "NONE"), q.universe)

\* materializeIntent: what the request says, else the parse, else the default.
IntentOf(q, raw) ==
  [comparison |-> OrElse(raw.comparison, OrElse(q.comparison, DefaultComparison(q))),
   universe |-> OrElse(raw.universe, OrElse(q.universe, DefaultUniverse(q)))]

(***************************************************************************)
(* decideIntent.                                                           *)
(***************************************************************************)
Competitive(q) == q.kind = "PERFORMANCE" /\ q.entity \in {"BRAND", "MODEL"}

ValidCombination(q, intent) ==
  /\ ~(q.entity = "SELLER" /\ intent.universe = "DEALERS")
  /\ q.kind = "EXPECTATION" => IsMTD(q)
  /\ intent.comparison = "SAME_CUTOFF_YOY" => IsMTD(q)

\* The REQUIRED evidence of the family: optional requirements are planned and never executed.
RequiredEvidence(q) ==
  CASE q.kind = "STATUS" -> <<"CURRENT_RESULT">>
    [] q.kind = "EXPECTATION" -> <<"CURRENT_RESULT", "CLOSE_EXPECTATION">>
    [] q.kind = "EXPLANATION" -> <<"CURRENT_RESULT", "CHANGE_CONTRIBUTION">>
    [] q.kind = "OPPORTUNITY" \/ Competitive(q) -> <<"CURRENT_RESULT", "MARKET_REFERENCE">>
    [] OTHER -> <<"CURRENT_RESULT", "HISTORICAL_REFERENCE">>

RequiredContexts(q) ==
  IF Competitive(q) THEN {"MARKET_CONTEXT"} ELSE IF q.kind = "ACTION" THEN {"SALES_CONTEXT"} ELSE {}

CommonCutoff(q, intent) == IsMTD(q) /\ intent.comparison \in {"YOY", "SAME_CUTOFF_YOY", "MARKET"}

\* propositionFor: a closed year-on-year risk carries a proposition.
HasProposition(q, intent) ==
  q.kind = "RISK" /\ intent.comparison = "YOY" /\ q.period.closed /\ q.period.whole

(***************************************************************************)
(* executionRegistry.                                                      *)
(***************************************************************************)
UniverseOf(q, intent) ==
  OrElse(intent.universe,
    OrElse(DefaultUniverse(q),
           IF q.entity \in {"STORE", "SELLER"} THEN "OWN_STORES" ELSE "COMPANY"))

Sales(q, intent, range) ==
  [capability |-> "VENTAS", universe |-> UniverseOf(q, intent), range |-> range]
Forecast == [capability |-> "CLOSE_FORECAST", universe |-> "OWN_STORES", range |-> "TARGET"]

ASSUME NullAssumption ==
  NULL \notin EntityTypes \cup Comparisons \cup Universes /\ NULL # Forecast

MayForecast(universe) == universe = "OWN_STORES"

\* resolveExecutionRequirement: NULL when no certified execution exists.
Execution(type, q, intent) ==
  LET universe == UniverseOf(q, intent)
  IN CASE type = "CURRENT_RESULT" ->
            IF ~(IsMTD(q) /\ q.entity = "COMPANY") THEN Sales(q, intent, "TARGET")
            ELSE IF MayForecast(universe) THEN Forecast ELSE NULL
       [] type = "HISTORICAL_REFERENCE" -> Sales(q, intent, "WITH_PREVIOUS_YEAR")
       [] type = "MARKET_REFERENCE" ->
            IF q.entity \in {"BRAND", "MODEL"}
            THEN [capability |-> "SHARE_TRAJECTORY", universe |-> "MARKET", range |-> "TARGET"]
            ELSE NULL
       [] type = "CLOSE_EXPECTATION" ->
            IF IsMTD(q) /\ MayForecast(universe) THEN Forecast ELSE NULL
       [] type = "CHANGE_CONTRIBUTION" ->
            IF q.period.months = 1 THEN NULL
            ELSE [capability |-> "STORE_CONTRIBUTION", universe |-> "COMPANY", range |-> "ENDS"]

\* resolveContextRequirement.
ContextExecutable(type, q) == type = "MARKET_CONTEXT" => q.entity \in {"BRAND", "MODEL"}

(***************************************************************************)
(* buildInvestigationSteps: one for each execution, in order, requirements *)
(* that have the same one together; those that have none stay apart.       *)
(***************************************************************************)
Together(i, j, q, intent) ==
  LET ExecutionOf(k) == Execution(RequiredEvidence(q)[k], q, intent)
  IN ExecutionOf(i) # NULL /\ ExecutionOf(i) = ExecutionOf(j)

\* The requirements that open an investigation, and the one that opens the n-th.
Openings(q, intent) ==
  {i \in DOMAIN RequiredEvidence(q) : \A j \in 1..(i - 1) : ~Together(j, i, q, intent)}
Opening(n, q, intent) ==
  CHOOSE i \in Openings(q, intent) : Cardinality({j \in Openings(q, intent) : j <= i}) = n

\* A context goes to the investigation of the evidence it is associated with, or to the first.
HostOf(context, q, intent) ==
  LET beside == IF context = "MARKET_CONTEXT" THEN "MARKET_REFERENCE" ELSE "CURRENT_RESULT"
      preferred == {i \in DOMAIN RequiredEvidence(q) : RequiredEvidence(q)[i] = beside}
      i == IF preferred # {} THEN CHOOSE k \in preferred : TRUE ELSE 1
  IN CHOOSE f \in Openings(q, intent) : f = i \/ Together(f, i, q, intent)

Investigation(f, q, intent) ==
  [execution |-> Execution(RequiredEvidence(q)[f], q, intent),
   requirements |-> {RequiredEvidence(q)[i] :
                       i \in {j \in DOMAIN RequiredEvidence(q) :
                                j = f \/ Together(f, j, q, intent)}},
   contexts |-> {c \in RequiredContexts(q) : HostOf(c, q, intent) = f}]

Investigations(q, intent) ==
  [n \in 1..Cardinality(Openings(q, intent)) |-> Investigation(Opening(n, q, intent), q, intent)]

(***************************************************************************)
(* publicProjectionRegistry: what of an answer can be AVAILABLE.           *)
(***************************************************************************)

\* No request of the plan asks for SAME_DAY, so an answer whose periods must share a cutoff is
\* never comparable.
\* Mutant of Comparable: the cutoff is not compared.
ComparableAnyway(q, intent) == TRUE

Comparable(q, intent) == ~CommonCutoff(q, intent)

\* referencePeriodFor, and whether the twelve months before the target that were asked for
\* contain it.
HasReference(q, intent) ==
  \/ intent.comparison \in {"YOY", "SAME_CUTOFF_YOY"}
  \/ intent.comparison = "PREVIOUS_PERIOD" /\ q.period.months <= 12

Projectable(type, q, intent) ==
  type = "HISTORICAL_REFERENCE" =>
    HasProposition(q, intent) \/ (Comparable(q, intent) /\ HasReference(q, intent))
=============================================================================
