-------------------------- MODULE AgentPlanProofs --------------------------
(***************************************************************************)
(* Theorems about AgentPlan, for every value of its constants: whatever    *)
(* tokens a client keeps, crosses or repeats, an answer rests on           *)
(* investigations of its own plan.                                         *)
(***************************************************************************)
EXTENDS AgentPlan, FiniteSetTheorems, SequenceTheorems, TLAPS

-----------------------------------------------------------------------------
(* The plan of a question.                                                 *)

\* Every question requires its current result first, and at most one thing more.
LEMMA EvidenceShape ==
  ASSUME NEW q \in Questions
  PROVE  \/ RequiredEvidence(q) = <<"CURRENT_RESULT">>
         \/ \E second \in {"CLOSE_EXPECTATION", "CHANGE_CONTRIBUTION", "MARKET_REFERENCE",
                           "HISTORICAL_REFERENCE"} :
              RequiredEvidence(q) = <<"CURRENT_RESULT", second>>
<1> DEFINE Two(second) == <<"CURRENT_RESULT", second>>
<1>1. RequiredEvidence(q) \in {<<"CURRENT_RESULT">>, Two("CLOSE_EXPECTATION"),
                               Two("CHANGE_CONTRIBUTION"), Two("MARKET_REFERENCE"),
                               Two("HISTORICAL_REFERENCE")}
  BY DEF RequiredEvidence
<1> QED BY <1>1

LEMMA EvidenceDomain ==
  ASSUME NEW q \in Questions
  PROVE  DOMAIN RequiredEvidence(q) = {1} \/ DOMAIN RequiredEvidence(q) = {1, 2}
BY EvidenceShape

\* An investigation is opened by the current result, and perhaps by the other requirement.
LEMMA OpeningsShape ==
  ASSUME NEW q \in Questions, NEW intent
  PROVE  Openings(q, intent) = {1} \/ Openings(q, intent) = {1, 2}
BY EvidenceDomain DEF Openings

LEMMA OneAndTwo == Cardinality({1}) = 1 /\ Cardinality({1, 2}) = 2
<1>1. IsFiniteSet({1}) /\ Cardinality({1}) = 1
  BY FS_Singleton
<1>2. Cardinality({1} \cup {2}) = 2
  BY <1>1, FS_AddElement
<1>3. {1, 2} = {1} \cup {2}
  OBVIOUS
<1> QED BY <1>1, <1>2, <1>3

LEMMA OpeningIsOne ==
  ASSUME NEW q \in Questions, NEW intent, NEW n \in 1..Cardinality(Openings(q, intent))
  PROVE  Opening(n, q, intent) \in Openings(q, intent)
<1> DEFINE S == Openings(q, intent)
           Upto(i) == {j \in S : j <= i}
<1>1. Cardinality({1}) = 1 /\ Cardinality({1, 2}) = 2
  BY OneAndTwo
<1>2. \E i \in S : Cardinality(Upto(i)) = n
  <2>1. CASE S = {1}
    <3>1. Upto(1) = {1} /\ n = 1
      BY <2>1, <1>1
    <3> QED BY <3>1, <2>1, <1>1
  <2>2. CASE S = {1, 2}
    <3>1. Upto(1) = {1} /\ Upto(2) = {1, 2} /\ n \in {1, 2}
      BY <2>2, <1>1
    <3> QED BY <3>1, <2>2, <1>1
  <2> QED BY <2>1, <2>2, OpeningsShape
<1> QED BY <1>2 DEF Opening

\* A plan is a sequence of investigations, at least one, each of a requirement of its question.
LEMMA PlanShape ==
  ASSUME NEW q \in Questions, NEW intent
  PROVE  /\ DOMAIN Investigations(q, intent) = 1..Len(Investigations(q, intent))
         /\ Len(Investigations(q, intent)) \in Nat \ {0}
         /\ \A n \in 1..Len(Investigations(q, intent)) :
              \E f \in DOMAIN RequiredEvidence(q) :
                Investigations(q, intent)[n] = Investigation(f, q, intent)
<1> DEFINE size == Cardinality(Openings(q, intent))
           plan == Investigations(q, intent)
<1>1. size \in {1, 2}
  BY OpeningsShape, OneAndTwo
<1>2. plan = [n \in 1..size |-> Investigation(Opening(n, q, intent), q, intent)]
  BY DEF Investigations
<1>3. Len(plan) = size /\ DOMAIN plan = 1..size
  BY <1>1, <1>2
<1>4. \A n \in 1..size : Opening(n, q, intent) \in DOMAIN RequiredEvidence(q)
  BY OpeningIsOne DEF Openings
<1> QED BY <1>1, <1>2, <1>3, <1>4

\* Every opening opens an investigation of the plan.
LEMMA OpeningIsReached ==
  ASSUME NEW q \in Questions, NEW intent, NEW f \in Openings(q, intent)
  PROVE  \E n \in 1..Cardinality(Openings(q, intent)) : Opening(n, q, intent) = f
<1> DEFINE S == Openings(q, intent)
           Upto(i) == {j \in S : j <= i}
<1>1. CASE S = {1}
  <2>1. Cardinality(S) = 1 /\ f = 1
    BY <1>1, OneAndTwo
  <2>2. Opening(1, q, intent) \in S
    BY <2>1, OpeningIsOne
  <2> QED BY <2>1, <2>2, <1>1
<1>2. CASE S = {1, 2}
  <2>1. Upto(1) = {1} /\ Upto(2) = {1, 2} /\ Cardinality(S) = 2
    BY <1>2, OneAndTwo
  <2>2. \A i \in S : Cardinality(Upto(i)) = i
    BY <1>2, <2>1, OneAndTwo
  <2>3. \A n \in 1..2 : Opening(n, q, intent) = n
    <3> SUFFICES ASSUME NEW n \in 1..2 PROVE Opening(n, q, intent) = n
      OBVIOUS
    <3>1. n \in S
      BY <1>2
    <3>2. \A i \in S : Cardinality(Upto(i)) = n <=> i = n
      BY <2>2
    <3>3. Opening(n, q, intent) = CHOOSE i \in S : Cardinality(Upto(i)) = n
      BY DEF Opening
    <3> HIDE DEF S, Upto
    <3> QED BY <3>1, <3>2, <3>3
  <2> QED BY <1>2, <2>1, <2>3
<1> QED BY <1>1, <1>2, OpeningsShape

LEMMA HostIsOpening ==
  ASSUME NEW q \in Questions, NEW intent, NEW i \in DOMAIN RequiredEvidence(q)
  PROVE  \E f \in Openings(q, intent) : f = i \/ Together(f, i, q, intent)
<1>1. CASE i \in Openings(q, intent)
  BY <1>1
<1>2. CASE i \notin Openings(q, intent)
  <2>1. PICK j \in 1..(i - 1) : Together(j, i, q, intent)
    BY <1>2 DEF Openings
  <2>2. j = 1
    BY <2>1, EvidenceDomain
  <2> QED BY <2>1, <2>2, OpeningsShape
<1> QED BY <1>1, <1>2

\* The investigations of a plan are about what the question requires, all of it and nothing else.
LEMMA PlanIsWhole ==
  ASSUME NEW q \in Questions, NEW intent
  PROVE  LET plan == Investigations(q, intent) IN
           UNION {plan[n].requirements \cup plan[n].contexts : n \in 1..Len(plan)} = Required(q)
<1> DEFINE plan == Investigations(q, intent)
           Parts(n) == plan[n].requirements \cup plan[n].contexts
           N == Cardinality(Openings(q, intent))
<1>1. Len(plan) = N
  BY OpeningsShape, OneAndTwo DEF Investigations
<1>2. \A n \in 1..N : plan[n] = Investigation(Opening(n, q, intent), q, intent)
  BY DEF Investigations
<1> DEFINE Sharing(f) == {j \in DOMAIN RequiredEvidence(q) : j = f \/ Together(f, j, q, intent)}
           Requirements(f) == {RequiredEvidence(q)[i] : i \in Sharing(f)}
           Contexts(f) == {c \in RequiredContexts(q) : HostOf(c, q, intent) = f}
<1>a. \A f : /\ Investigation(f, q, intent).requirements = Requirements(f)
             /\ Investigation(f, q, intent).contexts = Contexts(f)
  BY DEF Investigation
<1>b. \A n \in 1..N : /\ plan[n].requirements = Requirements(Opening(n, q, intent))
                      /\ plan[n].contexts = Contexts(Opening(n, q, intent))
  <2> HIDE DEF plan, Requirements, Contexts, N
  <2> QED BY <1>2, <1>a
<1> HIDE DEF plan
<1>3. ASSUME NEW n \in 1..N PROVE Parts(n) \subseteq Required(q)
  <2>1. plan[n].requirements \subseteq ToSet(RequiredEvidence(q))
    BY <1>b DEF ToSet
  <2>2. plan[n].contexts \subseteq RequiredContexts(q)
    BY <1>b
  <2> QED BY <2>1, <2>2 DEF Required
<1>4. ASSUME NEW type \in Required(q) PROVE \E n \in 1..N : type \in Parts(n)
  <2>1. CASE type \in RequiredContexts(q)
    <3>1. HostOf(type, q, intent) \in Openings(q, intent)
      <4> DEFINE beside == IF type = "MARKET_CONTEXT" THEN "MARKET_REFERENCE" ELSE "CURRENT_RESULT"
                 preferred == {k \in DOMAIN RequiredEvidence(q) : RequiredEvidence(q)[k] = beside}
      <4>1. PICK i : i = IF preferred # {} THEN CHOOSE k \in preferred : TRUE ELSE 1
        OBVIOUS
      <4>2. i \in DOMAIN RequiredEvidence(q)
        BY <4>1, EvidenceDomain
      <4>3. HostOf(type, q, intent) =
              CHOOSE f \in Openings(q, intent) : f = i \/ Together(f, i, q, intent)
        BY <4>1 DEF HostOf
      <4> QED BY <4>2, <4>3, HostIsOpening
    <3>2. PICK n \in 1..N : Opening(n, q, intent) = HostOf(type, q, intent)
      BY <3>1, OpeningIsReached
    <3>3. type \in plan[n].contexts
      BY <1>b, <2>1, <3>2
    <3> QED BY <3>3
  <2>2. CASE type \in ToSet(RequiredEvidence(q))
    <3>1. PICK i \in DOMAIN RequiredEvidence(q) : RequiredEvidence(q)[i] = type
      BY <2>2 DEF ToSet
    <3>2. PICK f \in Openings(q, intent) : f = i \/ Together(f, i, q, intent)
      BY HostIsOpening
    <3>3. PICK n \in 1..N : Opening(n, q, intent) = f
      BY OpeningIsReached
    <3>4. type \in plan[n].requirements
      BY <1>b, <3>1, <3>2, <3>3
    <3> QED BY <3>4
  <2> QED BY <2>1, <2>2 DEF Required
<1> HIDE DEF Parts, N
<1>5. UNION {Parts(n) : n \in 1..N} = Required(q)
  BY <1>3, <1>4
<1> QED BY <1>1, <1>5 DEF Parts, plan

-----------------------------------------------------------------------------
(* What a client may ask for.                                              *)

LEMMA IntentType ==
  ASSUME NEW q \in Questions, NEW raw \in RawIntents
  PROVE  /\ IntentOf(q, raw) \in Intents
         /\ IntentOf(q, raw).comparison =
              OrElse(raw.comparison, OrElse(q.comparison, DefaultComparison(q)))
         /\ IntentOf(q, raw).universe =
              OrElse(raw.universe, OrElse(q.universe, DefaultUniverse(q)))
<1>1. raw \in Intents /\ q.comparison \in Comparisons \cup {NULL}
      /\ q.universe \in Universes \cup {NULL}
  BY AgentAssumption DEF Questions
<1>2. DefaultComparison(q) \in Comparisons
  BY DEF DefaultComparison, Comparisons
<1>3. DefaultUniverse(q) \in Universes \cup {NULL}
  BY DEF DefaultUniverse, Universes
<1> QED BY <1>1, <1>2, <1>3 DEF IntentOf, OrElse, Intents

\* The forecast is of the own stores, and is not what any other universe is answered with.
LEMMA ForecastNeedsOwnStores ==
  ASSUME NEW q \in Questions, NEW raw \in RawIntents,
         NEW type \in {"CURRENT_RESULT", "CLOSE_EXPECTATION", "CHANGE_CONTRIBUTION",
                       "MARKET_REFERENCE", "HISTORICAL_REFERENCE"},
         Execution(type, q, IntentOf(q, raw)) = Forecast
  PROVE  IntentOf(q, raw).universe = "OWN_STORES"
<1> DEFINE intent == IntentOf(q, raw)
<1>1. Forecast.capability = "CLOSE_FORECAST" /\ Forecast # NULL
  BY NullAssumption DEF Forecast
<1>2. \A range : Sales(q, intent, range).capability = "VENTAS"
  BY DEF Sales
<1>3. UniverseOf(q, intent) = "OWN_STORES"
  BY <1>1, <1>2 DEF Execution, MayForecast
<1>4. CASE intent.universe = NULL
  <2>1. DefaultUniverse(q) = NULL
    <3>1. DefaultUniverse(q) # NULL => intent.universe # NULL
      BY IntentType DEF OrElse
    <3> QED BY <3>1, <1>4
  <2>2. q.entity \notin {"STORE", "SELLER"}
    BY <2>1, NullAssumption DEF DefaultUniverse, Universes
  <2>3. UniverseOf(q, intent) = "COMPANY"
    BY <1>4, <2>1, <2>2 DEF UniverseOf, OrElse
  <2> QED BY <2>3, <1>3
<1>5. CASE intent.universe # NULL
  BY <1>5, <1>3 DEF UniverseOf, OrElse
<1> QED BY <1>4, <1>5

\* The default comparison of a question is allowed to it.
LEMMA DefaultsAreAllowed ==
  ASSUME NEW q \in Questions
  PROVE  /\ DefaultComparison(q) \in AllowedComparisons(q)
         /\ DefaultUniverse(q) # NULL => DefaultUniverse(q) \in AllowedUniverses(q)
<1>1. DefaultComparison(q) \in AllowedComparisons(q)
  BY DEF DefaultComparison, AllowedComparisons
<1>2. DefaultUniverse(q) # NULL => DefaultUniverse(q) \in AllowedUniverses(q)
  BY DEF DefaultUniverse, AllowedUniverses, Universes
<1> QED BY <1>1, <1>2

LEMMA ReadyQuestionIsAnswered ==
  ASSUME NEW q \in Questions, NEW unique \in BOOLEAN, Ready(q, unique),
         q.kind = "EXPECTATION" => IsMTD(q),
         NEW raw \in RawIntents,
         raw.comparison = NULL \/ Allows(q, raw.comparison, NULL),
         raw.universe = NULL \/ raw.universe \in AllowedUniverses(q)
  PROVE  LET intent == IntentOf(q, raw) IN
           /\ Allows(q, intent.comparison, intent.universe) /\ ValidCombination(q, intent)
           /\ Len(Investigations(q, intent)) > 0
<1> DEFINE intent == IntentOf(q, raw)
<1>1. q.comparison # NULL => q.comparison \in AllowedComparisons(q)
  BY DEF Ready, Allows, OrElse
<1>2. intent.comparison \in AllowedComparisons(q)
  BY <1>1, IntentType, DefaultsAreAllowed DEF OrElse, Allows
<1>3. intent.universe = NULL \/ intent.universe \in AllowedUniverses(q)
  BY IntentType, DefaultsAreAllowed DEF OrElse, Allows, Ready
<1>4. intent.comparison = "SAME_CUTOFF_YOY" => IsMTD(q)
  BY <1>2 DEF AllowedComparisons
<1>5. ~(q.entity = "SELLER" /\ intent.universe = "DEALERS")
  BY <1>3, NullAssumption DEF AllowedUniverses, Universes
<1>6. Len(Investigations(q, intent)) > 0
  BY PlanShape
<1> QED BY <1>2, <1>3, <1>4, <1>5, <1>6 DEF Allows, ValidCombination

-----------------------------------------------------------------------------
(* The inductive invariant.                                                *)

PlanOf(r, intent) == Investigations(resolutions[r].question, intent)
PartsOf(investigation) == investigation.requirements \cup investigation.contexts

\* What resolutions are, and that one is only ready if what was said of its question is allowed.
Authorities ==
  /\ session \in Seq(Questions)
  /\ resolutions \in Seq([question : Questions, ready : BOOLEAN, exp : Nat])
  /\ \A r \in DOMAIN resolutions :
       resolutions[r].ready => Ready(resolutions[r].question, TRUE)
  /\ now \in Nat

AskedOf(r, intent) ==
  /\ r \in DOMAIN resolutions
  /\ \E raw \in RawIntents : intent = IntentOf(resolutions[r].question, raw)

\* An answer of this resolution and intent that carried out an investigation of type, available.
Earned(r, intent, type) ==
  \E b \in answers :
    /\ b.resolution = r /\ b.intent = intent
    /\ type \in PartsOf(PlanOf(r, intent)[b.after.next])
    /\ type \in DOMAIN b.after.status /\ b.after.status[type] = "AVAILABLE"

\* A progress is the outcome of the first investigations of its plan, and what it says is
\* available was earned.
Settled(r, intent, progress) ==
  /\ progress.next \in 0..Len(PlanOf(r, intent))
  /\ DOMAIN progress.status = UNION {PartsOf(PlanOf(r, intent)[i]) : i \in 1..progress.next}
  /\ \A type \in DOMAIN progress.status :
       progress.status[type] = "AVAILABLE" => Earned(r, intent, type)

ContinuationsAreSettled ==
  \A c \in continuations :
    AskedOf(c.resolution, c.intent) /\ Settled(c.resolution, c.intent, c.progress)

\* The last investigation found available only what can be projected, and the client is told to
\* continue while something is missing and there are investigations left.
Concluded(a, q, plan) ==
  /\ a.after.next > 0
  /\ a.sufficiency = Sufficiency(a.after, q)
  /\ a.status = IF Unfinished(a.after, q, a.intent) THEN "CONTINUE" ELSE "STOP"
  /\ \A type \in plan[a.after.next].requirements :
       a.after.status[type] = "AVAILABLE" => Projectable(type, q, a.intent)

AnswersAreSettled ==
  \A a \in answers :
    /\ AskedOf(a.resolution, a.intent) /\ Settled(a.resolution, a.intent, a.after)
    /\ Concluded(a, resolutions[a.resolution].question, PlanOf(a.resolution, a.intent))

AgentInv == Authorities /\ ContinuationsAreSettled /\ AnswersAreSettled

-----------------------------------------------------------------------------
(* The steps.                                                              *)

LEMMA ProgressedShape ==
  ASSUME NEW q, NEW intent, NEW progress, NEW after \in Progressed(progress, q, intent)
  PROVE  LET investigation == Investigations(q, intent)[progress.next + 1] IN
           /\ after.next = progress.next + 1
           /\ DOMAIN after.status = DOMAIN progress.status \cup PartsOf(investigation)
           /\ \A type \in DOMAIN progress.status \ PartsOf(investigation) :
                after.status[type] = progress.status[type]
           /\ \A type \in investigation.requirements :
                after.status[type] = "AVAILABLE" => Projectable(type, q, intent)
<1> DEFINE investigation == Investigations(q, intent)[progress.next + 1]
           domain == DOMAIN progress.status \cup investigation.requirements
                       \cup investigation.contexts
           Status(evidence, context) ==
             [type \in domain |-> IF type \in investigation.requirements THEN evidence
                                  ELSE IF type \in investigation.contexts THEN context[type]
                                  ELSE progress.status[type]]
           Contexts == {f \in [investigation.contexts -> {"AVAILABLE", "NOT_EVALUABLE"}] :
                          \A c \in investigation.contexts : f[c] \in ContextOutcomes(c, q)}
           After(evidence, context) ==
             [next |-> progress.next + 1, status |-> Status(evidence, context)]
<1>0. Progressed(progress, q, intent) =
        {After(evidence, context) :
           evidence \in EvidenceOutcomes(investigation, q, intent), context \in Contexts}
  BY DEF Progressed, Credited
<1>1. PICK evidence \in EvidenceOutcomes(investigation, q, intent), context \in Contexts :
        after = After(evidence, context)
  <2> HIDE DEF After, Contexts
  <2> QED BY <1>0
<1>2. after.next = progress.next + 1 /\ after.status = Status(evidence, context)
  BY <1>1
<1>3. DOMAIN after.status = DOMAIN progress.status \cup PartsOf(investigation)
  BY <1>2 DEF PartsOf
<1>4. \A type \in DOMAIN progress.status \ PartsOf(investigation) :
        after.status[type] = progress.status[type]
  BY <1>2 DEF PartsOf
<1>5. \A type \in investigation.requirements : after.status[type] = evidence
  BY <1>2
<1>6. evidence = "AVAILABLE" =>
        \A type \in investigation.requirements : Projectable(type, q, intent)
  BY DEF EvidenceOutcomes
<1> QED BY <1>2, <1>3, <1>4, <1>5, <1>6

\* What was settled stays settled: tokens are only added, and answers too.
LEMMA SettledStays ==
  ASSUME NEW r, NEW intent, NEW progress, AskedOf(r, intent),
         \A k \in DOMAIN resolutions :
           k \in DOMAIN resolutions' /\ resolutions'[k] = resolutions[k],
         answers \subseteq answers'
  PROVE  /\ AskedOf(r, intent)'
         /\ resolutions'[r].question = resolutions[r].question
         /\ PlanOf(r, intent)' = PlanOf(r, intent)
         /\ Settled(r, intent, progress) => Settled(r, intent, progress)'
<1>1. r \in DOMAIN resolutions' /\ resolutions'[r] = resolutions[r]
  BY DEF AskedOf
<1>2. PlanOf(r, intent)' = PlanOf(r, intent)
  BY <1>1 DEF PlanOf
<1>3. AskedOf(r, intent)'
  BY <1>1 DEF AskedOf
<1>4. ASSUME NEW type, Earned(r, intent, type) PROVE Earned(r, intent, type)'
  BY <1>2, <1>4 DEF Earned
<1>5. Settled(r, intent, progress) => Settled(r, intent, progress)'
  BY <1>2, <1>4 DEF Settled
<1> QED BY <1>1, <1>2, <1>3, <1>5

LEMMA InitAgent == Init => AgentInv
<1> SUFFICES ASSUME Init PROVE AgentInv
  OBVIOUS
<1>1. session \in Seq(Questions) /\ now \in Nat
  BY AgentAssumption DEF Init
<1>2. resolutions = <<>>
  BY DEF Init
<1> QED BY <1>1, <1>2 DEF Init, AgentInv, Authorities, ContinuationsAreSettled, AnswersAreSettled

\* A step that answers nothing.
LEMMA Unanswered ==
  ASSUME AgentInv, Authorities', UNCHANGED <<continuations, answers>>,
         \A k \in DOMAIN resolutions : k \in DOMAIN resolutions' /\ resolutions'[k] = resolutions[k]
  PROVE  AgentInv'
<1>1. ContinuationsAreSettled'
  <2> SUFFICES ASSUME NEW c \in continuations
               PROVE  /\ AskedOf(c.resolution, c.intent)'
                      /\ Settled(c.resolution, c.intent, c.progress)'
    BY DEF ContinuationsAreSettled
  <2>1. AskedOf(c.resolution, c.intent) /\ Settled(c.resolution, c.intent, c.progress)
    BY DEF AgentInv, ContinuationsAreSettled
  <2> QED BY <2>1, SettledStays
<1>2. AnswersAreSettled'
  <2> SUFFICES ASSUME NEW a \in answers
               PROVE  /\ AskedOf(a.resolution, a.intent)'
                      /\ Settled(a.resolution, a.intent, a.after)'
                      /\ Concluded(a, resolutions'[a.resolution].question,
                                   PlanOf(a.resolution, a.intent)')
    BY DEF AnswersAreSettled
  <2>1. /\ AskedOf(a.resolution, a.intent) /\ Settled(a.resolution, a.intent, a.after)
        /\ Concluded(a, resolutions[a.resolution].question, PlanOf(a.resolution, a.intent))
    BY DEF AgentInv, AnswersAreSettled
  <2>2. /\ resolutions'[a.resolution].question = resolutions[a.resolution].question
        /\ PlanOf(a.resolution, a.intent)' = PlanOf(a.resolution, a.intent)
        /\ AskedOf(a.resolution, a.intent)' /\ Settled(a.resolution, a.intent, a.after)'
    BY <2>1, SettledStays
  <2> QED BY <2>1, <2>2
<1> QED BY <1>1, <1>2 DEF AgentInv

LEMMA TickStep == AgentInv /\ Tick => AgentInv'
<1> SUFFICES ASSUME AgentInv, Tick PROVE AgentInv'
  OBVIOUS
<1>1. session' = session /\ resolutions' = resolutions /\ now' = now + 1
  BY DEF Tick
<1>2. Authorities /\ now + 1 \in Nat
  <2>1. Authorities
    BY DEF AgentInv
  <2>2. now \in Nat
    BY <2>1 DEF Authorities
  <2> QED BY <2>1, <2>2
<1>3. Authorities'
  <2>1. \A r \in DOMAIN resolutions' :
          resolutions'[r].ready => Ready(resolutions'[r].question, TRUE)
    BY <1>1, <1>2, Zenon DEF Authorities
  <2>2. session' \in Seq(Questions) /\ now' \in Nat
        /\ resolutions' \in Seq([question : Questions, ready : BOOLEAN, exp : Nat])
    BY <1>1, <1>2 DEF Authorities
  <2> QED BY <2>1, <2>2 DEF Authorities
<1> QED BY <1>3, Unanswered DEF Tick

LEMMA ResolveStep == AgentInv /\ Resolve => AgentInv'
<1> SUFFICES ASSUME AgentInv, Resolve PROVE AgentInv'
  OBVIOUS
<1> DEFINE Authority == [question : Questions, ready : BOOLEAN, exp : Nat]
           q == session[Len(resolutions) + 1]
<1>1. /\ session \in Seq(Questions) /\ resolutions \in Seq(Authority) /\ now \in Nat
      /\ Ttl \in Nat
  BY AgentAssumption DEF AgentInv, Authorities
<1>2. PICK unique \in BOOLEAN :
        resolutions' = Append(resolutions,
          [question |-> q, ready |-> Ready(q, unique), exp |-> now + Ttl])
  BY DEF Resolve
<1> DEFINE ready == Ready(q, unique)
           new == [question |-> q, ready |-> ready, exp |-> now + Ttl]
<1>3. q \in Questions /\ ready \in BOOLEAN
  BY <1>1 DEF Resolve, Ready
<1>4. new \in Authority
  <2> HIDE DEF q, ready
  <2> QED BY <1>1, <1>3
<1>5. resolutions' = Append(resolutions, new)
  BY <1>2
<1> HIDE DEF new
<1>6. /\ resolutions' \in Seq(Authority)
      /\ \A k \in DOMAIN resolutions : k \in DOMAIN resolutions' /\ resolutions'[k] = resolutions[k]
      /\ DOMAIN resolutions' = DOMAIN resolutions \cup {Len(resolutions) + 1}
      /\ resolutions'[Len(resolutions) + 1] = new
  BY <1>1, <1>4, <1>5
<1>7. new.ready => Ready(new.question, TRUE)
  BY DEF new, Ready
<1>8. \A r \in DOMAIN resolutions' : resolutions'[r].ready => Ready(resolutions'[r].question, TRUE)
  BY <1>6, <1>7 DEF AgentInv, Authorities
<1>9. Authorities'
  BY <1>1, <1>6, <1>8 DEF Authorities, Resolve
<1> QED BY <1>6, <1>9, Unanswered DEF Resolve

LEMMA QuestionsOfResolutions ==
  ASSUME AgentInv, NEW r \in DOMAIN resolutions
  PROVE  resolutions[r].question \in Questions
<1> DEFINE Authority == [question : Questions, ready : BOOLEAN, exp : Nat]
<1>1. resolutions \in Seq(Authority)
  BY DEF AgentInv, Authorities
<1>2. resolutions[r] \in Authority
  <2> HIDE DEF Authority
  <2> QED BY <1>1, ElementOfSeq
<1> QED BY <1>2

\* An investigation carried out on a settled progress: one more answer, and perhaps a token.
LEMMA ExecuteStep ==
  ASSUME AgentInv, NEW r \in DOMAIN resolutions, NEW raw \in RawIntents,
         NEW q, q = resolutions[r].question, NEW intent, intent = IntentOf(q, raw),
         NEW progress, Settled(r, intent, progress), Execute(r, intent, progress),
         UNCHANGED <<session, resolutions, now>>
  PROVE  AgentInv'
<1>0. PICK plan : plan = PlanOf(r, intent)
  OBVIOUS
<1> DEFINE investigation == plan[progress.next + 1]
           Answer(after) ==
             [resolution |-> r, intent |-> intent, before |-> progress, after |-> after,
              status |-> IF Unfinished(after, q, intent) THEN "CONTINUE" ELSE "STOP",
              sufficiency |-> Sufficiency(after, q)]
           Token(after, exp) ==
             [resolution |-> r, intent |-> intent, progress |-> after, exp |-> exp]
<1>1. PICK after \in Progressed(progress, q, intent) :
        /\ answers' = answers \cup {Answer(after)}
        /\ \E exp : continuations' \subseteq continuations \cup {Token(after, exp)}
  BY DEF Execute
<1>1a. PICK exp : continuations' \subseteq continuations \cup {Token(after, exp)}
  BY <1>1
<1>2. progress.next < Len(plan)
  BY <1>0 DEF Execute, ValidState, PlanOf
<1> DEFINE a == Answer(after)
           c == Token(after, exp)
<1>3. /\ a.resolution = r /\ a.intent = intent /\ a.after = after
      /\ a.sufficiency = Sufficiency(after, q)
      /\ a.status = IF Unfinished(after, q, intent) THEN "CONTINUE" ELSE "STOP"
  OBVIOUS
<1>4. c.resolution = r /\ c.intent = intent /\ c.progress = after
  OBVIOUS
<1>5. answers' = answers \cup {a} /\ continuations' \subseteq continuations \cup {c}
  BY <1>1, <1>1a
<1>6. q \in Questions
  BY QuestionsOfResolutions
<1>7. AskedOf(r, intent)
  BY DEF AskedOf
<1> HIDE DEF a, c
<1>8. /\ after.next = progress.next + 1
      /\ DOMAIN after.status = DOMAIN progress.status \cup PartsOf(investigation)
      /\ \A type \in DOMAIN progress.status \ PartsOf(investigation) :
           after.status[type] = progress.status[type]
      /\ \A type \in investigation.requirements :
           after.status[type] = "AVAILABLE" => Projectable(type, q, intent)
  BY <1>0, ProgressedShape DEF PlanOf
<1>9. Len(plan) \in Nat /\ progress.next \in Nat /\ after.next \in 1..Len(plan)
  <2>1. Len(plan) \in Nat
    BY <1>0, PlanShape, <1>6 DEF PlanOf
  <2>2. progress.next \in 0..Len(plan)
    BY <1>0 DEF Settled
  <2> QED BY <2>1, <2>2, <1>2, <1>8
<1>10. \A k \in DOMAIN resolutions : k \in DOMAIN resolutions' /\ resolutions'[k] = resolutions[k]
  OBVIOUS
<1>11. AskedOf(r, intent)' /\ PlanOf(r, intent)' = plan
  BY <1>0, <1>5, <1>7, <1>10, SettledStays
<1>12. Settled(r, intent, after)'
  <2>1. Settled(r, intent, progress)
    OBVIOUS
  <2>2. DOMAIN after.status = UNION {PartsOf(plan[i]) : i \in 1..after.next}
    <3>1. DOMAIN progress.status = UNION {PartsOf(plan[i]) : i \in 1..progress.next}
      BY <1>0, <2>1 DEF Settled
    <3>2. 1..after.next = (1..progress.next) \cup {progress.next + 1}
      BY <1>8, <1>9
    <3> QED BY <3>1, <3>2, <1>8
  <2>3. ASSUME NEW type \in DOMAIN after.status, after.status[type] = "AVAILABLE"
        PROVE  Earned(r, intent, type)'
    <3>1. CASE type \in PartsOf(investigation)
      <4>1. a \in answers' /\ a.after.next = progress.next + 1
        BY <1>3, <1>5, <1>8
      <4> QED BY <4>1, <1>3, <1>11, <2>3, <3>1 DEF Earned
    <3>2. CASE type \notin PartsOf(investigation)
      <4>1. type \in DOMAIN progress.status /\ progress.status[type] = "AVAILABLE"
        BY <1>8, <2>3, <3>2
      <4>2. Earned(r, intent, type)
        BY <4>1, <2>1 DEF Settled
      <4> QED BY <4>2, <1>0, <1>5, <1>11 DEF Earned
    <3> QED BY <3>1, <3>2
  <2> QED BY <2>2, <2>3, <1>9, <1>11 DEF Settled
<1>13. Authorities'
  BY DEF AgentInv, Authorities
<1>14. ContinuationsAreSettled'
  <2> SUFFICES ASSUME NEW t \in continuations'
               PROVE  /\ AskedOf(t.resolution, t.intent)'
                      /\ Settled(t.resolution, t.intent, t.progress)'
    BY DEF ContinuationsAreSettled
  <2>1. CASE t = c
    BY <2>1, <1>4, <1>11, <1>12
  <2>2. CASE t \in continuations
    <3>1. AskedOf(t.resolution, t.intent) /\ Settled(t.resolution, t.intent, t.progress)
      BY <2>2 DEF AgentInv, ContinuationsAreSettled
    <3> QED BY <3>1, <1>5, <1>10, SettledStays
  <2> QED BY <2>1, <2>2, <1>5
<1>15. AnswersAreSettled'
  <2> SUFFICES ASSUME NEW b \in answers'
               PROVE  /\ AskedOf(b.resolution, b.intent)'
                      /\ Settled(b.resolution, b.intent, b.after)'
                      /\ Concluded(b, resolutions'[b.resolution].question,
                                   PlanOf(b.resolution, b.intent)')
    BY DEF AnswersAreSettled
  <2>1. CASE b = a
    BY <2>1, <1>3, <1>8, <1>9, <1>11, <1>12 DEF Concluded
  <2>2. CASE b \in answers
    <3>1. /\ AskedOf(b.resolution, b.intent) /\ Settled(b.resolution, b.intent, b.after)
          /\ Concluded(b, resolutions[b.resolution].question, PlanOf(b.resolution, b.intent))
      BY <2>2 DEF AgentInv, AnswersAreSettled
    <3>2. /\ PlanOf(b.resolution, b.intent)' = PlanOf(b.resolution, b.intent)
          /\ AskedOf(b.resolution, b.intent)' /\ Settled(b.resolution, b.intent, b.after)'
      BY <3>1, <1>5, <1>10, SettledStays
    <3> QED BY <3>1, <3>2
  <2> QED BY <2>1, <2>2, <1>5
<1> QED BY <1>13, <1>14, <1>15 DEF AgentInv

LEMMA AnalyzeStep ==
  ASSUME AgentInv, NEW r \in DOMAIN resolutions, NEW raw \in RawIntents, Analyze(r, raw)
  PROVE  AgentInv'
<1> DEFINE intent == IntentOf(resolutions[r].question, raw)
<1>1. Settled(r, intent, NoProgress)
  <2>1. Len(PlanOf(r, intent)) \in Nat
    BY PlanShape, QuestionsOfResolutions DEF PlanOf
  <2>2. NoProgress.next = 0 /\ DOMAIN NoProgress.status = {}
    BY DEF NoProgress
  <2>3. UNION {PartsOf(PlanOf(r, intent)[i]) : i \in 1..0} = {}
    OBVIOUS
  <2> QED BY <2>1, <2>2, <2>3 DEF Settled
<1> QED BY <1>1, ExecuteStep DEF Analyze

LEMMA ContinueStep ==
  ASSUME AgentInv, NEW r \in DOMAIN resolutions, NEW raw \in RawIntents,
         NEW c \in continuations, Continue(r, raw, c)
  PROVE  AgentInv'
<1>1. Settled(r, IntentOf(resolutions[r].question, raw), c.progress)
  BY DEF Continue, BoundTo, AgentInv, ContinuationsAreSettled
<1> QED BY <1>1, ExecuteStep DEF Continue

LEMMA NextAgent == AgentInv /\ [Next]_vars => AgentInv'
<1> SUFFICES ASSUME AgentInv, [Next]_vars PROVE AgentInv'
  OBVIOUS
<1>1. CASE UNCHANGED vars
  <2>1. Authorities'
    BY <1>1 DEF AgentInv, Authorities, vars
  <2> QED BY <2>1, <1>1, Unanswered DEF vars
<1>2. CASE Next
  BY <1>2, TickStep, ResolveStep, AnalyzeStep, ContinueStep DEF Next
<1> QED BY <1>1, <1>2

\* Tokens and answers are settled: what each says was done is the beginning of its own plan.
THEOREM AlwaysSettled == Spec => []AgentInv
BY InitAgent, NextAgent, PTL DEF Spec

-----------------------------------------------------------------------------
(* The properties.                                                         *)

\* However tokens are repeated, crossed or kept, what an iteration has settled is the outcome of
\* the first investigations of its own plan, and COMPLETE rests on investigations that came out
\* AVAILABLE for its resolution and intent.
LEMMA EarnedFromSettled == AgentInv => ProgressIsEarned
<1> SUFFICES ASSUME AgentInv PROVE ProgressIsPrefix /\ CompleteIsEarned
  BY DEF ProgressIsEarned
<1>1. ProgressIsPrefix
  BY DEF ProgressIsPrefix, AgentInv, AnswersAreSettled, Settled, PlanOf, PartsOf, Plan, QuestionOf
<1>2. CompleteIsEarned
  <2> SUFFICES ASSUME NEW a \in answers, a.sufficiency = "COMPLETE",
                      NEW type \in Required(QuestionOf(a))
               PROVE  \E b \in answers :
                        /\ b.resolution = a.resolution /\ b.intent = a.intent
                        /\ type \in Plan(b)[b.after.next].requirements
                                    \cup Plan(b)[b.after.next].contexts
                        /\ StatusOf(b.after, type) = "AVAILABLE"
    BY DEF CompleteIsEarned
  <2>1. Sufficiency(a.after, QuestionOf(a)) = "COMPLETE"
    BY DEF AgentInv, AnswersAreSettled, Concluded, QuestionOf
  <2>2. StatusOf(a.after, type) = "AVAILABLE"
    BY <2>1 DEF Sufficiency
  <2>3. type \in DOMAIN a.after.status /\ a.after.status[type] = "AVAILABLE"
    BY <2>2 DEF StatusOf
  <2>4. Earned(a.resolution, a.intent, type)
    BY <2>3 DEF AgentInv, AnswersAreSettled, Settled
  <2> QED BY <2>4 DEF Earned, PlanOf, PartsOf, Plan, QuestionOf, StatusOf
<1> QED BY <1>1, <1>2

\* ProgressIsEarned, for any questions, intents, life of the tokens and number of calls.
THEOREM AlwaysEarned == Spec => []ProgressIsEarned
BY AlwaysSettled, EarnedFromSettled, PTL

\* The investigation an answer carried out is of a requirement of its question.
LEMMA CarriedOut ==
  ASSUME AgentInv, NEW a \in answers
  PROVE  /\ QuestionOf(a) \in Questions
         /\ \E raw \in RawIntents : a.intent = IntentOf(QuestionOf(a), raw)
         /\ a.after.next \in 1..Len(Plan(a))
         /\ \E f \in DOMAIN RequiredEvidence(QuestionOf(a)) :
              Plan(a)[a.after.next] = Investigation(f, QuestionOf(a), a.intent)
<1>1. /\ AskedOf(a.resolution, a.intent) /\ Settled(a.resolution, a.intent, a.after)
      /\ a.after.next > 0
  BY DEF AgentInv, AnswersAreSettled, Concluded
<1>2. QuestionOf(a) \in Questions
  BY <1>1, QuestionsOfResolutions DEF AskedOf, QuestionOf
<1>3. a.after.next \in 0..Len(Plan(a))
  BY <1>1 DEF Settled, PlanOf, Plan, QuestionOf
<1>4. Len(Plan(a)) \in Nat
  BY <1>2, PlanShape DEF Plan
<1>5. a.after.next \in 1..Len(Plan(a))
  BY <1>1, <1>3, <1>4
<1> QED BY <1>1, <1>2, <1>5, PlanShape DEF AskedOf, QuestionOf, Plan

LEMMA ComparableFromSettled == AgentInv => AnswersAreComparable
<1> SUFFICES ASSUME AgentInv PROVE CompleteIsComparable /\ ForecastIsOwnStores
  BY DEF AnswersAreComparable
<1>1. CompleteIsComparable
  <2> SUFFICES ASSUME NEW a \in answers, a.sufficiency = "COMPLETE", IsMTD(QuestionOf(a)),
                      a.intent.comparison \in {"YOY", "SAME_CUTOFF_YOY"},
                      "HISTORICAL_REFERENCE" \in Required(QuestionOf(a))
               PROVE  FALSE
    BY DEF CompleteIsComparable
  <2> DEFINE reference == "HISTORICAL_REFERENCE"
  <2>1. PICK b \in answers :
          /\ b.resolution = a.resolution /\ b.intent = a.intent
          /\ reference \in Plan(b)[b.after.next].requirements \cup Plan(b)[b.after.next].contexts
          /\ StatusOf(b.after, reference) = "AVAILABLE"
    BY EarnedFromSettled DEF ProgressIsEarned, CompleteIsEarned
  <2>2. QuestionOf(b) = QuestionOf(a) /\ QuestionOf(b) \in Questions
    BY <2>1, CarriedOut DEF QuestionOf
  <2>3. Plan(b)[b.after.next].contexts \subseteq {"MARKET_CONTEXT", "SALES_CONTEXT"}
    <3>1. PICK f \in DOMAIN RequiredEvidence(QuestionOf(b)) :
            Plan(b)[b.after.next] = Investigation(f, QuestionOf(b), b.intent)
      BY CarriedOut
    <3>2. Plan(b)[b.after.next].contexts \subseteq RequiredContexts(QuestionOf(b))
      BY <3>1 DEF Investigation
    <3> QED BY <3>2 DEF RequiredContexts
  <2>4. reference \in Plan(b)[b.after.next].requirements
    BY <2>1, <2>3
  <2>5. Projectable(reference, QuestionOf(b), b.intent)
    <3>1. Concluded(b, QuestionOf(b), Plan(b))
      BY DEF AgentInv, AnswersAreSettled, QuestionOf, Plan, PlanOf
    <3>2. b.after.status[reference] = "AVAILABLE"
      BY <2>1 DEF StatusOf
    <3> QED BY <3>1, <3>2, <2>4 DEF Concluded
  <2>6. ~HasProposition(QuestionOf(b), b.intent)
    BY <2>2 DEF HasProposition, Questions
  <2>7. ~Comparable(QuestionOf(b), b.intent)
    BY <2>1, <2>2 DEF Comparable, CommonCutoff
  <2> QED BY <2>5, <2>6, <2>7 DEF Projectable
<1>2. ForecastIsOwnStores
  <2> SUFFICES ASSUME NEW a \in answers, Plan(a)[a.after.next].execution = Forecast
               PROVE  a.intent.universe = "OWN_STORES"
    BY DEF ForecastIsOwnStores
  <2>1. PICK f \in DOMAIN RequiredEvidence(QuestionOf(a)) :
          Plan(a)[a.after.next] = Investigation(f, QuestionOf(a), a.intent)
    BY CarriedOut
  <2>2. Execution(RequiredEvidence(QuestionOf(a))[f], QuestionOf(a), a.intent) = Forecast
    BY <2>1 DEF Investigation
  <2>3. RequiredEvidence(QuestionOf(a))[f] \in
          {"CURRENT_RESULT", "CLOSE_EXPECTATION", "CHANGE_CONTRIBUTION", "MARKET_REFERENCE",
           "HISTORICAL_REFERENCE"}
    BY CarriedOut, EvidenceShape
  <2> QED BY <2>2, <2>3, CarriedOut, ForecastNeedsOwnStores
<1> QED BY <1>1, <1>2

\* No complete answer compares an open month with a whole one, and no answer gives the forecast of
\* the own stores the label of another universe.
THEOREM AlwaysComparable == Spec => []AnswersAreComparable
BY AlwaysSettled, ComparableFromSettled, PTL

LEMMA ReadyFromAuthorities == AgentInv => ReadyIsAnswered
<1> SUFFICES ASSUME AgentInv, NEW r \in DOMAIN resolutions, NEW q, q = resolutions[r].question,
                    resolutions[r].ready, q.kind = "EXPECTATION" => IsMTD(q),
                    NEW raw \in RawIntents,
                    raw.comparison = NULL \/ Allows(q, raw.comparison, NULL),
                    raw.universe = NULL \/ raw.universe \in AllowedUniverses(q)
             PROVE  LET intent == IntentOf(q, raw) IN
                      /\ Allows(q, intent.comparison, intent.universe)
                      /\ ValidCombination(q, intent) /\ Len(Investigations(q, intent)) > 0
  BY DEF ReadyIsAnswered
<1>1. q \in Questions
  BY QuestionsOfResolutions
<1>2. Ready(q, TRUE)
  BY DEF AgentInv, Authorities
<1> QED BY <1>1, <1>2, ReadyQuestionIsAnswered

\* What /resolve calls ready, /analyze does not refuse, for any question and any allowed intent.
THEOREM AlwaysAnswered == Spec => []ReadyIsAnswered
BY AlwaysSettled, ReadyFromAuthorities, PTL

\* What is said to a client when there is nothing more to do.
NothingLeftOut ==
  \A a \in answers : a.status = "STOP" =>
    a.sufficiency = "COMPLETE" \/ DOMAIN a.after.status = Required(QuestionOf(a))

\* An answer that tells the client to stop is complete, or has settled everything its question
\* requires: nothing is left out because two requirements share an investigation.
THEOREM AlwaysNothingLeftOut == Spec => []NothingLeftOut
<1>1. AgentInv => NothingLeftOut
  <2> SUFFICES ASSUME AgentInv, NEW a \in answers, a.status = "STOP", a.sufficiency # "COMPLETE"
               PROVE  DOMAIN a.after.status = Required(QuestionOf(a))
    BY DEF NothingLeftOut
  <2>1. /\ QuestionOf(a) \in Questions /\ a.after.next \in 1..Len(Plan(a))
        /\ Len(Plan(a)) \in Nat
    BY CarriedOut, PlanShape DEF Plan
  <2>2. ~Unfinished(a.after, QuestionOf(a), a.intent)
        /\ Sufficiency(a.after, QuestionOf(a)) # "COMPLETE"
    BY DEF AgentInv, AnswersAreSettled, Concluded, QuestionOf
  <2>3. a.after.next = Len(Plan(a))
    BY <2>1, <2>2 DEF Unfinished, Plan
  <2>4. ProgressIsPrefix
    BY EarnedFromSettled DEF ProgressIsEarned
  <2>5. DOMAIN a.after.status =
          UNION {Plan(a)[i].requirements \cup Plan(a)[i].contexts : i \in 1..Len(Plan(a))}
    BY <2>3, <2>4 DEF ProgressIsPrefix
  <2> QED BY <2>1, <2>5, PlanIsWhole DEF Plan
<1> QED BY <1>1, AlwaysSettled, PTL
=============================================================================
