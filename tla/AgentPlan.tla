----------------------------- MODULE AgentPlan -----------------------------
(***************************************************************************)
(* /resolve and /analyze, one investigation a call.  The server keeps      *)
(* nothing: a resolution and a continuation are sealed tokens the client   *)
(* brings back, in any combination, any number of times, until they        *)
(* expire (resolutionToken.js, continuationToken.js, analyzeIntent.js,     *)
(* executeDecisionPlan.js).                                                *)
(***************************************************************************)
EXTENDS DecisionPlan

CONSTANTS
  Sessions,    \* the questions a client may have resolved, one after another
  RawIntents,  \* what a client may put in the intent of a call: [comparison, universe]
  Ttl, MaxTime, MaxCalls  \* bounds

ASSUME AgentAssumption ==
  /\ Ttl \in Nat /\ MaxTime \in Nat /\ MaxCalls \in Nat
  /\ Sessions \subseteq Seq(Questions) /\ RawIntents \subseteq Intents

VARIABLES
  session,
  resolutions,   \* the authorities issued: question, ready, moment of expiry
  continuations, \* the continuations issued
  answers,       \* the iterations answered
  calls,         \* calls made so far
  now

vars == <<session, resolutions, continuations, answers, calls, now>>

\* next counts the investigations done, status is what each requirement came to.
NoProgress == [next |-> 0, status |-> <<>>]

Init ==
  /\ session \in Sessions
  /\ resolutions = <<>> /\ continuations = {} /\ answers = {}
  /\ calls = 0 /\ now = 0

\* Two resolutions of one question are two tokens.
Resolve ==
  /\ Len(resolutions) < Len(session)
  /\ LET q == session[Len(resolutions) + 1]
     IN \E unique \in BOOLEAN :
          resolutions' = Append(resolutions,
            [question |-> q, ready |-> Ready(q, unique), exp |-> now + Ttl])
  /\ UNCHANGED <<session, continuations, answers, calls, now>>

(***************************************************************************)
(* executeDecisionPlan.                                                    *)
(***************************************************************************)
Required(q) == ToSet(RequiredEvidence(q)) \cup RequiredContexts(q)

\* An investigation is available only if every one of its requirements is.
EvidenceOutcomes(investigation, q, intent) ==
  IF /\ investigation.execution # NULL
     /\ \A type \in investigation.requirements : Projectable(type, q, intent)
  THEN {"AVAILABLE", "NOT_EVALUABLE"} ELSE {"NOT_EVALUABLE"}

ContextOutcomes(type, q) ==
  IF ContextExecutable(type, q) THEN {"AVAILABLE", "NOT_EVALUABLE"} ELSE {"NOT_EVALUABLE"}

Credited(investigation, q) == investigation.requirements

\* What one call makes of the progress it was brought.
Progressed(progress, q, intent) ==
  LET investigation == Investigations(q, intent)[progress.next + 1]
      credited == Credited(investigation, q)
  IN {[next |-> progress.next + 1,
       status |-> [type \in DOMAIN progress.status \cup credited \cup investigation.contexts |->
                     IF type \in credited THEN evidence
                     ELSE IF type \in investigation.contexts THEN context[type]
                     ELSE progress.status[type]]] :
        evidence \in EvidenceOutcomes(investigation, q, intent),
        context \in {f \in [investigation.contexts -> {"AVAILABLE", "NOT_EVALUABLE"}] :
                       \A c \in investigation.contexts : f[c] \in ContextOutcomes(c, q)}}

StatusOf(progress, type) == IF type \in DOMAIN progress.status THEN progress.status[type] ELSE "PENDING"

\* evaluateProgress.
Sufficiency(progress, q) ==
  CASE \A type \in Required(q) : StatusOf(progress, type) = "AVAILABLE" -> "COMPLETE"
    [] \/ \E type \in Required(q) : StatusOf(progress, type) = "PENDING"
       \/ \E type \in ToSet(RequiredEvidence(q)) : StatusOf(progress, type) = "AVAILABLE" -> "PARTIAL"
    [] OTHER -> "INSUFFICIENT"

(***************************************************************************)
(* analyzeIntent.                                                          *)
(***************************************************************************)

\* Mutant of BoundTo: a continuation is tied to the resolution and not to the intent.
BoundToResolution(c, r, intent) == c.resolution = r

BoundTo(c, r, intent) == c.resolution = r /\ c.intent = intent

ValidState(progress, q, intent) == progress.next < Len(Investigations(q, intent))

Unfinished(progress, q, intent) ==
  Sufficiency(progress, q) # "COMPLETE" /\ progress.next < Len(Investigations(q, intent))

Accepts(r, intent) ==
  LET authority == resolutions[r]
  IN /\ authority.exp >= now /\ authority.ready
     /\ Allows(authority.question, intent.comparison, intent.universe)
     /\ ValidCombination(authority.question, intent)

Execute(r, intent, progress) ==
  LET q == resolutions[r].question
  IN /\ ValidState(progress, q, intent)
     /\ \E after \in Progressed(progress, q, intent) :
          LET more == Unfinished(after, q, intent)
          IN /\ answers' = answers \cup
                  {[resolution |-> r, intent |-> intent, before |-> progress, after |-> after,
                    status |-> IF more THEN "CONTINUE" ELSE "STOP", sufficiency |-> Sufficiency(after, q)]}
             /\ continuations' = IF ~more THEN continuations
                  ELSE continuations \cup {[resolution |-> r, intent |-> intent,
                                            progress |-> after, exp |-> now + Ttl]}

\* A call that is refused answers an error and changes nothing.
Analyze(r, raw) ==
  LET intent == IntentOf(resolutions[r].question, raw)
  IN /\ calls < MaxCalls
     /\ Accepts(r, intent)
     /\ Execute(r, intent, NoProgress)
     /\ calls' = calls + 1
     /\ UNCHANGED <<session, resolutions, now>>

Continue(r, raw, c) ==
  LET intent == IntentOf(resolutions[r].question, raw)
  IN /\ calls < MaxCalls
     /\ Accepts(r, intent) /\ c.exp >= now /\ BoundTo(c, r, intent)
     /\ Execute(r, intent, c.progress)
     /\ calls' = calls + 1
     /\ UNCHANGED <<session, resolutions, now>>

Tick ==
  /\ now < MaxTime
  /\ now' = now + 1
  /\ UNCHANGED <<session, resolutions, continuations, answers, calls>>

Next ==
  \/ Resolve \/ Tick
  \/ \E r \in DOMAIN resolutions, raw \in RawIntents :
       Analyze(r, raw) \/ \E c \in continuations : Continue(r, raw, c)

Spec == Init /\ [][Next]_vars
----------------------------------------------------------------------------

QuestionOf(a) == resolutions[a.resolution].question
Plan(a) == Investigations(QuestionOf(a), a.intent)

\* However tokens are repeated, crossed or kept, what an iteration has settled is the outcome of
\* the first investigations of its own plan, all of them and no other: none is skipped, and one
\* that serves two requirements settles both.
ProgressIsPrefix ==
  \A a \in answers :
    DOMAIN a.after.status =
      UNION {Plan(a)[i].requirements \cup Plan(a)[i].contexts : i \in 1..a.after.next}

\* An answer that says COMPLETE rests, for each thing its question requires, on an investigation
\* that came out AVAILABLE for this very resolution and intent.
CompleteIsEarned ==
  \A a \in answers : a.sufficiency = "COMPLETE" =>
    \A type \in Required(QuestionOf(a)) : \E b \in answers :
      /\ b.resolution = a.resolution /\ b.intent = a.intent
      /\ type \in Plan(b)[b.after.next].requirements \cup Plan(b)[b.after.next].contexts
      /\ StatusOf(b.after, type) = "AVAILABLE"

\* No complete answer compares a month that is still open with the whole of the same month of the
\* year before.
CompleteIsComparable ==
  \A a \in answers :
    a.sufficiency = "COMPLETE" /\ IsMTD(QuestionOf(a)) /\ a.intent.comparison \in {"YOY", "SAME_CUTOFF_YOY"}
      => "HISTORICAL_REFERENCE" \notin Required(QuestionOf(a))

\* Own-store evidence is never given the label of another universe (the comment at
\* executionRegistry.js:31).
ForecastIsOwnStores ==
  \A a \in answers : Plan(a)[a.after.next].execution = Forecast => a.intent.universe = "OWN_STORES"

\* What /resolve calls ready, /analyze does not refuse, whatever allowed comparison and universe the
\* client adds; but for the expectation of a period that is not the current month.
ReadyIsAnswered ==
  \A r \in DOMAIN resolutions : LET q == resolutions[r].question IN
    resolutions[r].ready /\ (q.kind = "EXPECTATION" => IsMTD(q)) =>
      \A raw \in RawIntents : LET intent == IntentOf(q, raw) IN
        (raw.comparison = NULL \/ Allows(q, raw.comparison, NULL))
        /\ (raw.universe = NULL \/ raw.universe \in AllowedUniverses(q))
        => /\ Allows(q, intent.comparison, intent.universe) /\ ValidCombination(q, intent)
           /\ Len(Investigations(q, intent)) > 0

\* Progress and completeness both rest on investigations that were carried out for their own plan.
ProgressIsEarned == ProgressIsPrefix /\ CompleteIsEarned

\* Neither the periods nor the universes of an answer are mixed.
AnswersAreComparable == CompleteIsComparable /\ ForecastIsOwnStores
=============================================================================
