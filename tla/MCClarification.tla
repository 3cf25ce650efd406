-------------------------- MODULE MCClarification --------------------------
(***************************************************************************)
(* The questions of the golden corpus for Clarification, named by their id *)
(* (lib/protocol/grounding/fixtures/goldenCorpus.js), asked alone and after*)
(* another, and readings of them.                                          *)
(***************************************************************************)
EXTENDS Clarification, TLC

Question(lexical) ==
    [lexical |-> lexical, external |-> Nothing, clash |-> FALSE, prior |-> Nothing]
After(prior, q) == [q EXCEPT !.prior = prior]

\* Foton, CIDEF and Plaza Norte have one type each, so the grain follows, as it does of "us"; the
\* periods named are all read as they are.
Foton == "subject" :> Pending("ONE_TYPE")
Us == "subject" :> [Pending("ONE_TYPE") EXCEPT !.by = "INFERRED"]
InAugust == "temporal" :> Said("OTHER")
AgainstTheMarket == "comparison" :> Said("MARKET")
WithAnother == "comparison" :> Said("OTHER")
HowIsIt == Intent("ASSESS", "BROAD")

\* How much did Foton sell in August?  Is there a risk at Foton?
G01 == Question(Intent("OTHER", "FOCUSED") @@ Foton @@ InAugust)
G05 == Question(Intent("ASSESS", "FOCUSED") @@ Foton)
\* Why did we sell less?  How is Foton doing against the market?  Compare it with last year.  All of
\* August.  How are we against what was expected?
G06InAugust == Question(Intent("EXPLAIN", "FOCUSED") @@ Us @@ InAugust)
G03InAugust == Question(Intent("COMPARE", "FOCUSED") @@ Foton @@ InAugust @@ AgainstTheMarket)
G07InAugust == Question(Intent("COMPARE", "FOCUSED") @@ InAugust @@ WithAnother)
G14 == Question(Intent("COMPARE", "FOCUSED") @@ Us @@ WithAnother)
\* How is Foton doing?  And CIDEF this month?  What is going on?  And Foton in own stores only, without
\* the market?
G02 == Question(HowIsIt @@ Foton)
G04 == Question(HowIsIt @@ Foton @@ InAugust)
G15 == Question(HowIsIt)
G18 == Question(HowIsIt @@ Foton @@ OwnStores)
G19 == Question(HowIsIt @@ Foton @@ SinMercado)
\* And Plaza Norte?  And of August?  Last quarter.  Without the market.
G08 == Question(Foton)
G08InAugust == Question(Foton @@ InAugust)
G09 == Question(InAugust)
G12 == Question(SinMercado)

Corpus ==
    {G01, G02, G03InAugust, G04, G05, G06InAugust, G07InAugust, G08, G08InAugust, G09, G12, G14, G15,
     G18, G19}

\* What the contracts of G02 and of G01 in own stores carry over to what is asked after them.
G02Contract == [p \in {"subject", "operation", "breadth", "concepts", "grain"} |->
    CASE p = "subject"   -> Pending("ONE_TYPE")
      [] p = "operation" -> Said("ASSESS")
      [] p = "breadth"   -> Inferred("BROAD")
      [] OTHER           -> Inferred("OTHER")]
G01Contract == [p \in {"subject", "operation", "breadth", "concepts", "grain", "temporal", "universe"} |->
    CASE p = "subject"  -> Pending("ONE_TYPE")
      [] p = "breadth"  -> Inferred("FOCUSED")
      [] p = "universe" -> Said("OWN_STORES")
      [] OTHER          -> Said("OTHER")]
Continued == {After(G02Contract, G09), After(G02Contract, G12), After(G01Contract, G07InAugust), After(G01Contract, G08)}

\* An external candidate reads an organization into G01, takes a question for a broad one that
\* observes, reads all but the evidence proposition, or contradicts what G01 says.
G01Read == [G01 EXCEPT !.external = ("organization" :> Said("OTHER"))]
BroadObserve == [Question(Foton) EXCEPT !.external =
    [p \in {"operation", "breadth", "concepts"} |->
        IF p = "breadth" THEN Inferred("BROAD") ELSE Inferred("OTHER")]]
HalfRead == [Question(Foton @@ InAugust) EXCEPT !.external =
    [p \in {"operation", "breadth"} |->
        IF p = "breadth" THEN Inferred("FOCUSED") ELSE Inferred("OTHER")]]
Contradicted == [G01 EXCEPT !.clash = TRUE]

MCAsked == Corpus \cup Continued \cup {G01Read, BroadObserve, HalfRead, Contradicted}
MCFreeText == {Said("ASSESS")}
=============================================================================
