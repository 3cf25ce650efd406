------------------------- MODULE WeeklyProjections -------------------------
(***************************************************************************)
(* The weekly sales projections: POST, PATCH and DELETE of                 *)
(* api/weekly-projections/projections.js, the resolution of CRM            *)
(* opportunities they are validated with (lib/weekly-projections/crm.js),  *)
(* and the page that sends them and keeps a line until it is answered.     *)
(*                                                                         *)
(* Every query is a statement of its own: the rosters, the portfolio, the  *)
(* CRM table and the row itself may change between any two of them.        *)
(***************************************************************************)
EXTENDS Naturals, FiniteSets

CONSTANTS
  Lines, Edits, Removals, \* requests: POST, PATCH, DELETE
  Scenarios,              \* sets of requests that are made together
  Body,                   \* what a POST or a PATCH carries
  Branches, Sellers, Models, Opportunities,
  AliasesOf,              \* the names of a seller, each a set of tokens
  LengthOf,               \* the length of the normalised name of a model
  Mentions,               \* the models each product text names, with their brand
  Tickets,                \* what a row of the CRM table may say of an opportunity
  MaxRows, MaxChanges,    \* bounds: rows ever inserted, changes of masters and CRM
  NULL

Requests == Lines \cup Edits \cup Removals

ASSUME ProjectionsAssumption ==
  /\ MaxRows \in Nat /\ MaxChanges \in Nat
  /\ \A s \in Sellers : AliasesOf[s] # {} /\ \A a \in AliasesOf[s] : IsFiniteSet(a)
  /\ \A s \in Scenarios : s \subseteq Requests
  /\ Lines \cap (Edits \cup Removals) = {} /\ Edits \cap Removals = {}
  /\ \A m \in Models : LengthOf[m] \in Nat

VARIABLES
  rows,      \* weekly_sales_projection by projection_id; NULL once deleted
  roster,    \* who is a current seller of which branch
  portfolio, \* the models in the current portfolio
  crm,       \* the ticket of each opportunity, or NULL
  active,    \* the scenario
  pc,        \* the statement each request is about to send
  target,    \* the projection_id a PATCH or a DELETE names
  about,     \* the branch, seller and week a request is about, once it knows them
  changes,   \* changes made so far
  held       \* history: the suggested link of a request has resolved since it began

vars == <<rows, roster, portfolio, crm, active, pc, target, about, changes, held>>

(***************************************************************************)
(* resolutionCtes: who an opportunity is about.                            *)
(***************************************************************************)
Score(s, tokens) ==
  CHOOSE n \in {Cardinality(tokens \cap a) : a \in AliasesOf[s]} :
    \A a \in AliasesOf[s] : Cardinality(tokens \cap a) <= n

BestSellers(branch, tokens) ==
  {s \in Sellers : /\ <<branch, s>> \in roster /\ Score(s, tokens) >= 2
                   /\ \A t \in Sellers : <<branch, t>> \in roster =>
                        Score(t, tokens) <= Score(s, tokens)}

BestModels(product) ==
  LET named == Mentions[product] \cap portfolio
  IN {m \in named : \A n \in named : LengthOf[n] <= LengthOf[m]}

IsOpen(o) == crm[o] # NULL /\ crm[o].open
InBase(o, branch) == IsOpen(o) /\ crm[o].branch = branch /\ crm[o].product # NULL

Resolves(o, branch, s, m) ==
  /\ InBase(o, branch)
  /\ BestSellers(branch, crm[o].assigned) = {s}
  /\ BestModels(crm[o].product) = {m}

Init ==
  /\ rows = <<>>
  /\ roster = Branches \X Sellers /\ portfolio = Models
  /\ crm \in [Opportunities -> Tickets]
  /\ active \in Scenarios
  /\ pc = [r \in Requests |-> "idle"] /\ target = [r \in Requests |-> NULL]
  /\ about = [r \in Requests |-> NULL]
  /\ changes = 0
  /\ held = [r \in Requests |-> FALSE]

Ids == DOMAIN rows
Live == {i \in Ids : rows[i] # NULL}
Running(r) == pc[r] \notin {"idle", "saved", "rejected", "failed"}
Goto(r, next) == pc' = [pc EXCEPT ![r] = next]
Masters == <<roster, portfolio, crm, changes, active>>

\* The row a request would write is about this branch and seller.
OwnerOf(r) == IF r \in Lines THEN Body[r].owner ELSE rows[target[r]].owner

\* Its suggested link resolves, now.
Holds(r) ==
  /\ r \in Lines \/ (r \in Edits /\ target[r] \in Live)
  /\ Body[r].method = "SUGGESTED"
  /\ Resolves(Body[r].opportunity, OwnerOf(r).branch, OwnerOf(r).seller, Body[r].model)

Observed == held' = [r \in Requests |-> Running(r)' /\ (Holds(r)' \/ (Running(r) /\ held[r]))]

(***************************************************************************)
(* The page.                                                               *)
(***************************************************************************)

\* A line stays pending until its POST is answered with 201, and is sent again.
SaveLine(l) ==
  /\ l \in Lines \cap active /\ pc[l] \in {"idle", "rejected", "failed"} /\ Cardinality(Ids) < MaxRows
  /\ Goto(l, "dimensions")
  /\ about' = [about EXCEPT ![l] = Body[l].owner]
  /\ UNCHANGED <<rows, target, Masters>>

\* The form of a row that was shown, perhaps before another page deleted it.
Ask(r) ==
  /\ r \in active \ Lines /\ pc[r] = "idle"
  /\ \E i \in Ids : target' = [target EXCEPT ![r] = i]
  /\ Goto(r, IF r \in Edits THEN "read" ELSE "write")
  /\ UNCHANGED <<rows, about, Masters>>

(***************************************************************************)
(* The handlers.                                                           *)
(***************************************************************************)
Unanswered(r) ==
  /\ Running(r)
  /\ Goto(r, "failed")
  /\ UNCHANGED <<rows, target, about, Masters>>

\* A PATCH is about the branch and the seller of the row it read, which no statement changes.
\* Mutant of Current: the branch and the seller of a PATCH come from its body.
CurrentInBody(e) == Body[e].owner

Current(e) == rows[target[e]].owner

ReadCurrent(e) ==
  /\ pc[e] = "read"
  /\ IF target[e] \in Live
     THEN Goto(e, "dimensions") /\ about' = [about EXCEPT ![e] = Current(e)]
     ELSE Goto(e, "rejected") /\ UNCHANGED about
  /\ UNCHANGED <<rows, target, Masters>>

ValidDimensions(r) ==
  <<about[r].branch, about[r].seller>> \in roster /\ Body[r].model \in portfolio

ValidateDimensions(r) ==
  /\ pc[r] = "dimensions"
  /\ Goto(r, IF ~ValidDimensions(r) THEN "rejected"
             ELSE IF Body[r].method = "NONE" THEN "write" ELSE "open")
  /\ UNCHANGED <<rows, target, about, Masters>>

FindOpen(r) ==
  /\ pc[r] = "open"
  /\ Goto(r, IF IsOpen(Body[r].opportunity) THEN "compatible" ELSE "rejected")
  /\ UNCHANGED <<rows, target, about, Masters>>

\* A manual link that does not resolve is only warned about.
FindCompatible(r) ==
  /\ pc[r] = "compatible"
  /\ Goto(r, IF /\ Body[r].method = "SUGGESTED"
                /\ ~Resolves(Body[r].opportunity, about[r].branch, about[r].seller, Body[r].model)
             THEN "rejected" ELSE "write")
  /\ UNCHANGED <<rows, target, about, Masters>>

OpportunityOf(r) == IF Body[r].method = "NONE" THEN NULL ELSE Body[r].opportunity

Stored(r, owner) ==
  [owner |-> owner, model |-> Body[r].model, opportunity |-> OpportunityOf(r),
   method |-> Body[r].method, by |-> r]

Changed(r) == Stored(r, rows[target[r]].owner)

\* The unique index whose violation is answered with 409: one projection per week and opportunity.
\* Mutant of Taken: the row's own key is the only one looked at.
TakenBySame(row, i) == row.opportunity # NULL /\ i \in Live /\ rows[i] = row

Taken(row, i) ==
  /\ row.opportunity # NULL
  /\ \E j \in Live \ {i} : /\ rows[j].opportunity = row.opportunity
                           /\ rows[j].owner.week = row.owner.week

InsertProjection(l) ==
  /\ l \in Lines /\ pc[l] = "write"
  /\ Cardinality(Ids) < MaxRows
  /\ LET i == Cardinality(Ids) + 1
         row == Stored(l, about[l])
     IN IF Taken(row, i) THEN Goto(l, "rejected") /\ UNCHANGED rows
        ELSE /\ rows' = [j \in Ids \cup {i} |-> IF j = i THEN row ELSE rows[j]]
             /\ Goto(l, "saved") \/ Goto(l, "failed")
  /\ UNCHANGED <<target, about, Masters>>

\* UPDATE ... WHERE projection_id: nothing is changed, and 200 answered, if the row is gone.
\* Mutant of Touched: the row is written whether it is there or not.
TouchedAnyway(i) == TRUE

Touched(i) == i \in Live

UpdateProjection(e) ==
  /\ e \in Edits /\ pc[e] = "write"
  /\ IF ~Touched(target[e]) THEN Goto(e, "saved") /\ UNCHANGED rows
     ELSE LET row == IF target[e] \in Live THEN Changed(e) ELSE Stored(e, about[e])
          IN IF Taken(row, target[e]) THEN Goto(e, "rejected") /\ UNCHANGED rows
             ELSE /\ rows' = [rows EXCEPT ![target[e]] = row]
                  /\ Goto(e, "saved") \/ Goto(e, "failed")
  /\ UNCHANGED <<target, about, Masters>>

DeleteProjection(d) ==
  /\ d \in Removals /\ pc[d] = "write"
  /\ rows' = [rows EXCEPT ![target[d]] = NULL]
  /\ Goto(d, "saved") \/ Goto(d, "failed")
  /\ UNCHANGED <<target, about, Masters>>

(***************************************************************************)
(* The masters and the CRM table, which other programs write.              *)
(***************************************************************************)
Change ==
  /\ changes < MaxChanges
  /\ changes' = changes + 1 /\ UNCHANGED active
  /\ \/ \E x \in Branches \X Sellers :
          /\ roster' = IF x \in roster THEN roster \ {x} ELSE roster \cup {x}
          /\ UNCHANGED <<portfolio, crm>>
     \/ \E m \in Models :
          /\ portfolio' = IF m \in portfolio THEN portfolio \ {m} ELSE portfolio \cup {m}
          /\ UNCHANGED <<roster, crm>>
     \/ \E o \in Opportunities, t \in Tickets \cup {NULL} :
          /\ t # NULL => crm[o] = NULL \/ t # crm[o]
          /\ crm' = [crm EXCEPT ![o] = t]
          /\ UNCHANGED <<roster, portfolio>>
  /\ UNCHANGED <<rows, pc, target, about>>

Handle(r) ==
  \/ ReadCurrent(r) \/ ValidateDimensions(r) \/ FindOpen(r) \/ FindCompatible(r)
  \/ InsertProjection(r) \/ UpdateProjection(r) \/ DeleteProjection(r)

Step == Change \/ \E r \in Requests : SaveLine(r) \/ Ask(r) \/ Unanswered(r) \/ Handle(r)

Next == Step /\ Observed

Spec == Init /\ [][Next]_vars
----------------------------------------------------------------------------

\* An opportunity is never suggested to two sellers of a branch, nor for two models, whoever
\* comes and goes in the roster and whatever names they share.
SuggestedToOne ==
  \A o \in Opportunities, b \in Branches, s, t \in Sellers, m, n \in Models :
    Resolves(o, b, s, m) /\ Resolves(o, b, t, n) => s = t /\ m = n

\* A projection stored with a suggested opportunity has the branch, the seller and the model that
\* this opportunity resolved to at some moment since the request that stored it began: no edit,
\* retry or change of the masters leaves a row with the link of one request and the seller or the
\* model of another.
SuggestedWasCompatible ==
  [][\A i \in Live' :
       ~(i \in Live /\ rows[i] = rows'[i]) /\ rows'[i].method = "SUGGESTED" => held[rows'[i].by]]_vars

\* In a week an opportunity is projected once, although a line whose answer was lost is sent
\* again and two pages edit at the same time.
ProjectedOnce ==
  \A i, j \in Live :
    /\ rows[i].opportunity # NULL /\ rows[i].opportunity = rows[j].opportunity
    /\ rows[i].owner.week = rows[j].owner.week
    => i = j

\* Opportunities are suggested to one seller and projected in one row of a week.
LinksAreOneToOne == SuggestedToOne /\ ProjectedOnce

\* What one page deleted, no edit another page had begun before brings back.
DeletedStaysDeleted == [][\A i \in Ids \ Live : rows'[i] = NULL]_vars
=============================================================================
