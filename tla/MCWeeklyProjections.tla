------------------------ MODULE MCWeeklyProjections ------------------------
(***************************************************************************)
(* A branch with two sellers whose names share two tokens; two models, one *)
(* named inside the other; one opportunity that may be assigned to         *)
(* either, be ambiguous, name either model, or be closed.                  *)
(***************************************************************************)
EXTENDS WeeklyProjections

CONSTANTS first, again, edit, unlink, remove, north, ana, eva, x7, x70, deal, plain, wide

Week(s) == [branch |-> north, seller |-> s, week |-> 1]
Ask4(s, m, o, how) == [owner |-> Week(s), model |-> m, opportunity |-> o, method |-> how]

MCBody == [r \in {first, again, edit, unlink} |->
  IF r = first THEN Ask4(ana, x7, deal, "SUGGESTED")
  ELSE IF r = again THEN Ask4(eva, x70, deal, "MANUAL")
  ELSE IF r = edit THEN Ask4(eva, x70, deal, "SUGGESTED")
  ELSE Ask4(ana, x70, deal, "NONE")]

\* Tokens: 1 and 2 are shared, 3 and 4 tell the sellers apart.
MCAliasesOf == [s \in {ana, eva} |-> IF s = ana THEN {{1, 2, 3}} ELSE {{1, 2, 4}, {4}}]
MCLengthOf == [m \in {x7, x70} |-> IF m = x7 THEN 2 ELSE 3]
MCMentions == [p \in {plain, wide} |-> IF p = plain THEN {x7} ELSE {x7, x70}]

Ticket(open, tokens, product) ==
  [open |-> open, branch |-> north, assigned |-> tokens, product |-> product]
MCScenarios == {{first, again, edit}, {first, edit, unlink}, {first, edit, remove}}
MCTickets ==
  {Ticket(TRUE, {1, 3}, plain), Ticket(TRUE, {1, 2, 4}, wide), Ticket(TRUE, {1, 2}, wide),
   Ticket(FALSE, {1, 2, 3}, plain)}
=============================================================================
