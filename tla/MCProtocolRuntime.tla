------------------------- MODULE MCProtocolRuntime -------------------------
(***************************************************************************)
(* Small instances of ProtocolRuntime.  The observed result is the goal of *)
(* a FOCUSED question and one entry of a BROAD menu; satisfying it opens   *)
(* two CONDITIONAL goals and a SUPPLEMENTAL one.                           *)
(***************************************************************************)
EXTENDS ProtocolRuntime

CONSTANTS observed, trajectory, change, risk, extra, low, high

MCGoals == {observed, trajectory, change, risk, extra}
MCClass == [g \in MCGoals |-> CASE g \in {observed, trajectory} -> "REQUIRED"
                                [] g \in {change, risk} -> "CONDITIONAL"
                                [] OTHER -> "SUPPLEMENTAL"]
Gate == [accepts |-> {observed}, matches |-> {high}]
Rule(target, depth) ==
  [signal |-> Gate, source |-> observed, target |-> target, depth |-> depth]
MCSignalRules == {Gate}
OneOfEach == {Rule(change, 1), Rule(extra, 1), Rule(risk, 3)}
AllRules == {Rule(change, 1), Rule(risk, 2), Rule(extra, 1), Rule(extra, 3)}
=============================================================================
