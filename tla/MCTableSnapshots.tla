------------------------- MODULE MCTableSnapshots -------------------------
(***************************************************************************)
(* Small instances of TableSnapshots: two imports of files that share a    *)
(* vehicle, repeat one, and lack one the table has.                        *)
(***************************************************************************)
EXTENDS TableSnapshots, TLC

CONSTANTS first, second, old, new, a, b, c

MCContents == [f \in {old, new} |-> IF f = old THEN <<a, b>> ELSE <<c, c>>]
Symmetry == Permutations({first, second})
=============================================================================
