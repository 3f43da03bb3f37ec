---------------------------- MODULE WellTestsMC ----------------------------
(***************************************************************************)
(* Instances of WellTests for TLC: two tests of one unit or of two.        *)
(***************************************************************************)
EXTENDS WellTests, TLC

CONSTANTS j1, j2, u1, u2

OneUnitEach == [j \in Jobs |-> IF j = j1 THEN u1 ELSE u2]

Symmetry == Permutations(Tests) \cup Permutations(Operators)
=============================================================================
