---------------------------- MODULE MCOperators ----------------------------
(* Instances of Operators for TLC.                                         *)
EXTENDS Operators, TLC

TwoOfThree == <<3, 2>>
ValidTierShapes == {TwoOfThree}

HeldSymmetry == Permutations(HeldKeys)
=============================================================================
