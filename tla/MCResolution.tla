---------------------------- MODULE MCResolution ----------------------------
(* Instances of ResolutionProperties for TLC.                              *)
EXTENDS ResolutionProperties, TLC

(* Two of three, beside a shape the parameter's bounds allow and `_shapeOf` *)
(* refuses: two of four, where two answers could both reach the threshold. *)
TwoOfThree == <<3, 2>>
AllowedTierShapes == {TwoOfThree, <<4, 2>>}

AgentSymmetry == Permutations(Agents)
=============================================================================
