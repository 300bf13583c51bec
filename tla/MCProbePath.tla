---------------------------- MODULE MCProbePath ----------------------------
(***************************************************************************)
(* Instances of ProbePath.                                                 *)
(***************************************************************************)
EXTENDS ProbePath

BothGroups == {"per_entity", "reentrant"}

OnlyReentrant == {"reentrant"}

AllModes == {"burst", "round_robin", "multi_rate"}

MultiRate == {"multi_rate"}

Symmetry == Permutations(Threads)
=============================================================================
