---------------------------- MODULE MCBenchNode ----------------------------
(***************************************************************************)
(* Instances of BenchNode: a node with a subscription and a timer, or with *)
(* a timer only.                                                           *)
(***************************************************************************)
EXTENDS BenchNode, TLC

CONSTANTS n1, probe, timer

OneNode == probe :> n1 @@ timer :> n1

TimerOnly == timer :> n1

\* Every value of the parameter, and one the constructor does not know.
AllGroups == {"mutually_exclusive", "per_entity", "default", "reentrant", "exclusive"}

Symmetry == Permutations(Threads)
=============================================================================
