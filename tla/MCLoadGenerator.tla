-------------------------- MODULE MCLoadGenerator --------------------------
(***************************************************************************)
(* Every publish mode of LoadGenerator, and one the constructor does not   *)
(* know.                                                                   *)
(***************************************************************************)
EXTENDS LoadGenerator

AllModes == {"burst", "round_robin", "multi_rate", "poisson"}
=============================================================================
