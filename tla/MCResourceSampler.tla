-------------------------- MODULE MCResourceSampler --------------------------
(***************************************************************************)
(* The main thread and the workers of an executor (sampler.cfg), and the   *)
(* main thread with one worker (finding_switches.cfg).                     *)
(***************************************************************************)
EXTENDS ResourceSampler
=============================================================================
