------------------------- MODULE MCCallbackRecorder -------------------------
(***************************************************************************)
(* Three threads, two recorders of two samples and three callbacks, so     *)
(* that a recorder can overflow (recorder.cfg).  The threads are model     *)
(* values that SteadyThread tells apart, hence no symmetry.                *)
(***************************************************************************)
EXTENDS CallbackRecorder
=============================================================================
