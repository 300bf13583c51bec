--------------------------- MODULE MCRunLifecycle ---------------------------
(* Two bench nodes, and a build without one of the optional executors.     *)
EXTENDS RunLifecycle
=============================================================================
