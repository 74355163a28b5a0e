----------------------------- MODULE MCLifecycle -----------------------------
(* Instances of the main loop for TLC.                                     *)
EXTENDS Lifecycle
=============================================================================
