------------------------------- MODULE MCBoot -------------------------------
(* Instances of the boot guard for TLC.                                    *)
EXTENDS BootGuardRefinement
=============================================================================
