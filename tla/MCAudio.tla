------------------------------- MODULE MCAudio -------------------------------
(* Instances of the speaker for TLC.                                       *)
EXTENDS Audio
=============================================================================
