-------------------------------- MODULE MCWpa --------------------------------
(* Instances of the hand-over to wpa_supplicant for TLC.                   *)
EXTENDS WpaControl
=============================================================================
