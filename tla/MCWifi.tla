-------------------------------- MODULE MCWifi --------------------------------
(* Instances of the network worker for TLC.                                *)
EXTENDS WifiService
=============================================================================
