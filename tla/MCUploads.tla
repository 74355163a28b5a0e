------------------------------ MODULE MCUploads ------------------------------
(* Instances of the uploads for TLC.                                       *)
EXTENDS Uploads
=============================================================================
