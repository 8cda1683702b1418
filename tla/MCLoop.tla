-------------------------------- MODULE MCLoop --------------------------------
(* Instances of Loop for TLC.                                              *)
EXTENDS Loop
=============================================================================
