-------------------------------- MODULE MCHub --------------------------------
(* Model-checking instance of Hub: its constants are given by hub.cfg. *)
EXTENDS Hub
=============================================================================
