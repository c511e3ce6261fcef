------------------------------ MODULE MCNegotiate ------------------------------
(* Small instances of Negotiate: the bounds of each run are in its cfg. *)
EXTENDS Negotiate
=============================================================================
