------------------------------ MODULE MCSyncStart ------------------------------
(* Small instances of SyncStart: the bounds are in the cfg. *)
EXTENDS SyncStart
=============================================================================
