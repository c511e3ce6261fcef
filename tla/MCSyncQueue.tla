----------------------------- MODULE MCSyncQueue -----------------------------
(* A small instance of SyncQueue: two low, one medium and one high operation. *)
EXTENDS SyncQueue

CONSTANTS l1, l2, m1, h1

MCPriority == [op \in Op |-> CASE op \in {l1, l2} -> 0 [] op = m1 -> 5 [] op = h1 -> 10]
=============================================================================
