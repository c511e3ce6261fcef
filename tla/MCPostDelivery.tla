---------------------------- MODULE MCPostDelivery ----------------------------
(* Small instances of PostDelivery: the bounds of each run are in its cfg. *)
EXTENDS PostDelivery

CONSTANTS Drops, Restarts, Syncs

MCBudget == [drops |-> Drops, restarts |-> Restarts, syncs |-> Syncs]

(* Bound: the last action is explored for a single post on a connection that   *)
(* has not been lost, which leaves room for a send and both taps of a retry.   *)
LastForOnePost == sends = MaxSends => Cardinality(posted) = 1 /\ budget.drops = Drops
=============================================================================
