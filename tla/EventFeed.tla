------------------------------ MODULE EventFeed ------------------------------
(***************************************************************************)
(* What an event channel promises its reader: the events of a channel are  *)
(* handled one at a time in the order they were emitted, none is skipped   *)
(* or handled twice, and a new channel starts with no event.  How the      *)
(* events are numbered, acknowledged, resent and deduplicated to achieve   *)
(* this is EyreChannel's business.                                         *)
(***************************************************************************)
EXTENDS Naturals

VARIABLES
    channel,    \* the channel being read
    emitted,    \* the number of events emitted on it
    handled     \* the number of them that were handled

vars == <<channel, emitted, handled>>

Init == channel = 0 /\ emitted = 0 /\ handled = 0

Emit == emitted' = emitted + 1 /\ UNCHANGED <<channel, handled>>

Handle ==
    /\ handled < emitted
    /\ handled' = handled + 1
    /\ UNCHANGED <<channel, emitted>>

Restart == channel' = channel + 1 /\ emitted' = 0 /\ handled' = 0

Next == Emit \/ Handle \/ Restart

Spec == Init /\ [][Next]_vars
=============================================================================
