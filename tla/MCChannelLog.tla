----------------------------- MODULE MCChannelLog -----------------------------
(* Small instances of ChannelLog: the bounds are in the cfg. *)
EXTENDS ChannelLog
=============================================================================
