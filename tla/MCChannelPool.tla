---------------------------- MODULE MCChannelPool ----------------------------
(* Small instances of ChannelPool for TLC: the requests, in a .cfg. *)
EXTENDS ChannelPool, TLC

CONSTANTS p1, p2

TwoRequests == {p1, p2}
OneRequest  == {p1}
=============================================================================
