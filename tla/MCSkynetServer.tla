------------------------- MODULE MCSkynetServer -------------------------
(* Instances of SkynetServer for TLC. *)
EXTENDS SkynetServer

\* thread start's weight[]: one worker takes a message a round, the other all
MCWeight == [w1 |-> -1, w2 |-> 0]
=============================================================================
