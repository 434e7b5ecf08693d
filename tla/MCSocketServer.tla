-------------------------- MODULE MCSocketServer --------------------------
(* Two workers that may be swapped, for the runs without liveness.         *)
EXTENDS SocketServer, TLC

Symmetry == Permutations(Worker)
=============================================================================
