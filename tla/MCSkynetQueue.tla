--------------------------- MODULE MCSkynetQueue ----------------------------
(* Instances of SkynetQueue for TLC. *)
EXTENDS SkynetQueue, TLC

Symmetry == Permutations(Threads)
=============================================================================
