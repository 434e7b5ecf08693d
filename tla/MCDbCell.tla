------------------------------ MODULE MCDbCell ------------------------------
(* Instances of DbCell for TLC. *)
EXTENDS DbCell, TLC

\* Blocks, coroutines of one kind and modules are interchangeable.
Symmetry == Permutations(Mods) \cup Permutations(Ptrs) \cup Permutations(Reqs)
            \cup Permutations(Timers) \cup Permutations(Values \ {Empty})
=============================================================================
