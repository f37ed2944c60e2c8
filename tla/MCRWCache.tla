----------------------------- MODULE MCRWCache -----------------------------
(* RWCache for TLC: the threads are interchangeable. *)
EXTENDS RWCache, TLC

Symmetry == Permutations(Threads)
=============================================================================
