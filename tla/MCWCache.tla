------------------------------ MODULE MCWCache ------------------------------
(* Model-checking instances of WCache. *)
EXTENDS WCachePromise, ReadSize, TLC

\* Handles, buffers and CheckExpire goroutines are interchangeable.
Symmetry == Permutations(Clients) \cup Permutations(Buffers) \cup Permutations(Expirers)
=============================================================================
