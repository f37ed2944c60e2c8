-------------------------------- MODULE MCStat --------------------------------
(***************************************************************************)
(* Stat on a directory dir that holds a file, and a name in it that is yet *)
(* to be made.  Neither name is a prefix of the other.                     *)
(***************************************************************************)
EXTENDS Stat, TLC

CONSTANTS dir, name, file

MCParent    == [p \in Paths |-> IF p = dir THEN NoPath ELSE dir]
MCHasPrefix == {<<p, q>> \in Paths \X Paths : p = q \/ q = dir}

MCSymmetry == Permutations(Threads)
=============================================================================
