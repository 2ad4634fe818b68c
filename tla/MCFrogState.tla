---------------------------- MODULE MCFrogState ----------------------------
(* FrogState for TLC.  Which function, type or variable is which does not   *)
(* matter, so states that differ by renaming them are one.                 *)
EXTENDS FrogState, TLC

CONSTANTS f, g, IntT, StrT, v1, v2

Renamings == Permutations({f, g}) \cup Permutations({IntT, StrT}) \cup Permutations({v1, v2})
=============================================================================
