---------------------------- MODULE MCReactions ---------------------------
(* Milliseconds of 16 ids; doubles are multiples of 4.  Two videos share a      *)
(* millisecond and a double; the third one is of the next millisecond.          *)
EXTENDS Reactions, TLC

MCIds == {16, 17, 32}

Symmetry == Permutations(Users) \cup Permutations(Handlers)
===========================================================================
