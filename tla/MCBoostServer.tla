-------------------------- MODULE MCBoostServer ---------------------------
(***************************************************************************)
(* Instances of BoostServer for TLC.                                       *)
(***************************************************************************)
EXTENDS BoostServer, TLC

\* Connections are interchangeable; used in the runs without liveness only.
ConnSymmetry == Permutations(Conns)

===========================================================================
