-------------------------- MODULE MCVideoService --------------------------
(***************************************************************************)
(* Instances of VideoService for TLC.                                      *)
(***************************************************************************)
EXTENDS VideoService, TLC

\* Handlers and users of one kind are interchangeable; ids are numbers.
VideoSymmetry ==
  Permutations(Handlers) \cup Permutations(Publishers) \cup Permutations(Followers)

===========================================================================
