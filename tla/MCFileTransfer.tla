--------------------------- MODULE MCFileTransfer -------------------------
(* A profile picture, a video and its preview, each with two possible suffixes. *)
EXTENDS FileTransfer, TLC

CONSTANTS user, video, preview

MCVideoOf == preview :> video

HandlerSymmetry == Permutations(Handlers) \cup Permutations(Suffixes)
===========================================================================
