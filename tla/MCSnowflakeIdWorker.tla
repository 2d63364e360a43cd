----------------------- MODULE MCSnowflakeIdWorker ------------------------
(***************************************************************************)
(* Instances of SnowflakeIdWorker for TLC: few bits in every field, so     *)
(* that the sequence overflows and the fields border on each other.        *)
(***************************************************************************)
EXTENDS SnowflakeIdWorker
===========================================================================
