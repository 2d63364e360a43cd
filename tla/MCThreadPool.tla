--------------------------- MODULE MCThreadPool ---------------------------
(***************************************************************************)
(* The instance of ThreadPool for TLC.  The code's parameters are          *)
(* MIN_THREAD_NUMBER = 3 and CHANGE_THREAD_NUMBER = 2 (config.h).          *)
(***************************************************************************)
EXTENDS ThreadPool
===========================================================================
