---------------------------- MODULE MCMyServer ----------------------------
(* Two clients: one logs in, starts a stream and ends it, the other one sends a  *)
(* request whose body is late, and then a heartbeat.                            *)
EXTENDS MyServer

CONSTANTS c1, c2, u1

MCConns  == {c1, c2}
MCScript ==
  [c \in MCConns |->
     IF c = c1 THEN <<<<"login", u1>>, <<"live", u1>>, <<"unlive", u1>>>>
               ELSE <<<<"half", None>>, <<"heart", None>>>>]
===========================================================================
