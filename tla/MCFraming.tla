----------------------------- MODULE MCFraming ----------------------------
(* A request with a reply larger than the send buffer, a heartbeat, a request   *)
(* without data, and a request with a short reply; headers of two bytes.        *)
EXTENDS Framing

MCStart   == <<0, 4, 6, 8, 11>>
MCReplyAt == <<0, 3, 3, 3, 4>>
===========================================================================
