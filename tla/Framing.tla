------------------------------ MODULE Framing -----------------------------
(***************************************************************************)
(* How both servers cut the bytes of one connection into packets: the      *)
(* header read of Session::processClientRequest (one async_receive, whose  *)
(* length is not looked at), that of MyServer::processClientRequest        *)
(* (my_recv with MSG_DONTWAIT), the read of the body (boost::asio::read,   *)
(* my_recv) and the write of the reply (boost::asio::write, my_send).      *)
(*                                                                         *)
(* The client's stream is a row of packets, the replies are a row of       *)
(* replies; a byte is known by its position in the stream only.  TCP       *)
(* delivers the bytes in order, in pieces of any size.  A read that does   *)
(* not begin where a packet begins, or ends before the header does, yields *)
(* a header about which nothing is assumed.  recv and send that fail with  *)
(* EINTR are called again: no step.                                        *)
(***************************************************************************)
EXTENDS Integers, Sequences

CONSTANTS
  N,           \* packets that the client sends
  H,           \* sizeof(NetPacketHeader)
  Start,       \* Start[i]: position of packet i, Start[N + 1]: length of the stream
  Empty,       \* packets that should have data and whose data_size is 0
  ReplyAt,     \* ReplyAt[i]: bytes of the replies to the packets before packet i
  OutCap,      \* room in the kernel's send buffer
  Servers,     \* "asio": Session; "epoll": MyServer
  MaxGarbage   \* bound on the data_size and the reply of a header that is none

ASSUME FramingAssumption ==
  /\ N \in Nat /\ H \in Nat \ {0}
  /\ Start \in [1..(N + 1) -> Nat] /\ Start[1] = 0
  /\ \A i, j \in 1..(N + 1) : i < j => Start[i] + H <= Start[j]
  /\ Empty \subseteq 1..N
  /\ ReplyAt \in [1..(N + 1) -> Nat] /\ ReplyAt[1] = 0
  /\ \A i \in 1..N : IF i \in Empty \/ Start[i + 1] = Start[i] + H
                    THEN ReplyAt[i + 1] = ReplyAt[i] ELSE ReplyAt[i + 1] >= ReplyAt[i]
  /\ OutCap \in Nat \ {0}
  /\ Servers \subseteq {"asio", "epoll"}
  /\ MaxGarbage \in Nat

VARIABLES
  server,      \* which of the two servers this is
  arrived,     \* bytes that have reached the server's kernel
  closed,      \* the client has closed the connection
  pos,         \* bytes that the server has read
  rx,          \* what the thread does: header, body, reply, or it has ended: closed
               \* (socket closed), forgotten (neither closed nor in epoll), crashed
  got,         \* bytes of the current item read so far
  want,        \* data_size
  hdr,         \* the packet whose header was read, 0 if it is none
  handled,     \* the packets handled, in order
  left,        \* bytes of the reply still to be written
  written,     \* bytes of all replies written so far
  out,         \* bytes in the send buffer
  split        \* history: at some moment a header had arrived in part

net    == <<server, arrived, closed, split>>
answer == <<left, written, out>>
vars   == <<net, pos, rx, got, want, hdr, handled, answer>>

Size(i) == Start[i + 1] - Start[i] - H

Available == arrived - pos

InHeader(n) == \E i \in 1..N : Start[i] < n /\ n < Start[i] + H

Ended == rx \in {"closed", "forgotten", "crashed"}

Smaller(a, b) == IF a <= b THEN a ELSE b

\* The types of the variables.
TypeOK ==
  /\ server \in {"asio", "epoll"}
  /\ arrived \in 0..Start[N + 1]
  /\ closed \in BOOLEAN /\ split \in BOOLEAN
  /\ pos \in 0..arrived
  /\ rx \in {"header", "body", "reply", "closed", "forgotten", "crashed"}
  /\ got \in Nat /\ want \in Nat
  /\ hdr \in 0..N
  /\ handled \in Seq(0..N)
  /\ left \in Nat /\ written \in Nat
  /\ out \in 0..OutCap

Init ==
  /\ server \in Servers
  /\ arrived = 0 /\ closed = FALSE /\ split = FALSE
  /\ pos = 0 /\ rx = "header" /\ got = 0 /\ want = 0 /\ hdr = 0
  /\ handled = <<>>
  /\ left = 0 /\ written = 0 /\ out = 0

(***************************************************************************)
(* The client and the network.                                             *)
(***************************************************************************)
Arrive(k) ==
  /\ ~closed /\ arrived + k <= Start[N + 1]
  /\ arrived' = arrived + k
  /\ split' = (split \/ InHeader(arrived + k))
  /\ UNCHANGED <<server, closed, pos, rx, got, want, hdr, handled, answer>>

\* The client may go at any moment, in the middle of a packet too.
ClientCloses ==
  /\ ~closed
  /\ closed' = TRUE
  /\ UNCHANGED <<server, arrived, split, pos, rx, got, want, hdr, handled, answer>>

\* The client reads what was sent to it.
ClientReads ==
  /\ out > 0
  /\ out' = 0
  /\ UNCHANGED <<net, pos, rx, got, want, hdr, handled, left, written>>

(***************************************************************************)
(* The header.                                                             *)
(***************************************************************************)
MutHandle(i) == handled' = handled \o <<i, i>>

\* processSingleRequest has read what it wants.  It returns if data_size is 0; the
\* purpose of a header that is none may be anything.
Handle(i) ==
  \/ i \notin Empty /\ handled' = Append(handled, i)
  \/ i \in Empty \cup {0} /\ UNCHANGED handled

\* The H bytes from position `from` on are in pheader: the switch over purpose.  For
\* a packet without data (a heartbeat, or an empty one) nothing more is read.
Decode(from) ==
  /\ got' = 0
  /\ \/ \E i \in 1..N :
          /\ from = Start[i]
          /\ hdr' = i /\ want' = Size(i)
     \/ /\ \A i \in 1..N : from # Start[i]
        /\ hdr' = 0 /\ want' \in 0..MaxGarbage
  /\ rx' = IF want' = 0 THEN "header" ELSE "body"
  /\ IF want' = 0 THEN Handle(hdr') ELSE UNCHANGED handled

\* Part of a header: the rest of m_pheader is what the last header has left there.
DecodePart ==
  /\ got' = 0
  /\ hdr' = 0 /\ want' \in 0..MaxGarbage
  /\ rx' = IF want' = 0 THEN "header" ELSE "body"
  /\ IF want' = 0 THEN Handle(0) ELSE UNCHANGED handled

\* async_receive completes with what there is.
ReceiveHeader ==
  /\ server = "asio" /\ rx = "header" /\ Available > 0
  /\ pos' = pos + Smaller(H, Available)
  /\ IF Available >= H THEN Decode(pos) ELSE DecodePart
  /\ UNCHANGED <<net, answer>>

\* One turn of my_recv's loop.
RecvHeader ==
  /\ server = "epoll" /\ rx = "header" /\ Available > 0
  /\ pos' = pos + Smaller(H - got, Available)
  /\ IF Available >= H - got
     THEN Decode(pos - got)
     ELSE got' = got + Available /\ UNCHANGED <<rx, want, hdr, handled>>
  /\ UNCHANGED <<net, answer>>

\* EAGAIN in the middle of a header: my_recv returns -1, and what it has read is lost.
RecvHeaderAgain ==
  /\ server = "epoll" /\ rx = "header" /\ got > 0
  /\ Available = 0 /\ ~closed
  /\ got' = 0
  /\ UNCHANGED <<net, pos, rx, want, hdr, handled, answer>>

\* The end of the stream.  my_recv returns what it has got: a connection that ends
\* within a header is neither closed nor put back into epoll.
HeaderEof ==
  /\ rx = "header" /\ Available = 0 /\ closed
  /\ rx' = IF got = 0 THEN "closed" ELSE "forgotten"
  /\ UNCHANGED <<net, pos, got, want, hdr, handled, answer>>

(***************************************************************************)
(* The body and the reply.                                                 *)
(***************************************************************************)
\* Bytes of the reply to packet i, or to what was taken for one.
Replies(i) ==
  IF i = 0 THEN 0..MaxGarbage ELSE {ReplyAt[i + 1] - ReplyAt[i]}

MutBodyComplete(n) == n > 0

MutBodyIncomplete(n) == n > want

\* The loops of my_recv and boost::asio::read end.
BodyComplete(n) == n = want

RecvBody ==
  /\ rx = "body" /\ Available > 0
  /\ LET k == Smaller(want - got, Available) IN
       /\ pos' = pos + k
       /\ IF BodyComplete(got + k)
          THEN /\ got' = 0
               /\ Handle(hdr)
               /\ left' \in Replies(hdr)
               /\ rx' = IF left' = 0 THEN "header" ELSE "reply"
          ELSE /\ got' = got + k
               /\ UNCHANGED <<handled, left, rx>>
  /\ UNCHANGED <<net, want, hdr, written, out>>

\* my_recv returns less than data_size and the request is dropped; boost::asio::read
\* throws, which ends the process.
BodyEof ==
  /\ rx = "body" /\ Available = 0 /\ closed
  /\ rx' = IF server = "epoll" THEN "header" ELSE "crashed"
  /\ got' = 0
  /\ UNCHANGED <<net, pos, want, hdr, handled, answer>>

MutReplyDone(n) == TRUE

\* The loops of my_send and boost::asio::write end.
ReplyDone(n) == n = 0

WriteReply ==
  /\ rx = "reply" /\ out < OutCap
  /\ LET k == Smaller(left, OutCap - out) IN
       /\ out' = out + k
       /\ left' = left - k /\ written' = written + k
       /\ rx' = IF ReplyDone(left - k) THEN "header" ELSE "reply"
  /\ UNCHANGED <<net, pos, got, want, hdr, handled>>

\* Nobody is there.  boost::asio::write throws, which ends the process.  send fails:
\* with EPIPE and a signal that ends the process, or, if the connection was reset,
\* with ECONNRESET; then my_send returns -1, at which nobody looks.
WriteFails ==
  /\ rx = "reply" /\ closed
  /\ \/ rx' = "crashed" /\ UNCHANGED left
     \/ server = "epoll" /\ rx' = "header" /\ left' = 0
  /\ UNCHANGED <<net, pos, got, want, hdr, handled, written, out>>

---------------------------------------------------------------------------
Server ==
  \/ ReceiveHeader \/ RecvHeader \/ RecvHeaderAgain \/ HeaderEof
  \/ RecvBody \/ BodyEof \/ WriteReply \/ WriteFails

Next ==
  \/ \E k \in 1..Start[N + 1] : Arrive(k)
  \/ ClientCloses \/ ClientReads
  \/ Server

Spec == Init /\ [][Next]_vars

\* The server's thread runs, and the client reads what it is sent.  The client need
\* not send anything.
FairSpec == Spec /\ WF_vars(Server) /\ WF_vars(ClientReads)

---------------------------------------------------------------------------
\* The packets up to packet k, and no others, have been handled in their order, each
\* once; the empty ones are left out.
Through(k) ==
  /\ \A i, j \in DOMAIN handled : i < j => handled[i] < handled[j]
  /\ {handled[j] : j \in DOMAIN handled} = 1..k \ Empty

\* The packets are handled one by one in the order in which they were sent, none
\* twice and none left out but the empty ones, however the bodies are cut into pieces
\* and however many packets arrive at once, provided that no header arrives in part.
PacketsInOrder == ~split => \E k \in 0..N : Through(k)

\* Every byte is read as what it is, and only a header in two pieces can make the
\* epoll server forget a connection: between packets the server stands where the next
\* packet begins, within one it knows which one it is.
InStep ==
  ~split =>
    /\ rx = "header" /\ ~closed => got = 0 /\ \E k \in 0..N : Through(k) /\ pos = Start[k + 1]
    /\ rx = "body" => hdr > 0 /\ Through(hdr - 1) /\ pos = Start[hdr] + H + got
    /\ rx # "forgotten"

\* The server is through with the packets up to packet k.
Between(k) == (rx = "header" /\ pos = Start[k + 1]) \/ (rx = "body" /\ hdr = k + 1)

\* The client, too, finds the replies one after the other: when the server turns to
\* the next packet, it has written the replies to all packets before it, each of them
\* whole and once, as long as the client is there.
RepliesInOrder ==
  ~split /\ ~closed => \A k \in 0..N : Between(k) => written = ReplyAt[k + 1]

\* A packet that has arrived completely is handled in the end, unless it is an empty
\* one, the client goes or a header has arrived in part.
PacketHandled ==
  \A i \in 1..N \ Empty :
    arrived >= Start[i + 1] ~> (closed \/ split \/ \E j \in DOMAIN handled : handled[j] = i)
===========================================================================
