------------------------- MODULE BoostServerProofs ------------------------
(***************************************************************************)
(* Proofs about BoostServer, for any number of connections and threads and *)
(* any eviction limit: although the map of the heartbeat monitor is not    *)
(* protected by its lock, no entry of it refers to a closed socket, no     *)
(* entry comes back, and no socket is lost to both sides.                  *)
(***************************************************************************)
EXTENDS BoostServer, TLAPS

\* A session exists exactly when its socket does, and only then can the monitor
\* know it; a handler works on a request that has arrived.
SessionInv ==
  \A c \in Conns :
    /\ sess[c] = "none" <=> sock[c] = "none"
    /\ sess[c] = "none" => hb[c] = Absent /\ map_copy[c] = Absent
    /\ sess[c] \in {"handling", "checking", "replying", "writing"} => inbox[c] # <<>>
    /\ sess[c] = "closing" => hb[c] = Absent

\* The monitor's copy is never behind the map: only the monitor increments.
CopyInv ==
  /\ \A c \in Conns : map_copy[c] # Absent => hb[c] <= map_copy[c]
  /\ monitor = "sleep" => \A c \in Conns : map_copy[c] = Absent
  /\ monitor = "inc" => map_copy[monConn] = Absent /\ sess[monConn] # "none"

\* Every open socket has somebody who will close it.
ReapInv ==
  /\ monitor = "close" => hb[monConn] = Absent /\ sess[monConn] # "none"
  /\ \A c \in Conns :
       sock[c] = "open" /\ sess[c] # "closing" =>
         c \in Tracked \/ (monitor = "close" /\ monConn = c)

\* The inductive invariant.
ServerInv == TypeOK /\ SessionInv /\ CopyInv /\ ReapInv /\ TrackedSocketOpen

\* The values of num and the mark for sockets that are not tracked.
LEMMA AbsentFacts ==
  /\ Absent \in Int /\ Absent < 0 /\ Absent \in Absent..Limit
  /\ \A n \in 0..Limit : n \in Absent..Limit /\ n # Absent
  /\ \A n \in Absent..Limit : n \in Int /\ Absent <= n /\ (n # Absent => n \in 0..Limit)
  /\ Limit \in Nat /\ 0 < Limit /\ 0 \in 0..Limit
BY BoostAssumption DEF Absent

LEMMA ServerInvInit == Init => ServerInv
<1> SUFFICES ASSUME Init PROVE ServerInv
  OBVIOUS
<1>1. inbox \in [Conns -> Seq(Requests \cup {"get"})]
  BY DEF Init
<1>2. TypeOK
  BY <1>1, AbsentFacts, BoostAssumption DEF Init, TypeOK
<1> QED
  BY <1>2 DEF Init, ServerInv, SessionInv, CopyInv, ReapInv, TrackedSocketOpen, Tracked

\* Consuming a request keeps the queues well formed.
LEMMA ConsumeKeeps ==
  ASSUME TypeOK, NEW c \in Conns, inbox[c] # <<>>, Consume(c)
  PROVE  /\ inbox' \in [Conns -> Seq(Requests \cup {"get"})]
         /\ \A d \in Conns : d # c => inbox'[d] = inbox[d]
<1>1. inbox[c] \in Seq(Requests \cup {"get"})
  BY DEF TypeOK
<1>2. Tail(inbox[c]) \in Seq(Requests \cup {"get"})
  BY <1>1
<1> QED
  BY <1>2 DEF TypeOK, Consume

\* The steps of the clients touch the queues and the clients' ends only.
LEMMA ClientKeeps ==
  ASSUME ServerInv, NEW c \in Conns, Client(c)
  PROVE  ServerInv'
<1> USE DEF ServerInv, history
<1>1. /\ UNCHANGED <<sock, sess, hb, live, mon, history, crashed>>
      /\ peer' \in [Conns -> {"absent", "open", "closed", "reset"}]
      /\ sent' \in [Conns -> 0..MaxSent]
  <2>1. CASE Connect(c) \/ Disconnect(c) \/ SendRest(c)
    BY <2>1 DEF Connect, SendRest, Disconnect, TypeOK, clients
  <2>2. ASSUME NEW r \in Requests, Send(c, r)
        PROVE  /\ UNCHANGED <<peer, sock, sess, hb, live, mon, history, crashed>>
               /\ sent' \in [Conns -> 0..MaxSent]
    <3>1. sent[c] + 1 \in 0..MaxSent
      BY <2>2, BoostAssumption DEF Send, TypeOK
    <3> QED
      BY <2>2, <3>1 DEF Send, TypeOK
  <2> QED
    BY <2>1, <2>2 DEF Client, TypeOK
<1>2. /\ inbox' \in [Conns -> Seq(Requests \cup {"get"})]
      /\ \A d \in Conns : inbox[d] # <<>> => inbox'[d] # <<>>
  <2>0. inbox \in [Conns -> Seq(Requests \cup {"get"})]
    BY DEF TypeOK
  <2>1. CASE Connect(c) \/ Disconnect(c)
    BY <2>0, <2>1 DEF Connect, Disconnect
  <2>2. ASSUME NEW r \in Requests, Send(c, r)
        PROVE  /\ inbox' \in [Conns -> Seq(Requests \cup {"get"})]
               /\ \A d \in Conns : inbox[d] # <<>> => inbox'[d] # <<>>
    <3>1. /\ Append(inbox[c], r) \in Seq(Requests \cup {"get"})
          /\ Append(inbox[c], r) # <<>>
      BY <2>0
    <3> QED
      BY <2>0, <2>2, <3>1 DEF Send
  <2>3. CASE SendRest(c)
    <3> DEFINE q == inbox[c]
               p == [q EXCEPT ![Len(q)] = "get"]
    <3>1. q \in Seq(Requests \cup {"get"}) /\ q # <<>>
      BY <2>0, <2>3 DEF SendRest, HalfSent
    <3>2. p \in Seq(Requests \cup {"get"}) /\ p # <<>>
      BY <3>1
    <3>3. inbox' = [inbox EXCEPT ![c] = p]
      BY <2>3 DEF SendRest
    <3> QED
      BY <2>0, <3>2, <3>3
  <2> QED
    BY <2>1, <2>2, <2>3 DEF Client
<1>3. TypeOK'
  BY <1>1, <1>2 DEF TypeOK, mon
<1>4. SessionInv'
  BY <1>1, <1>2 DEF SessionInv, mon
<1>5. CopyInv' /\ ReapInv' /\ TrackedSocketOpen'
  BY <1>1 DEF CopyInv, ReapInv, TrackedSocketOpen, Tracked, mon
<1> QED
  BY <1>3, <1>4, <1>5

\* An exception changes nothing but the fact that the process is gone.
LEMMA ThrowKeeps ==
  ASSUME ServerInv,
         Throw("remote_endpoint") \/ Throw("read") \/ Throw("write")
           \/ Throw("set_0") \/ Throw("add_userId") \/ Throw("monitor")
  PROVE  ServerInv'
BY DEF Throw, ServerInv, TypeOK, SessionInv, CopyInv, ReapInv, TrackedSocketOpen, Tracked,
   clients, sessions, mon, history

\* The handlers of a session, one step each.
LEMMA HandlerKeeps ==
  ASSUME ServerInv, NEW c \in Conns, Handler(c) \/ WriteEnds(c)
  PROVE  ServerInv'
<1> USE DEF ServerInv, Goto, Tracked, history
<1>0. Absent \in Int /\ Absent < 0 /\ Absent \in Absent..Limit /\ 0 \in Absent..Limit
      /\ 0 \in 0..Limit /\ 0 # Absent
      /\ \A n \in Absent..Limit : n \in Int /\ Absent <= n /\ (n # Absent => 0 <= n)
  BY AbsentFacts
<1>1. CASE Accept(c)
  <2>1. CASE Throw("remote_endpoint")
    BY <2>1, ThrowKeeps
  <2>2. CASE ~Throw("remote_endpoint")
    <3>1. /\ sess[c] = "none"
          /\ sock' = [sock EXCEPT ![c] = "open"] /\ hb' = [hb EXCEPT ![c] = 0]
          /\ quiet' = [quiet EXCEPT ![c] = 0] /\ ignored' = ignored \ {c}
          /\ sess' = [sess EXCEPT ![c] = "accepted"]
          /\ UNCHANGED <<clients, inbox, live, mon, crashed>>
      BY <1>1, <2>2 DEF Accept
    <3>2. TypeOK'
      BY <1>0, <3>1 DEF TypeOK, clients, mon
    <3>3. SessionInv' /\ TrackedSocketOpen'
      BY <1>0, <3>1 DEF TypeOK, SessionInv, TrackedSocketOpen, mon
    <3>4. CopyInv' /\ ReapInv'
      BY <1>0, <3>1 DEF TypeOK, SessionInv, CopyInv, ReapInv, mon
    <3> QED
      BY <3>2, <3>3, <3>4
  <2> QED
    BY <2>1, <2>2
\* Steps that only move the session on.
<1>2. ASSUME NEW s \in {"receiving", "handling", "checking", "replying", "writing", "removing", "ended"},
             sess[c] # "none", sess[c] # "closing",
             s \in {"handling", "checking", "replying", "writing"} => inbox[c] # <<>>,
             sess' = [sess EXCEPT ![c] = s],
             UNCHANGED <<clients, inbox, sock, hb, mon, history, crashed>>,
             live' \subseteq Users
      PROVE  ServerInv'
  BY <1>2 DEF TypeOK, SessionInv, CopyInv, ReapInv, TrackedSocketOpen, clients, mon
\* Steps that finish a request.
<1>3. ASSUME sess[c] \in {"handling", "replying", "writing"}, Consume(c),
             sess' = [sess EXCEPT ![c] = "receiving"],
             hb' = hb \/ (c \in Tracked /\ hb' = [hb EXCEPT ![c] = 0]),
             peer' \in [Conns -> {"absent", "open", "closed", "reset"}],
             quiet' \in [Conns -> 0..Limit], ignored' \subseteq Conns,
             live' \subseteq Users,
             UNCHANGED <<sent, sock, mon, crashed>>
      PROVE  ServerInv'
  <2>1. /\ inbox' \in [Conns -> Seq(Requests \cup {"get"})]
        /\ \A d \in Conns : d # c => inbox'[d] = inbox[d]
    BY <1>3, ConsumeKeeps DEF SessionInv
  <2>2. hb' \in [Conns -> Absent..Limit] /\ \A d \in Conns : hb'[d] = hb[d] \/ (hb[d] # Absent /\ hb'[d] = 0)
    BY <1>0, <1>3 DEF TypeOK
  <2>3. TypeOK'
    BY <1>3, <2>1, <2>2 DEF TypeOK, mon
  <2>4. SessionInv' /\ TrackedSocketOpen'
    BY <1>0, <1>3, <2>1, <2>2 DEF TypeOK, SessionInv, TrackedSocketOpen, mon
  <2>5. CopyInv'
    BY <1>0, <1>3, <2>2 DEF TypeOK, CopyInv, mon
  <2>6. ReapInv'
    BY <1>0, <1>3, <2>2 DEF TypeOK, ReapInv, mon
  <2> QED
    BY <2>3, <2>4, <2>5, <2>6
<1>4. CASE StartSession(c)
  <2>1. CASE Throw("remote_endpoint")
    BY <2>1, ThrowKeeps
  <2>2. CASE ~Throw("remote_endpoint")
    BY <1>2, <1>4, <2>2 DEF StartSession, TypeOK
  <2> QED
    BY <2>1, <2>2
<1>5. CASE Receive(c) \/ ReceiveEof(c) \/ ReceiveError(c)
  BY <1>2, <1>5 DEF Receive, ReceiveEof, ReceiveError, TypeOK
<1>6. CASE RemoveEntry(c)
  <2>1. /\ sess[c] = "removing" /\ hb' = [hb EXCEPT ![c] = Absent]
        /\ sess' = [sess EXCEPT ![c] = "closing"]
        /\ UNCHANGED <<clients, inbox, sock, live, mon, history, crashed>>
    BY <1>6 DEF RemoveEntry, Remove
  <2>2. TypeOK'
    BY <1>0, <2>1 DEF TypeOK, clients, mon
  <2>3. SessionInv' /\ TrackedSocketOpen' /\ ReapInv'
    BY <2>1 DEF TypeOK, SessionInv, TrackedSocketOpen, ReapInv, mon
  <2>4. CopyInv'
    BY <1>0, <2>1 DEF TypeOK, CopyInv, mon
  <2> QED
    BY <2>2, <2>3, <2>4
<1>7. CASE CloseSocket(c)
  BY <1>7 DEF CloseSocket, TypeOK, SessionInv, CopyInv, ReapInv, TrackedSocketOpen, clients, mon
<1>8. CASE HandleHeart(c)
  <2>1. CASE Throw("set_0")
    BY <2>1, ThrowKeeps
  <2>2. CASE ~Throw("set_0")
    <3>1. /\ sess[c] = "handling" /\ c \in Tracked /\ Consume(c)
          /\ hb' = [hb EXCEPT ![c] = 0] /\ quiet' = [quiet EXCEPT ![c] = 0]
          /\ ignored' \subseteq ignored \cup {c}
          /\ sess' = [sess EXCEPT ![c] = "receiving"]
          /\ UNCHANGED <<peer, sent, sock, live, mon, crashed>>
      BY <1>8, <2>2 DEF HandleHeart, NoteHeart, Handling, clients
    <3>2. quiet' \in [Conns -> 0..Limit]
      BY <1>0, <3>1 DEF TypeOK
    <3> QED
      BY <1>3, <3>1, <3>2 DEF TypeOK
  <2> QED
    BY <2>1, <2>2
<1>9. CASE CheckLogin(c)
  <2>1. CASE Throw("add_userId")
    BY <2>1, ThrowKeeps
  <2>2. CASE ~Throw("add_userId")
    BY <1>2, <1>9, <2>2 DEF CheckLogin, TypeOK, SessionInv
  <2> QED
    BY <2>1, <2>2
<1>10. CASE HandleLogin(c) \/ HandleGet(c) \/ HandleLive(c) \/ WriteBlocks(c)
  <2>1. CASE HandleLive(c)
    <3>1. live' \subseteq Users
      BY <2>1 DEF HandleLive, TypeOK
    <3> QED
      BY <1>2, <2>1, <3>1 DEF HandleLive, Handling, SessionInv
  <2>2. CASE HandleLogin(c) \/ HandleGet(c) \/ WriteBlocks(c)
    BY <1>2, <2>2 DEF HandleLogin, HandleGet, WriteBlocks, Handling, TypeOK, SessionInv
  <2> QED
    BY <1>10, <2>1, <2>2
<1>11. CASE HandlePost(c) \/ HandleUnlive(c)
  BY <1>3, <1>11 DEF HandlePost, HandleUnlive, Handling, TypeOK, clients
<1>14. CASE WriteEnds(c)
  <2>1. CASE Throw("write")
    BY <2>1, ThrowKeeps
  <2>2. CASE ~Throw("write")
    BY <1>3, <1>14, <2>2 DEF WriteEnds, TypeOK, clients
  <2> QED
    BY <2>1, <2>2
<1>12. CASE ReadThrows(c)
  BY <1>12, ThrowKeeps DEF ReadThrows
<1>13. CASE Reply(c)
  <2>1. CASE Throw("write")
    BY <2>1, ThrowKeeps
  <2>2. CASE ~Throw("write")
    <3>1. /\ sess[c] = "replying" /\ Consume(c) /\ sess' = [sess EXCEPT ![c] = "receiving"]
          /\ peer' = peer \/ peer' = [peer EXCEPT ![c] = "reset"]
          /\ UNCHANGED <<sent, sock, hb, live, mon, history, crashed>>
      BY <1>13, <2>2 DEF Reply
    <3> QED
      BY <1>3, <3>1 DEF TypeOK
  <2> QED
    BY <2>1, <2>2
<1> QED
  BY <1>1, <1>4, <1>5, <1>6, <1>7, <1>8, <1>9, <1>10, <1>11, <1>12, <1>13, <1>14 DEF Handler

\* The steps of the heartbeat monitor.
LEMMA MonitorKeeps ==
  ASSUME ServerInv, Monitor
  PROVE  ServerInv'
<1> USE DEF ServerInv, Tracked, history
<1>0. /\ Absent \in Int /\ Absent < 0 /\ Absent \in Absent..Limit
      /\ \A n \in Absent..Limit : n \in Int /\ Absent <= n /\ (n # Absent => n \in 0..Limit)
      /\ \A n \in 0..Limit : n \in Absent..Limit /\ n # Absent
      /\ Limit \in Nat /\ 0 < Limit
  BY AbsentFacts
<1>1. CASE ScanBegin
  <2>1. TypeOK'
    BY <1>1 DEF ScanBegin, TypeOK, clients, sessions
  <2>2. CopyInv'
    BY <1>0, <1>1 DEF ScanBegin, CopyInv, TypeOK
  <2> QED
    BY <1>1, <2>1, <2>2 DEF ScanBegin, SessionInv, ReapInv, TrackedSocketOpen, sessions
<1>2. CASE ScanEnd
  BY <1>2 DEF ScanEnd, TypeOK, SessionInv, CopyInv, ReapInv, TrackedSocketOpen, clients, sessions
<1>3. CASE MonitorClose
  <2>1. TypeOK'
    BY <1>3 DEF MonitorClose, EvictClose, TypeOK, clients
  <2>2. SessionInv' /\ CopyInv' /\ ReapInv' /\ TrackedSocketOpen'
    BY <1>3 DEF MonitorClose, EvictClose, TypeOK, SessionInv, CopyInv, ReapInv, TrackedSocketOpen
  <2> QED
    BY <2>1, <2>2
<1>4. CASE CountWrite
  <2>1. /\ monVal + 1 \in 0..Limit /\ monVal + 1 # Absent /\ monVal + 1 \in Absent..Limit
    BY <1>0 DEF TypeOK
  <2>2. /\ \A d \in Conns : hb[d] = Absent <=> hb'[d] = Absent
        /\ \A d \in Conns : d # monConn => hb'[d] = hb[d]
        /\ hb' \in [Conns -> Absent..Limit]
    BY <1>0, <1>4, <2>1 DEF CountWrite, WriteNum, TypeOK
  <2>3. quiet' \in [Conns -> 0..Limit]
    BY <1>0, <1>4 DEF CountWrite, TypeOK
  <2>4. TypeOK'
    BY <1>4, <2>2, <2>3 DEF CountWrite, TypeOK, clients, sessions
  <2>5. SessionInv' /\ TrackedSocketOpen'
    BY <1>4, <2>2 DEF CountWrite, SessionInv, TrackedSocketOpen, sessions
  <2>6. CopyInv'
    BY <1>4, <2>2 DEF CountWrite, CopyInv, TypeOK
  <2>7. ReapInv'
    BY <1>4, <2>2 DEF CountWrite, ReapInv, sessions
  <2> QED
    BY <2>4, <2>5, <2>6, <2>7
<1>5. ASSUME NEW c \in Conns, Evict(c) PROVE ServerInv'
  <2>1. /\ map_copy' = [map_copy EXCEPT ![c] = Absent] /\ hb' = [hb EXCEPT ![c] = Absent]
        /\ monitor = "scan" /\ monitor' = "close" /\ monConn' = c
        /\ UNCHANGED <<clients, sessions, live, monVal, history, crashed>>
        /\ map_copy[c] # Absent
    BY <1>0, <1>5 DEF Evict, Visit, MustEvict
  <2>2. TypeOK'
    BY <1>0, <2>1 DEF TypeOK, clients, sessions
  <2>3. SessionInv' /\ TrackedSocketOpen'
    BY <2>1 DEF TypeOK, SessionInv, TrackedSocketOpen, sessions
  <2>4. CopyInv'
    BY <1>0, <2>1 DEF TypeOK, CopyInv
  <2>5. ReapInv'
    BY <2>1 DEF TypeOK, SessionInv, ReapInv, sessions
  <2> QED
    BY <2>2, <2>3, <2>4, <2>5
<1>6. ASSUME NEW c \in Conns, CountRead(c) PROVE ServerInv'
  <2>1. CASE Throw("monitor")
    BY <2>1, ThrowKeeps
  <2>2. CASE ~Throw("monitor")
    <3>1. /\ map_copy' = [map_copy EXCEPT ![c] = Absent] /\ hb[c] # Absent
          /\ monitor = "scan" /\ monitor' = "inc" /\ monConn' = c /\ monVal' = hb[c]
          /\ UNCHANGED <<clients, sessions, hb, live, history, crashed>>
          /\ 0 <= map_copy[c] /\ map_copy[c] < Limit
      BY <1>6, <2>2 DEF CountRead, Visit, MayCount
    <3>2. monVal' \in 0..(Limit - 1)
      <4>1. /\ map_copy[c] \in Int /\ map_copy[c] # Absent
            /\ hb[c] \in 0..Limit
        <5>1. map_copy[c] \in Absent..Limit /\ hb[c] \in Absent..Limit /\ hb[c] # Absent
          BY <3>1 DEF TypeOK
        <5>2. map_copy[c] \in Int /\ hb[c] \in 0..Limit
          BY <1>0, <5>1
        <5>3. map_copy[c] # Absent
          BY <1>0, <3>1, <5>2
        <5> QED
          BY <5>2, <5>3
      <4>2. hb[c] <= map_copy[c]
        BY <4>1 DEF CopyInv
      <4> QED
        BY <1>0, <3>1, <4>1, <4>2
    <3>3. TypeOK'
      BY <1>0, <3>1, <3>2 DEF TypeOK, clients, sessions
    <3>4. SessionInv' /\ TrackedSocketOpen' /\ CopyInv' /\ ReapInv'
      <4>1. \A d \in Conns : map_copy'[d] = (IF d = c THEN Absent ELSE map_copy[d])
        BY <3>1 DEF TypeOK
      <4>2. SessionInv' /\ TrackedSocketOpen'
        BY <3>1, <4>1 DEF SessionInv, TrackedSocketOpen, sessions
      <4>3. CopyInv'
        BY <3>1, <4>1 DEF CopyInv, SessionInv, sessions
      <4>4. ReapInv'
        BY <3>1 DEF ReapInv, sessions
      <4> QED
        BY <4>2, <4>3, <4>4
    <3> QED
      BY <3>3, <3>4
  <2> QED
    BY <2>1, <2>2
<1> QED
  BY <1>1, <1>2, <1>3, <1>4, <1>5, <1>6 DEF Monitor

LEMMA ServerInvNext == ServerInv /\ [Next]_vars => ServerInv'
<1> SUFFICES ASSUME ServerInv, [Next]_vars PROVE ServerInv'
  OBVIOUS
<1>1. CASE UNCHANGED vars
  BY <1>1 DEF vars, clients, sessions, mon, history, ServerInv, TypeOK, SessionInv, CopyInv, ReapInv,
     TrackedSocketOpen, Tracked
<1>2. CASE Monitor
  BY <1>2, MonitorKeeps
<1>3. ASSUME NEW c \in Conns, Client(c) \/ Handler(c) \/ ReadNoticesClose(c) \/ WriteEnds(c)
      PROVE  ServerInv'
  BY <1>3, ClientKeeps, HandlerKeeps, ThrowKeeps DEF ReadNoticesClose
<1> QED
  BY <1>1, <1>2, <1>3 DEF Next

LEMMA ServerInvariance == Spec => []ServerInv
BY ServerInvInit, ServerInvNext, PTL DEF Spec

---------------------------------------------------------------------------
\* The state of the server stays well formed: in particular num never exceeds
\* the limit, although the monitor counts with a stale copy of the map.
THEOREM ServerTypeCorrect == Spec => []TypeOK
BY ServerInvariance, PTL DEF ServerInv

\* No entry of the monitor's map refers to a closed socket.
THEOREM ServerTrackedSocketOpen == Spec => []TrackedSocketOpen
BY ServerInvariance, PTL DEF ServerInv

\* No socket is open that neither its session nor the monitor would close.
THEOREM ServerEndedSessionReapable == Spec => []EndedSessionReapable
<1>1. ServerInv => EndedSessionReapable
  BY DEF ServerInv, ReapInv, EndedSessionReapable
<1> QED
  BY <1>1, ServerInvariance, PTL

\* An entry that was removed from the map never comes back.
THEOREM ServerNoResurrection == Spec => NoResurrection
<1>1. ASSUME ServerInv, [Next]_vars, NEW c \in Conns, sess[c] # "none", hb[c] = Absent
      PROVE  hb'[c] = Absent
  <2> USE <1>1 DEF ServerInv, TypeOK, Tracked
  <2>1. CASE UNCHANGED vars
    BY <2>1 DEF vars
  <2>2. CASE Monitor
    <3>1. ASSUME NEW d \in Conns, Evict(d) PROVE hb'[c] = Absent
      BY <3>1 DEF Evict
    <3>2. ASSUME NEW d \in Conns, CountRead(d) PROVE hb'[c] = Absent
      BY <3>2 DEF CountRead, Throw
    <3>3. CASE CountWrite
      BY <3>3 DEF CountWrite, WriteNum
    <3>4. CASE ScanBegin \/ ScanEnd \/ MonitorClose
      BY <3>4 DEF ScanBegin, ScanEnd, MonitorClose
    <3> QED
      BY <2>2, <3>1, <3>2, <3>3, <3>4 DEF Monitor
  <2>3. ASSUME NEW d \in Conns, Client(d) \/ ReadNoticesClose(d) PROVE hb'[c] = Absent
    BY <2>3 DEF Client, Connect, Send, SendRest, Disconnect, ReadNoticesClose, Throw
  <2>4. ASSUME NEW d \in Conns, Handler(d) \/ WriteEnds(d) PROVE hb'[c] = Absent
    <3>1. CASE Accept(d)
      BY <3>1 DEF Accept, Throw
    <3>2. CASE HandleHeart(d)
      BY <3>2 DEF HandleHeart, Throw
    <3>3. CASE RemoveEntry(d)
      BY <3>3 DEF RemoveEntry, Remove
    <3>4. CASE StartSession(d) \/ Receive(d) \/ ReceiveEof(d) \/ ReceiveError(d) \/ CloseSocket(d)
      BY <3>4 DEF StartSession, Receive, ReceiveEof, ReceiveError, CloseSocket, Throw
    <3>5. CASE HandleLogin(d) \/ CheckLogin(d) \/ HandleGet(d) \/ HandlePost(d) \/ HandleLive(d)
               \/ HandleUnlive(d) \/ ReadThrows(d) \/ Reply(d) \/ WriteBlocks(d) \/ WriteEnds(d)
      BY <3>5 DEF HandleLogin, CheckLogin, HandleGet, HandlePost, HandleLive, HandleUnlive,
         ReadThrows, Reply, WriteBlocks, WriteEnds, Throw
    <3> QED
      BY <2>4, <3>1, <3>2, <3>3, <3>4, <3>5 DEF Handler
  <2> QED
    BY <2>1, <2>2, <2>3, <2>4 DEF Next
<1>2. ServerInv /\ [Next]_vars
        => [\A c \in Conns : sess[c] # "none" /\ hb[c] = Absent => hb'[c] = Absent]_vars
  BY <1>1
<1> QED
  BY <1>2, ServerInvariance, PTL DEF Spec, NoResurrection

(***************************************************************************)
(* Evictions.  num counts at most the checks since the last heartbeat, as  *)
(* do the num that the monitor has read and a copy that says "evict",      *)
(* unless that heartbeat came too late for the monitor to notice it.       *)
(***************************************************************************)
SilenceInv ==
  \A c \in Conns : c \notin ignored =>
    /\ hb[c] <= quiet[c]
    /\ map_copy[c] = Limit => quiet[c] = Limit
    /\ monitor = "inc" /\ monConn = c => monVal <= quiet[c]

LEMMA SilenceInvNext ==
  ASSUME ServerInv, SilenceInv, [Next]_vars
  PROVE  SilenceInv'
<1> USE DEF ServerInv, TypeOK
<1>0. /\ 0 \in 0..Limit /\ Absent \in Int /\ Absent < 0 /\ Limit \in Nat /\ 0 < Limit /\ Absent # Limit
      /\ \A c \in Conns : /\ quiet[c] \in Int /\ 0 <= quiet[c] /\ quiet[c] <= Limit
                          /\ hb[c] \in Int /\ hb[c] <= Limit
      /\ monVal \in Int /\ 0 <= monVal /\ monVal < Limit
  BY AbsentFacts
<1>a. ASSUME UNCHANGED <<hb, mon, history>> PROVE SilenceInv'
  BY <1>a DEF SilenceInv, mon, history
<1>c. ASSUME NEW c \in Conns, hb' = [hb EXCEPT ![c] = Absent], UNCHANGED history,
             \A d \in Conns : map_copy'[d] = Limit => map_copy[d] = Limit,
             monitor' # "inc" \/ UNCHANGED <<monitor, monConn, monVal>>
      PROVE  SilenceInv'
  BY <1>0, <1>c DEF SilenceInv, history
<1>1. CASE UNCHANGED vars
  BY <1>1, <1>a DEF vars
<1>2. CASE Monitor
  <2>1. ASSUME NEW c \in Conns, Evict(c) PROVE SilenceInv'
    <3>1. \A d \in Conns : map_copy'[d] = Limit => map_copy[d] = Limit
      BY <1>0, <2>1 DEF Evict, Visit
    <3> QED
      BY <2>1, <3>1, <1>c DEF Evict
  <2>2. ASSUME NEW c \in Conns, CountRead(c) PROVE SilenceInv'
    <3>1. CASE Throw("monitor")
      BY <3>1, <1>a DEF Throw
    <3>2. CASE ~Throw("monitor")
      <4>1. /\ map_copy' = [map_copy EXCEPT ![c] = Absent]
            /\ monConn' = c /\ monVal' = hb[c] /\ UNCHANGED <<hb, history>>
        BY <2>2, <3>2 DEF CountRead, Visit
      <4> QED
        BY <1>0, <4>1 DEF SilenceInv, history
    <3> QED
      BY <3>1, <3>2
  <2>3. CASE CountWrite
    <3>1. /\ quiet' = [quiet EXCEPT ![monConn] = IF @ < Limit THEN @ + 1 ELSE @]
          /\ monitor = "inc" /\ monitor' = "scan" /\ UNCHANGED <<ignored, map_copy>>
          /\ \A d \in Conns : d # monConn => hb'[d] = hb[d]
          /\ hb'[monConn] \in {hb[monConn], monVal + 1}
      BY <2>3 DEF CountWrite, WriteNum
    <3>2. map_copy[monConn] # Limit
      BY <1>0, <3>1 DEF CopyInv
    <3>3. ASSUME monConn \notin ignored PROVE hb'[monConn] <= quiet'[monConn]
      BY <1>0, <3>1, <3>3 DEF SilenceInv
    <3>4. \A d \in Conns : d # monConn => quiet'[d] = quiet[d]
      BY <3>1
    <3> QED
      BY <3>1, <3>2, <3>3, <3>4 DEF SilenceInv
  <2>4. CASE ScanBegin
    BY <1>0, <2>4 DEF ScanBegin, SilenceInv, history
  <2>5. CASE ScanEnd \/ MonitorClose
    BY <2>5 DEF ScanEnd, MonitorClose, SilenceInv, history
  <2> QED
    BY <1>2, <2>1, <2>2, <2>3, <2>4, <2>5 DEF Monitor
<1>3. ASSUME NEW c \in Conns, Client(c) \/ ReadNoticesClose(c) \/ WriteEnds(c) PROVE SilenceInv'
  BY <1>3, <1>a DEF Client, Connect, Send, SendRest, Disconnect, ReadNoticesClose, WriteEnds, Throw
<1>4. ASSUME NEW c \in Conns, Handler(c) PROVE SilenceInv'
  <2>1. CASE Accept(c)
    <3>1. CASE Throw("remote_endpoint")
      BY <3>1, <1>a DEF Throw
    <3>2. CASE ~Throw("remote_endpoint")
      <4>1. /\ sess[c] = "none" /\ hb' = [hb EXCEPT ![c] = 0]
            /\ quiet' = [quiet EXCEPT ![c] = 0] /\ ignored' = ignored \ {c} /\ UNCHANGED mon
        BY <2>1, <3>2 DEF Accept
      <4>2. map_copy[c] = Absent /\ ~(monitor = "inc" /\ monConn = c)
        BY <4>1 DEF SessionInv, CopyInv
      <4> QED
        BY <1>0, <4>1, <4>2 DEF SilenceInv, mon
    <3> QED
      BY <3>1, <3>2
  <2>2. CASE HandleHeart(c)
    <3>1. CASE Throw("set_0")
      BY <3>1, <1>a DEF Throw
    <3>2. CASE ~Throw("set_0")
      <4>1. /\ hb' = [hb EXCEPT ![c] = 0] /\ quiet' = [quiet EXCEPT ![c] = 0]
            /\ ignored' = (IF Overtaken(c) THEN ignored \cup {c} ELSE ignored \ {c}) /\ UNCHANGED mon
        BY <2>2, <3>2 DEF HandleHeart, NoteHeart
      <4> QED
        BY <1>0, <4>1 DEF SilenceInv, Overtaken, mon
    <3> QED
      BY <3>1, <3>2
  <2>3. CASE RemoveEntry(c)
    BY <2>3, <1>c DEF RemoveEntry, Remove, mon
  <2>4. CASE StartSession(c) \/ Receive(c) \/ ReceiveEof(c) \/ ReceiveError(c) \/ CloseSocket(c)
    BY <2>4, <1>a DEF StartSession, Receive, ReceiveEof, ReceiveError, CloseSocket, Throw
  <2>5. CASE HandleLogin(c) \/ CheckLogin(c) \/ HandleGet(c) \/ HandlePost(c) \/ HandleLive(c)
             \/ HandleUnlive(c) \/ ReadThrows(c) \/ Reply(c) \/ WriteBlocks(c)
    BY <2>5, <1>a DEF HandleLogin, CheckLogin, HandleGet, HandlePost, HandleLive, HandleUnlive,
       ReadThrows, Reply, WriteBlocks, Throw
  <2> QED
    BY <1>4, <2>1, <2>2, <2>3, <2>4, <2>5 DEF Handler
<1> QED
  BY <1>1, <1>2, <1>3, <1>4 DEF Next

\* The monitor evicts only clients without a heartbeat in Limit consecutive checks, and
\* those whose last heartbeat raced with its increment or came after a copy in which
\* they were already to be evicted.
THEOREM ServerEvictedOnlyIfSilent == Spec => EvictedOnlyIfSilent
<1>1. Init => SilenceInv
  BY AbsentFacts DEF Init, SilenceInv
<1>2. Spec => []SilenceInv
  BY <1>1, ServerInvariance, SilenceInvNext, PTL DEF Spec
<1>3. SilenceInv =>
        [\A c \in Conns : Evict(c) => quiet[c] = Limit \/ c \in ignored]_vars
  BY DEF SilenceInv, Evict, MustEvict
<1> QED
  BY <1>2, <1>3, PTL DEF EvictedOnlyIfSilent

\* A call of at() in a session throws only when the socket is closed or is the one that
\* the monitor is about to close: every other socket with a session is tracked.
LEMMA SessionThrows ==
  ASSUME ServerInv, NEW c \in Conns, sess[c] \in {"handling", "checking"}, c \notin Tracked
  PROVE  sock[c] = "closed" \/ (monitor = "close" /\ monConn = c)
<1>1. sock[c] \in {"open", "closed"}
  BY DEF ServerInv, SessionInv, TypeOK
<1> QED
  BY <1>1 DEF ServerInv, ReapInv

\* A call of at() in a handler fails only when the monitor evicted the client while its
\* request was being handled.
THEOREM ServerSessionThrowsOnlyAfterEviction == Spec => []SessionThrowsOnlyAfterEviction
<1>1. Init => SessionThrowsOnlyAfterEviction
  BY DEF Init, SessionThrowsOnlyAfterEviction
<1>2. ASSUME ServerInv, SessionThrowsOnlyAfterEviction, [Next]_vars
      PROVE  SessionThrowsOnlyAfterEviction'
  <2>1. CASE UNCHANGED vars
    BY <1>2, <2>1 DEF SessionThrowsOnlyAfterEviction, Tracked, vars, sessions, mon
  <2>a. ASSUME crashed' \notin {"set_0", "add_userId"} PROVE SessionThrowsOnlyAfterEviction'
    BY <2>a DEF SessionThrowsOnlyAfterEviction
  <2>b. ASSUME NEW c \in Conns, sess[c] \in {"handling", "checking"}, c \notin Tracked,
               UNCHANGED <<sock, sess, hb, monitor, monConn>>
        PROVE  SessionThrowsOnlyAfterEviction'
    <3>1. sock[c] = "closed" \/ (monitor = "close" /\ monConn = c)
      BY <1>2, <2>b, SessionThrows
    <3> QED
      BY <2>b, <3>1 DEF SessionThrowsOnlyAfterEviction, Tracked
  <2>2. CASE crashed = "no" /\ Monitor
    BY <2>2, <2>a DEF Monitor, ScanBegin, ScanEnd, MonitorClose, CountWrite, Evict, CountRead, Throw
  <2>3. ASSUME crashed = "no", NEW c \in Conns, Client(c) \/ ReadNoticesClose(c) \/ WriteEnds(c)
        PROVE  SessionThrowsOnlyAfterEviction'
    BY <2>3, <2>a DEF Client, Connect, Send, SendRest, Disconnect, ReadNoticesClose, WriteEnds, Throw
  <2>4. ASSUME crashed = "no", NEW c \in Conns, Handler(c)
        PROVE  SessionThrowsOnlyAfterEviction'
    <3>1. CASE HandleHeart(c)
      BY <2>4, <3>1, <2>a, <2>b DEF HandleHeart, Handling, Throw, sessions, mon
    <3>2. CASE CheckLogin(c)
      BY <2>4, <3>2, <2>a, <2>b DEF CheckLogin, Throw, sessions, mon
    <3>3. CASE Accept(c) \/ StartSession(c) \/ Receive(c) \/ ReceiveEof(c) \/ ReceiveError(c)
               \/ RemoveEntry(c) \/ CloseSocket(c)
      BY <2>4, <3>3, <2>a DEF Accept, StartSession, Receive, ReceiveEof, ReceiveError,
         RemoveEntry, CloseSocket, Throw
    <3>4. CASE HandleLogin(c) \/ HandleGet(c) \/ HandlePost(c) \/ HandleLive(c) \/ HandleUnlive(c)
               \/ ReadThrows(c) \/ Reply(c) \/ WriteBlocks(c)
      BY <2>4, <3>4, <2>a DEF HandleLogin, HandleGet, HandlePost, HandleLive, HandleUnlive,
         ReadThrows, Reply, WriteBlocks, Throw
    <3> QED
      BY <2>4, <3>1, <3>2, <3>3, <3>4 DEF Handler
  <2> QED
    BY <1>2, <2>1, <2>2, <2>3, <2>4 DEF Next
<1> QED
  BY <1>1, <1>2, ServerInvariance, PTL DEF Spec
===========================================================================
