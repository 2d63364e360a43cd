---------------------------- MODULE BoostServer ---------------------------
(***************************************************************************)
(* The server that main.cpp launches: boostserver.cpp accepts connections, *)
(* session.cpp serves each of them, and the heartbeat monitor of           *)
(* userstatusevaluator.cpp (the overloads for boost sockets) evicts the    *)
(* clients that have stopped sending heartbeats.                           *)
(*                                                                         *)
(* Handlers run on IoThreads threads, the monitor on its own.  All of      *)
(* them, readers and writers of m_map_boost alike, hold m_mutex in shared  *)
(* mode only, so the lock excludes nobody and is not a variable here:      *)
(* every access to the map is a step, and the monitor's increment is two.  *)
(* Calls of asio that throw are not caught anywhere: the exception ends    *)
(* the process.  Time is abstracted: any number of the monitor's passes,   *)
(* three seconds apart in the code, may come between two steps.            *)
(***************************************************************************)
EXTENDS Integers, FiniteSets, Sequences

CONSTANTS
  Conns,        \* connections, each used once
  Users,        \* users whose streams are started and ended
  IoThreads,    \* threads that run the io_context
  Limit,        \* 3: passes without a heartbeat before a client is evicted
  Requests,     \* kinds of requests that the clients send
  MaxSent,      \* bound on the requests of one client
  Resets        \* TRUE if a connection may be reset (RST) instead of closed

ASSUME BoostAssumption ==
  /\ IsFiniteSet(Conns)
  /\ IoThreads \in Nat \ {0} /\ Limit \in Nat \ {0} /\ MaxSent \in Nat
  /\ Requests \subseteq {"heart", "login", "get", "post", "half"}
  /\ Resets \in BOOLEAN

VARIABLES
  peer,         \* the client's end of each connection
  inbox,        \* requests received by the kernel, not consumed by the session
  sent,         \* how many requests the client has sent
  sock,         \* the server's socket object
  sess,         \* what the session of the connection is doing
  hb,           \* m_map_boost: num of each tracked socket, Absent for the others
  live,         \* keys of m_liveList: users
  monitor,      \* what the monitor thread is doing
  map_copy,     \* what is left to visit of the monitor's copy, Absent if visited
  monConn, monVal,   \* the socket the monitor works on, and the num it has read
  quiet,        \* history: checks since the last heartbeat was handled
  ignored,      \* history: clients whose last heartbeat the monitor does not notice
  crashed       \* the call whose exception ended the process, or "no"

clients  == <<peer, sent>>
mon      == <<monitor, map_copy, monConn, monVal>>
sessions == <<inbox, sock, sess>>
history  == <<quiet, ignored>>
vars == <<clients, sessions, hb, live, mon, history, crashed>>

Absent == -1

(***************************************************************************)
(* sess: none, accepted (in the accept handler, entry added), receiving    *)
(* (async_receive pending), handling (header read), checking (login, body  *)
(* read), replying (about to write), writing (blocked in the write),       *)
(* removing and closing (disconnect handler), ended (no handler will run   *)
(* again).                                                                 *)
(***************************************************************************)
TypeOK ==
  /\ peer \in [Conns -> {"absent", "open", "closed", "reset"}]
  /\ inbox \in [Conns -> Seq(Requests \cup {"get"})]
  /\ sent \in [Conns -> 0..MaxSent]
  /\ sock \in [Conns -> {"none", "open", "closed"}]
  /\ sess \in [Conns -> {"none", "accepted", "receiving", "handling", "checking", "replying",
                         "writing", "removing", "closing", "ended"}]
  /\ hb \in [Conns -> Absent..Limit]
  /\ live \subseteq Users
  /\ monitor \in {"sleep", "scan", "inc", "close"}
  /\ map_copy \in [Conns -> Absent..Limit]
  /\ monConn \in Conns
  /\ monVal \in 0..(Limit - 1)
  /\ quiet \in [Conns -> 0..Limit] /\ ignored \subseteq Conns
  /\ crashed \in {"no", "remote_endpoint", "read", "write", "set_0", "add_userId", "monitor"}

Init ==
  /\ peer = [c \in Conns |-> "absent"]
  /\ inbox = [c \in Conns |-> <<>>]
  /\ sent = [c \in Conns |-> 0]
  /\ sock = [c \in Conns |-> "none"]
  /\ sess = [c \in Conns |-> "none"]
  /\ hb = [c \in Conns |-> Absent]
  /\ live = {}
  /\ monitor = "sleep"
  /\ map_copy = [c \in Conns |-> Absent]
  /\ monConn \in Conns
  /\ monVal = 0
  /\ quiet = [c \in Conns |-> 0] /\ ignored = {}
  /\ crashed = "no"

Tracked == {c \in Conns : hb[c] # Absent}

\* An exception that nobody catches.
Throw(call) ==
  /\ crashed' = call
  /\ UNCHANGED <<clients, sessions, hb, live, mon, history>>

Goto(c, s) == sess' = [sess EXCEPT ![c] = s]

Consume(c) == inbox' = [inbox EXCEPT ![c] = Tail(@)]

(***************************************************************************)
(* Clients and the network.  A "half" request is one whose header has      *)
(* arrived while its body has not, or not completely.                      *)
(***************************************************************************)
Connect(c) ==
  /\ peer[c] = "absent"
  /\ peer' = [peer EXCEPT ![c] = "open"]
  /\ UNCHANGED <<inbox, sent, sock, sess, hb, live, mon, history, crashed>>

HalfSent(c) == inbox[c] # <<>> /\ inbox[c][Len(inbox[c])] = "half"

Send(c, r) ==
  /\ peer[c] = "open" /\ sock[c] # "closed"
  /\ sent[c] < MaxSent
  /\ ~HalfSent(c)
  /\ inbox' = [inbox EXCEPT ![c] = Append(@, r)]
  /\ sent' = [sent EXCEPT ![c] = @ + 1]
  /\ UNCHANGED <<peer, sock, sess, hb, live, mon, history, crashed>>

SendRest(c) ==
  /\ peer[c] = "open" /\ sock[c] # "closed"
  /\ HalfSent(c)
  /\ inbox' = [inbox EXCEPT ![c][Len(inbox[c])] = "get"]
  /\ UNCHANGED <<clients, sock, sess, hb, live, mon, history, crashed>>

Disconnect(c) ==
  /\ peer[c] = "open"
  /\ \/ peer' = [peer EXCEPT ![c] = "closed"]
     \/ Resets /\ peer' = [peer EXCEPT ![c] = "reset"]
  /\ UNCHANGED <<inbox, sent, sock, sess, hb, live, mon, history, crashed>>

(***************************************************************************)
(* The accept handler (boostserver.cpp).  The next async_accept is issued  *)
(* at its end only.                                                        *)
(***************************************************************************)
InHandler == {c \in Conns : sess[c] \in {"accepted", "handling", "checking", "replying",
                                         "writing", "removing", "closing"}}

ThreadFree == Cardinality(InHandler) < IoThreads

\* remote_endpoint() throws on a socket that is no longer connected.
Unconnected(c) == peer[c] = "reset" \/ sock[c] = "closed"

Accept(c) ==
  /\ peer[c] # "absent" /\ sess[c] = "none"
  /\ ThreadFree
  /\ \A d \in Conns : sess[d] # "accepted"
  /\ \/ /\ ~Unconnected(c)
        /\ sock' = [sock EXCEPT ![c] = "open"]
        /\ hb' = [hb EXCEPT ![c] = 0]
        /\ quiet' = [quiet EXCEPT ![c] = 0] /\ ignored' = ignored \ {c}
        /\ Goto(c, "accepted")
        /\ UNCHANGED <<clients, inbox, live, mon, crashed>>
     \/ /\ Unconnected(c)
        /\ Throw("remote_endpoint")

\* The Session's constructor asks for the endpoint once more.
StartSession(c) ==
  /\ sess[c] = "accepted"
  /\ \/ /\ ~Unconnected(c)
        /\ Goto(c, "receiving")
        /\ UNCHANGED <<clients, inbox, sock, hb, live, mon, history, crashed>>
     \/ /\ Unconnected(c)
        /\ Throw("remote_endpoint")

(***************************************************************************)
(* Session::processClientRequest: completions of async_receive.            *)
(***************************************************************************)
Receive(c) ==
  /\ sess[c] = "receiving" /\ ThreadFree
  /\ sock[c] = "open" /\ inbox[c] # <<>>
  /\ Goto(c, "handling")
  /\ UNCHANGED <<clients, inbox, sock, hb, live, mon, history, crashed>>

ReceiveEof(c) ==
  /\ sess[c] = "receiving" /\ ThreadFree
  /\ sock[c] = "open" /\ inbox[c] = <<>> /\ peer[c] = "closed"
  /\ Goto(c, "removing")
  /\ UNCHANGED <<clients, inbox, sock, hb, live, mon, history, crashed>>

MutReceiveNotAborted(c) ==
  /\ sess[c] = "receiving" /\ ThreadFree
  /\ sock[c] = "open" /\ inbox[c] = <<>> /\ peer[c] = "reset"
  /\ Goto(c, "ended")
  /\ UNCHANGED <<clients, inbox, sock, hb, live, mon, history, crashed>>

\* The session ends, without a clean-up: after a reset (line 171), or because the
\* monitor has closed the socket (lines 165-170).
ReceiveError(c) ==
  /\ sess[c] = "receiving" /\ ThreadFree
  /\ sock[c] = "closed" \/ (inbox[c] = <<>> /\ peer[c] = "reset")
  /\ Goto(c, "ended")
  /\ UNCHANGED <<clients, inbox, sock, hb, live, mon, history, crashed>>

MutRemoveNothing(c) == UNCHANGED hb

\* UserStatusEvaluator::remove.
Remove(c) == hb' = [hb EXCEPT ![c] = Absent]

RemoveEntry(c) ==
  /\ sess[c] = "removing"
  /\ Remove(c)
  /\ Goto(c, "closing")
  /\ UNCHANGED <<clients, inbox, sock, live, mon, history, crashed>>

CloseSocket(c) ==
  /\ sess[c] = "closing"
  /\ sock' = [sock EXCEPT ![c] = "closed"]
  /\ Goto(c, "ended")
  /\ UNCHANGED <<clients, inbox, hb, live, mon, history, crashed>>

(***************************************************************************)
(* Session::processSingleRequest.  Every request but the heartbeat has a   *)
(* body, which boost::asio::read waits for.                                *)
(***************************************************************************)
Handling(c, r) == sess[c] = "handling" /\ Head(inbox[c]) = r

\* The monitor is about to overwrite the num of c, or to evict c because of its copy.
Overtaken(c) == (monitor = "inc" /\ monConn = c) \/ map_copy[c] = Limit

NoteHeart(c) ==
  /\ quiet' = [quiet EXCEPT ![c] = 0]
  /\ ignored' = IF Overtaken(c) THEN ignored \cup {c} ELSE ignored \ {c}

MutHandleHeart(c) ==
  /\ Handling(c, "heart")
  /\ \/ /\ c \in Tracked
        /\ NoteHeart(c)
        /\ Consume(c) /\ Goto(c, "receiving")
        /\ UNCHANGED <<clients, sock, hb, live, mon, crashed>>
     \/ /\ c \notin Tracked
        /\ Throw("set_0")

\* set_0: at() throws if the monitor has evicted the client.
HandleHeart(c) ==
  /\ Handling(c, "heart")
  /\ \/ /\ c \in Tracked
        /\ hb' = [hb EXCEPT ![c] = 0]
        /\ NoteHeart(c)
        /\ Consume(c) /\ Goto(c, "receiving")
        /\ UNCHANGED <<clients, sock, live, mon, crashed>>
     \/ /\ c \notin Tracked
        /\ Throw("set_0")

\* boost::asio::read throws: the connection ended within the body, or the socket
\* was closed before it could be read.
ReadThrows(c) ==
  /\ sess[c] = "handling" /\ Head(inbox[c]) # "heart"
  /\ \/ Head(inbox[c]) = "half" /\ peer[c] # "open"
     \/ Head(inbox[c]) # "half" /\ sock[c] = "closed"
  /\ Throw("read")

\* A thread that waits for the rest of a body on a socket that another thread
\* closes may go on waiting or may notice it.
ReadNoticesClose(c) ==
  /\ Handling(c, "half") /\ sock[c] = "closed"
  /\ Throw("read")

HandleLogin(c) ==
  /\ Handling(c, "login") /\ sock[c] = "open"
  /\ Goto(c, "checking")
  /\ UNCHANGED <<clients, inbox, sock, hb, live, mon, history, crashed>>

\* do_login, after the query: only for the right password add_userId, whose at()
\* needs the entry.
CheckLogin(c) ==
  /\ sess[c] = "checking"
  /\ \/ /\ Goto(c, "replying")
        /\ UNCHANGED <<clients, inbox, sock, hb, live, mon, history, crashed>>
     \/ /\ c \notin Tracked
        /\ Throw("add_userId")

\* Register, GetFile, GetInfo, SendFile of a video: requests that are answered ("get").
HandleGet(c) ==
  /\ Handling(c, "get") /\ sock[c] = "open"
  /\ Goto(c, "replying")
  /\ UNCHANGED <<clients, inbox, sock, hb, live, mon, history, crashed>>

\* Chat and most of ModifyInfo: requests that are not ("post").
HandlePost(c) ==
  /\ Handling(c, "post") /\ sock[c] = "open"
  /\ Consume(c) /\ Goto(c, "receiving")
  /\ UNCHANGED <<clients, sock, hb, live, mon, history, crashed>>

\* The start of a live stream, which is answered, and the end, which is not; of the
\* user whom the request names.
HandleLive(c) ==
  /\ Handling(c, "get") /\ sock[c] = "open"
  /\ \E u \in Users : live' = live \cup {u}
  /\ Goto(c, "replying")
  /\ UNCHANGED <<clients, inbox, sock, hb, mon, history, crashed>>

HandleUnlive(c) ==
  /\ Handling(c, "post") /\ sock[c] = "open"
  /\ \E u \in Users : live' = live \ {u}
  /\ Consume(c) /\ Goto(c, "receiving")
  /\ UNCHANGED <<clients, sock, hb, mon, history, crashed>>

\* boost::asio::write.  A client that has closed its end answers with a reset,
\* sooner or later; a write after that throws.
Reply(c) ==
  /\ sess[c] = "replying"
  /\ \/ /\ ~Unconnected(c)
        /\ \/ UNCHANGED peer
           \/ peer[c] = "closed" /\ peer' = [peer EXCEPT ![c] = "reset"]
        /\ Consume(c) /\ Goto(c, "receiving")
        /\ UNCHANGED <<sent, sock, hb, live, mon, history, crashed>>
     \/ /\ Unconnected(c)
        /\ Throw("write")

\* The client does not read and the buffers are full: the io thread waits.
WriteBlocks(c) ==
  /\ sess[c] = "replying" /\ peer[c] = "open" /\ sock[c] = "open"
  /\ Goto(c, "writing")
  /\ UNCHANGED <<clients, inbox, sock, hb, live, mon, history, crashed>>

\* The client reads at last, or the connection ends.
WriteEnds(c) ==
  /\ sess[c] = "writing"
  /\ \/ /\ peer[c] = "open" /\ sock[c] = "open"
        /\ Consume(c) /\ Goto(c, "receiving")
        /\ UNCHANGED <<clients, sock, hb, live, mon, history, crashed>>
     \/ /\ peer[c] # "open" \/ sock[c] = "closed"
        /\ Throw("write")

(***************************************************************************)
(* UserStatusEvaluator::start_boost.                                       *)
(***************************************************************************)
ScanBegin ==
  /\ monitor = "sleep"
  /\ monitor' = "scan"
  /\ map_copy' = hb
  /\ UNCHANGED <<clients, sessions, hb, live, monConn, monVal, history, crashed>>

MutMustEvict(n) == n > Limit

MustEvict(n) == n = Limit

MayCount(n) == n >= 0 /\ n < Limit

Visit(c) == map_copy' = [map_copy EXCEPT ![c] = Absent]

\* The decision is taken on the copy.
Evict(c) ==
  /\ monitor = "scan" /\ MustEvict(map_copy[c])
  /\ Visit(c)
  /\ hb' = [hb EXCEPT ![c] = Absent]
  /\ monitor' = "close" /\ monConn' = c
  /\ UNCHANGED <<clients, sessions, live, monVal, history, crashed>>

MutEvictWithoutClose == UNCHANGED sock

EvictClose == sock' = [sock EXCEPT ![monConn] = "closed"]

MonitorClose ==
  /\ monitor = "close"
  /\ EvictClose
  /\ monitor' = "scan"
  /\ UNCHANGED <<clients, inbox, sess, hb, live, map_copy, monConn, monVal, history, crashed>>

\* at(socket).num += 1: find the entry and read, then write.
CountRead(c) ==
  /\ monitor = "scan" /\ MayCount(map_copy[c])
  /\ \/ /\ c \in Tracked
        /\ Visit(c)
        /\ monitor' = "inc" /\ monConn' = c /\ monVal' = hb[c]
        /\ UNCHANGED <<clients, sessions, hb, live, history, crashed>>
     \/ /\ c \notin Tracked
        /\ Throw("monitor")

MutWriteInserts == hb' = [hb EXCEPT ![monConn] = monVal + 1]

\* If the entry has gone in the meantime the write hits nobody's num.
WriteNum ==
  hb' = IF monConn \in Tracked THEN [hb EXCEPT ![monConn] = monVal + 1] ELSE hb

CountWrite ==
  /\ monitor = "inc"
  /\ WriteNum
  /\ quiet' = [quiet EXCEPT ![monConn] = IF @ < Limit THEN @ + 1 ELSE @]
  /\ monitor' = "scan"
  /\ UNCHANGED <<clients, sessions, live, map_copy, monConn, monVal, ignored, crashed>>

ScanEnd ==
  /\ monitor = "scan"
  /\ \A c \in Conns : map_copy[c] = Absent
  /\ monitor' = "sleep"
  /\ UNCHANGED <<clients, sessions, hb, live, map_copy, monConn, monVal, history, crashed>>

---------------------------------------------------------------------------
Client(c) == Connect(c) \/ SendRest(c) \/ Disconnect(c) \/ \E r \in Requests : Send(c, r)

Handler(c) ==
  \/ Accept(c) \/ StartSession(c)
  \/ Receive(c) \/ ReceiveEof(c) \/ ReceiveError(c)
  \/ RemoveEntry(c) \/ CloseSocket(c)
  \/ HandleHeart(c) \/ HandleLogin(c) \/ HandleGet(c) \/ HandlePost(c)
  \/ CheckLogin(c) \/ HandleLive(c) \/ HandleUnlive(c) \/ ReadThrows(c)
  \/ Reply(c) \/ WriteBlocks(c)

Monitor ==
  \/ ScanBegin \/ ScanEnd \/ MonitorClose \/ CountWrite
  \/ \E c \in Conns : Evict(c) \/ CountRead(c)

Next ==
  /\ crashed = "no"
  /\ \/ \E c \in Conns : Client(c) \/ Handler(c) \/ ReadNoticesClose(c) \/ WriteEnds(c)
     \/ Monitor

Spec == Init /\ [][Next]_vars

\* The io_context runs what is ready, and the monitor's sleeps end.  Clients
\* need not do anything, not even read; but a blocked write notices that the client
\* has gone.
Fairness ==
  /\ \A c \in Conns : /\ WF_vars(crashed = "no" /\ Handler(c))
                       /\ WF_vars(crashed = "no" /\ peer[c] # "open" /\ WriteEnds(c))
  /\ WF_vars(crashed = "no" /\ Monitor)

FairSpec == Spec /\ Fairness

---------------------------------------------------------------------------
\* A socket in the monitor's map is open: whoever closes a socket, the session
\* or the monitor, has removed its entry before, and nobody puts it back.
TrackedSocketOpen == \A c \in Tracked : sock[c] = "open"

\* A session that has ended without closing its socket (a reset connection) has
\* left it where the monitor finds it: no socket leaks.
EndedSessionReapable ==
  \A c \in Conns :
    sess[c] = "ended" /\ sock[c] = "open" =>
      c \in Tracked \/ (monitor = "close" /\ monConn = c)

\* An entry that was removed never comes back, although the monitor goes on
\* working with its stale copy of the map.
NoResurrection ==
  [][\A c \in Conns : sess[c] # "none" /\ hb[c] = Absent => hb'[c] = Absent]_vars

\* When a client has gone, in whatever way, its socket is closed in the end, even
\* if every io thread is stuck: the monitor sees to it.
GoneClientReaped ==
  \A c \in Conns : (peer[c] \in {"closed", "reset"} /\ sock[c] = "open")
                      ~> (sock[c] = "closed" \/ crashed # "no")

\* An io thread waits for the client: for the rest of a request, or until it reads.
Waiting(c) == Handling(c, "half") \/ sess[c] = "writing"

Stuck == Cardinality({c \in Conns : Waiting(c)}) = IoThreads

\* When the monitor has evicted a client, or the session has closed the socket,
\* the session object goes too: its pending receive is completed with an error.
\* Only io threads that all wait, for ever or again and again, for the rest of
\* somebody's request or for somebody to read can keep it from being so.
ClosedSessionEnds ==
  <>[]~Stuck => \A c \in Conns : (sock[c] = "closed" /\ ~Waiting(c))
                                    ~> (sess[c] = "ended" \/ crashed # "no")

\* The monitor's access to its own map never fails: the map is "a shared
\* resource that needs a lock" (development log, 2025.1.16).
MonitorNeverThrows == crashed # "monitor"

\* "Without a heartbeat in 3 consecutive checks" a client counts as gone: the monitor
\* evicts nobody else, except a client whose last heartbeat came while the monitor was
\* incrementing its num (the increment overwrites it) or held a copy in which the
\* client is already to be evicted.  A heartbeat at any other time saves it, however
\* late in the scan, and whatever earlier heartbeats were overwritten.
EvictedOnlyIfSilent ==
  [][\A c \in Conns : Evict(c) => quiet[c] = Limit \/ c \in ignored]_vars

\* The calls of at() in a session, which nothing catches, find an entry: if one of
\* them throws, the monitor has closed the session's socket, or erased its entry and
\* is about to close it, while the request was being handled.
SessionThrowsOnlyAfterEviction ==
  crashed \in {"set_0", "add_userId"} =>
    \E c \in Conns : /\ sess[c] \in {"handling", "checking"} /\ c \notin Tracked
                     /\ sock[c] = "closed" \/ (monitor = "close" /\ monConn = c)
===========================================================================
