----------------------------- MODULE MyServer -----------------------------
(***************************************************************************)
(* The server on epoll: myserver.cpp with epolloperator.cpp, the overloads *)
(* of userstatusevaluator.cpp for file descriptors, and the thread pool,   *)
(* which is the abstract TaskExecutor that ThreadPool implements.          *)
(*                                                                         *)
(* The main thread takes events from epoll, removes the descriptor from    *)
(* the interest list and queues a task; the task serves the descriptor     *)
(* until there is nothing left to read and puts it back.  Tasks, the map   *)
(* of the monitor and its copy name a connection by its descriptor only,   *)
(* and the kernel gives a number out again as soon as it is closed.        *)
(* Every system call and every access to the map is a step.  Headers       *)
(* arrive in one piece (the module Framing is about the others).           *)
(***************************************************************************)
EXTENDS Integers, FiniteSets, Sequences

CONSTANTS
  Conns,        \* clients, each of which connects once
  Users,        \* ids of users
  None,         \* no connection, no user
  MaxFd,        \* descriptors available for connections: 1..MaxFd
  MaxEvents,    \* MAX_EPOLL_EVENTS
  Limit,        \* 3: passes of the monitor without a heartbeat
  Script,       \* the requests that each client sends, one after the other
  MaxTasks      \* bound on the tasks considered

\* A request and the user whose id is in it.  "half" is a request whose body has not
\* arrived completely.
Requests == ({"heart", "half"} \X {None}) \cup ({"login", "live", "unlive"} \X Users)

ASSUME MyServerAssumption ==
  /\ IsFiniteSet(Conns) /\ None \notin Conns \cup Users
  /\ MaxFd \in Nat \ {0} /\ MaxEvents \in Nat \ {0} /\ Limit \in Nat \ {0}
  /\ MaxTasks \in Nat
  /\ Script \in [Conns -> Seq(Requests)]

VARIABLES
  peer,         \* the client's end of each connection
  inbox,        \* requests in the kernel's buffer
  sent,         \* how many requests the client has sent
  backlog,      \* connections that wait for accept
  fdTab,        \* the process's descriptor table
  watched,      \* epoll's interest list
  ready,        \* its ready list
  main,         \* what the main thread is doing
  evs,          \* events of the last epoll_wait still to be looked at
  newFd,        \* processSingleConnect's new_fd
  num, userId,  \* m_map: num (Absent if there is no entry) and userId
  live,         \* keys of m_liveList: users
  pending, running, completed,   \* the pool's tasks
  closed,       \* the pool is being destroyed: never, while the server runs
  taskFd,       \* the descriptor bound into each task
  wk,           \* where the thread that executes the task is
  who,          \* the user in the request, or in the entry, that the thread works with
  busyConn,     \* the connection that a blocked recv of the task holds
  owner,        \* history: the connection for which the task was queued
  monitor, map_copy, monFd, monVal,   \* as in BoostServer
  tainted,      \* history: descriptors that the monitor has closed
  orphaned,     \* history: users whose stream is in the list, though nothing will end it
  crashed       \* the call whose exception ended the process, or "no"

kernel  == <<fdTab, watched, ready>>
clients == <<peer, inbox, sent>>
loop    == <<main, evs, newFd>>
m_map   == <<num, userId>>
pool    == <<pending, running, completed, closed>>
tasks   == <<pool, taskFd, wk, who, busyConn, owner>>
mon     == <<monitor, map_copy, monFd, monVal>>
history == <<tainted, orphaned>>
vars    == <<clients, backlog, kernel, loop, m_map, live, tasks, mon, history, crashed>>

Absent   == -1
ListenFd == 0
Fds      == 1..MaxFd
Tasks    == 1..MaxTasks

Pool == INSTANCE TaskExecutor

(***************************************************************************)
(* wk: idle (not started or done), header (about to read a header), body   *)
(* (blocked in the body of a request), heart, login, live, unlive (a       *)
(* request has been read), rearm (about to add the descriptor to epoll),   *)
(* and the steps of a disconnection: ip, user, stream, remove, unwatch,    *)
(* close.                                                                  *)
(***************************************************************************)
WorkerStates ==
  {"idle", "header", "body", "heart", "login", "live", "unlive", "rearm",
   "ip", "user", "stream", "remove", "unwatch", "close"}

\* The types of the variables.
TypeOK ==
  /\ peer \in [Conns -> {"absent", "open", "closed", "reset"}]
  /\ inbox \in [Conns -> Seq(Requests)]
  /\ sent \in [Conns -> Nat]
  /\ backlog \in Seq(Conns)
  /\ fdTab \in [Fds -> Conns \cup {None}]
  /\ watched \subseteq Fds /\ ready \subseteq watched
  /\ main \in {"wait", "events", "accept", "track", "watch"}
  /\ evs \subseteq {ListenFd} \cup Fds
  /\ newFd \in Fds
  /\ num \in [Fds -> Absent..Limit]
  /\ userId \in [Fds -> Users \cup {None}]
  /\ live \subseteq Users
  /\ pending \in Seq(Tasks) /\ running \subseteq Tasks /\ completed \subseteq Tasks
  /\ closed = FALSE
  /\ taskFd \in [Tasks -> Fds]
  /\ wk \in [Tasks -> WorkerStates]
  /\ who \in [Tasks -> Users \cup {None}]
  /\ busyConn \in [Tasks -> Conns \cup {None}]
  /\ owner \in [Tasks -> Conns \cup {None}]
  /\ monitor \in {"sleep", "scan", "inc", "unwatch", "close"}
  /\ map_copy \in [Fds -> Absent..Limit]
  /\ monFd \in Fds /\ monVal \in 0..(Limit - 1)
  /\ tainted \subseteq Fds /\ orphaned \subseteq Users
  /\ crashed \in {"no", "set_0", "add_userId", "get_ip", "get_userId", "monitor"}

Init ==
  /\ peer = [c \in Conns |-> "absent"]
  /\ inbox = [c \in Conns |-> <<>>]
  /\ sent = [c \in Conns |-> 0]
  /\ backlog = <<>>
  /\ fdTab = [fd \in Fds |-> None]
  /\ watched = {} /\ ready = {}
  /\ main = "wait" /\ evs = {} /\ newFd = 1
  /\ num = [fd \in Fds |-> Absent] /\ userId = [fd \in Fds |-> None]
  /\ live = {}
  /\ pending = <<>> /\ running = {} /\ completed = {} /\ closed = FALSE
  /\ taskFd = [t \in Tasks |-> 1]
  /\ wk = [t \in Tasks |-> "idle"]
  /\ who = [t \in Tasks |-> None]
  /\ busyConn = [t \in Tasks |-> None] /\ owner = [t \in Tasks |-> None]
  /\ monitor = "sleep" /\ map_copy = [fd \in Fds |-> Absent]
  /\ monFd = 1 /\ monVal = 0
  /\ tainted = {} /\ orphaned = {} /\ crashed = "no"

Throw(call) ==
  /\ crashed' = call
  /\ UNCHANGED <<clients, backlog, kernel, loop, m_map, live, tasks, mon, history>>

(***************************************************************************)
(* The kernel.  A descriptor that is added to epoll is ready at once if    *)
(* there is something to read; afterwards (edge-triggered) when something  *)
(* arrives.  Closing a descriptor takes it out of epoll.                   *)
(***************************************************************************)
Readable(c) == inbox[c] # <<>> \/ peer[c] \in {"closed", "reset"}

\* EpollOperator::addFd; EBADF and EEXIST are only reported.
AddFd(fd) ==
  IF fdTab[fd] = None \/ fd \in watched
  THEN UNCHANGED <<watched, ready>>
  ELSE /\ watched' = watched \cup {fd}
       /\ ready' = IF Readable(fdTab[fd]) THEN ready \cup {fd} ELSE ready

\* EpollOperator::deleteFd; ENOENT and EBADF change nothing.
DeleteFd(fd) ==
  /\ watched' = watched \ {fd}
  /\ ready' = ready \ {fd}

Close(fd) ==
  /\ fdTab' = [fdTab EXCEPT ![fd] = None]
  /\ DeleteFd(fd)

\* Something has arrived for c.
Wake(c) == ready' = ready \cup {fd \in watched : fdTab[fd] = c}

FreeFds == {fd \in Fds : fdTab[fd] = None}

Serving == {fdTab[fd] : fd \in Fds} \ {None}

(***************************************************************************)
(* Clients.                                                                *)
(***************************************************************************)
Connect(c) ==
  /\ peer[c] = "absent"
  /\ peer' = [peer EXCEPT ![c] = "open"]
  /\ backlog' = Append(backlog, c)
  /\ UNCHANGED <<inbox, sent, kernel, loop, m_map, live, tasks, mon, history, crashed>>

HalfSent(c) == inbox[c] # <<>> /\ inbox[c][Len(inbox[c])][1] = "half"

InBody(c) == \E t \in running : wk[t] = "body" /\ busyConn[t] = c

Send(c) ==
  /\ peer[c] = "open" /\ c \in Serving
  /\ sent[c] < Len(Script[c])
  /\ ~HalfSent(c) /\ ~InBody(c)
  /\ inbox' = [inbox EXCEPT ![c] = Append(@, Script[c][sent[c] + 1])]
  /\ sent' = [sent EXCEPT ![c] = @ + 1]
  /\ Wake(c)
  /\ UNCHANGED <<peer, backlog, fdTab, watched, loop, m_map, live, tasks, mon, history, crashed>>

Disconnect(c) ==
  /\ peer[c] = "open"
  /\ peer' \in {[peer EXCEPT ![c] = "closed"], [peer EXCEPT ![c] = "reset"]}
  /\ Wake(c)
  /\ UNCHANGED <<inbox, sent, backlog, fdTab, watched, loop, m_map, live, tasks, mon, history, crashed>>

(***************************************************************************)
(* The main thread: MyServer::launch, processConnect, processSingleConnect.*)
(***************************************************************************)
Events == ready \cup (IF backlog # <<>> THEN {ListenFd} ELSE {})

\* epoll_wait: some of the events, in an order that is left open.
Listen ==
  /\ main = "wait"
  /\ \E E \in SUBSET Events :
       /\ E # {} /\ Cardinality(E) <= MaxEvents
       /\ evs' = E
       /\ ready' = ready \ E
  /\ main' = "events"
  /\ UNCHANGED <<clients, backlog, fdTab, watched, newFd, m_map, live, tasks, mon, history, crashed>>

ProcessConnect ==
  /\ main = "events" /\ ListenFd \in evs
  /\ evs' = evs \ {ListenFd}
  /\ main' = "accept"
  /\ UNCHANGED <<clients, backlog, kernel, newFd, m_map, live, tasks, mon, history, crashed>>

\* accept: the kernel gives out the lowest free number.
AcceptOne ==
  /\ main = "accept" /\ backlog # <<>>
  /\ \E fd \in FreeFds :
       /\ \A g \in FreeFds : fd <= g
       /\ newFd' = fd
       /\ fdTab' = [fdTab EXCEPT ![fd] = Head(backlog)]
  /\ backlog' = Tail(backlog)
  /\ main' = "track"
  /\ UNCHANGED <<clients, watched, ready, evs, m_map, live, tasks, mon, history, crashed>>

AcceptNone ==
  /\ main = "accept" /\ (backlog = <<>> \/ FreeFds = {})
  /\ main' = "events"
  /\ UNCHANGED <<clients, backlog, kernel, evs, newFd, m_map, live, tasks, mon, history, crashed>>

MutTrack ==
  /\ main = "track"
  /\ main' = "watch"
  /\ UNCHANGED <<clients, backlog, kernel, evs, newFd, m_map, live, tasks, mon, history, crashed>>

\* UserStatusEvaluator::add: insert leaves an entry that is there alone.
Track ==
  /\ main = "track"
  /\ IF num[newFd] = Absent
     THEN /\ num' = [num EXCEPT ![newFd] = 0]
          /\ userId' = [userId EXCEPT ![newFd] = None]
     ELSE UNCHANGED m_map
  /\ main' = "watch"
  /\ UNCHANGED <<clients, backlog, kernel, evs, newFd, live, tasks, mon, history, crashed>>

Watch ==
  /\ main = "watch"
  /\ AddFd(newFd)
  /\ main' = "accept" /\ newFd' = 1
  /\ UNCHANGED <<clients, backlog, fdTab, evs, m_map, live, tasks, mon, history, crashed>>

\* The descriptor is taken out of epoll, then the task is queued.  The second of
\* the two only appends to the queue, which nobody but a worker reads: one step.
Dispatch(fd) ==
  /\ main = "events" /\ fd \in evs \ {ListenFd}
  /\ evs' = evs \ {fd}
  /\ DeleteFd(fd)
  /\ LET t == Cardinality(completed) + Cardinality(running) + Len(pending) + 1 IN
       /\ t \in Tasks
       /\ Pool!Accept(t)
       /\ taskFd' = [taskFd EXCEPT ![t] = fd]
       /\ owner' = [owner EXCEPT ![t] = fdTab[fd]]
  /\ UNCHANGED <<clients, backlog, fdTab, main, newFd, m_map, live, wk, who, busyConn, mon, history, crashed>>

EventsDone ==
  /\ main = "events" /\ evs = {}
  /\ main' = "wait"
  /\ UNCHANGED <<clients, backlog, kernel, evs, newFd, m_map, live, tasks, mon, history, crashed>>

(***************************************************************************)
(* A pool thread: MyServer::processClientRequest, processSingleRequest.    *)
(***************************************************************************)
StartTask ==
  /\ Pool!Start
  /\ wk' = [wk EXCEPT ![Head(pending)] = "header"]
  /\ UNCHANGED <<clients, backlog, kernel, loop, m_map, live, taskFd, who, busyConn, owner, mon, history, crashed>>

Goto(t, s) == wk' = [wk EXCEPT ![t] = s]

EndTask(t) ==
  /\ Pool!Complete(t)
  /\ Goto(t, "idle")
  /\ taskFd' = [taskFd EXCEPT ![t] = 1]
  /\ owner' = [owner EXCEPT ![t] = None]

At(t, s) == t \in running /\ wk[t] = s

\* The connection that the task's descriptor stands for now.
Conn(t) == fdTab[taskFd[t]]

\* The header read returns a request.
Gets(t, r) ==
  /\ At(t, "header") /\ Conn(t) # None
  /\ inbox[Conn(t)] # <<>> /\ Head(inbox[Conn(t)]) = r

Consume(c) == inbox' = [inbox EXCEPT ![c] = Tail(@)]

\* The header, and the body if there is one.
Receive(t, r) ==
  /\ Gets(t, r) /\ r[1] # "half"
  /\ Consume(Conn(t))
  /\ Goto(t, r[1]) /\ who' = [who EXCEPT ![t] = r[2]]
  /\ UNCHANGED <<peer, sent, backlog, kernel, loop, m_map, live, pool, taskFd, busyConn, owner, mon, history, crashed>>

\* The request is done, and answered if it is one of those: on to the next header.
NextHeader(t) ==
  /\ Goto(t, "header") /\ who' = [who EXCEPT ![t] = None]
  /\ UNCHANGED <<clients, backlog, kernel, loop, pool, taskFd, busyConn, owner, mon, tainted, crashed>>

\* set_0: at() throws if there is no entry.
HandleHeart(t) ==
  /\ At(t, "heart")
  /\ IF num[taskFd[t]] = Absent THEN Throw("set_0")
     ELSE /\ num' = [num EXCEPT ![taskFd[t]] = 0]
          /\ NextHeader(t)
          /\ UNCHANGED <<userId, live, orphaned>>

\* do_login: add_userId if the password is right, nothing if it is wrong or the query
\* fails.  A stream of the user who was logged in before is left behind.
HandleLogin(t) ==
  /\ At(t, "login")
  /\ \/ NextHeader(t) /\ UNCHANGED <<m_map, live, orphaned>>
     \/ /\ num[taskFd[t]] = Absent
        /\ Throw("add_userId")
     \/ /\ num[taskFd[t]] # Absent
        /\ userId' = [userId EXCEPT ![taskFd[t]] = who[t]]
        /\ orphaned' = orphaned \cup (live \cap ({userId[taskFd[t]]} \ {who[t]}))
        /\ NextHeader(t)
        /\ UNCHANGED <<num, live>>

\* LiveListMonitor::add, for the user whom the request names.  The stream ends with
\* the connection only if that is the user who is logged in here.
HandleLive(t) ==
  /\ At(t, "live")
  /\ live' = live \cup {who[t]}
  /\ orphaned' = IF userId[taskFd[t]] = who[t] /\ taskFd[t] \notin tainted
                 THEN orphaned \ {who[t]} ELSE orphaned \cup {who[t]}
  /\ NextHeader(t)
  /\ UNCHANGED m_map

MutStreamsLeft(u) == live

\* LiveListMonitor::remove.
StreamsLeft(u) == live \ {u}

HandleUnlive(t) ==
  /\ At(t, "unlive")
  /\ live' = StreamsLeft(who[t])
  /\ NextHeader(t)
  /\ UNCHANGED <<m_map, orphaned>>

\* The body read blocks.  A recv that has begun goes on with its connection,
\* whatever becomes of the descriptor.
HandleHalf(t) ==
  /\ Gets(t, <<"half", None>>)
  /\ Consume(Conn(t))
  /\ busyConn' = [busyConn EXCEPT ![t] = Conn(t)]
  /\ Goto(t, "body")
  /\ UNCHANGED <<peer, sent, backlog, kernel, loop, m_map, live, pool, taskFd, who, owner, mon, history, crashed>>

\* A part arrives, and my_recv calls recv again, with the descriptor.
BodyPart(t) ==
  /\ At(t, "body") /\ peer[busyConn[t]] = "open"
  /\ Conn(t) # busyConn[t]
  /\ busyConn' = [busyConn EXCEPT ![t] = Conn(t)]
  /\ Goto(t, IF Conn(t) = None THEN "header" ELSE "body")
  /\ UNCHANGED <<clients, backlog, kernel, loop, m_map, live, pool, taskFd, who, owner, mon, history, crashed>>

\* The last bytes arrive, be they what the client has meant for the body or not, or
\* the client is gone: a short read, the request is dropped.
BodyDone(t) ==
  /\ At(t, "body")
  /\ LET c == busyConn[t] IN
       IF inbox[c] # <<>> THEN Consume(c) /\ UNCHANGED peer
       ELSE UNCHANGED inbox /\ peer' = [peer EXCEPT ![c] = IF @ = "reset" THEN "closed" ELSE @]
  /\ busyConn' = [busyConn EXCEPT ![t] = None]
  /\ Goto(t, "header")
  /\ UNCHANGED <<sent, backlog, kernel, loop, m_map, live, pool, taskFd, who, owner, mon, history, crashed>>

\* recv fails: nothing there, a reset (reported once), or not a descriptor.
HeaderError(t) ==
  /\ At(t, "header")
  /\ \/ Conn(t) = None /\ UNCHANGED peer
     \/ /\ Conn(t) # None /\ inbox[Conn(t)] = <<>>
        /\ \/ peer[Conn(t)] = "open" /\ UNCHANGED peer
           \/ peer[Conn(t)] = "reset" /\ peer' = [peer EXCEPT ![Conn(t)] = "closed"]
  /\ Goto(t, "rearm")
  /\ UNCHANGED <<inbox, sent, backlog, kernel, loop, m_map, live, pool, taskFd, who, busyConn, owner, mon, history, crashed>>

MutRearm(t) ==
  /\ At(t, "rearm")
  /\ EndTask(t)
  /\ UNCHANGED <<clients, backlog, kernel, loop, m_map, live, who, busyConn, mon, history, crashed>>

MutRearmAndGoOn(t) ==
  /\ At(t, "rearm")
  /\ AddFd(taskFd[t])
  /\ Goto(t, "header")
  /\ UNCHANGED <<clients, backlog, fdTab, loop, m_map, live, pool, taskFd, who, busyConn, owner, mon, history, crashed>>

Rearm(t) ==
  /\ At(t, "rearm")
  /\ AddFd(taskFd[t])
  /\ EndTask(t)
  /\ UNCHANGED <<clients, backlog, fdTab, loop, m_map, live, who, busyConn, mon, history, crashed>>

HeaderEof(t) ==
  /\ At(t, "header") /\ Conn(t) # None
  /\ inbox[Conn(t)] = <<>> /\ peer[Conn(t)] = "closed"
  /\ Goto(t, "ip")
  /\ UNCHANGED <<clients, backlog, kernel, loop, m_map, live, pool, taskFd, who, busyConn, owner, mon, history, crashed>>

GetIp(t) ==
  /\ At(t, "ip")
  /\ IF num[taskFd[t]] = Absent THEN Throw("get_ip")
     ELSE /\ Goto(t, "user")
          /\ UNCHANGED <<clients, backlog, kernel, loop, m_map, live, pool, taskFd, who, busyConn, owner, mon, history, crashed>>

GetUserId(t) ==
  /\ At(t, "user")
  /\ IF num[taskFd[t]] = Absent THEN Throw("get_userId")
     ELSE /\ who' = [who EXCEPT ![t] = userId[taskFd[t]]]
          /\ Goto(t, "stream")
          /\ UNCHANGED <<clients, backlog, kernel, loop, m_map, live, pool, taskFd, busyConn, owner, mon, history, crashed>>

EndStream(t) ==
  /\ At(t, "stream")
  /\ live' = StreamsLeft(who[t])
  /\ Goto(t, "remove") /\ who' = [who EXCEPT ![t] = None]
  /\ UNCHANGED <<clients, backlog, kernel, loop, m_map, pool, taskFd, busyConn, owner, mon, history, crashed>>

MutRemove(fd) == UNCHANGED num

\* UserStatusEvaluator::remove.
Remove(fd) == num' = [num EXCEPT ![fd] = Absent]

RemoveEntry(t) ==
  /\ At(t, "remove")
  /\ Remove(taskFd[t])
  /\ Goto(t, "unwatch")
  /\ UNCHANGED <<clients, backlog, kernel, loop, userId, live, pool, taskFd, who, busyConn, owner, mon, history, crashed>>

MutUnwatch(t) ==
  /\ At(t, "unwatch")
  /\ Close(taskFd[t])
  /\ Goto(t, "close")
  /\ UNCHANGED <<clients, backlog, loop, m_map, live, pool, taskFd, who, busyConn, owner, mon, history, crashed>>

Unwatch(t) ==
  /\ At(t, "unwatch")
  /\ DeleteFd(taskFd[t])
  /\ Goto(t, "close")
  /\ UNCHANGED <<clients, backlog, fdTab, loop, m_map, live, pool, taskFd, who, busyConn, owner, mon, history, crashed>>

CloseFd(t) ==
  /\ At(t, "close")
  /\ Close(taskFd[t])
  /\ EndTask(t)
  /\ UNCHANGED <<clients, backlog, loop, m_map, live, who, busyConn, mon, history, crashed>>

(***************************************************************************)
(* UserStatusEvaluator::start: the decision is taken on the copy.          *)
(***************************************************************************)
ScanBegin ==
  /\ monitor = "sleep"
  /\ monitor' = "scan" /\ map_copy' = num
  /\ UNCHANGED <<clients, backlog, kernel, loop, m_map, live, tasks, monFd, monVal, history, crashed>>

MayCount(n) == n >= 0 /\ n < Limit

Visit(fd) == map_copy' = [map_copy EXCEPT ![fd] = Absent]

Evict(fd) ==
  /\ monitor = "scan" /\ map_copy[fd] = Limit
  /\ Visit(fd)
  /\ num' = [num EXCEPT ![fd] = Absent]
  /\ monitor' = "unwatch" /\ monFd' = fd
  /\ UNCHANGED <<clients, backlog, kernel, loop, userId, live, tasks, monVal, history, crashed>>

EvictUnwatch ==
  /\ monitor = "unwatch"
  /\ DeleteFd(monFd)
  /\ monitor' = "close"
  /\ UNCHANGED <<clients, backlog, fdTab, loop, m_map, live, tasks, map_copy, monFd, monVal, history, crashed>>

\* Nobody removes the stream of the client.
EvictClose ==
  /\ monitor = "close"
  /\ tainted' = tainted \cup {monFd}
  /\ orphaned' = orphaned \cup (live \cap {userId[monFd]})
  /\ Close(monFd)
  /\ monitor' = "scan" /\ monFd' = 1
  /\ UNCHANGED <<clients, backlog, loop, m_map, live, tasks, map_copy, monVal, crashed>>

\* at(fd).num += 1: find the entry and read, then write; an entry that was erased
\* and added again in between is taken to be in the same place.
CountRead(fd) ==
  /\ monitor = "scan" /\ MayCount(map_copy[fd])
  /\ IF num[fd] = Absent THEN Throw("monitor")
     ELSE /\ Visit(fd)
          /\ monitor' = "inc" /\ monFd' = fd /\ monVal' = num[fd]
          /\ UNCHANGED <<clients, backlog, kernel, loop, m_map, live, tasks, history, crashed>>

CountWrite ==
  /\ monitor = "inc"
  /\ num' = IF num[monFd] = Absent THEN num ELSE [num EXCEPT ![monFd] = monVal + 1]
  /\ monitor' = "scan" /\ monFd' = 1 /\ monVal' = 0
  /\ UNCHANGED <<clients, backlog, kernel, loop, userId, live, tasks, map_copy, history, crashed>>

ScanEnd ==
  /\ monitor = "scan" /\ \A fd \in Fds : map_copy[fd] = Absent
  /\ monitor' = "sleep"
  /\ UNCHANGED <<clients, backlog, kernel, loop, m_map, live, tasks, map_copy, monFd, monVal, history, crashed>>

---------------------------------------------------------------------------
Client(c) == Connect(c) \/ Disconnect(c) \/ Send(c)

Main ==
  \/ Listen \/ ProcessConnect \/ AcceptOne \/ AcceptNone \/ Track \/ Watch \/ EventsDone
  \/ \E fd \in Fds : Dispatch(fd)

Worker(t) ==
  \/ \E r \in Requests : Receive(t, r)
  \/ HandleHeart(t) \/ HandleLogin(t) \/ HandleLive(t) \/ HandleUnlive(t)
  \/ HandleHalf(t) \/ BodyPart(t) \/ BodyDone(t)
  \/ HeaderError(t) \/ Rearm(t)
  \/ HeaderEof(t) \/ GetIp(t) \/ GetUserId(t) \/ EndStream(t)
  \/ RemoveEntry(t) \/ Unwatch(t) \/ CloseFd(t)

Monitor ==
  \/ ScanBegin \/ EvictUnwatch \/ EvictClose \/ CountWrite \/ ScanEnd
  \/ \E fd \in Fds : Evict(fd) \/ CountRead(fd)

Next ==
  /\ crashed = "no"
  /\ \/ \E c \in Conns : Client(c)
     \/ Main
     \/ StartTask
     \/ \E t \in Tasks : Worker(t)
     \/ Monitor

Spec == Init /\ [][Next]_vars
---------------------------------------------------------------------------
LiveTasks == running \cup {pending[i] : i \in DOMAIN pending}

\* The monitor has erased the entry of fd and is about to close it.
BeingEvicted(fd) == monitor \in {"unwatch", "close"} /\ monFd = fd

\* A queued or running task serves the connection it was queued for, although it
\* knows it by its number only and numbers are given out again (unless the monitor
\* has closed this number some time: it does not wait for the tasks).
TaskKeepsConnection ==
  \A t \in LiveTasks : taskFd[t] \in tainted \/ Conn(t) = owner[t]

\* No two threads read from one connection: its requests are handled in order.
\* The descriptor is out of epoll from the event to the end of the task.
OneTaskPerConnection ==
  \A t, u \in LiveTasks : t # u /\ taskFd[t] = taskFd[u] => taskFd[t] \in tainted

\* Somebody is about to look at fd.
Attended(fd) ==
  \/ fd \in ready \/ fd \in evs
  \/ main \in {"track", "watch"} /\ newFd = fd
  \/ \E t \in LiveTasks : taskFd[t] = fd
  \/ BeingEvicted(fd)

\* No edge is lost: as long as there is something to read on a connection, data or
\* its end, it is in epoll's ready list or somebody is about to read or add it.
NoLostEvent ==
  \A fd \in Fds : fdTab[fd] # None /\ Readable(fdTab[fd]) => Attended(fd)

\* A worker is done with the entry of its descriptor and has yet to close it.
BeingClosed(fd) == \E t \in running : taskFd[t] = fd /\ wk[t] \in {"unwatch", "close"}

\* The client of c has asked to be logged in as u.
Asked(c, u) == \E i \in 1..sent[c] : Script[c][i] = <<"login", u>>

\* The monitor's map has an entry for every connection, with a user only if that
\* client has logged in as him, and none for anything else: at() finds what it looks
\* for, and insert adds.
EntryMatchesConnection ==
  \A fd \in Fds \ tainted :
    /\ num[fd] # Absent => /\ fdTab[fd] # None
                           /\ userId[fd] = None \/ Asked(fdTab[fd], userId[fd])
    /\ fdTab[fd] # None /\ num[fd] = Absent =>
         (main = "track" /\ newFd = fd) \/ BeingClosed(fd) \/ BeingEvicted(fd)

\* fd is a connection on which u is logged in.
LoggedIn(fd, u) ==
  fdTab[fd] # None /\ userId[fd] = u /\ (num[fd] # Absent \/ BeingEvicted(fd))

\* A stream ends with the connection: whoever is in the list of live streams is logged
\* in on a connection, whose worker will remove the stream when it ends.  The
\* exceptions: the monitor has closed the connection, or the number once, the stream
\* was started on a connection of somebody else, or he has logged in as another user.
StreamHasConnection ==
  \A u \in live \ orphaned : \E fd \in Fds : LoggedIn(fd, u)

\* The calls of at() in a task, which nothing catches, find an entry: if one of them
\* throws, the monitor has closed the task's descriptor, or erased its entry and is
\* about to close it, while the task was running.
WorkerThrowsOnlyAfterEviction ==
  crashed \notin {"no", "monitor"} =>
    \E t \in running : /\ num[taskFd[t]] = Absent
                       /\ taskFd[t] \in tainted \/ BeingEvicted(taskFd[t])
===========================================================================
