-------------------------- MODULE MyServerProofs --------------------------
(***************************************************************************)
(* Proofs about MyServer: for any number of clients, descriptors, events   *)
(* per call, requests and tasks, with the monitor running.                 *)
(***************************************************************************)
EXTENDS MyServer, TLAPS

\* The queue of the pool holds a task once, and only until it is started.
QueueOK ==
  /\ \A i, j \in DOMAIN pending : pending[i] = pending[j] => i = j
  /\ \A i \in DOMAIN pending : pending[i] \notin running

\* A blocked recv has a connection.
BodyOK == \A t \in running : wk[t] = "body" => busyConn[t] # None

\* What the monitor is going to add one to is below the limit.
CopyOK ==
  /\ \A fd \in Fds : map_copy[fd] # Absent => num[fd] <= map_copy[fd]
  /\ monitor = "inc" => map_copy[monFd] = Absent

\* A request that names a user has one.
WhoOK == \A t \in running : wk[t] \in {"login", "live", "unlive"} => who[t] \in Users

TypeInv == TypeOK /\ QueueOK /\ BodyOK /\ CopyOK /\ WhoOK

\* The descriptor that the main thread has just got from accept.
IsNew(fd) == main \in {"track", "watch"} /\ newFd = fd

Served(fd) == \E t \in LiveTasks : taskFd[t] = fd

\* At any time one party holds a descriptor that the monitor has never closed: epoll
\* and the main thread through an event, or the main thread after accept, or one task.
HeldOnce ==
  \A fd \in Fds \ tainted :
    /\ fd \in evs \/ Served(fd) \/ IsNew(fd) => fdTab[fd] # None
    /\ fd \in evs \cup watched => ~Served(fd)
    /\ IsNew(fd) => fd \notin evs \cup watched /\ ~Served(fd)

WatchedOpen == \A fd \in watched : fdTab[fd] # None

HoldInv == WatchedOpen /\ HeldOnce /\ TaskKeepsConnection /\ OneTaskPerConnection

\* Nobody forgets an open descriptor, and epoll knows which ones are readable.
Held(fd) == fd \in watched \/ fd \in evs \/ IsNew(fd) \/ Served(fd) \/ BeingEvicted(fd)

OpenHeld == \A fd \in Fds : fdTab[fd] # None => Held(fd)

ReadyKnown == \A fd \in watched : Readable(fdTab[fd]) => fd \in ready \/ fd \in evs

EventInv == (main = "wait" => evs = {}) /\ OpenHeld /\ ReadyKnown

Closing(t) == t \in running /\ wk[t] \in {"unwatch", "close"}

\* Nobody adds an entry again behind the back of a worker that has removed it.
ClosingRemoved == \A t \in running : Closing(t) /\ taskFd[t] \notin tainted => num[taskFd[t]] = Absent

EntryInv == EntryMatchesConnection /\ ClosingRemoved

\* What a worker takes for a login of its connection's client is one.
InboxAsked ==
  \A c \in Conns, u \in Users : \A i \in DOMAIN inbox[c] : inbox[c][i] = <<"login", u>> => Asked(c, u)

LoginAsked ==
  \A t \in running : wk[t] = "login" /\ taskFd[t] \notin tainted => Asked(Conn(t), who[t])

RequestInv == InboxAsked /\ LoginAsked

Leaving(t) == t \in running /\ wk[t] \in {"remove", "unwatch", "close"}

\* The worker that ends the stream of u will come along at the descriptor fd.
EndsStream(fd, u) ==
  /\ LoggedIn(fd, u)
  /\ ~(main = "track" /\ newFd = fd)
  /\ \A t \in running : taskFd[t] = fd => ~Leaving(t)

StreamsEnd == \A u \in live \ orphaned : \E fd \in Fds \ tainted : EndsStream(fd, u)

\* Nobody logs in on a connection whose stream is about to be ended.
UserKnown ==
  \A t \in running : wk[t] = "stream" /\ taskFd[t] \notin tainted => who[t] = userId[taskFd[t]]

StreamInv == StreamsEnd /\ UserKnown

MyServerInv == TypeInv /\ HoldInv /\ EventInv /\ EntryInv /\ RequestInv /\ StreamInv
(***************************************************************************)
(* The pool's tasks.                                                       *)
(***************************************************************************)
LEMMA LiveStart ==
  ASSUME TypeOK, Pool!Start
  PROVE  LiveTasks' = LiveTasks
<1>1. /\ pending \in Seq(Tasks) /\ pending # <<>>
      /\ pending' = Tail(pending) /\ running' = running \cup {Head(pending)}
  BY DEF TypeOK, Pool!Start
<1>2. /\ Len(pending) \in Nat \ {0} /\ DOMAIN pending = 1..Len(pending) /\ Head(pending) = pending[1]
      /\ DOMAIN pending' = 1..(Len(pending) - 1)
      /\ \A i \in 1..(Len(pending) - 1) : pending'[i] = pending[i + 1] /\ i + 1 \in 1..Len(pending)
      /\ \A i \in 1..Len(pending) : i = 1 \/ (i - 1 \in 1..(Len(pending) - 1) /\ pending'[i - 1] = pending[i])
  BY <1>1
<1>3. \A t : (\E i \in DOMAIN pending : pending[i] = t)
             <=> t = Head(pending) \/ \E i \in DOMAIN pending' : pending'[i] = t
  <2>1. \A i \in DOMAIN pending : pending[i] = Head(pending) \/ \E j \in DOMAIN pending' : pending'[j] = pending[i]
    <3> SUFFICES ASSUME NEW i \in DOMAIN pending, i # 1
                 PROVE  \E j \in DOMAIN pending' : pending'[j] = pending[i]
      BY <1>2
    <3>1. i - 1 \in DOMAIN pending' /\ pending'[i - 1] = pending[i]
      BY <1>2
    <3> QED
      BY <3>1
  <2>2. \A j \in DOMAIN pending' : \E i \in DOMAIN pending : pending[i] = pending'[j]
    <3> SUFFICES ASSUME NEW j \in DOMAIN pending'
                 PROVE  \E i \in DOMAIN pending : pending[i] = pending'[j]
      OBVIOUS
    <3>1. j + 1 \in DOMAIN pending /\ pending[j + 1] = pending'[j]
      BY <1>2
    <3> QED
      BY <3>1
  <2>3. 1 \in DOMAIN pending /\ pending[1] = Head(pending)
    BY <1>2
  <2> QED
    BY <2>1, <2>2, <2>3
<1> QED
  BY <1>1, <1>3 DEF LiveTasks

LEMMA LiveAccept ==
  ASSUME TypeOK, NEW t \in Tasks, Pool!Accept(t)
  PROVE  LiveTasks' = LiveTasks \cup {t} /\ t \notin LiveTasks
<1>1. /\ pending \in Seq(Tasks) /\ running' = running
      /\ pending' = Append(pending, t) /\ t \notin running /\ t \notin Pool!Pending
  BY DEF TypeOK, Pool!Accept
<1>2. /\ Len(pending) \in Nat /\ DOMAIN pending = 1..Len(pending)
      /\ DOMAIN pending' = 1..(Len(pending) + 1) /\ pending'[Len(pending) + 1] = t
      /\ \A i \in 1..Len(pending) : pending'[i] = pending[i]
  BY <1>1
<1>3. \A u : (\E i \in DOMAIN pending' : pending'[i] = u)
             <=> u = t \/ \E i \in DOMAIN pending : pending[i] = u
  BY <1>2
<1> QED
  BY <1>1, <1>3 DEF LiveTasks, Pool!Pending

LEMMA LiveComplete ==
  ASSUME QueueOK, NEW t \in Tasks, Pool!Complete(t)
  PROVE  LiveTasks' = LiveTasks \ {t}
BY DEF QueueOK, LiveTasks, Pool!Complete

\* A running task is one of the pool's tasks.
LEMMA LiveTyped ==
  ASSUME TypeOK
  PROVE  LiveTasks \subseteq Tasks /\ running \subseteq LiveTasks
BY DEF TypeOK, LiveTasks
(***************************************************************************)
(* Types.                                                                  *)
(***************************************************************************)
LEMMA TypeInit == Init => TypeInv
<1> SUFFICES ASSUME Init PROVE TypeInv
  OBVIOUS
<1>1. 1 \in Fds /\ Absent \in Absent..Limit /\ 0 \in 0..(Limit - 1)
  BY MyServerAssumption DEF Fds, Absent
<1>2. TypeOK
  BY <1>1 DEF Init, TypeOK, WorkerStates
<1>3. DOMAIN pending = {} /\ running = {}
  BY DEF Init
<1>4. QueueOK /\ BodyOK /\ CopyOK /\ WhoOK
  BY <1>3 DEF QueueOK, BodyOK, CopyOK, WhoOK, Init
<1> QED
  BY <1>2, <1>4 DEF TypeInv

\* What most steps leave alone.
LEMMA TypeRest ==
  ASSUME TypeInv
  PROVE  /\ UNCHANGED <<pending, running>> => QueueOK'
         /\ UNCHANGED <<running, wk, busyConn>> => BodyOK'
         /\ UNCHANGED <<num, map_copy, monitor, monFd>> => CopyOK'
         /\ UNCHANGED <<running, wk, who>> => WhoOK'
BY DEF TypeInv, QueueOK, BodyOK, CopyOK, WhoOK

\* A heartbeat, a new entry and a removal never raise a count.
LEMMA CopyRest ==
  ASSUME TypeInv, \A fd \in Fds : num'[fd] \in {num[fd], 0, Absent},
         UNCHANGED <<map_copy, monitor, monFd>>
  PROVE  CopyOK'
<1>1. \A fd \in Fds : map_copy[fd] # Absent => 0 <= map_copy[fd] /\ Absent <= map_copy[fd]
  BY MyServerAssumption DEF TypeInv, TypeOK, Absent
<1> QED
  BY <1>1 DEF TypeInv, CopyOK

LEMMA ClientTypes ==
  ASSUME TypeInv, NEW c \in Conns, Client(c)
  PROVE  TypeInv'
<1> USE DEF TypeInv, clients, kernel, loop, m_map, pool, tasks, mon, history
<1>1. QueueOK' /\ BodyOK' /\ CopyOK' /\ WhoOK'
  BY TypeRest DEF Client, Connect, Send, Disconnect
<1>2. CASE Connect(c)
  <2>1. backlog' \in Seq(Conns) /\ peer' \in [Conns -> {"absent", "open", "closed", "reset"}]
    BY <1>2 DEF TypeOK, Connect
  <2> QED
    BY <1>1, <1>2, <2>1 DEF TypeOK, Connect
<1>3. CASE Send(c)
  <2>1. Script[c][sent[c] + 1] \in Requests
    <3>1. Script[c] \in Seq(Requests) /\ sent[c] \in Nat /\ sent[c] < Len(Script[c])
      BY <1>3, MyServerAssumption DEF Send, TypeOK
    <3> QED
      BY <3>1
  <2>2. inbox' \in [Conns -> Seq(Requests)] /\ sent' \in [Conns -> Nat]
    BY <1>3, <2>1 DEF Send, TypeOK
  <2>3. ready' \subseteq watched
    BY <1>3 DEF Send, Wake, TypeOK
  <2> QED
    BY <1>1, <1>3, <2>2, <2>3 DEF Send, TypeOK
<1>4. CASE Disconnect(c)
  <2>1. peer' \in [Conns -> {"absent", "open", "closed", "reset"}] /\ ready' \subseteq watched
    BY <1>4 DEF Disconnect, Wake, TypeOK
  <2> QED
    BY <1>1, <1>4, <2>1 DEF Disconnect, TypeOK
<1> QED
  BY <1>2, <1>3, <1>4 DEF Client

LEMMA MainTypes ==
  ASSUME TypeInv, Main
  PROVE  TypeInv'
<1> USE DEF TypeInv, clients, kernel, loop, m_map, pool, tasks, mon, history
<1>1. CASE Listen
  <2>1. PICK E \in SUBSET Events : evs' = E /\ ready' = ready \ E
    BY <1>1 DEF Listen
  <2>2. evs' \subseteq {ListenFd} \cup Fds
    BY <2>1 DEF Events, TypeOK
  <2> QED
    BY <1>1, <2>1, <2>2, TypeRest DEF Listen, TypeOK
<1>2. CASE ProcessConnect \/ AcceptNone \/ EventsDone
  BY <1>2, TypeRest DEF ProcessConnect, AcceptNone, EventsDone, TypeOK
<1>3. CASE AcceptOne
  <2>1. PICK fd \in FreeFds : newFd' = fd /\ fdTab' = [fdTab EXCEPT ![fd] = Head(backlog)]
    BY <1>3 DEF AcceptOne
  <2>2. Head(backlog) \in Conns /\ Tail(backlog) \in Seq(Conns)
    BY <1>3 DEF AcceptOne, TypeOK
  <2>3. newFd' \in Fds /\ fdTab' \in [Fds -> Conns \cup {None}]
    BY <2>1, <2>2 DEF FreeFds, TypeOK
  <2> QED
    BY <1>3, <2>2, <2>3, TypeRest DEF AcceptOne, TypeOK
<1>4. CASE Track
  <2>1. /\ num' \in [Fds -> Absent..Limit] /\ userId' \in [Fds -> Users \cup {None}]
        /\ \A fd \in Fds : num'[fd] = num[fd] \/ num'[fd] = 0
    <3>1. /\ num \in [Fds -> Absent..Limit] /\ userId \in [Fds -> Users \cup {None}]
          /\ newFd \in Fds /\ 0 \in Absent..Limit
      BY MyServerAssumption DEF TypeOK, Absent
    <3>2. CASE num[newFd] = Absent
      BY <1>4, <3>1, <3>2 DEF Track
    <3>3. CASE num[newFd] # Absent
      BY <1>4, <3>1, <3>3 DEF Track
    <3> QED
      BY <3>2, <3>3
  <2>2. CopyOK'
    BY <1>4, <2>1, CopyRest DEF Track
  <2> QED
    BY <1>4, <2>1, <2>2, TypeRest DEF Track, TypeOK
<1>5. CASE Watch
  <2>1. 1 \in Fds
    BY MyServerAssumption DEF Fds
  <2>2. watched' \subseteq Fds /\ ready' \subseteq watched'
    BY <1>5 DEF Watch, AddFd, TypeOK
  <2> QED
    BY <1>5, <2>1, <2>2, TypeRest DEF Watch, TypeOK
<1>6. ASSUME NEW fd \in Fds, Dispatch(fd) PROVE TypeInv'
  <2>1. PICK t \in Tasks : /\ Pool!Accept(t)
                           /\ taskFd' = [taskFd EXCEPT ![t] = fd]
                           /\ owner' = [owner EXCEPT ![t] = fdTab[fd]]
    BY <1>6 DEF Dispatch
  <2>2. /\ pending' \in Seq(Tasks) /\ taskFd' \in [Tasks -> Fds]
        /\ owner' \in [Tasks -> Conns \cup {None}] /\ UNCHANGED <<running, completed, closed>>
    BY <2>1 DEF TypeOK, Pool!Accept
  <2>3. QueueOK'
    <3>1. /\ pending \in Seq(Tasks) /\ pending' = Append(pending, t)
          /\ t \notin running /\ \A i \in DOMAIN pending : pending[i] # t
      BY <2>1 DEF TypeOK, Pool!Accept, Pool!Pending
    <3>2. /\ DOMAIN pending' = 1..(Len(pending) + 1) /\ pending'[Len(pending) + 1] = t
          /\ Len(pending) \in Nat /\ DOMAIN pending = 1..Len(pending)
          /\ \A i \in 1..Len(pending) : pending'[i] = pending[i]
      BY <3>1
    <3>3. \A i \in DOMAIN pending' : i = Len(pending) + 1 \/ i \in DOMAIN pending
      BY <3>2
    <3> QED
      BY <2>2, <3>1, <3>2, <3>3 DEF QueueOK
  <2>4. watched' \subseteq Fds /\ ready' \subseteq watched'
    BY <1>6 DEF Dispatch, DeleteFd, TypeOK
  <2> QED
    BY <1>6, <2>2, <2>3, <2>4, TypeRest DEF Dispatch, TypeOK
<1> QED
  BY <1>1, <1>2, <1>3, <1>4, <1>5, <1>6 DEF Main

LEMMA StartTypes ==
  ASSUME TypeInv, StartTask
  PROVE  TypeInv'
<1> USE DEF TypeInv, clients, kernel, loop, m_map, pool, tasks, mon, history
<1>1. /\ pending \in Seq(Tasks) /\ pending # <<>>
      /\ pending' = Tail(pending) /\ running' = running \cup {Head(pending)}
      /\ UNCHANGED <<completed, closed>>
  BY DEF TypeOK, StartTask, Pool!Start
<1>2. /\ Head(pending) \in Tasks /\ pending' \in Seq(Tasks) /\ Head(pending) = pending[1]
      /\ 1 \in DOMAIN pending
      /\ \A i \in DOMAIN pending' : i + 1 \in DOMAIN pending /\ pending'[i] = pending[i + 1] /\ i \in Nat \ {0}
  BY <1>1
<1>3. QueueOK'
  BY <1>1, <1>2 DEF QueueOK
<1>4. wk' \in [Tasks -> WorkerStates] /\ wk'[Head(pending)] = "header"
  BY <1>2 DEF StartTask, TypeOK, WorkerStates
<1>5. BodyOK' /\ WhoOK'
  BY <1>1, <1>2, <1>4 DEF BodyOK, WhoOK, StartTask, TypeOK
<1> QED
  BY <1>1, <1>2, <1>3, <1>4, <1>5, TypeRest DEF StartTask, TypeOK
LEMMA EndTaskTypes ==
  ASSUME TypeInv, NEW t \in Tasks, EndTask(t), UNCHANGED <<busyConn, who>>
  PROVE  /\ pending' = pending /\ closed' = closed /\ running' = running \ {t}
         /\ running' \subseteq Tasks /\ completed' \subseteq Tasks
         /\ wk' \in [Tasks -> WorkerStates] /\ taskFd' \in [Tasks -> Fds]
         /\ owner' \in [Tasks -> Conns \cup {None}]
         /\ \A u \in Tasks : u # t => wk'[u] = wk[u] /\ taskFd'[u] = taskFd[u] /\ owner'[u] = owner[u]
         /\ QueueOK' /\ BodyOK' /\ WhoOK'
<1> USE DEF TypeInv
<1>1. 1 \in Fds
  BY MyServerAssumption DEF Fds
<1>2. /\ pending' = pending /\ closed' = closed /\ running' = running \ {t}
      /\ running' \subseteq Tasks /\ completed' \subseteq Tasks
      /\ wk' \in [Tasks -> WorkerStates] /\ taskFd' \in [Tasks -> Fds]
      /\ owner' \in [Tasks -> Conns \cup {None}]
      /\ \A u \in Tasks : u # t => wk'[u] = wk[u] /\ taskFd'[u] = taskFd[u] /\ owner'[u] = owner[u]
  BY <1>1 DEF EndTask, Goto, Pool!Complete, TypeOK, WorkerStates
<1>3. QueueOK'
  BY <1>2 DEF QueueOK
<1>4. BodyOK' /\ WhoOK'
  BY <1>2 DEF BodyOK, WhoOK, TypeOK
<1> QED
  BY <1>2, <1>3, <1>4

\* The parts of a request.
LEMMA RequestParts ==
  ASSUME NEW r \in Requests
  PROVE  /\ r[1] \in {"heart", "half", "login", "live", "unlive"} /\ r[2] \in Users \cup {None}
         /\ r[1] \in {"login", "live", "unlive"} => r[2] \in Users
         /\ r[1] = "login" => \E u \in Users : r = <<"login", u>> /\ u = r[2]
BY DEF Requests

\* A step of a task to another place than the body of a request.
LEMMA GotoTypes ==
  ASSUME TypeInv, NEW t \in Tasks, NEW step \in WorkerStates \ {"body"}, Goto(t, step),
         UNCHANGED <<running, busyConn>>,
         \A v \in Tasks : v # t => who'[v] = who[v],
         step \in {"login", "live", "unlive"} => who'[t] \in Users
  PROVE  wk' \in [Tasks -> WorkerStates] /\ BodyOK' /\ WhoOK'
<1> USE DEF TypeInv
<1>1. wk' \in [Tasks -> WorkerStates]
  BY DEF TypeOK, Goto
<1>2. wk'[t] = step /\ \A v \in Tasks : v # t => wk'[v] = wk[v]
  BY DEF TypeOK, Goto
<1>3. BodyOK'
  BY <1>2 DEF BodyOK, TypeOK
<1>4. WhoOK'
  BY <1>2 DEF WhoOK, TypeOK
<1> QED
  BY <1>1, <1>3, <1>4

LEMMA NextHeaderTypes ==
  ASSUME TypeInv, NEW t \in Tasks, NextHeader(t)
  PROVE  wk' \in [Tasks -> WorkerStates] /\ who' \in [Tasks -> Users \cup {None}] /\ BodyOK' /\ WhoOK'
<1>1. Goto(t, "header") /\ who' = [who EXCEPT ![t] = None] /\ UNCHANGED <<running, busyConn>>
  BY DEF NextHeader, pool
<1>2. who' \in [Tasks -> Users \cup {None}] /\ \A v \in Tasks : v # t => who'[v] = who[v]
  BY <1>1 DEF TypeInv, TypeOK
<1> QED
  BY <1>1, <1>2, GotoTypes DEF WorkerStates

LEMMA WorkerTypes ==
  ASSUME TypeInv, NEW t \in Tasks, Worker(t), crashed = "no", crashed' = "no"
  PROVE  TypeInv'
<1> USE DEF TypeInv, clients, kernel, loop, m_map, pool, tasks, mon, history
<1>1. \A c \in Conns : Consume(c) /\ inbox[c] # <<>> => inbox' \in [Conns -> Seq(Requests)]
  BY DEF TypeOK, Consume
<1>2. \A r : Gets(t, r) => Conn(t) \in Conns /\ inbox[Conn(t)] # <<>> /\ taskFd[t] \in Fds
  BY DEF Gets, TypeOK, Conn
<1>3. ASSUME NEW r \in Requests, Receive(t, r) PROVE TypeInv'
  <2>1. inbox' \in [Conns -> Seq(Requests)]
    BY <1>1, <1>2, <1>3 DEF Receive
  <2>2. /\ r[1] \in WorkerStates \ {"body"} /\ r[2] \in Users \cup {None}
        /\ r[1] \in {"login", "live", "unlive"} => r[2] \in Users
    BY <1>3, RequestParts DEF Receive, WorkerStates
  <2>3. /\ who' \in [Tasks -> Users \cup {None}] /\ who'[t] = r[2]
        /\ \A v \in Tasks : v # t => who'[v] = who[v]
    BY <1>3, <2>2 DEF Receive, TypeOK
  <2>4. wk' \in [Tasks -> WorkerStates] /\ BodyOK' /\ WhoOK'
    BY <1>3, <2>2, <2>3, GotoTypes DEF Receive
  <2> QED
    BY <1>3, <2>1, <2>3, <2>4, TypeRest DEF TypeOK, Receive
<1>4. CASE HandleHeart(t)
  <2>1. /\ num' = [num EXCEPT ![taskFd[t]] = 0] /\ NextHeader(t)
        /\ UNCHANGED <<userId, live, orphaned>>
    BY <1>4 DEF HandleHeart, Throw
  <2>2. num' \in [Fds -> Absent..Limit] /\ \A fd \in Fds : num'[fd] \in {num[fd], 0, Absent}
    BY <2>1, MyServerAssumption DEF TypeOK, Absent
  <2> QED
    BY <2>1, <2>2, TypeRest, CopyRest, NextHeaderTypes DEF TypeOK, NextHeader
<1>5. CASE HandleLogin(t)
  <2>1. NextHeader(t) /\ UNCHANGED <<num, live>>
    BY <1>5 DEF HandleLogin, Throw
  <2>2. who[t] \in Users
    BY <1>5 DEF HandleLogin, At, WhoOK
  <2>3. userId' \in [Fds -> Users \cup {None}] /\ orphaned' \subseteq Users
    BY <1>5, <2>2 DEF HandleLogin, Throw, TypeOK
  <2> QED
    BY <2>1, <2>3, TypeRest, NextHeaderTypes DEF TypeOK, NextHeader
<1>6. CASE HandleLive(t) \/ HandleUnlive(t)
  <2>1. NextHeader(t) /\ UNCHANGED m_map
    BY <1>6 DEF HandleLive, HandleUnlive
  <2>2. who[t] \in Users
    BY <1>6 DEF HandleLive, HandleUnlive, At, WhoOK
  <2>3. live' \subseteq Users /\ orphaned' \subseteq Users
    BY <1>6, <2>2 DEF HandleLive, HandleUnlive, StreamsLeft, TypeOK
  <2> QED
    BY <2>1, <2>3, TypeRest, NextHeaderTypes DEF TypeOK, NextHeader
<1>7. CASE HandleHalf(t)
  <2>1. /\ inbox' \in [Conns -> Seq(Requests)] /\ busyConn' \in [Tasks -> Conns \cup {None}]
        /\ wk' \in [Tasks -> WorkerStates] /\ BodyOK' /\ WhoOK'
    BY <1>1, <1>2, <1>7, MyServerAssumption DEF HandleHalf, TypeOK, BodyOK, WhoOK, Goto, WorkerStates
  <2> QED
    BY <1>7, <2>1, TypeRest DEF TypeOK, HandleHalf
<1>8. CASE BodyPart(t)
  <2>1. Conn(t) \in Conns \cup {None}
    BY DEF TypeOK, Conn
  <2>2. /\ busyConn' \in [Tasks -> Conns \cup {None}]
        /\ wk' \in [Tasks -> WorkerStates] /\ BodyOK' /\ WhoOK'
    BY <1>8, <2>1 DEF BodyPart, TypeOK, BodyOK, WhoOK, Goto, WorkerStates
  <2> QED
    BY <1>8, <2>2, TypeRest DEF TypeOK, BodyPart
<1>9. CASE BodyDone(t)
  <2>1. busyConn[t] \in Conns
    BY <1>9 DEF BodyDone, At, BodyOK, TypeOK
  <2>2. /\ inbox' \in [Conns -> Seq(Requests)] /\ peer' \in [Conns -> {"absent", "open", "closed", "reset"}]
    BY <1>1, <1>9, <2>1 DEF BodyDone, TypeOK
  <2>3. /\ busyConn' \in [Tasks -> Conns \cup {None}]
        /\ wk' \in [Tasks -> WorkerStates] /\ BodyOK' /\ WhoOK'
    BY <1>9 DEF BodyDone, TypeOK, BodyOK, WhoOK, Goto, WorkerStates
  <2> QED
    BY <1>9, <2>2, <2>3, TypeRest DEF TypeOK, BodyDone
<1>10. CASE HeaderError(t)
  <2>1. peer' \in [Conns -> {"absent", "open", "closed", "reset"}]
    BY <1>10 DEF HeaderError, TypeOK
  <2>2. wk' \in [Tasks -> WorkerStates] /\ BodyOK' /\ WhoOK'
    BY <1>10, GotoTypes DEF HeaderError, WorkerStates
  <2> QED
    BY <1>10, <2>1, <2>2, TypeRest DEF TypeOK, HeaderError
<1>11. CASE Rearm(t)
  <2>1. watched' \subseteq Fds /\ ready' \subseteq watched'
    BY <1>11 DEF Rearm, AddFd, TypeOK
  <2> QED
    BY <1>11, <2>1, TypeRest, EndTaskTypes DEF TypeOK, Rearm
<1>12. CASE HeaderEof(t)
  <2>1. wk' \in [Tasks -> WorkerStates] /\ BodyOK' /\ WhoOK'
    BY <1>12, GotoTypes DEF HeaderEof, WorkerStates
  <2> QED
    BY <1>12, <2>1, TypeRest DEF TypeOK, HeaderEof
<1>13. CASE GetIp(t)
  <2>1. /\ Goto(t, "user")
        /\ UNCHANGED <<clients, backlog, kernel, loop, m_map, live, pool, taskFd, who, busyConn, owner, mon, history, crashed>>
    BY <1>13 DEF GetIp, Throw
  <2>2. wk' \in [Tasks -> WorkerStates] /\ BodyOK' /\ WhoOK'
    BY <2>1, GotoTypes DEF WorkerStates
  <2> QED
    BY <2>1, <2>2, TypeRest DEF TypeOK
<1>14. CASE GetUserId(t)
  <2>1. /\ Goto(t, "stream") /\ who' = [who EXCEPT ![t] = userId[taskFd[t]]]
        /\ UNCHANGED <<clients, backlog, kernel, loop, m_map, live, pool, taskFd, busyConn, owner, mon, history, crashed>>
    BY <1>14 DEF GetUserId, Throw
  <2>2. who' \in [Tasks -> Users \cup {None}] /\ \A v \in Tasks : v # t => who'[v] = who[v]
    BY <2>1 DEF TypeOK
  <2>3. wk' \in [Tasks -> WorkerStates] /\ BodyOK' /\ WhoOK'
    BY <2>1, <2>2, GotoTypes DEF WorkerStates
  <2> QED
    BY <2>1, <2>2, <2>3, TypeRest DEF TypeOK
<1>15. CASE EndStream(t)
  <2>1. /\ live' = StreamsLeft(who[t]) /\ Goto(t, "remove") /\ who' = [who EXCEPT ![t] = None]
        /\ UNCHANGED <<clients, backlog, kernel, loop, m_map, pool, taskFd, busyConn, owner, mon, history, crashed>>
    BY <1>15 DEF EndStream
  <2>2. /\ who' \in [Tasks -> Users \cup {None}] /\ \A v \in Tasks : v # t => who'[v] = who[v]
        /\ live' \subseteq Users
    BY <2>1 DEF StreamsLeft, TypeOK
  <2>3. wk' \in [Tasks -> WorkerStates] /\ BodyOK' /\ WhoOK'
    BY <2>1, <2>2, GotoTypes DEF WorkerStates
  <2> QED
    BY <2>1, <2>2, <2>3, TypeRest DEF TypeOK
<1>16. CASE RemoveEntry(t)
  <2>1. num' \in [Fds -> Absent..Limit] /\ \A fd \in Fds : num'[fd] \in {num[fd], 0, Absent}
    BY <1>16, MyServerAssumption DEF RemoveEntry, Remove, TypeOK, Absent
  <2>2. wk' \in [Tasks -> WorkerStates] /\ BodyOK' /\ WhoOK'
    BY <1>16, GotoTypes DEF RemoveEntry, WorkerStates
  <2> QED
    BY <1>16, <2>1, <2>2, TypeRest, CopyRest DEF TypeOK, RemoveEntry
<1>17. CASE Unwatch(t)
  <2>1. watched' \subseteq Fds /\ ready' \subseteq watched'
    BY <1>17 DEF Unwatch, DeleteFd, TypeOK
  <2>2. wk' \in [Tasks -> WorkerStates] /\ BodyOK' /\ WhoOK'
    BY <1>17, GotoTypes DEF Unwatch, WorkerStates
  <2> QED
    BY <1>17, <2>1, <2>2, TypeRest DEF TypeOK, Unwatch
<1>18. CASE CloseFd(t)
  <2>1. /\ watched' \subseteq Fds /\ ready' \subseteq watched'
        /\ fdTab' \in [Fds -> Conns \cup {None}]
    BY <1>18 DEF CloseFd, Close, DeleteFd, TypeOK
  <2> QED
    BY <1>18, <2>1, TypeRest, EndTaskTypes DEF TypeOK, CloseFd
<1> QED
  BY <1>3, <1>4, <1>5, <1>6, <1>7, <1>8, <1>9, <1>10, <1>11, <1>12, <1>13, <1>14, <1>15, <1>16, <1>17, <1>18 DEF Worker
LEMMA MonitorTypes ==
  ASSUME TypeInv, Monitor, crashed = "no", crashed' = "no"
  PROVE  TypeInv'
<1> USE DEF TypeInv, clients, kernel, loop, m_map, pool, tasks, mon, history
<1>1. 1 \in Fds /\ 0 \in 0..(Limit - 1) /\ Absent \in Absent..Limit
  BY MyServerAssumption DEF Fds, Absent
<1>2. CASE ScanBegin
  <2>1. \A fd \in Fds : num[fd] <= num[fd]
    BY DEF TypeOK, Absent
  <2>2. CopyOK'
    BY <1>2, <2>1 DEF CopyOK, ScanBegin
  <2> QED
    BY <1>2, <2>2, TypeRest DEF ScanBegin, TypeOK
<1>3. CASE EvictUnwatch
  <2>1. watched' \subseteq Fds /\ ready' \subseteq watched'
    BY <1>3 DEF EvictUnwatch, DeleteFd, TypeOK
  <2>2. CopyOK'
    BY <1>3 DEF CopyOK, EvictUnwatch
  <2> QED
    BY <1>3, <2>1, <2>2, TypeRest DEF EvictUnwatch, TypeOK
<1>4. CASE EvictClose
  <2>1. /\ watched' \subseteq Fds /\ ready' \subseteq watched'
        /\ fdTab' \in [Fds -> Conns \cup {None}] /\ tainted' \subseteq Fds /\ orphaned' \subseteq Users
    BY <1>4 DEF EvictClose, Close, DeleteFd, TypeOK
  <2>2. CopyOK'
    BY <1>4 DEF CopyOK, EvictClose
  <2> QED
    BY <1>1, <1>4, <2>1, <2>2, TypeRest DEF EvictClose, TypeOK
<1>5. CASE CountWrite
  <2>1. monVal + 1 \in Absent..Limit /\ monFd \in Fds /\ num \in [Fds -> Absent..Limit]
    BY MyServerAssumption DEF TypeOK, Absent
  <2>2. num' \in [Fds -> Absent..Limit] /\ \A fd \in Fds : fd # monFd => num'[fd] = num[fd]
    BY <1>5, <2>1 DEF CountWrite
  <2>3. CopyOK'
    BY <1>5, <2>1, <2>2 DEF CopyOK, CountWrite
  <2> QED
    BY <1>1, <1>5, <2>2, <2>3, TypeRest DEF CountWrite, TypeOK
<1>6. CASE ScanEnd
  BY <1>6, TypeRest DEF ScanEnd, TypeOK, CopyOK
<1>7. ASSUME NEW fd \in Fds, Evict(fd) PROVE TypeInv'
  <2>1. /\ num' \in [Fds -> Absent..Limit] /\ map_copy' \in [Fds -> Absent..Limit]
        /\ map_copy'[fd] = Absent
        /\ \A g \in Fds : g # fd => num'[g] = num[g] /\ map_copy'[g] = map_copy[g]
    BY <1>1, <1>7 DEF Evict, Visit, TypeOK
  <2>2. CopyOK'
    BY <1>7, <2>1 DEF CopyOK, Evict
  <2> QED
    BY <1>7, <2>1, <2>2, TypeRest DEF Evict, TypeOK
<1>8. ASSUME NEW fd \in Fds, CountRead(fd) PROVE TypeInv'
  <2>1. /\ MayCount(map_copy[fd]) /\ num[fd] # Absent
        /\ map_copy' = [map_copy EXCEPT ![fd] = Absent]
        /\ monitor' = "inc" /\ monFd' = fd /\ monVal' = num[fd]
        /\ UNCHANGED <<clients, backlog, kernel, loop, m_map, live, tasks, history, crashed>>
    BY <1>8 DEF CountRead, Throw, Visit
  <2>2. monVal' \in 0..(Limit - 1)
    <3>1. num[fd] \in Absent..Limit /\ map_copy[fd] \in Absent..Limit /\ Limit \in Nat
      BY MyServerAssumption DEF TypeOK
    <3>2. num[fd] >= 0 /\ map_copy[fd] >= 0 /\ map_copy[fd] < Limit
      BY <2>1, <3>1 DEF MayCount, Absent
    <3>3. num[fd] <= map_copy[fd]
      BY <3>2 DEF CopyOK, Absent
    <3> QED
      BY <2>1, <3>1, <3>2, <3>3 DEF Absent
  <2>3. /\ map_copy' \in [Fds -> Absent..Limit] /\ map_copy'[fd] = Absent
        /\ \A g \in Fds : g # fd => map_copy'[g] = map_copy[g]
    BY <1>1, <2>1 DEF TypeOK
  <2>4. CopyOK'
    BY <2>1, <2>3 DEF CopyOK
  <2> QED
    BY <2>1, <2>2, <2>3, <2>4, TypeRest DEF TypeOK
<1> QED
  BY <1>2, <1>3, <1>4, <1>5, <1>6, <1>7, <1>8 DEF Monitor

LEMMA TypeNext ==
  ASSUME TypeInv, Next, crashed' = "no"
  PROVE  TypeInv'
BY ClientTypes, MainTypes, StartTypes, WorkerTypes, MonitorTypes DEF Next
(***************************************************************************)
(* Who holds a descriptor.  Most steps are quiet: the tasks, their         *)
(* descriptors, the open connections and the events at hand stay, and      *)
(* what epoll forgets somebody else holds.                                 *)
(***************************************************************************)
Quiet ==
  /\ fdTab' = fdTab /\ tainted' = tainted
  /\ taskFd' = taskFd /\ owner' = owner /\ LiveTasks' = LiveTasks
  /\ \A fd \in Fds : /\ fd \in evs' <=> fd \in evs
                     /\ IsNew(fd)' <=> IsNew(fd)
                     /\ BeingEvicted(fd) => BeingEvicted(fd)'
  /\ watched' \subseteq watched
  /\ \A fd \in watched \ watched' : Served(fd) \/ BeingEvicted(fd)
  /\ \A fd \in watched' : fd \in ready \/ (Readable(fdTab[fd])' /\ ~Readable(fdTab[fd])) => fd \in ready'
  /\ main' = "wait" => (main = "wait" /\ evs' = evs) \/ evs' = {}

\* What a quiet step of a worker or of the monitor has in common with the others.
LEMMA QuietFrame ==
  ASSUME TypeInv, UNCHANGED <<fdTab, tainted, taskFd, owner, pending, running, loop>>,
         \A fd \in Fds : BeingEvicted(fd) => BeingEvicted(fd)',
         UNCHANGED <<watched, ready>>,
         \A fd \in watched : Readable(fdTab[fd])' => Readable(fdTab[fd])
  PROVE  Quiet
BY DEF Quiet, LiveTasks, IsNew, loop

\* Reading never makes a connection readable.
LEMMA ConsumeReadable ==
  ASSUME TypeOK, NEW c \in Conns, Consume(c), inbox[c] # <<>>, UNCHANGED peer
  PROVE  \A d \in Conns : Readable(d)' => Readable(d)
<1>1. \A d \in Conns : d # c => inbox'[d] = inbox[d]
  BY DEF TypeOK, Consume
<1> QED
  BY <1>1 DEF Readable

LEMMA QuietClient ==
  ASSUME TypeInv, HoldInv, NEW c \in Conns, Client(c)
  PROVE  Quiet
<1> USE DEF TypeInv, HoldInv, clients, kernel, loop, m_map, pool, tasks, mon, history
<1>1. \A fd \in watched : fd \in Fds /\ fdTab[fd] \in Conns
  BY DEF TypeOK, WatchedOpen
<1>2. /\ UNCHANGED <<fdTab, tainted, taskFd, owner, pending, running, loop, watched, monitor, monFd>>
      /\ \A fd \in Fds : BeingEvicted(fd) => BeingEvicted(fd)'
  BY DEF Client, Connect, Send, Disconnect, BeingEvicted
<1>3. CASE Connect(c)
  <2>1. \A fd \in watched : Readable(fdTab[fd])' => Readable(fdTab[fd])
    BY <1>1, <1>2, <1>3 DEF Connect, Readable, TypeOK
  <2> QED
    BY <1>2, <1>3, <2>1, QuietFrame DEF Connect
<1>4. CASE Send(c) \/ Disconnect(c)
  <2>1. ready' = ready \cup {fd \in watched : fdTab[fd] = c}
    BY <1>4 DEF Send, Disconnect, Wake
  <2>2. \A d \in Conns : d # c => (Readable(d)' <=> Readable(d))
    BY <1>4 DEF Send, Disconnect, Readable, TypeOK
  <2>3. \A fd \in watched : fd \in ready \/ (Readable(fdTab[fd])' /\ ~Readable(fdTab[fd])) => fd \in ready'
    BY <1>1, <1>2, <2>1, <2>2
  <2>4. LiveTasks' = LiveTasks /\ \A fd \in Fds : IsNew(fd)' <=> IsNew(fd)
    BY <1>2 DEF LiveTasks, IsNew
  <2> QED
    BY <1>2, <2>3, <2>4 DEF Quiet
<1> QED
  BY <1>3, <1>4 DEF Client

LEMMA QuietMain ==
  ASSUME TypeInv, Main
  PROVE  Quiet \/ Listen \/ AcceptOne \/ Watch \/ \E fd \in Fds : Dispatch(fd)
<1> USE DEF TypeInv, clients, kernel, loop, m_map, pool, tasks, mon, history
<1> SUFFICES ASSUME ProcessConnect \/ AcceptNone \/ Track \/ EventsDone PROVE Quiet
  BY DEF Main
<1>1. /\ UNCHANGED <<fdTab, tainted, taskFd, owner, pending, running, watched, ready, newFd, inbox, peer, monitor, monFd>>
      /\ \A fd \in Fds : IsNew(fd)' <=> IsNew(fd)
      /\ main' = "wait" => evs' = {}
      /\ evs' = evs \/ evs' = evs \ {ListenFd}
  BY DEF ProcessConnect, AcceptNone, Track, EventsDone, IsNew
<1>2. ListenFd \notin Fds
  BY DEF Fds, ListenFd
<1>3. \A fd \in Fds : fd \in evs' <=> fd \in evs
  BY <1>1, <1>2
<1>4. LiveTasks' = LiveTasks /\ \A fd \in Fds : BeingEvicted(fd) => BeingEvicted(fd)'
  BY <1>1 DEF LiveTasks, BeingEvicted
<1>5. \A fd \in watched : Readable(fdTab[fd])' = Readable(fdTab[fd])
  BY <1>1 DEF Readable
<1> QED
  BY <1>1, <1>3, <1>4, <1>5 DEF Quiet

LEMMA QuietStart ==
  ASSUME TypeInv, StartTask
  PROVE  Quiet
<1> USE DEF TypeInv, clients, kernel, loop, m_map, pool, tasks, mon, history
<1>1. LiveTasks' = LiveTasks
  BY LiveStart DEF StartTask
<1>2. UNCHANGED <<fdTab, tainted, taskFd, owner, loop, watched, ready, inbox, peer, monitor, monFd>>
  BY DEF StartTask
<1>3. \A fd \in Fds : (IsNew(fd)' <=> IsNew(fd)) /\ (BeingEvicted(fd) => BeingEvicted(fd)')
  BY <1>2 DEF IsNew, BeingEvicted
<1>4. \A fd \in watched : Readable(fdTab[fd])' = Readable(fdTab[fd])
  BY <1>2 DEF Readable
<1> QED
  BY <1>1, <1>2, <1>3, <1>4 DEF Quiet

LEMMA QuietWorker ==
  ASSUME TypeInv, HoldInv, NEW t \in Tasks, Worker(t), crashed = "no", crashed' = "no"
  PROVE  Quiet \/ Rearm(t) \/ CloseFd(t)
<1> USE DEF TypeInv, HoldInv, clients, kernel, loop, m_map, pool, tasks, mon, history
<1>1. \A fd \in watched : fd \in Fds /\ fdTab[fd] \in Conns
  BY DEF TypeOK, WatchedOpen
<1> SUFFICES ASSUME ~Rearm(t), ~CloseFd(t) PROVE Quiet
  OBVIOUS
<1>2. CASE Unwatch(t)
  <2>1. /\ UNCHANGED <<fdTab, tainted, taskFd, owner, loop, inbox, peer, monitor, monFd, pending, running>>
        /\ watched' = watched \ {taskFd[t]} /\ ready' = ready \ {taskFd[t]} /\ t \in running
    BY <1>2 DEF Unwatch, DeleteFd, At
  <2>2. LiveTasks' = LiveTasks /\ Served(taskFd[t])
    BY <2>1 DEF LiveTasks, Served
  <2>3. \A fd \in Fds : (IsNew(fd)' <=> IsNew(fd)) /\ (BeingEvicted(fd) => BeingEvicted(fd)')
    BY <2>1 DEF IsNew, BeingEvicted
  <2>4. \A fd \in watched : Readable(fdTab[fd])' = Readable(fdTab[fd])
    BY <2>1 DEF Readable
  <2> QED
    BY <2>1, <2>2, <2>3, <2>4 DEF Quiet
<1>3. CASE ~Unwatch(t)
  <2>1. UNCHANGED <<fdTab, tainted, taskFd, owner, loop, watched, ready, monitor, monFd, pending, running>>
    BY <1>3 DEF Worker, Receive, HandleHeart, HandleLogin, HandleLive, HandleUnlive, NextHeader, HandleHalf, BodyPart,
                BodyDone, HeaderError, HeaderEof, GetIp, GetUserId, EndStream, RemoveEntry, Throw
  <2>2. \A c \in Conns : Readable(c)' => Readable(c)
    <3>1. CASE HandleHalf(t) \/ \E r \in Requests : Receive(t, r)
      <4>1. Conn(t) \in Conns /\ inbox[Conn(t)] # <<>>
        BY <3>1 DEF Receive, HandleHalf, Gets, TypeOK, Conn
      <4>2. Consume(Conn(t)) /\ UNCHANGED peer
        BY <3>1 DEF Receive, HandleHalf
      <4> QED
        BY <4>1, <4>2, ConsumeReadable
    <3>2. CASE \/ HandleHeart(t) \/ HandleLogin(t) \/ HandleLive(t) \/ HandleUnlive(t) \/ BodyPart(t)
               \/ HeaderEof(t) \/ GetIp(t) \/ GetUserId(t) \/ EndStream(t) \/ RemoveEntry(t)
      BY <3>2 DEF HandleHeart, HandleLogin, HandleLive, HandleUnlive, NextHeader, BodyPart, HeaderEof, GetIp,
                  GetUserId, EndStream, RemoveEntry, Throw, Readable
    <3>3. CASE BodyDone(t)
      <4>1. busyConn[t] \in Conns
        BY <3>3 DEF BodyDone, At, BodyOK, TypeOK
      <4>2. CASE inbox[busyConn[t]] # <<>>
        BY <3>3, <4>1, <4>2, ConsumeReadable DEF BodyDone
      <4>3. CASE inbox[busyConn[t]] = <<>>
        BY <3>3, <4>1, <4>3 DEF BodyDone, Readable, TypeOK
      <4> QED
        BY <4>2, <4>3
    <3>4. CASE HeaderError(t)
      BY <3>4 DEF HeaderError, Readable, TypeOK, Conn
    <3> QED
      BY <1>3, <3>1, <3>2, <3>3, <3>4 DEF Worker
  <2>3. \A fd \in watched : Readable(fdTab[fd])' => Readable(fdTab[fd])
    BY <1>1, <2>1, <2>2
  <2>4. \A fd \in Fds : BeingEvicted(fd) => BeingEvicted(fd)'
    BY <2>1 DEF BeingEvicted
  <2> QED
    BY <2>1, <2>3, <2>4, QuietFrame
<1> QED
  BY <1>2, <1>3

LEMMA QuietMonitor ==
  ASSUME TypeInv, Monitor, crashed = "no", crashed' = "no"
  PROVE  Quiet \/ EvictClose
<1> USE DEF TypeInv, clients, kernel, loop, m_map, pool, tasks, mon, history
<1> SUFFICES ASSUME ~EvictClose PROVE Quiet
  OBVIOUS
<1>1. UNCHANGED <<fdTab, tainted, taskFd, owner, loop, pending, running, inbox, peer>>
  BY DEF Monitor, ScanBegin, EvictUnwatch, CountWrite, ScanEnd, Evict, CountRead, Throw
<1>2. \A fd \in Fds : BeingEvicted(fd) => BeingEvicted(fd)'
  BY DEF Monitor, ScanBegin, EvictUnwatch, CountWrite, ScanEnd, Evict, CountRead, Throw, BeingEvicted
<1>3. \A fd \in watched : Readable(fdTab[fd])' = Readable(fdTab[fd])
  BY <1>1 DEF Readable
<1>4. CASE EvictUnwatch
  <2>1. watched' = watched \ {monFd} /\ ready' = ready \ {monFd} /\ BeingEvicted(monFd)
    BY <1>4 DEF EvictUnwatch, DeleteFd, BeingEvicted
  <2>2. LiveTasks' = LiveTasks /\ \A fd \in Fds : IsNew(fd)' <=> IsNew(fd)
    BY <1>1 DEF LiveTasks, IsNew
  <2> QED
    BY <1>1, <1>2, <1>3, <2>1, <2>2 DEF Quiet
<1>5. CASE ~EvictUnwatch
  <2>1. UNCHANGED <<watched, ready>>
    BY <1>5 DEF Monitor, ScanBegin, CountWrite, ScanEnd, Evict, CountRead, Throw
  <2> QED
    BY <1>1, <1>2, <1>3, <2>1, QuietFrame
<1> QED
  BY <1>4, <1>5

\* The steps that are not quiet.
LEMMA QuietNext ==
  ASSUME TypeInv, HoldInv, Next, crashed' = "no"
  PROVE  \/ Quiet \/ Listen \/ AcceptOne \/ Watch \/ EvictClose
         \/ \E fd \in Fds : Dispatch(fd)
         \/ \E t \in Tasks : Rearm(t) \/ CloseFd(t)
BY QuietClient, QuietMain, QuietStart, QuietWorker, QuietMonitor DEF Next

LEMMA QuietHolds ==
  ASSUME TypeInv, HoldInv, Quiet
  PROVE  HoldInv'
<1>1. \A fd \in Fds : Served(fd)' <=> Served(fd)
  BY DEF Quiet, Served
<1>2. WatchedOpen' /\ TaskKeepsConnection' /\ OneTaskPerConnection'
  BY DEF HoldInv, Quiet, WatchedOpen, TaskKeepsConnection, OneTaskPerConnection, Conn
<1>3. HeldOnce'
  BY <1>1 DEF HoldInv, Quiet, HeldOnce
<1> QED
  BY <1>2, <1>3 DEF HoldInv

\* The end of a task: the others stay as they are.
LEMMA TaskEnds ==
  ASSUME TypeInv, NEW t \in Tasks, EndTask(t), UNCHANGED <<busyConn, who>>
  PROVE  /\ t \in running /\ t \in LiveTasks /\ LiveTasks' = LiveTasks \ {t} /\ LiveTasks \subseteq Tasks
         /\ taskFd[t] \in Fds
         /\ \A u \in LiveTasks : u # t => taskFd'[u] = taskFd[u] /\ owner'[u] = owner[u]
         /\ \A fd \in Fds : Served(fd)' => Served(fd)
         /\ \A fd \in Fds : Served(fd) /\ fd # taskFd[t] => Served(fd)'
<1>1. LiveTasks' = LiveTasks \ {t}
  BY LiveComplete DEF TypeInv, EndTask
<1>2. t \in running /\ t \in LiveTasks /\ LiveTasks \subseteq Tasks
  BY LiveTyped DEF TypeInv, EndTask, Pool!Complete
<1>3. \A u \in LiveTasks : u # t => taskFd'[u] = taskFd[u] /\ owner'[u] = owner[u]
  BY <1>2, EndTaskTypes
<1> QED
  BY <1>1, <1>2, <1>3 DEF Served, TypeInv, TypeOK

\* The next task of the pool, bound to the descriptor of an event.
LEMMA TaskQueued ==
  ASSUME TypeInv, NEW fd \in Fds, Dispatch(fd)
  PROVE  \E t \in Tasks :
           /\ t \notin LiveTasks /\ LiveTasks' = LiveTasks \cup {t} /\ LiveTasks \subseteq Tasks
           /\ taskFd'[t] = fd /\ owner'[t] = fdTab[fd]
           /\ \A u \in LiveTasks : taskFd'[u] = taskFd[u] /\ owner'[u] = owner[u]
           /\ \A g \in Fds : Served(g)' <=> Served(g) \/ g = fd
<1>1. PICK t \in Tasks : /\ Pool!Accept(t)
                         /\ taskFd' = [taskFd EXCEPT ![t] = fd]
                         /\ owner' = [owner EXCEPT ![t] = fdTab[fd]]
  BY DEF Dispatch
<1>2. t \notin LiveTasks /\ LiveTasks' = LiveTasks \cup {t} /\ LiveTasks \subseteq Tasks
  BY <1>1, LiveAccept, LiveTyped DEF TypeInv
<1>3. /\ taskFd'[t] = fd /\ owner'[t] = fdTab[fd]
      /\ \A u \in LiveTasks : taskFd'[u] = taskFd[u] /\ owner'[u] = owner[u]
  BY <1>1, <1>2 DEF TypeInv, TypeOK
<1>4. \A g \in Fds : Served(g)' <=> Served(g) \/ g = fd
  BY <1>2, <1>3 DEF Served
<1> QED
  BY <1>2, <1>3, <1>4

LEMMA HoldInit == Init => HoldInv
<1> SUFFICES ASSUME Init PROVE HoldInv
  OBVIOUS
<1>1. LiveTasks = {}
  BY DEF Init, LiveTasks
<1> QED
  BY <1>1 DEF Init, HoldInv, WatchedOpen, HeldOnce, TaskKeepsConnection, OneTaskPerConnection, Served, IsNew

LEMMA HoldNext ==
  ASSUME TypeInv, HoldInv, Next, crashed' = "no"
  PROVE  HoldInv'
<1> USE DEF TypeInv, clients, kernel, loop, m_map, pool, tasks, mon, history
<1>1. \A t \in LiveTasks : t \in Tasks /\ taskFd[t] \in Fds /\ Served(taskFd[t])
  BY LiveTyped DEF TypeOK, Served
<1>2. CASE Listen
  <2>1. PICK E \in SUBSET Events : evs' = E
    BY <1>2 DEF Listen
  <2>2. /\ UNCHANGED <<fdTab, watched, tainted, taskFd, owner, pending, running>>
        /\ \A fd \in Fds : ~IsNew(fd)'
    BY <1>2 DEF Listen, IsNew
  <2>3. \A fd \in Fds : fd \in evs' => fd \in watched
    BY <2>1 DEF Events, TypeOK, ListenFd, Fds
  <2>4. LiveTasks' = LiveTasks /\ \A fd \in Fds : Served(fd)' <=> Served(fd)
    BY <2>2 DEF LiveTasks, Served
  <2>5. HeldOnce'
    BY <2>2, <2>3, <2>4 DEF HoldInv, HeldOnce, WatchedOpen
  <2> QED
    BY <2>2, <2>4, <2>5 DEF HoldInv, WatchedOpen, TaskKeepsConnection, OneTaskPerConnection, Conn
<1>3. CASE AcceptOne
  <2>1. PICK fd \in FreeFds : newFd' = fd /\ fdTab' = [fdTab EXCEPT ![fd] = Head(backlog)]
    BY <1>3 DEF AcceptOne
  <2>2. fd \in Fds /\ fdTab[fd] = None /\ fdTab'[fd] # None /\ \A g \in Fds : g # fd => fdTab'[g] = fdTab[g]
    <3>1. Head(backlog) \in Conns
      BY <1>3 DEF AcceptOne, TypeOK
    <3> QED
      BY <2>1, <3>1, MyServerAssumption DEF FreeFds, TypeOK
  <2>3. /\ UNCHANGED <<watched, evs, tainted, taskFd, owner, pending, running>>
        /\ \A g \in Fds : ~IsNew(g) /\ (IsNew(g)' => g = fd)
    BY <1>3, <2>1 DEF AcceptOne, IsNew
  <2>4. LiveTasks' = LiveTasks /\ \A g \in Fds : Served(g)' <=> Served(g)
    BY <2>3 DEF LiveTasks, Served
  <2>5. fd \notin watched /\ (fd \notin tainted => fd \notin evs /\ ~Served(fd))
    BY <2>2 DEF HoldInv, WatchedOpen, HeldOnce
  <2>6. HeldOnce' /\ WatchedOpen'
    BY <2>2, <2>3, <2>4, <2>5 DEF HoldInv, HeldOnce, WatchedOpen, TypeOK
  <2>7. TaskKeepsConnection' /\ OneTaskPerConnection'
    BY <1>1, <2>2, <2>3, <2>4, <2>5 DEF HoldInv, TaskKeepsConnection, OneTaskPerConnection, Conn
  <2> QED
    BY <2>6, <2>7 DEF HoldInv
<1>4. CASE Watch
  <2>1. /\ UNCHANGED <<fdTab, evs, tainted, taskFd, owner, pending, running>>
        /\ IsNew(newFd) /\ newFd \in Fds /\ \A g \in Fds : ~IsNew(g)'
    BY <1>4 DEF Watch, IsNew, TypeOK
  <2>2. watched' = watched \/ (watched' = watched \cup {newFd} /\ fdTab[newFd] # None)
    BY <1>4 DEF Watch, AddFd
  <2>3. LiveTasks' = LiveTasks /\ \A g \in Fds : Served(g)' <=> Served(g)
    BY <2>1 DEF LiveTasks, Served
  <2>4. HeldOnce' /\ WatchedOpen'
    BY <2>1, <2>2, <2>3 DEF HoldInv, HeldOnce, WatchedOpen
  <2> QED
    BY <2>1, <2>3, <2>4 DEF HoldInv, TaskKeepsConnection, OneTaskPerConnection, Conn
<1>5. CASE EvictClose
  <2>1. /\ UNCHANGED <<evs, taskFd, owner, pending, running, main, newFd>>
        /\ tainted' = tainted \cup {monFd} /\ monFd \in Fds /\ watched' = watched \ {monFd}
        /\ \A g \in Fds : g # monFd => fdTab'[g] = fdTab[g]
    BY <1>5 DEF EvictClose, Close, DeleteFd, TypeOK
  <2>2. LiveTasks' = LiveTasks /\ \A g \in Fds : (Served(g)' <=> Served(g)) /\ (IsNew(g)' <=> IsNew(g))
    BY <2>1 DEF LiveTasks, Served, IsNew
  <2>3. HeldOnce' /\ WatchedOpen'
    BY <2>1, <2>2 DEF HoldInv, HeldOnce, WatchedOpen, TypeOK
  <2> QED
    BY <1>1, <2>1, <2>2, <2>3 DEF HoldInv, TaskKeepsConnection, OneTaskPerConnection, Conn
<1>6. ASSUME NEW fd \in Fds, Dispatch(fd) PROVE HoldInv'
  <2>1. PICK t \in Tasks :
           /\ t \notin LiveTasks /\ LiveTasks' = LiveTasks \cup {t} /\ LiveTasks \subseteq Tasks
           /\ taskFd'[t] = fd /\ owner'[t] = fdTab[fd]
           /\ \A u \in LiveTasks : taskFd'[u] = taskFd[u] /\ owner'[u] = owner[u]
           /\ \A g \in Fds : Served(g)' <=> Served(g) \/ g = fd
    BY <1>6, TaskQueued
  <2>2. /\ UNCHANGED <<fdTab, tainted>> /\ evs' = evs \ {fd} /\ watched' = watched \ {fd} /\ fd \in evs
        /\ \A g \in Fds : ~IsNew(g)'
    BY <1>6 DEF Dispatch, DeleteFd, IsNew
  <2>3. fd \notin tainted => ~Served(fd) /\ fdTab[fd] # None
    BY <2>2 DEF HoldInv, HeldOnce
  <2>4. HeldOnce' /\ WatchedOpen'
    BY <2>1, <2>2, <2>3 DEF HoldInv, HeldOnce, WatchedOpen
  <2>5. TaskKeepsConnection' /\ OneTaskPerConnection'
    BY <1>1, <2>1, <2>2, <2>3 DEF HoldInv, TaskKeepsConnection, OneTaskPerConnection, Conn
  <2> QED
    BY <2>4, <2>5 DEF HoldInv
<1>7. ASSUME NEW t \in Tasks, Rearm(t) \/ CloseFd(t) PROVE HoldInv'
  <2>1. /\ t \in LiveTasks /\ LiveTasks' = LiveTasks \ {t} /\ taskFd[t] \in Fds
        /\ \A u \in LiveTasks : u # t => taskFd'[u] = taskFd[u] /\ owner'[u] = owner[u]
        /\ \A fd \in Fds : Served(fd)' => Served(fd)
    BY <1>7, TaskEnds DEF Rearm, CloseFd
  <2>2. /\ UNCHANGED <<tainted, evs, main, newFd>>
        /\ \A g \in Fds : IsNew(g)' <=> IsNew(g)
    BY <1>7 DEF Rearm, CloseFd, IsNew
  <2>3. PICK fd \in Fds : fd = taskFd[t]
    BY <2>1
  <2>4. fd \notin tainted => /\ ~Served(fd)' /\ ~IsNew(fd) /\ fd \notin evs
                             /\ \A u \in LiveTasks : u # t => taskFd[u] # fd
    BY <1>1, <2>1, <2>3 DEF HoldInv, OneTaskPerConnection, HeldOnce, Served
  <2>5. CASE Rearm(t)
    <3>1. fdTab' = fdTab /\ (watched' = watched \/ (watched' = watched \cup {fd} /\ fdTab[fd] # None))
      BY <2>3, <2>5 DEF Rearm, AddFd
    <3>2. HeldOnce' /\ WatchedOpen'
      BY <2>1, <2>2, <2>3, <2>4, <3>1 DEF HoldInv, HeldOnce, WatchedOpen
    <3> QED
      BY <1>1, <2>1, <2>2, <2>3, <3>1, <3>2 DEF HoldInv, TaskKeepsConnection, OneTaskPerConnection, Conn
  <2>6. CASE CloseFd(t)
    <3>1. watched' = watched \ {fd} /\ \A g \in Fds : g # fd => fdTab'[g] = fdTab[g]
      BY <2>3, <2>6 DEF CloseFd, Close, DeleteFd, TypeOK
    <3>2. HeldOnce' /\ WatchedOpen'
      BY <2>1, <2>2, <2>3, <2>4, <3>1 DEF HoldInv, HeldOnce, WatchedOpen, TypeOK
    <3> QED
      BY <1>1, <2>1, <2>2, <2>3, <2>4, <3>1, <3>2 DEF HoldInv, TaskKeepsConnection, OneTaskPerConnection, Conn
  <2> QED
    BY <1>7, <2>5, <2>6
<1> QED
  BY QuietNext, QuietHolds, <1>2, <1>3, <1>4, <1>5, <1>6, <1>7
(***************************************************************************)
(* Events: nobody forgets an open descriptor.                              *)
(***************************************************************************)
LEMMA EventInit == Init => EventInv
BY DEF Init, EventInv, OpenHeld, ReadyKnown

LEMMA QuietEvents ==
  ASSUME TypeInv, HoldInv, EventInv, Quiet
  PROVE  EventInv'
<1>1. \A fd \in Fds : Served(fd)' <=> Served(fd)
  BY DEF Quiet, Served
<1>2. OpenHeld'
  BY <1>1 DEF EventInv, OpenHeld, Held, Quiet
<1>3. ReadyKnown'
  <2> SUFFICES ASSUME NEW fd \in watched', Readable(fdTab[fd])'
               PROVE  (fd \in ready \/ fd \in evs)'
    BY DEF ReadyKnown
  <2>1. fd \in Fds /\ fd \in watched
    BY DEF Quiet, TypeInv, TypeOK
  <2> QED
    BY <2>1 DEF Quiet, EventInv, ReadyKnown
<1>4. main' = "wait" => evs' = {}
  BY DEF EventInv, Quiet
<1> QED
  BY <1>2, <1>3, <1>4 DEF EventInv

\* Adding a descriptor to epoll reports it if there is something to read.
LEMMA AddKnown ==
  ASSUME TypeInv, EventInv, NEW fd \in Fds, AddFd(fd), UNCHANGED <<fdTab, evs, inbox, peer>>
  PROVE  ReadyKnown' /\ watched \subseteq watched' /\ (fdTab[fd] # None => fd \in watched')
<1>1. \A g \in Fds : Readable(fdTab[g])' = Readable(fdTab[g])
  BY DEF Readable
<1>2. CASE fdTab[fd] = None \/ fd \in watched
  BY <1>1, <1>2 DEF AddFd, EventInv, ReadyKnown, TypeInv, TypeOK
<1>3. CASE ~(fdTab[fd] = None \/ fd \in watched)
  <2>1. /\ watched' = watched \cup {fd}
        /\ ready \subseteq ready' /\ (Readable(fdTab[fd]) => fd \in ready')
    BY <1>3 DEF AddFd
  <2> QED
    BY <1>1, <2>1 DEF EventInv, ReadyKnown, TypeInv, TypeOK
<1> QED
  BY <1>2, <1>3

\* Taking descriptors out of epoll keeps what it knows of the others.
LEMMA DeleteKnown ==
  ASSUME TypeInv, EventInv, NEW fd \in Fds, DeleteFd(fd), UNCHANGED <<inbox, peer>>,
         \A g \in Fds : g # fd => fdTab'[g] = fdTab[g] /\ (g \in evs => g \in evs')
  PROVE  ReadyKnown'
<1> SUFFICES ASSUME NEW g \in watched', Readable(fdTab[g])'
             PROVE  (g \in ready \/ g \in evs)'
  BY DEF ReadyKnown
<1>1. g \in watched /\ g \in Fds /\ g # fd
  BY DEF DeleteFd, TypeInv, TypeOK
<1>2. Readable(fdTab[g])
  BY <1>1 DEF Readable
<1> QED
  BY <1>1, <1>2 DEF DeleteFd, EventInv, ReadyKnown

LEMMA EventNext ==
  ASSUME TypeInv, HoldInv, EventInv, Next, crashed' = "no"
  PROVE  EventInv'
<1> USE DEF TypeInv, clients, kernel, loop, m_map, pool, tasks, mon, history
<1>1. CASE Listen
  <2>1. PICK E \in SUBSET Events : evs' = E /\ ready' = ready \ E
    BY <1>1 DEF Listen
  <2>2. /\ UNCHANGED <<fdTab, watched, taskFd, pending, running, inbox, peer, monitor, monFd>>
        /\ main' = "events" /\ evs = {} /\ \A fd \in Fds : ~IsNew(fd)
    BY <1>1 DEF Listen, IsNew, EventInv
  <2>3. \A fd \in Fds : /\ Served(fd) => Served(fd)'
                        /\ BeingEvicted(fd) => BeingEvicted(fd)'
                        /\ Readable(fdTab[fd])' = Readable(fdTab[fd])
    BY <2>2 DEF Served, LiveTasks, BeingEvicted, Readable
  <2>4. OpenHeld'
    BY <2>2, <2>3 DEF EventInv, OpenHeld, Held
  <2>5. ReadyKnown'
    BY <2>1, <2>2, <2>3 DEF EventInv, ReadyKnown, TypeOK
  <2> QED
    BY <2>2, <2>4, <2>5 DEF EventInv
<1>2. CASE AcceptOne
  <2>1. PICK fd \in FreeFds : newFd' = fd /\ fdTab' = [fdTab EXCEPT ![fd] = Head(backlog)]
    BY <1>2 DEF AcceptOne
  <2>2. /\ UNCHANGED <<watched, ready, evs, taskFd, pending, running, inbox, peer, monitor, monFd>>
        /\ main' = "track" /\ IsNew(fd)' /\ \A g \in Fds : ~IsNew(g)
    BY <1>2, <2>1 DEF AcceptOne, IsNew
  <2>3. fd \in Fds /\ fd \notin watched /\ \A g \in Fds : g # fd => fdTab'[g] = fdTab[g]
    BY <2>1 DEF FreeFds, HoldInv, WatchedOpen, TypeOK
  <2>4. \A g \in Fds : /\ Served(g) => Served(g)'
                       /\ BeingEvicted(g) => BeingEvicted(g)'
                       /\ g # fd => Readable(fdTab[g])' = Readable(fdTab[g])
    BY <2>2, <2>3 DEF Served, LiveTasks, BeingEvicted, Readable
  <2>5. OpenHeld'
    BY <2>2, <2>3, <2>4 DEF EventInv, OpenHeld, Held
  <2>6. ReadyKnown'
    BY <2>2, <2>3, <2>4 DEF EventInv, ReadyKnown, TypeOK
  <2> QED
    BY <2>2, <2>5, <2>6 DEF EventInv
<1>3. CASE Watch
  <2>1. /\ UNCHANGED <<fdTab, evs, taskFd, pending, running, inbox, peer, monitor, monFd>>
        /\ main' = "accept" /\ newFd \in Fds /\ \A g \in Fds : IsNew(g) => g = newFd
    BY <1>3 DEF Watch, IsNew, TypeOK
  <2>2. ReadyKnown' /\ watched \subseteq watched' /\ (fdTab[newFd] # None => newFd \in watched')
    BY <1>3, <2>1, AddKnown DEF Watch
  <2>3. \A g \in Fds : (Served(g) => Served(g)') /\ (BeingEvicted(g) => BeingEvicted(g)')
    BY <2>1 DEF Served, LiveTasks, BeingEvicted
  <2>4. OpenHeld'
    BY <2>1, <2>2, <2>3 DEF EventInv, OpenHeld, Held
  <2> QED
    BY <2>1, <2>2, <2>4 DEF EventInv
<1>4. CASE EvictClose
  <2>1. /\ UNCHANGED <<evs, taskFd, pending, running, inbox, peer, main, newFd>>
        /\ monFd \in Fds /\ watched' = watched \ {monFd} /\ fdTab'[monFd] = None
        /\ \A g \in Fds : /\ g # monFd => fdTab'[g] = fdTab[g]
                          /\ BeingEvicted(g) => g = monFd
    BY <1>4 DEF EvictClose, Close, DeleteFd, BeingEvicted, TypeOK
  <2>2. ReadyKnown'
    BY <1>4, <2>1, DeleteKnown DEF EvictClose, Close
  <2>3. \A g \in Fds : (Served(g) => Served(g)') /\ (IsNew(g) => IsNew(g)')
    BY <2>1 DEF Served, LiveTasks, IsNew
  <2>4. OpenHeld'
    BY <2>1, <2>3 DEF EventInv, OpenHeld, Held
  <2> QED
    BY <2>1, <2>2, <2>4 DEF EventInv
<1>5. ASSUME NEW fd \in Fds, Dispatch(fd) PROVE EventInv'
  <2>1. \A g \in Fds : Served(g)' <=> Served(g) \/ g = fd
    BY <1>5, TaskQueued
  <2>2. /\ UNCHANGED <<fdTab, inbox, peer, main, newFd, monitor, monFd>>
        /\ evs' = evs \ {fd} /\ watched' = watched \ {fd} /\ main = "events"
    BY <1>5 DEF Dispatch, DeleteFd
  <2>3. ReadyKnown'
    BY <1>5, <2>2, DeleteKnown DEF Dispatch
  <2>4. \A g \in Fds : (IsNew(g) => IsNew(g)') /\ (BeingEvicted(g) => BeingEvicted(g)')
    BY <2>2 DEF IsNew, BeingEvicted
  <2>5. OpenHeld'
    BY <2>1, <2>2, <2>4 DEF EventInv, OpenHeld, Held
  <2> QED
    BY <2>2, <2>3, <2>5 DEF EventInv
<1>6. ASSUME NEW t \in Tasks, Rearm(t) \/ CloseFd(t) PROVE EventInv'
  <2>1. /\ taskFd[t] \in Fds
        /\ \A g \in Fds : Served(g) /\ g # taskFd[t] => Served(g)'
    BY <1>6, TaskEnds DEF Rearm, CloseFd
  <2>2. /\ UNCHANGED <<evs, inbox, peer, main, newFd, monitor, monFd>>
        /\ \A g \in Fds : (IsNew(g) => IsNew(g)') /\ (BeingEvicted(g) => BeingEvicted(g)')
    BY <1>6 DEF Rearm, CloseFd, IsNew, BeingEvicted
  <2>3. CASE Rearm(t)
    <3>1. /\ fdTab' = fdTab
          /\ ReadyKnown' /\ watched \subseteq watched' /\ (fdTab[taskFd[t]] # None => taskFd[t] \in watched')
      BY <2>1, <2>2, <2>3, AddKnown DEF Rearm
    <3>2. OpenHeld'
      BY <2>1, <2>2, <3>1 DEF EventInv, OpenHeld, Held
    <3> QED
      BY <2>2, <3>1, <3>2 DEF EventInv
  <2>4. CASE CloseFd(t)
    <3>1. /\ DeleteFd(taskFd[t]) /\ watched' = watched \ {taskFd[t]} /\ fdTab'[taskFd[t]] = None
          /\ \A g \in Fds : g # taskFd[t] => fdTab'[g] = fdTab[g]
      BY <2>1, <2>4 DEF CloseFd, Close, DeleteFd, TypeOK
    <3>2. ReadyKnown'
      BY <2>1, <2>2, <3>1, DeleteKnown
    <3>3. OpenHeld'
      BY <2>1, <2>2, <3>1 DEF EventInv, OpenHeld, Held
    <3> QED
      BY <2>2, <3>2, <3>3 DEF EventInv
  <2> QED
    BY <1>6, <2>3, <2>4
<1> QED
  BY QuietNext, QuietEvents, <1>1, <1>2, <1>3, <1>4, <1>5, <1>6

\* The invariant of the events has what NoLostEvent asks for.
LEMMA EventsImply ==
  ASSUME TypeInv, EventInv
  PROVE  NoLostEvent
BY DEF EventInv, OpenHeld, ReadyKnown, Held, Served, IsNew, NoLostEvent, Attended
(***************************************************************************)
(* The map of the monitor.  A calm step neither adds nor removes an entry, *)
(* opens or closes a descriptor (the monitor's own closing aside).         *)
(***************************************************************************)
EntryCalm ==
  /\ tainted \subseteq tainted'
  /\ \A c \in Conns, u \in Users : Asked(c, u) => Asked(c, u)'
  /\ \A fd \in Fds \ tainted' :
       /\ fdTab'[fd] = fdTab[fd] /\ (userId'[fd] = userId[fd] \/ Asked(fdTab[fd], userId'[fd]))
       /\ num'[fd] = Absent <=> num[fd] = Absent
       /\ main = "track" /\ newFd = fd => main' = "track" /\ newFd' = fd
       /\ BeingEvicted(fd) => BeingEvicted(fd)'
  /\ \A t \in Tasks : /\ Closing(t)' <=> Closing(t)
                      /\ Closing(t) => taskFd'[t] = taskFd[t]

LEMMA EntryInit == Init => EntryInv
BY DEF Init, EntryInv, EntryMatchesConnection, ClosingRemoved

LEMMA CalmEntries ==
  ASSUME TypeInv, TypeInv', EntryInv, EntryCalm
  PROVE  EntryInv'
<1>1. \A t \in running : t \in Tasks /\ taskFd[t] \in Fds
  BY DEF TypeInv, TypeOK
<1>2. \A fd \in Fds \ tainted' : BeingClosed(fd) => BeingClosed(fd)'
  <2> SUFFICES ASSUME NEW fd \in Fds \ tainted', NEW t \in running, taskFd[t] = fd, Closing(t)
               PROVE  BeingClosed(fd)'
    BY DEF BeingClosed, Closing
  <2>1. t \in running' /\ taskFd'[t] = fd /\ wk'[t] \in {"unwatch", "close"}
    BY <1>1 DEF EntryCalm, Closing
  <2> QED
    BY <2>1 DEF BeingClosed
<1>3. EntryMatchesConnection'
  <2> SUFFICES ASSUME NEW fd \in Fds \ tainted'
               PROVE  /\ num'[fd] # Absent => /\ fdTab'[fd] # None
                                              /\ userId'[fd] = None \/ Asked(fdTab[fd], userId[fd])'
                      /\ fdTab'[fd] # None /\ num'[fd] = Absent =>
                           (main' = "track" /\ newFd' = fd) \/ BeingClosed(fd)' \/ BeingEvicted(fd)'
    BY DEF EntryMatchesConnection
  <2>1. fd \in Fds \ tainted
    BY DEF EntryCalm
  <2>2. num'[fd] # Absent => /\ fdTab'[fd] # None
                             /\ userId'[fd] = None \/ Asked(fdTab[fd], userId[fd])'
    <3> SUFFICES ASSUME num'[fd] # Absent
                 PROVE  fdTab'[fd] # None /\ (userId'[fd] = None \/ Asked(fdTab[fd], userId[fd])')
      OBVIOUS
    <3>1. /\ fdTab[fd] # None /\ fdTab'[fd] = fdTab[fd] /\ userId'[fd] \in Users \cup {None}
          /\ userId[fd] = None \/ Asked(fdTab[fd], userId[fd])
          /\ userId'[fd] = userId[fd] \/ Asked(fdTab[fd], userId'[fd])
      BY <2>1 DEF EntryCalm, EntryInv, EntryMatchesConnection, TypeInv, TypeOK
    <3>2. PICK c \in Conns : c = fdTab[fd]
      BY <3>1 DEF TypeInv, TypeOK
    <3>3. \A u \in Users : Asked(c, u) => Asked(c, u)'
      BY DEF EntryCalm
    <3>4. userId'[fd] = None \/ Asked(c, userId'[fd])
      BY <3>1, <3>2
    <3>5. \A u : u = userId'[fd] /\ u # None => Asked(c, u)'
      BY <3>1, <3>3, <3>4
    <3> QED
      BY <3>1, <3>2, <3>5 DEF Asked
  <2> QED
    BY <1>2, <2>1, <2>2 DEF EntryCalm, EntryInv, EntryMatchesConnection
<1>4. ClosingRemoved'
  <2> SUFFICES ASSUME NEW t \in running', Closing(t)', taskFd'[t] \notin tainted'
               PROVE  num'[taskFd'[t]] = Absent
    BY DEF ClosingRemoved
  <2>1. t \in Tasks
    BY DEF TypeInv, TypeOK
  <2>2. Closing(t) /\ taskFd'[t] = taskFd[t] /\ t \in running
    BY <2>1 DEF EntryCalm, Closing
  <2>3. taskFd[t] \in Fds \ tainted /\ taskFd[t] \in Fds \ tainted'
    BY <1>1, <2>2 DEF EntryCalm
  <2>4. num[taskFd[t]] = Absent
    BY <2>2, <2>3 DEF EntryInv, ClosingRemoved
  <2> QED
    BY <2>2, <2>3, <2>4 DEF EntryCalm
<1> QED
  BY <1>3, <1>4 DEF EntryInv

\* What all calm steps leave alone but for one variable or two.
LEMMA CalmFrame ==
  ASSUME TypeInv, UNCHANGED <<fdTab, tainted, main, newFd, taskFd, running, sent>>,
         \A fd \in Fds : /\ fd \in tainted \/ userId'[fd] = userId[fd] \/ Asked(fdTab[fd], userId'[fd])
                         /\ num'[fd] = Absent <=> num[fd] = Absent
                         /\ BeingEvicted(fd) => BeingEvicted(fd)',
         \A t \in running : wk'[t] \in {"unwatch", "close"} <=> wk[t] \in {"unwatch", "close"}
  PROVE  EntryCalm
BY DEF EntryCalm, Closing, Asked

LEMMA CalmMain ==
  ASSUME TypeInv, HoldInv, Main
  PROVE  EntryCalm \/ AcceptOne \/ Track
<1> USE DEF TypeInv, clients, kernel, loop, m_map, pool, tasks, mon, history
<1>1. CASE Listen \/ ProcessConnect \/ AcceptNone \/ Watch \/ EventsDone
  <2>1. /\ UNCHANGED <<fdTab, tainted, num, userId, taskFd, running, wk, monitor, monFd, sent>>
        /\ main # "track"
    BY <1>1 DEF Listen, ProcessConnect, AcceptNone, Watch, EventsDone
  <2> QED
    BY <2>1 DEF EntryCalm, Closing, BeingEvicted, Asked
<1>2. ASSUME NEW fd \in Fds, Dispatch(fd) PROVE EntryCalm
  <2>1. UNCHANGED <<fdTab, tainted, num, userId, running, wk, monitor, monFd, main, newFd, sent>>
    BY <1>2 DEF Dispatch, Pool!Accept
  <2>2. \A t \in running : taskFd'[t] = taskFd[t]
    BY <1>2, TaskQueued, LiveTyped
  <2> QED
    BY <2>1, <2>2 DEF EntryCalm, Closing, BeingEvicted, Asked
<1> QED
  BY <1>1, <1>2 DEF Main

LEMMA CalmStart ==
  ASSUME TypeInv, StartTask
  PROVE  EntryCalm
<1> USE DEF TypeInv, clients, kernel, loop, m_map, pool, tasks, mon, history
<1>1. UNCHANGED <<fdTab, tainted, num, userId, taskFd, monitor, monFd, main, newFd, sent>>
  BY DEF StartTask
<1>2. PICK h \in Tasks : /\ h = Head(pending) /\ h \notin running
                         /\ running' = running \cup {h} /\ wk' = [wk EXCEPT ![h] = "header"]
  <2>1. /\ pending \in Seq(Tasks) /\ pending # <<>>
        /\ running' = running \cup {Head(pending)} /\ wk' = [wk EXCEPT ![Head(pending)] = "header"]
    BY DEF StartTask, Pool!Start, TypeOK
  <2>2. Head(pending) \in Tasks /\ 1 \in DOMAIN pending /\ Head(pending) = pending[1]
    BY <2>1
  <2>3. Head(pending) \notin running
    BY <2>2 DEF QueueOK
  <2> QED
    BY <2>1, <2>2, <2>3
<1>3. \A t \in Tasks : Closing(t)' <=> Closing(t)
  BY <1>2 DEF Closing, TypeOK
<1> QED
  BY <1>1, <1>3 DEF EntryCalm, BeingEvicted, Asked

LEMMA CalmWorker ==
  ASSUME TypeInv, RequestInv, NEW t \in Tasks, Worker(t), crashed = "no", crashed' = "no"
  PROVE  EntryCalm \/ RemoveEntry(t) \/ CloseFd(t)
<1> USE DEF TypeInv, clients, kernel, loop, m_map, pool, tasks, mon, history
<1>1. CASE HandleHeart(t)
  <2>1. /\ num[taskFd[t]] # Absent /\ num' = [num EXCEPT ![taskFd[t]] = 0]
        /\ wk[t] = "heart" /\ wk' = [wk EXCEPT ![t] = "header"]
        /\ UNCHANGED <<fdTab, tainted, userId, taskFd, running, monitor, monFd, main, newFd, sent>>
    BY <1>1 DEF HandleHeart, Throw, NextHeader, Goto, At
  <2>2. \A fd \in Fds : num'[fd] = Absent <=> num[fd] = Absent
    BY <2>1 DEF TypeOK, Absent
  <2>3. \A u \in running : wk'[u] \in {"unwatch", "close"} <=> wk[u] \in {"unwatch", "close"}
    BY <2>1 DEF TypeOK
  <2> QED
    BY <2>1, <2>2, <2>3, CalmFrame DEF BeingEvicted
<1>2. CASE HandleLogin(t)
  <2>1. /\ userId' = userId \/ userId' = [userId EXCEPT ![taskFd[t]] = who[t]]
        /\ t \in running /\ wk[t] = "login" /\ wk' = [wk EXCEPT ![t] = "header"]
        /\ UNCHANGED <<fdTab, tainted, num, taskFd, running, monitor, monFd, main, newFd, sent>>
    BY <1>2 DEF HandleLogin, Throw, NextHeader, Goto, At
  <2>2. taskFd[t] \in tainted \/ Asked(fdTab[taskFd[t]], who[t])
    BY <2>1 DEF RequestInv, LoginAsked, Conn
  <2>3. \A fd \in Fds : fd \in tainted \/ userId'[fd] = userId[fd] \/ Asked(fdTab[fd], userId'[fd])
    BY <2>1, <2>2 DEF TypeOK
  <2>4. \A u \in running : wk'[u] \in {"unwatch", "close"} <=> wk[u] \in {"unwatch", "close"}
    BY <2>1 DEF TypeOK
  <2> QED
    BY <2>1, <2>3, <2>4, CalmFrame DEF BeingEvicted
<1>3. CASE \/ HandleLive(t) \/ HandleUnlive(t) \/ HandleHalf(t) \/ BodyPart(t) \/ BodyDone(t) \/ HeaderError(t)
           \/ HeaderEof(t) \/ GetIp(t) \/ GetUserId(t) \/ EndStream(t) \/ Unwatch(t)
  <2>1. UNCHANGED <<fdTab, tainted, num, userId, taskFd, running, monitor, monFd, main, newFd, sent>>
    BY <1>3 DEF HandleLive, HandleUnlive, NextHeader, HandleHalf, BodyPart, BodyDone, HeaderError, HeaderEof, GetIp,
                GetUserId, EndStream, Unwatch, Throw
  <2>2. \A u \in running : wk'[u] \in {"unwatch", "close"} <=> wk[u] \in {"unwatch", "close"}
    BY <1>3 DEF HandleLive, HandleUnlive, NextHeader, HandleHalf, BodyPart, BodyDone, HeaderError, HeaderEof, GetIp,
                GetUserId, EndStream, Unwatch, Throw, Goto, Gets, At, TypeOK
  <2> QED
    BY <2>1, <2>2, CalmFrame DEF BeingEvicted
<1>4. ASSUME NEW r \in Requests, Receive(t, r) PROVE EntryCalm
  <2>1. UNCHANGED <<fdTab, tainted, num, userId, taskFd, running, monitor, monFd, main, newFd, sent>>
    BY <1>4 DEF Receive
  <2>2. \A u \in running : wk'[u] \in {"unwatch", "close"} <=> wk[u] \in {"unwatch", "close"}
    BY <1>4, RequestParts DEF Receive, Goto, Gets, At, TypeOK
  <2> QED
    BY <2>1, <2>2, CalmFrame DEF BeingEvicted
<1>5. CASE Rearm(t)
  <2>1. /\ UNCHANGED <<fdTab, tainted, num, userId, monitor, monFd, main, newFd, sent>>
        /\ wk[t] = "rearm" /\ running' = running \ {t}
        /\ \A u \in Tasks : u # t => wk'[u] = wk[u] /\ taskFd'[u] = taskFd[u]
    BY <1>5, EndTaskTypes DEF Rearm, At
  <2>2. \A u \in Tasks : (Closing(u)' <=> Closing(u)) /\ (Closing(u) => taskFd'[u] = taskFd[u])
    BY <2>1 DEF Closing
  <2> QED
    BY <2>1, <2>2 DEF EntryCalm, BeingEvicted, Asked
<1> QED
  BY <1>1, <1>2, <1>3, <1>4, <1>5 DEF Worker

LEMMA CalmMonitor ==
  ASSUME TypeInv, Monitor, crashed = "no", crashed' = "no"
  PROVE  EntryCalm \/ \E fd \in Fds : Evict(fd)
<1> USE DEF TypeInv, clients, kernel, loop, m_map, pool, tasks, mon, history
<1>1. CASE ScanBegin \/ EvictUnwatch \/ ScanEnd \/ \E fd \in Fds : CountRead(fd)
  BY <1>1, CalmFrame DEF ScanBegin, EvictUnwatch, ScanEnd, CountRead, Throw, BeingEvicted
<1>2. CASE CountWrite
  <2>1. /\ num \in [Fds -> Absent..Limit] /\ monVal + 1 # Absent
        /\ num' = IF num[monFd] = Absent THEN num ELSE [num EXCEPT ![monFd] = monVal + 1]
    BY <1>2, MyServerAssumption DEF CountWrite, TypeOK, Absent
  <2>2. \A fd \in Fds : num'[fd] = Absent <=> num[fd] = Absent
    BY <2>1
  <2> QED
    BY <1>2, <2>2, CalmFrame DEF CountWrite, BeingEvicted
<1>3. CASE EvictClose
  <2>1. /\ UNCHANGED <<num, userId, taskFd, running, wk, main, newFd, sent>>
        /\ tainted' = tainted \cup {monFd} /\ monFd \in Fds
        /\ \A g \in Fds : /\ g # monFd => fdTab'[g] = fdTab[g]
                          /\ BeingEvicted(g) => g = monFd
    BY <1>3 DEF EvictClose, Close, BeingEvicted, TypeOK
  <2> QED
    BY <2>1 DEF EntryCalm, Closing, Asked
<1> QED
  BY <1>1, <1>2, <1>3 DEF Monitor

\* A client never takes back what it has sent.
LEMMA AskedStays ==
  ASSUME TypeInv, NEW c \in Conns, sent'[c] \in Nat, sent[c] <= sent'[c]
  PROVE  \A u \in Users : Asked(c, u) => Asked(c, u)'
<1> SUFFICES ASSUME NEW u \in Users, Asked(c, u) PROVE Asked(c, u)'
  OBVIOUS
<1>1. PICK i \in 1..sent[c] : Script[c][i] = <<"login", u>>
  BY DEF Asked
<1>2. i \in 1..sent'[c]
  BY DEF TypeInv, TypeOK
<1> QED
  BY <1>1, <1>2 DEF Asked

LEMMA CalmClient ==
  ASSUME TypeInv, NEW c \in Conns, Client(c)
  PROVE  EntryCalm
<1>1. UNCHANGED <<fdTab, tainted, num, userId, taskFd, running, wk, monitor, monFd, main, newFd>>
  BY DEF Client, Connect, Send, Disconnect, clients, kernel, loop, m_map, pool, tasks, mon, history
<1>2. \A d \in Conns : sent'[d] \in Nat /\ sent[d] <= sent'[d]
  BY DEF Client, Connect, Send, Disconnect, TypeInv, TypeOK
<1>3. \A d \in Conns, u \in Users : Asked(d, u) => Asked(d, u)'
  BY <1>2, AskedStays
<1> QED
  BY <1>1, <1>3 DEF EntryCalm, Closing, BeingEvicted

LEMMA EntryNext ==
  ASSUME TypeInv, TypeInv', HoldInv, EntryInv, RequestInv, Next, crashed' = "no"
  PROVE  EntryInv'
<1> USE DEF TypeInv, clients, kernel, loop, m_map, pool, tasks, mon, history
<1>1. CASE AcceptOne
  <2>1. PICK fd \in FreeFds : newFd' = fd /\ fdTab' = [fdTab EXCEPT ![fd] = Head(backlog)]
    BY <1>1 DEF AcceptOne
  <2>2. /\ UNCHANGED <<num, userId, tainted, taskFd, running, wk, monitor, monFd, sent>>
        /\ main = "accept" /\ main' = "track"
    BY <1>1 DEF AcceptOne
  <2>3. fd \in Fds /\ fdTab[fd] = None /\ \A g \in Fds : g # fd => fdTab'[g] = fdTab[g]
    BY <2>1 DEF FreeFds, TypeOK
  <2>4. \A g \in Fds : (BeingClosed(g) => BeingClosed(g)') /\ (BeingEvicted(g) => BeingEvicted(g)')
    BY <2>2 DEF BeingClosed, BeingEvicted
  <2>5. EntryMatchesConnection'
    BY <2>1, <2>2, <2>3, <2>4 DEF EntryInv, EntryMatchesConnection, Asked
  <2> QED
    BY <2>2, <2>5 DEF EntryInv, ClosingRemoved, Closing
<1>2. CASE Track
  <2>1. /\ UNCHANGED <<fdTab, tainted, taskFd, running, wk, monitor, monFd, newFd, sent>>
        /\ main = "track" /\ newFd \in Fds
    BY <1>2 DEF Track, TypeOK
  <2>2. /\ num'[newFd] # Absent
        /\ num[newFd] # Absent => num'[newFd] = num[newFd] /\ userId'[newFd] = userId[newFd]
        /\ num[newFd] = Absent => userId'[newFd] = None
        /\ \A g \in Fds : g # newFd => num'[g] = num[g] /\ userId'[g] = userId[g]
    <3>1. num \in [Fds -> Absent..Limit] /\ userId \in [Fds -> Users \cup {None}] /\ newFd \in Fds
      BY DEF TypeOK
    <3>2. 0 # Absent
      BY DEF Absent
    <3>3. CASE num[newFd] = Absent
      BY <1>2, <3>1, <3>2, <3>3 DEF Track
    <3>4. CASE num[newFd] # Absent
      BY <1>2, <3>1, <3>4 DEF Track
    <3> QED
      BY <3>3, <3>4
  <2>3. newFd \notin tainted => fdTab[newFd] # None /\ ~Served(newFd)
    BY <2>1 DEF HoldInv, HeldOnce, IsNew
  <2>4. \A g \in Fds : (BeingClosed(g) => BeingClosed(g)') /\ (BeingEvicted(g) => BeingEvicted(g)')
    BY <2>1 DEF BeingClosed, BeingEvicted
  <2>5. EntryMatchesConnection'
    BY <2>1, <2>2, <2>3, <2>4 DEF EntryInv, EntryMatchesConnection, Asked
  <2>6. ClosingRemoved'
    <3>1. \A t \in running : taskFd[t] \in Fds /\ (taskFd[t] \in tainted \/ taskFd[t] # newFd)
      BY <2>3, LiveTyped DEF Served, TypeOK
    <3> QED
      BY <2>1, <2>2, <3>1 DEF EntryInv, ClosingRemoved, Closing
  <2> QED
    BY <2>5, <2>6 DEF EntryInv
<1>3. ASSUME NEW t \in Tasks, RemoveEntry(t) PROVE EntryInv'
  <2>1. /\ UNCHANGED <<fdTab, tainted, taskFd, running, userId, monitor, monFd, main, newFd, sent>>
        /\ num' = [num EXCEPT ![taskFd[t]] = Absent] /\ wk' = [wk EXCEPT ![t] = "unwatch"]
        /\ t \in running /\ wk[t] = "remove" /\ taskFd[t] \in Fds
    BY <1>3 DEF RemoveEntry, Remove, Goto, At, TypeOK
  <2>2. wk'[t] = "unwatch" /\ \A u \in running : u # t => wk'[u] = wk[u]
    BY <2>1 DEF TypeOK
  <2>3. num'[taskFd[t]] = Absent /\ \A fd \in Fds : fd # taskFd[t] => num'[fd] = num[fd]
    BY <2>1 DEF TypeOK
  <2>4. /\ BeingClosed(taskFd[t])'
        /\ \A g \in Fds : (BeingClosed(g) => BeingClosed(g)') /\ (BeingEvicted(g) => BeingEvicted(g)')
    BY <2>1, <2>2 DEF BeingClosed, BeingEvicted
  <2>5. EntryMatchesConnection'
    BY <2>1, <2>3, <2>4 DEF EntryInv, EntryMatchesConnection, Asked
  <2>6. ClosingRemoved'
    <3>1. \A u \in running : taskFd[u] \in Fds
      BY DEF TypeOK
    <3> QED
      BY <2>1, <2>2, <2>3, <3>1 DEF EntryInv, ClosingRemoved, Closing
  <2> QED
    BY <2>5, <2>6 DEF EntryInv
<1>4. ASSUME NEW t \in Tasks, CloseFd(t) PROVE EntryInv'
  <2>1. PICK fd \in Fds : fd = taskFd[t]
    BY DEF TypeOK
  <2>2. /\ UNCHANGED <<tainted, num, userId, monitor, monFd, main, newFd, sent>>
        /\ t \in running /\ wk[t] = "close" /\ running' = running \ {t}
        /\ \A u \in Tasks : u # t => wk'[u] = wk[u] /\ taskFd'[u] = taskFd[u]
    BY <1>4, EndTaskTypes DEF CloseFd, At
  <2>3. fdTab'[fd] = None /\ \A g \in Fds : g # fd => fdTab'[g] = fdTab[g]
    BY <1>4, <2>1 DEF CloseFd, Close, TypeOK
  <2>4. fd \notin tainted => num[fd] = Absent
    BY <2>1, <2>2 DEF EntryInv, ClosingRemoved, Closing
  <2>5. \A g \in Fds : /\ BeingClosed(g) /\ g # fd => BeingClosed(g)'
                       /\ BeingEvicted(g) => BeingEvicted(g)'
    BY <2>1, <2>2 DEF BeingClosed, BeingEvicted, TypeOK
  <2>6. EntryMatchesConnection'
    BY <2>2, <2>3, <2>4, <2>5 DEF EntryInv, EntryMatchesConnection, Asked
  <2>7. ClosingRemoved'
    BY <2>2 DEF EntryInv, ClosingRemoved, Closing, TypeOK
  <2> QED
    BY <2>6, <2>7 DEF EntryInv
<1>5. ASSUME NEW fd \in Fds, Evict(fd) PROVE EntryInv'
  <2>1. /\ UNCHANGED <<fdTab, tainted, taskFd, running, wk, userId, main, newFd, sent>>
        /\ \A g \in Fds : ~BeingEvicted(g) /\ (g = fd => BeingEvicted(g)')
    BY <1>5 DEF Evict, BeingEvicted
  <2>2. num'[fd] = Absent /\ \A g \in Fds : g # fd => num'[g] = num[g]
    BY <1>5 DEF Evict, TypeOK
  <2>3. \A g \in Fds : BeingClosed(g) => BeingClosed(g)'
    BY <2>1 DEF BeingClosed
  <2>4. EntryMatchesConnection'
    BY <2>1, <2>2, <2>3 DEF EntryInv, EntryMatchesConnection, Asked
  <2>5. ClosingRemoved'
    <3>1. \A u \in running : taskFd[u] \in Fds
      BY DEF TypeOK
    <3> QED
      BY <2>1, <2>2, <3>1 DEF EntryInv, ClosingRemoved, Closing
  <2> QED
    BY <2>4, <2>5 DEF EntryInv
<1>6. CASE EntryCalm
  BY <1>6, CalmEntries
<1> QED
  BY <1>1, <1>2, <1>3, <1>4, <1>5, <1>6, CalmClient, CalmMain, CalmStart, CalmWorker, CalmMonitor DEF Next
(***************************************************************************)
(* Requests: a login that a worker handles was sent on its connection.  A  *)
(* calm step reads no request and receives none.                           *)
(***************************************************************************)
RequestCalm ==
  /\ \A c \in Conns, u \in Users : Asked(c, u) => Asked(c, u)'
  /\ \A c \in Conns : \A i \in DOMAIN inbox'[c] : \E j \in DOMAIN inbox[c] : inbox'[c][i] = inbox[c][j]
  /\ tainted \subseteq tainted'
  /\ \A t \in running' : wk'[t] = "login" /\ taskFd'[t] \notin tainted' =>
       /\ t \in running /\ wk[t] = "login" /\ who'[t] = who[t]
       /\ taskFd'[t] = taskFd[t] /\ fdTab'[taskFd[t]] = fdTab[taskFd[t]]

LEMMA RequestInit == Init => RequestInv
BY DEF Init, RequestInv, InboxAsked, LoginAsked

\* Who serves an untainted descriptor has a connection.
LEMMA ServedOpen ==
  ASSUME TypeInv, HoldInv, NEW t \in running, taskFd[t] \notin tainted
  PROVE  Conn(t) \in Conns /\ taskFd[t] \in Fds /\ t \in Tasks /\ Served(taskFd[t])
<1>1. t \in Tasks /\ taskFd[t] \in Fds /\ t \in LiveTasks
  BY LiveTyped DEF TypeInv, TypeOK
<1>2. Served(taskFd[t]) /\ taskFd[t] \in Fds \ tainted
  BY <1>1 DEF Served
<1> QED
  BY <1>1, <1>2 DEF HoldInv, HeldOnce, Conn, TypeInv, TypeOK

LEMMA CalmRequests ==
  ASSUME TypeInv, HoldInv, RequestInv, RequestCalm
  PROVE  RequestInv'
<1>1. InboxAsked'
  <2> SUFFICES ASSUME NEW c \in Conns, NEW u \in Users, NEW i \in DOMAIN inbox'[c],
                      inbox'[c][i] = <<"login", u>>
               PROVE  Asked(c, u)'
    BY DEF InboxAsked
  <2>1. PICK j \in DOMAIN inbox[c] : inbox'[c][i] = inbox[c][j]
    BY DEF RequestCalm
  <2> QED
    BY <2>1 DEF RequestInv, InboxAsked, RequestCalm
<1>2. LoginAsked'
  <2> SUFFICES ASSUME NEW t \in running', wk'[t] = "login", taskFd'[t] \notin tainted'
               PROVE  Asked(Conn(t), who[t])'
    BY DEF LoginAsked
  <2>1. /\ t \in running /\ wk[t] = "login" /\ who'[t] = who[t] /\ taskFd[t] \notin tainted
        /\ taskFd'[t] = taskFd[t] /\ fdTab'[taskFd[t]] = fdTab[taskFd[t]]
    BY DEF RequestCalm
  <2>2. PICK c \in Conns, u \in Users : c = Conn(t) /\ u = who[t] /\ c = Conn(t)' /\ u = who'[t]
    BY <2>1, ServedOpen DEF TypeInv, WhoOK, Conn
  <2>3. Asked(c, u)'
    BY <2>1, <2>2 DEF RequestInv, LoginAsked, RequestCalm
  <2> QED
    BY <2>2, <2>3 DEF Asked
<1> QED
  BY <1>1, <1>2 DEF RequestInv

\* What the calm steps have in common.
LEMMA RequestFrame ==
  ASSUME TypeInv, UNCHANGED <<sent, fdTab, tainted, taskFd, running>>,
         \A c \in Conns : \A i \in DOMAIN inbox'[c] : \E j \in DOMAIN inbox[c] : inbox'[c][i] = inbox[c][j],
         \A t \in running : wk'[t] = "login" => wk[t] = "login" /\ who'[t] = who[t]
  PROVE  RequestCalm
BY DEF RequestCalm, Asked

LEMMA ConsumeKeeps ==
  ASSUME TypeInv, NEW c \in Conns, Consume(c), inbox[c] # <<>>
  PROVE  \A d \in Conns : \A i \in DOMAIN inbox'[d] : \E j \in DOMAIN inbox[d] : inbox'[d][i] = inbox[d][j]
<1>1. inbox[c] \in Seq(Requests) /\ inbox'[c] = Tail(inbox[c])
  BY DEF TypeInv, TypeOK, Consume
<1>2. \A i \in DOMAIN inbox'[c] : i + 1 \in DOMAIN inbox[c] /\ inbox'[c][i] = inbox[c][i + 1]
  BY <1>1
<1>3. \A d \in Conns : d # c => inbox'[d] = inbox[d]
  BY DEF TypeInv, TypeOK, Consume
<1> QED
  BY <1>2, <1>3

LEMMA RequestClient ==
  ASSUME TypeInv, HoldInv, RequestInv, NEW c \in Conns, Client(c)
  PROVE  RequestInv'
<1> USE DEF clients, kernel, loop, m_map, pool, tasks, mon, history
<1>1. UNCHANGED <<fdTab, tainted, taskFd, running, wk, who>>
  BY DEF Client, Connect, Send, Disconnect
<1>2. CASE Connect(c) \/ Disconnect(c)
  <2>1. UNCHANGED <<inbox, sent>>
    BY <1>2 DEF Connect, Disconnect
  <2> QED
    BY <1>1, <2>1, RequestFrame, CalmRequests
<1>3. CASE Send(c)
  <2>1. /\ inbox[c] \in Seq(Requests) /\ sent[c] \in Nat
        /\ inbox'[c] = Append(inbox[c], Script[c][sent[c] + 1]) /\ sent'[c] = sent[c] + 1
        /\ \A d \in Conns : d # c => inbox'[d] = inbox[d] /\ sent'[d] = sent[d]
    BY <1>3 DEF Send, TypeInv, TypeOK
  <2>2. \A d \in Conns : sent'[d] \in Nat /\ sent[d] <= sent'[d]
    <3> SUFFICES ASSUME NEW d \in Conns PROVE sent'[d] \in Nat /\ sent[d] <= sent'[d]
      OBVIOUS
    <3>1. sent[d] \in Nat /\ (sent'[d] = sent[d] \/ sent'[d] = sent[d] + 1)
      BY <2>1 DEF TypeInv, TypeOK
    <3> QED
      BY <3>1
  <2>3. \A d \in Conns, u \in Users : Asked(d, u) => Asked(d, u)'
    BY <2>2, AskedStays
  <2>4. \A i \in DOMAIN inbox'[c] : \/ i \in DOMAIN inbox[c] /\ inbox'[c][i] = inbox[c][i]
                                    \/ inbox'[c][i] = Script[c][sent'[c]]
    BY <2>1
  <2>5. sent'[c] \in 1..sent'[c]
    BY <2>1
  <2>6. InboxAsked'
    <3> SUFFICES ASSUME NEW d \in Conns, NEW u \in Users, NEW i \in DOMAIN inbox'[d],
                        inbox'[d][i] = <<"login", u>>
                 PROVE  Asked(d, u)'
      BY DEF InboxAsked
    <3>1. CASE d # c \/ (i \in DOMAIN inbox[c] /\ inbox'[c][i] = inbox[c][i])
      BY <2>1, <2>3, <3>1 DEF RequestInv, InboxAsked
    <3>2. CASE d = c /\ inbox'[c][i] = Script[c][sent'[c]]
      BY <2>5, <3>2 DEF Asked
    <3> QED
      BY <2>4, <3>1, <3>2
  <2>7. LoginAsked'
    <3> SUFFICES ASSUME NEW t \in running, wk[t] = "login", taskFd[t] \notin tainted
                 PROVE  Asked(Conn(t), who[t])'
      BY <1>1 DEF LoginAsked
    <3>1. PICK d \in Conns, u \in Users : d = Conn(t) /\ u = who[t] /\ d = Conn(t)' /\ u = who'[t]
      BY <1>1, ServedOpen DEF TypeInv, WhoOK, Conn
    <3>2. Asked(d, u)'
      BY <2>3, <3>1 DEF RequestInv, LoginAsked
    <3> QED
      BY <3>1, <3>2 DEF Asked
  <2> QED
    BY <2>6, <2>7 DEF RequestInv
<1> QED
  BY <1>2, <1>3 DEF Client

LEMMA RequestMain ==
  ASSUME TypeInv, HoldInv, RequestInv, Main
  PROVE  RequestInv'
<1> USE DEF clients, kernel, loop, m_map, pool, tasks, mon, history
<1>1. CASE Listen \/ ProcessConnect \/ AcceptNone \/ Track \/ Watch \/ EventsDone
  <2>1. UNCHANGED <<fdTab, tainted, taskFd, running, wk, who, inbox, sent>>
    BY <1>1 DEF Listen, ProcessConnect, AcceptNone, Track, Watch, EventsDone
  <2> QED
    BY <2>1, RequestFrame, CalmRequests
<1>2. CASE AcceptOne
  <2>1. PICK fd \in FreeFds : fdTab' = [fdTab EXCEPT ![fd] = Head(backlog)]
    BY <1>2 DEF AcceptOne
  <2>2. UNCHANGED <<tainted, taskFd, running, wk, who, inbox, sent>>
    BY <1>2 DEF AcceptOne
  <2>3. \A t \in running : taskFd[t] \notin tainted => fdTab'[taskFd[t]] = fdTab[taskFd[t]]
    <3> SUFFICES ASSUME NEW t \in running, taskFd[t] \notin tainted
                 PROVE  fdTab'[taskFd[t]] = fdTab[taskFd[t]]
      OBVIOUS
    <3>1. fdTab[taskFd[t]] \in Conns /\ taskFd[t] \in Fds
      BY ServedOpen DEF Conn
    <3>2. fdTab[fd] = None
      BY <2>1 DEF FreeFds
    <3>3. fd # taskFd[t]
      BY <3>1, <3>2, MyServerAssumption
    <3> QED
      BY <2>1, <3>1, <3>3 DEF TypeInv, TypeOK
  <2>4. RequestCalm
    BY <2>2, <2>3 DEF RequestCalm, Asked
  <2> QED
    BY <2>4, CalmRequests
<1>3. ASSUME NEW fd \in Fds, Dispatch(fd) PROVE RequestInv'
  <2>1. UNCHANGED <<fdTab, tainted, running, wk, who, inbox, sent>>
    BY <1>3 DEF Dispatch, Pool!Accept
  <2>2. \A t \in running : taskFd'[t] = taskFd[t]
    BY <1>3, TaskQueued, LiveTyped DEF TypeInv
  <2>3. RequestCalm
    BY <2>1, <2>2 DEF RequestCalm, Asked
  <2> QED
    BY <2>3, CalmRequests
<1> QED
  BY <1>1, <1>2, <1>3 DEF Main

LEMMA RequestStart ==
  ASSUME TypeInv, HoldInv, RequestInv, StartTask
  PROVE  RequestInv'
<1> USE DEF clients, kernel, loop, m_map, pool, tasks, mon, history
<1>1. UNCHANGED <<fdTab, tainted, taskFd, who, inbox, sent>>
  BY DEF StartTask
<1>2. /\ pending \in Seq(Tasks) /\ pending # <<>>
      /\ running' = running \cup {Head(pending)} /\ wk' = [wk EXCEPT ![Head(pending)] = "header"]
  BY DEF StartTask, Pool!Start, TypeInv, TypeOK
<1>3. Head(pending) \in Tasks
  BY <1>2
<1>4. \A t \in running' : wk'[t] = "login" => t \in running /\ wk[t] = "login"
  BY <1>2, <1>3 DEF TypeInv, TypeOK
<1>5. RequestCalm
  BY <1>1, <1>4 DEF RequestCalm, Asked
<1> QED
  BY <1>5, CalmRequests

LEMMA RequestWorker ==
  ASSUME TypeInv, HoldInv, RequestInv, NEW t \in Tasks, Worker(t), crashed = "no", crashed' = "no"
  PROVE  RequestInv'
<1> USE DEF TypeInv, clients, kernel, loop, m_map, pool, tasks, mon, history
<1>1. CASE \/ HandleHeart(t) \/ HandleLogin(t) \/ HandleLive(t) \/ HandleUnlive(t) \/ BodyPart(t)
           \/ HeaderError(t) \/ HeaderEof(t) \/ GetIp(t) \/ GetUserId(t) \/ EndStream(t)
           \/ RemoveEntry(t) \/ Unwatch(t)
  <2>1. UNCHANGED <<fdTab, tainted, taskFd, running, inbox, sent>>
    BY <1>1 DEF HandleHeart, HandleLogin, HandleLive, HandleUnlive, NextHeader, BodyPart, HeaderError, HeaderEof,
                GetIp, GetUserId, EndStream, RemoveEntry, Unwatch, Throw
  <2>2. \A u \in running : wk'[u] = "login" => wk[u] = "login" /\ who'[u] = who[u]
    BY <1>1 DEF HandleHeart, HandleLogin, HandleLive, HandleUnlive, NextHeader, BodyPart, HeaderError, HeaderEof,
                GetIp, GetUserId, EndStream, RemoveEntry, Unwatch, Throw, Goto, TypeOK
  <2> QED
    BY <2>1, <2>2, RequestFrame, CalmRequests
<1>2. CASE HandleHalf(t) \/ BodyDone(t)
  <2>1. UNCHANGED <<fdTab, tainted, taskFd, running, who, sent>>
    BY <1>2 DEF HandleHalf, BodyDone
  <2>2. \A u \in running : wk'[u] = "login" => wk[u] = "login"
    BY <1>2 DEF HandleHalf, BodyDone, Goto, TypeOK
  <2>3. \A d \in Conns : \A i \in DOMAIN inbox'[d] : \E j \in DOMAIN inbox[d] : inbox'[d][i] = inbox[d][j]
    <3>1. inbox' = inbox \/ \E c \in Conns : Consume(c) /\ inbox[c] # <<>>
      BY <1>2 DEF HandleHalf, BodyDone, Gets, Conn, At, BodyOK, TypeOK
    <3> QED
      BY <3>1, ConsumeKeeps
  <2> QED
    BY <2>1, <2>2, <2>3, RequestFrame, CalmRequests
<1>3. ASSUME NEW r \in Requests, Receive(t, r) PROVE RequestInv'
  <2>1. /\ UNCHANGED <<fdTab, tainted, taskFd, running, sent>> /\ t \in running
        /\ wk' = [wk EXCEPT ![t] = r[1]] /\ who' = [who EXCEPT ![t] = r[2]]
    BY <1>3 DEF Receive, Gets, At, Goto
  <2>2. PICK c \in Conns : c = Conn(t) /\ inbox[c] # <<>> /\ Head(inbox[c]) = r /\ Consume(c)
    BY <1>3 DEF Receive, Gets, Conn, TypeOK
  <2>3. \A d \in Conns : \A i \in DOMAIN inbox'[d] : \E j \in DOMAIN inbox[d] : inbox'[d][i] = inbox[d][j]
    BY <2>2, ConsumeKeeps
  <2>4. InboxAsked'
    <3> SUFFICES ASSUME NEW d \in Conns, NEW u \in Users, NEW i \in DOMAIN inbox'[d],
                        inbox'[d][i] = <<"login", u>>
                 PROVE  Asked(d, u)'
      BY DEF InboxAsked
    <3>1. PICK j \in DOMAIN inbox[d] : inbox'[d][i] = inbox[d][j]
      BY <2>3
    <3>2. Asked(d, u)
      BY <3>1 DEF RequestInv, InboxAsked
    <3> QED
      BY <2>1, <3>2 DEF Asked
  <2>5. LoginAsked'
    <3> SUFFICES ASSUME NEW u \in running, wk'[u] = "login", taskFd[u] \notin tainted
                 PROVE  Asked(fdTab[taskFd[u]], who'[u])
      BY <2>1 DEF LoginAsked, Conn, Asked
    <3>1. CASE u # t
      <4>1. wk'[u] = wk[u] /\ who'[u] = who[u]
        BY <2>1, <3>1 DEF TypeOK
      <4> QED
        BY <4>1 DEF RequestInv, LoginAsked, Conn
    <3>2. CASE u = t
      <4>1. r[1] = "login" /\ who'[t] = r[2]
        BY <2>1, <3>2 DEF TypeOK
      <4>2. PICK v \in Users : r = <<"login", v>> /\ v = r[2]
        BY <4>1, RequestParts
      <4>3. inbox[c] \in Seq(Requests) /\ 1 \in DOMAIN inbox[c] /\ inbox[c][1] = r
        BY <2>2 DEF TypeOK
      <4>4. Asked(c, v)
        BY <4>2, <4>3 DEF RequestInv, InboxAsked
      <4> QED
        BY <2>2, <3>2, <4>1, <4>2, <4>4 DEF Conn
    <3> QED
      BY <3>1, <3>2
  <2> QED
    BY <2>4, <2>5 DEF RequestInv
<1>4. CASE Rearm(t) \/ CloseFd(t)
  <2>1. /\ UNCHANGED <<tainted, who, inbox, sent>> /\ running' = running \ {t}
        /\ \A u \in Tasks : u # t => wk'[u] = wk[u] /\ taskFd'[u] = taskFd[u]
    BY <1>4, EndTaskTypes DEF Rearm, CloseFd
  <2>2. t \in running /\ \A g \in Fds : g # taskFd[t] => fdTab'[g] = fdTab[g]
    BY <1>4 DEF Rearm, CloseFd, Close, At, TypeOK
  <2>3. \A u \in running : u # t => taskFd[u] \in tainted \/ taskFd[u] # taskFd[t]
    BY <2>2, LiveTyped DEF HoldInv, OneTaskPerConnection
  <2>4. RequestCalm
    BY <2>1, <2>2, <2>3 DEF RequestCalm, Asked, TypeOK
  <2> QED
    BY <2>4, CalmRequests
<1> QED
  BY <1>1, <1>2, <1>3, <1>4 DEF Worker

LEMMA RequestMonitor ==
  ASSUME TypeInv, HoldInv, RequestInv, Monitor, crashed = "no", crashed' = "no"
  PROVE  RequestInv'
<1> USE DEF TypeInv, clients, kernel, loop, m_map, pool, tasks, mon, history
<1>1. UNCHANGED <<running, wk, who, taskFd, inbox, sent>>
  BY DEF Monitor, ScanBegin, EvictUnwatch, EvictClose, CountWrite, ScanEnd, Evict, CountRead, Throw
<1>2. /\ tainted \subseteq tainted'
      /\ \A fd \in Fds : fdTab'[fd] = fdTab[fd] \/ fd \in tainted'
  <2>1. CASE EvictClose
    BY <2>1 DEF EvictClose, Close, TypeOK
  <2>2. CASE ~EvictClose
    BY <2>2 DEF Monitor, ScanBegin, EvictUnwatch, CountWrite, ScanEnd, Evict, CountRead, Throw
  <2> QED
    BY <2>1, <2>2
<1>3. RequestCalm
  BY <1>1, <1>2 DEF RequestCalm, Asked, TypeOK
<1> QED
  BY <1>3, CalmRequests
\* A task between its start and the removal of its entry has one, unless the monitor
\* is evicting its descriptor or has closed that number before.
LEMMA MissingEntry ==
  ASSUME HoldInv, EntryInv, TypeInv,
         NEW t \in running, wk[t] \notin {"unwatch", "close"}, num[taskFd[t]] = Absent
  PROVE  taskFd[t] \in tainted \/ BeingEvicted(taskFd[t])
<1> SUFFICES ASSUME taskFd[t] \notin tainted PROVE BeingEvicted(taskFd[t])
  OBVIOUS
<1>1. PICK fd \in Fds : fd = taskFd[t]
  BY DEF TypeInv, TypeOK
<1>2. t \in LiveTasks /\ Served(fd) /\ fd \in Fds \ tainted
  BY <1>1 DEF LiveTasks, Served
<1>3. fdTab[fd] # None /\ ~IsNew(fd)
  BY <1>2 DEF HoldInv, HeldOnce
<1>4. ~BeingClosed(fd)
  <2> SUFFICES ASSUME NEW u \in running, taskFd[u] = fd, wk[u] \in {"unwatch", "close"} PROVE FALSE
    BY DEF BeingClosed
  <2>1. u \in LiveTasks /\ u # t
    BY DEF LiveTasks
  <2> QED
    BY <1>1, <1>2, <2>1 DEF HoldInv, OneTaskPerConnection
<1>5. (main = "track" /\ newFd = fd) \/ BeingClosed(fd) \/ BeingEvicted(fd)
  BY <1>1, <1>2, <1>3 DEF EntryInv, EntryMatchesConnection
<1> QED
  BY <1>1, <1>3, <1>4, <1>5 DEF IsNew

(***************************************************************************)
(* Streams.  A calm step starts none, and the worker that will end one     *)
(* stays in place.                                                         *)
(***************************************************************************)
StreamCalm ==
  /\ live' \ orphaned' \subseteq live \ orphaned
  /\ \A fd \in Fds \ tainted, u \in live' \ orphaned' :
       EndsStream(fd, u) => fd \notin tainted' /\ EndsStream(fd, u)'
  /\ \A t \in running' : wk'[t] = "stream" /\ taskFd'[t] \notin tainted' =>
       /\ t \in running /\ wk[t] = "stream" /\ taskFd[t] \notin tainted
       /\ taskFd'[t] = taskFd[t] /\ who'[t] = who[t] /\ userId'[taskFd[t]] = userId[taskFd[t]]

LEMMA StreamInit == Init => StreamInv
BY DEF Init, StreamInv, StreamsEnd, UserKnown

LEMMA CalmStreams ==
  ASSUME StreamInv, StreamCalm
  PROVE  StreamInv'
<1>1. StreamsEnd'
  <2> SUFFICES ASSUME NEW u \in live' \ orphaned'
               PROVE  \E fd \in Fds \ tainted' : EndsStream(fd, u)'
    BY DEF StreamsEnd
  <2>1. PICK fd \in Fds \ tainted : EndsStream(fd, u)
    BY DEF StreamCalm, StreamInv, StreamsEnd
  <2> QED
    BY <2>1 DEF StreamCalm
<1>2. UserKnown'
  BY DEF StreamInv, UserKnown, StreamCalm
<1> QED
  BY <1>1, <1>2 DEF StreamInv

LEMMA StreamMain ==
  ASSUME TypeInv, HoldInv, StreamInv, Main
  PROVE  StreamCalm
<1> USE DEF TypeInv, clients, kernel, loop, m_map, pool, tasks, mon, history
<1>1. CASE Listen \/ ProcessConnect \/ AcceptNone \/ Watch \/ EventsDone
  <2>1. /\ UNCHANGED <<live, orphaned, tainted, fdTab, userId, num, running, wk, who, taskFd, monitor, monFd>>
        /\ main' # "track"
    BY <1>1 DEF Listen, ProcessConnect, AcceptNone, Watch, EventsDone
  <2> QED
    BY <2>1 DEF StreamCalm, EndsStream, LoggedIn, BeingEvicted, Leaving
<1>2. CASE AcceptOne
  <2>1. PICK fd \in FreeFds : newFd' = fd /\ fdTab' = [fdTab EXCEPT ![fd] = Head(backlog)]
    BY <1>2 DEF AcceptOne
  <2>2. UNCHANGED <<live, orphaned, tainted, userId, num, running, wk, who, taskFd, monitor, monFd>>
    BY <1>2 DEF AcceptOne
  <2>3. /\ fd \in Fds /\ fdTab[fd] = None
        /\ \A g \in Fds : g # fd => fdTab'[g] = fdTab[g]
    BY <2>1 DEF FreeFds, TypeOK
  <2>4. \A g \in Fds : \A u : EndsStream(g, u) => g # fd
    BY <2>3 DEF EndsStream, LoggedIn
  <2> QED
    BY <2>1, <2>2, <2>3, <2>4 DEF StreamCalm, EndsStream, LoggedIn, BeingEvicted, Leaving
<1>3. CASE Track
  <2>1. /\ UNCHANGED <<live, orphaned, tainted, fdTab, running, wk, who, taskFd, monitor, monFd>>
        /\ newFd \in Fds /\ main = "track" /\ main' = "watch" /\ IsNew(newFd)
    BY <1>3 DEF Track, IsNew, TypeOK
  <2>2. \A g \in Fds : g # newFd => userId'[g] = userId[g] /\ num'[g] = num[g]
    BY <1>3 DEF Track, TypeOK
  <2>3. \A t \in running : taskFd[t] \in Fds /\ (taskFd[t] \in tainted \/ taskFd[t] # newFd)
    BY <2>1, LiveTyped DEF HoldInv, HeldOnce, Served, TypeOK
  <2>4. \A g \in Fds : \A u : EndsStream(g, u) => g # newFd
    BY <2>1 DEF EndsStream
  <2> QED
    BY <2>1, <2>2, <2>3, <2>4 DEF StreamCalm, EndsStream, LoggedIn, BeingEvicted, Leaving
<1>4. ASSUME NEW fd \in Fds, Dispatch(fd) PROVE StreamCalm
  <2>1. UNCHANGED <<live, orphaned, tainted, fdTab, userId, num, running, wk, who, monitor, monFd, main, newFd>>
    BY <1>4 DEF Dispatch, Pool!Accept
  <2>2. \A t \in running : taskFd'[t] = taskFd[t]
    BY <1>4, TaskQueued, LiveTyped
  <2> QED
    BY <2>1, <2>2 DEF StreamCalm, EndsStream, LoggedIn, BeingEvicted, Leaving
<1> QED
  BY <1>1, <1>2, <1>3, <1>4 DEF Main

LEMMA StreamStart ==
  ASSUME TypeInv, StreamInv, StartTask
  PROVE  StreamCalm
<1> USE DEF TypeInv, clients, kernel, loop, m_map, pool, tasks, mon, history
<1>1. UNCHANGED <<live, orphaned, tainted, fdTab, userId, num, who, taskFd, monitor, monFd, main, newFd>>
  BY DEF StartTask
<1>2. /\ pending \in Seq(Tasks) /\ pending # <<>>
      /\ running' = running \cup {Head(pending)} /\ wk' = [wk EXCEPT ![Head(pending)] = "header"]
  BY DEF StartTask, Pool!Start, TypeOK
<1>3. Head(pending) \in Tasks
  BY <1>2
<1>4. \A t \in running' : \/ wk'[t] = "header"
                          \/ t \in running /\ wk'[t] = wk[t]
  BY <1>2, <1>3 DEF TypeOK
<1> QED
  BY <1>1, <1>4 DEF StreamCalm, EndsStream, LoggedIn, BeingEvicted, Leaving

LEMMA StreamMonitor ==
  ASSUME TypeInv, StreamInv, Monitor, crashed = "no", crashed' = "no"
  PROVE  StreamCalm
<1> USE DEF TypeInv, clients, kernel, loop, m_map, pool, tasks, mon, history
<1>1. UNCHANGED <<live, running, wk, who, taskFd, userId, main, newFd>>
  BY DEF Monitor, ScanBegin, EvictUnwatch, EvictClose, CountWrite, ScanEnd, Evict, CountRead, Throw
<1>2. CASE EvictClose
  <2>1. /\ tainted' = tainted \cup {monFd} /\ monFd \in Fds /\ num' = num
        /\ orphaned' = orphaned \cup (live \cap {userId[monFd]})
        /\ \A g \in Fds : g # monFd => fdTab'[g] = fdTab[g] /\ ~BeingEvicted(g)
    BY <1>2 DEF EvictClose, Close, BeingEvicted, TypeOK
  <2>2. \A g \in Fds, u \in live' \ orphaned' : EndsStream(g, u) => g # monFd
    BY <1>1, <2>1 DEF EndsStream, LoggedIn
  <2> QED
    BY <1>1, <2>1, <2>2 DEF StreamCalm, EndsStream, LoggedIn, Leaving
<1>3. CASE ~EvictClose
  <2>1. UNCHANGED <<fdTab, tainted, orphaned>>
    BY <1>3 DEF Monitor, ScanBegin, EvictUnwatch, CountWrite, ScanEnd, Evict, CountRead, Throw
  <2>2. \A fd \in Fds : BeingEvicted(fd) => BeingEvicted(fd)'
    BY <1>3 DEF Monitor, ScanBegin, EvictUnwatch, CountWrite, ScanEnd, Evict, CountRead, Throw, BeingEvicted
  <2>3. \A fd \in Fds : num[fd] # Absent => num'[fd] # Absent \/ BeingEvicted(fd)'
    <3>1. CASE CountWrite
      <4>1. /\ num \in [Fds -> Absent..Limit] /\ monVal + 1 # Absent
            /\ num' = IF num[monFd] = Absent THEN num ELSE [num EXCEPT ![monFd] = monVal + 1]
        BY <3>1, MyServerAssumption DEF CountWrite, TypeOK, Absent
      <4> QED
        BY <4>1
    <3>2. ASSUME NEW fd \in Fds, Evict(fd)
          PROVE  \A g \in Fds : num[g] # Absent => num'[g] # Absent \/ BeingEvicted(g)'
      BY <3>2 DEF Evict, BeingEvicted, TypeOK
    <3>3. CASE ScanBegin \/ EvictUnwatch \/ ScanEnd \/ \E fd \in Fds : CountRead(fd)
      BY <3>3 DEF ScanBegin, EvictUnwatch, ScanEnd, CountRead, Throw
    <3> QED
      BY <1>3, <3>1, <3>2, <3>3 DEF Monitor
  <2> QED
    BY <1>1, <2>1, <2>2, <2>3 DEF StreamCalm, EndsStream, LoggedIn, Leaving
<1> QED
  BY <1>2, <1>3

LEMMA StreamWorker ==
  ASSUME TypeInv, HoldInv, EntryInv, StreamInv, NEW t \in Tasks, Worker(t), crashed = "no", crashed' = "no"
  PROVE  StreamInv'
<1> USE DEF TypeInv, clients, kernel, loop, m_map, pool, tasks, mon, history
<1>1. \A u \in running : u \in Tasks /\ taskFd[u] \in Fds /\ u \in LiveTasks
  BY LiveTyped DEF TypeOK
<1>2. \A u \in running : t \in running /\ u # t /\ taskFd[u] = taskFd[t] => taskFd[u] \in tainted
  BY <1>1 DEF HoldInv, OneTaskPerConnection
<1>3. CASE \/ HandleHeart(t) \/ HandleHalf(t) \/ BodyPart(t) \/ BodyDone(t) \/ HeaderError(t)
           \/ HeaderEof(t) \/ GetIp(t) \/ HandleUnlive(t) \/ Unwatch(t) \/ \E r \in Requests : Receive(t, r)
  <2>1. /\ UNCHANGED <<orphaned, tainted, running, taskFd, fdTab, userId, main, newFd, monitor, monFd>>
        /\ live' \subseteq live
    BY <1>3 DEF HandleHeart, HandleHalf, BodyPart, BodyDone, HeaderError, HeaderEof, GetIp, HandleUnlive, StreamsLeft,
                NextHeader, Unwatch, Receive, Throw
  <2>2. \A u \in running : /\ Leaving(u)' => Leaving(u)
                           /\ wk'[u] = "stream" => wk[u] = "stream" /\ who'[u] = who[u]
    <3>1. CASE \E r \in Requests : Receive(t, r)
      BY <2>1, <3>1, RequestParts DEF Receive, Leaving, Goto, TypeOK
    <3>2. CASE HandleHeart(t) \/ HandleUnlive(t)
      BY <2>1, <3>2 DEF HandleHeart, HandleUnlive, NextHeader, Throw, Leaving, Goto, TypeOK
    <3>3. CASE HandleHalf(t) \/ BodyPart(t) \/ BodyDone(t) \/ HeaderError(t)
      BY <2>1, <3>3 DEF HandleHalf, BodyPart, BodyDone, HeaderError, Leaving, Goto, TypeOK
    <3>4. CASE HeaderEof(t) \/ GetIp(t) \/ Unwatch(t)
      BY <2>1, <3>4 DEF HeaderEof, GetIp, Unwatch, Throw, At, Leaving, Goto, TypeOK
    <3> QED
      BY <1>3, <3>1, <3>2, <3>3, <3>4
  <2>3. \A fd \in Fds : num'[fd] = Absent <=> num[fd] = Absent
    <3>1. CASE HandleHeart(t)
      <4>1. num[taskFd[t]] # Absent /\ num' = [num EXCEPT ![taskFd[t]] = 0] /\ 0 # Absent
        BY <3>1 DEF HandleHeart, Throw, Absent
      <4> QED
        BY <4>1 DEF TypeOK
    <3>2. CASE ~HandleHeart(t)
      BY <1>3, <3>2 DEF HandleHalf, BodyPart, BodyDone, HeaderError, HeaderEof, GetIp, HandleUnlive, NextHeader,
                        Unwatch, Receive, Throw
    <3> QED
      BY <3>1, <3>2
  <2>4. StreamCalm
    BY <2>1, <2>2, <2>3 DEF StreamCalm, EndsStream, LoggedIn, BeingEvicted
  <2> QED
    BY <2>4, CalmStreams
<1>4. CASE HandleLogin(t)
  <2>1. /\ UNCHANGED <<live, tainted, running, taskFd, fdTab, num, main, newFd, monitor, monFd>>
        /\ t \in running /\ wk[t] = "login" /\ wk' = [wk EXCEPT ![t] = "header"] /\ who' = [who EXCEPT ![t] = None]
    BY <1>4 DEF HandleLogin, Throw, NextHeader, Goto, At
  <2>2. \/ UNCHANGED <<userId, orphaned>>
        \/ /\ userId' = [userId EXCEPT ![taskFd[t]] = who[t]]
           /\ orphaned' = orphaned \cup (live \cap ({userId[taskFd[t]]} \ {who[t]}))
    BY <1>4 DEF HandleLogin, Throw
  <2>3. \A u \in running : /\ Leaving(u)' => Leaving(u)
                           /\ wk'[u] = "stream" => u # t /\ wk[u] = "stream" /\ who'[u] = who[u]
    BY <1>1, <2>1 DEF Leaving, TypeOK
  <2>4. \A fd \in Fds : fd # taskFd[t] => userId'[fd] = userId[fd]
    BY <2>2 DEF TypeOK
  <2>5. \A fd \in Fds, u \in live' \ orphaned' : userId[fd] = u => userId'[fd] = u
    BY <2>1, <2>2 DEF TypeOK
  <2>6. live' \ orphaned' \subseteq live \ orphaned
    BY <2>1, <2>2
  <2>7. StreamCalm
    BY <1>1, <1>2, <2>1, <2>3, <2>4, <2>5, <2>6 DEF StreamCalm, EndsStream, LoggedIn, BeingEvicted
  <2> QED
    BY <2>7, CalmStreams
<1>5. CASE HandleLive(t)
  <2>1. /\ UNCHANGED <<tainted, running, taskFd, fdTab, num, userId, main, newFd, monitor, monFd>>
        /\ t \in running /\ wk[t] = "live" /\ wk' = [wk EXCEPT ![t] = "header"] /\ who' = [who EXCEPT ![t] = None]
        /\ live' = live \cup {who[t]}
    BY <1>5 DEF HandleLive, NextHeader, Goto, At
  <2>2. PICK fd \in Fds : fd = taskFd[t]
    BY DEF TypeOK
  <2>3. orphaned' = IF userId[fd] = who[t] /\ fd \notin tainted
                    THEN orphaned \ {who[t]} ELSE orphaned \cup {who[t]}
    BY <1>5, <2>2 DEF HandleLive
  <2>4. \A u \in running : /\ Leaving(u)' => Leaving(u)
                           /\ wk'[u] = "stream" => u # t /\ wk[u] = "stream" /\ who'[u] = who[u]
    BY <1>1, <2>1 DEF Leaving, TypeOK
  <2>5. UserKnown'
    BY <2>1, <2>4 DEF StreamInv, UserKnown
  <2>6. \A g \in Fds : \A u : EndsStream(g, u) => EndsStream(g, u)'
    BY <2>1, <2>4 DEF EndsStream, LoggedIn, BeingEvicted
  <2>7. userId[fd] = who[t] /\ fd \notin tainted => EndsStream(fd, who[t])
    <3> SUFFICES ASSUME userId[fd] = who[t], fd \notin tainted PROVE EndsStream(fd, who[t])
      OBVIOUS
    <3>1. fdTab[fd] # None /\ ~IsNew(fd)
      BY <1>1, <2>1, <2>2 DEF HoldInv, HeldOnce, Served
    <3>2. num[fd] # Absent \/ BeingEvicted(fd)
      BY <2>1, <2>2, MissingEntry
    <3>3. \A u \in running : taskFd[u] = fd => ~Leaving(u)
      BY <1>2, <2>1, <2>2 DEF Leaving
    <3> QED
      BY <3>1, <3>2, <3>3 DEF EndsStream, LoggedIn, IsNew
  <2>8. StreamsEnd'
    <3> SUFFICES ASSUME NEW u \in live' \ orphaned'
                 PROVE  \E g \in Fds \ tainted : EndsStream(g, u)
      BY <2>1, <2>6 DEF StreamsEnd
    <3>1. CASE u = who[t]
      BY <2>3, <2>7, <3>1
    <3>2. CASE u # who[t]
      BY <2>1, <2>3, <3>2 DEF StreamInv, StreamsEnd
    <3> QED
      BY <3>1, <3>2
  <2> QED
    BY <2>5, <2>8 DEF StreamInv
<1>6. CASE GetUserId(t)
  <2>1. /\ UNCHANGED <<live, orphaned, tainted, running, taskFd, fdTab, num, userId, main, newFd, monitor, monFd>>
        /\ wk' = [wk EXCEPT ![t] = "stream"] /\ who' = [who EXCEPT ![t] = userId[taskFd[t]]]
    BY <1>6 DEF GetUserId, Goto, Throw
  <2>2. /\ wk'[t] = "stream" /\ who'[t] = userId[taskFd[t]]
        /\ \A u \in running : u # t => wk'[u] = wk[u] /\ who'[u] = who[u]
    BY <1>1, <2>1 DEF TypeOK
  <2>3. UserKnown'
    BY <2>1, <2>2 DEF StreamInv, UserKnown
  <2>4. \A fd \in Fds : \A u : EndsStream(fd, u) => EndsStream(fd, u)'
    BY <2>1, <2>2 DEF EndsStream, LoggedIn, BeingEvicted, Leaving
  <2>5. StreamsEnd'
    BY <2>1, <2>4 DEF StreamInv, StreamsEnd
  <2> QED
    BY <2>3, <2>5 DEF StreamInv
<1>7. CASE EndStream(t)
  <2>1. /\ UNCHANGED <<orphaned, tainted, running, taskFd, fdTab, num, userId, main, newFd, monitor, monFd>>
        /\ t \in running /\ wk[t] = "stream" /\ wk' = [wk EXCEPT ![t] = "remove"]
        /\ who' = [who EXCEPT ![t] = None] /\ live' = live \ {who[t]}
    BY <1>7 DEF EndStream, At, Goto, StreamsLeft
  <2>2. /\ wk'[t] = "remove"
        /\ \A u \in running : u # t => wk'[u] = wk[u] /\ who'[u] = who[u]
    BY <1>1, <2>1 DEF TypeOK
  <2>3. \A fd \in Fds \ tainted, u \in live' : EndsStream(fd, u) => fd # taskFd[t]
    BY <2>1 DEF StreamInv, UserKnown, EndsStream, LoggedIn
  <2>4. StreamCalm
    BY <2>1, <2>2, <2>3 DEF StreamCalm, EndsStream, LoggedIn, BeingEvicted, Leaving
  <2> QED
    BY <2>4, CalmStreams
<1>8. CASE RemoveEntry(t)
  <2>1. /\ UNCHANGED <<live, orphaned, tainted, running, taskFd, who, fdTab, userId, main, newFd, monitor, monFd>>
        /\ num' = [num EXCEPT ![taskFd[t]] = Absent]
        /\ t \in running /\ wk[t] = "remove" /\ wk' = [wk EXCEPT ![t] = "unwatch"]
    BY <1>8 DEF RemoveEntry, Remove, At, Goto
  <2>2. wk'[t] = "unwatch" /\ \A u \in running : u # t => wk'[u] = wk[u]
    BY <1>1, <2>1 DEF TypeOK
  <2>3. \A fd \in Fds : \A u : EndsStream(fd, u) => fd # taskFd[t]
    BY <2>1 DEF EndsStream, Leaving
  <2>4. \A fd \in Fds : fd # taskFd[t] => num'[fd] = num[fd]
    BY <2>1 DEF TypeOK
  <2>5. StreamCalm
    BY <2>1, <2>2, <2>3, <2>4 DEF StreamCalm, EndsStream, LoggedIn, BeingEvicted, Leaving
  <2> QED
    BY <2>5, CalmStreams
<1>9. CASE Rearm(t) \/ CloseFd(t)
  <2>1. /\ UNCHANGED <<live, orphaned, tainted, who, num, userId, main, newFd, monitor, monFd>>
        /\ running' = running \ {t} /\ t \in running
        /\ \A u \in Tasks : u # t => wk'[u] = wk[u] /\ taskFd'[u] = taskFd[u]
    BY <1>9, EndTaskTypes DEF Rearm, CloseFd, At
  <2>2. \A fd \in Fds : \A u : EndsStream(fd, u) => fdTab'[fd] = fdTab[fd]
    BY <1>9 DEF Rearm, CloseFd, Close, At, EndsStream, Leaving, TypeOK
  <2>3. StreamCalm
    BY <1>1, <2>1, <2>2 DEF StreamCalm, EndsStream, LoggedIn, BeingEvicted, Leaving
  <2> QED
    BY <2>3, CalmStreams
<1> QED
  BY <1>3, <1>4, <1>5, <1>6, <1>7, <1>8, <1>9 DEF Worker

LEMMA StreamNext ==
  ASSUME TypeInv, HoldInv, EntryInv, StreamInv, Next, crashed' = "no"
  PROVE  StreamInv'
<1>1. ASSUME NEW c \in Conns, Client(c) PROVE StreamCalm
  <2>1. UNCHANGED <<live, orphaned, tainted, fdTab, userId, num, running, wk, who, taskFd, monitor, monFd, main, newFd>>
    BY <1>1 DEF Client, Connect, Send, Disconnect, clients, kernel, loop, m_map, pool, tasks, mon, history
  <2> QED
    BY <2>1 DEF StreamCalm, EndsStream, LoggedIn, BeingEvicted, Leaving
<1> QED
  BY <1>1, StreamMain, StreamStart, StreamWorker, StreamMonitor, CalmStreams DEF Next
(***************************************************************************)
(* All together.                                                           *)
(***************************************************************************)
\* An exception leaves everything but the fact that the process is gone.
LEMMA ThrownOnly ==
  ASSUME Next, crashed' # "no"
  PROVE  \E call \in {"set_0", "add_userId", "get_ip", "get_userId", "monitor"} : Throw(call)
<1>1. ASSUME NEW c \in Conns, Client(c) PROVE FALSE
  BY <1>1 DEF Next, Client, Connect, Send, Disconnect
<1>2. CASE Main
  BY <1>2 DEF Next, Main, Listen, ProcessConnect, AcceptOne, AcceptNone, Track, Watch, EventsDone, Dispatch
<1>3. CASE StartTask
  BY <1>3 DEF Next, StartTask
<1>4. ASSUME NEW t \in Tasks, Worker(t)
      PROVE  Throw("set_0") \/ Throw("add_userId") \/ Throw("get_ip") \/ Throw("get_userId")
  BY <1>4 DEF Next, Worker, Receive, HandleHeart, HandleLogin, HandleLive, HandleUnlive, NextHeader, HandleHalf,
              BodyPart, BodyDone, HeaderError, Rearm, HeaderEof, GetIp, GetUserId, EndStream, RemoveEntry, Unwatch,
              CloseFd
<1>5. CASE Monitor
  BY <1>5 DEF Next, Monitor, ScanBegin, EvictUnwatch, EvictClose, CountWrite, ScanEnd, Evict, CountRead
<1> QED
  BY <1>1, <1>2, <1>3, <1>4, <1>5 DEF Next

LEMMA ThrowKeeps ==
  ASSUME MyServerInv, UNCHANGED <<clients, backlog, kernel, loop, m_map, live, tasks, mon, history>>,
         crashed' \in {"no", "set_0", "add_userId", "get_ip", "get_userId", "monitor"}
  PROVE  MyServerInv'
<1> USE DEF MyServerInv, clients, kernel, loop, m_map, pool, tasks, mon, history
<1>1. TypeInv'
  BY DEF TypeInv, TypeOK, QueueOK, BodyOK, CopyOK, WhoOK
<1>2. /\ LiveTasks' = LiveTasks
      /\ \A fd \in Fds : /\ (Served(fd)' <=> Served(fd)) /\ (IsNew(fd)' <=> IsNew(fd))
                         /\ (BeingEvicted(fd)' <=> BeingEvicted(fd)) /\ (BeingClosed(fd)' <=> BeingClosed(fd))
  BY DEF LiveTasks, Served, IsNew, BeingEvicted, BeingClosed
<1>3. HoldInv'
  BY <1>2 DEF HoldInv, WatchedOpen, HeldOnce, TaskKeepsConnection, OneTaskPerConnection, Conn
<1>4. EventInv'
  BY <1>2 DEF EventInv, OpenHeld, ReadyKnown, Held, Readable
<1>5. EntryInv'
  BY <1>2 DEF EntryInv, EntryMatchesConnection, ClosingRemoved, Closing, Asked
<1>6. RequestInv'
  BY DEF RequestInv, InboxAsked, LoginAsked, Asked, Conn
<1>7. StreamInv'
  BY DEF StreamInv, StreamsEnd, UserKnown, EndsStream, LoggedIn, BeingEvicted, Leaving
<1> QED
  BY <1>1, <1>3, <1>4, <1>5, <1>6, <1>7

\* The invariant is inductive.
LEMMA MyServerInductive == MyServerInv /\ [Next]_vars => MyServerInv'
<1> SUFFICES ASSUME MyServerInv, [Next]_vars PROVE MyServerInv'
  OBVIOUS
<1>1. crashed \in {"no", "set_0", "add_userId", "get_ip", "get_userId", "monitor"}
  BY DEF MyServerInv, TypeInv, TypeOK
<1>2. CASE Next /\ crashed' = "no"
  <2>1. TypeInv'
    BY <1>2, TypeNext DEF MyServerInv
  <2>2. HoldInv'
    BY <1>2, HoldNext DEF MyServerInv
  <2>3. EventInv'
    BY <1>2, EventNext DEF MyServerInv
  <2>4. EntryInv'
    BY <1>2, <2>1, EntryNext DEF MyServerInv
  <2>5. RequestInv'
    BY <1>2, RequestClient, RequestMain, RequestStart, RequestWorker, RequestMonitor DEF MyServerInv, Next
  <2>6. StreamInv'
    BY <1>2, StreamNext DEF MyServerInv
  <2> QED
    BY <2>1, <2>2, <2>3, <2>4, <2>5, <2>6 DEF MyServerInv
<1>3. CASE Next /\ crashed' # "no"
  BY <1>3, ThrownOnly, ThrowKeeps DEF Throw
<1>4. CASE UNCHANGED vars
  BY <1>1, <1>4, ThrowKeeps DEF vars
<1> QED
  BY <1>2, <1>3, <1>4

LEMMA MyServerAlways == Spec => []MyServerInv
<1>1. Init => MyServerInv
  BY TypeInit, HoldInit, EventInit, EntryInit, RequestInit, StreamInit DEF MyServerInv
<1> QED
  BY <1>1, MyServerInductive, PTL DEF Spec

\* The variables keep their types; in particular the pool's queue and the counters
\* of the monitor stay in their ranges (userstatusevaluator.cpp, threadpool.cpp).
THEOREM MyServerTypeCorrect == Spec => []TypeOK
<1>1. MyServerInv => TypeOK
  BY DEF MyServerInv, TypeInv
<1> QED
  BY <1>1, MyServerAlways, PTL

\* A task of processClientRequest works on the connection for which launch queued
\* it, although it has only the number of the descriptor, unless the monitor has
\* closed that number.
THEOREM MyServerTaskKeepsConnection == Spec => []TaskKeepsConnection
<1>1. MyServerInv => TaskKeepsConnection
  BY DEF MyServerInv, HoldInv
<1> QED
  BY <1>1, MyServerAlways, PTL

\* Taking the descriptor out of epoll before the task is queued, and adding it again
\* as the last thing the task does, keeps two pool threads off one connection.
THEOREM MyServerOneTaskPerConnection == Spec => []OneTaskPerConnection
<1>1. MyServerInv => OneTaskPerConnection
  BY DEF MyServerInv, HoldInv
<1> QED
  BY <1>1, MyServerAlways, PTL

\* With edge-triggered events no readable connection is forgotten, whichever of
\* launch, a task or the monitor is between two of its system calls.
THEOREM MyServerNoLostEvent == Spec => []NoLostEvent
<1>1. MyServerInv => NoLostEvent
  BY EventsImply DEF MyServerInv
<1> QED
  BY <1>1, MyServerAlways, PTL

\* The map of UserStatusEvaluator has the entries of the open connections and no
\* others, on every descriptor that the monitor has not closed.
THEOREM MyServerEntryMatchesConnection == Spec => []EntryMatchesConnection
<1>1. MyServerInv => EntryMatchesConnection
  BY DEF MyServerInv, EntryInv
<1> QED
  BY <1>1, MyServerAlways, PTL

\* Whoever is in LiveListMonitor's list is logged in on a connection, where the worker
\* that meets its end removes him, unless the monitor has evicted the connection, the
\* stream was started on somebody else's, or the user there has changed.
THEOREM MyServerStreamHasConnection == Spec => []StreamHasConnection
<1>1. MyServerInv => StreamHasConnection
  BY DEF MyServerInv, StreamInv, StreamsEnd, EndsStream, StreamHasConnection
<1> QED
  BY <1>1, MyServerAlways, PTL

\* The only steps that throw in a task are those of the requests that need the entry
\* and those of a disconnection.
LEMMA WorkerThrows ==
  ASSUME Next, crashed' \notin {"no", "monitor"}
  PROVE  \E t \in running : wk[t] \in {"heart", "login", "ip", "user"} /\ num[taskFd[t]] = Absent
<1>1. ASSUME NEW c \in Conns, Client(c) PROVE FALSE
  BY <1>1 DEF Next, Client, Connect, Send, Disconnect
<1>2. CASE Main
  BY <1>2 DEF Next, Main, Listen, ProcessConnect, AcceptOne, AcceptNone, Track, Watch, EventsDone, Dispatch
<1>3. CASE StartTask
  BY <1>3 DEF Next, StartTask
<1>4. ASSUME NEW t \in Tasks, Worker(t)
      PROVE  t \in running /\ wk[t] \in {"heart", "login", "ip", "user"} /\ num[taskFd[t]] = Absent
  BY <1>4 DEF Next, Worker, Receive, HandleHeart, HandleLogin, HandleLive, HandleUnlive, NextHeader, HandleHalf,
              BodyPart, BodyDone, HeaderError, Rearm, HeaderEof, GetIp, GetUserId, EndStream, RemoveEntry, Unwatch,
              CloseFd, At
<1>5. CASE Monitor
  BY <1>5 DEF Next, Monitor, ScanBegin, EvictUnwatch, EvictClose, CountWrite, ScanEnd, Evict, CountRead, Throw
<1> QED
  BY <1>1, <1>2, <1>3, <1>4, <1>5 DEF Next

LEMMA ThrowsNext ==
  ASSUME MyServerInv, WorkerThrowsOnlyAfterEviction, [Next]_vars
  PROVE  WorkerThrowsOnlyAfterEviction'
<1>1. CASE UNCHANGED vars
  BY <1>1 DEF vars, pool, tasks, m_map, mon, history, WorkerThrowsOnlyAfterEviction, BeingEvicted
<1>2. CASE Next /\ crashed' \notin {"no", "monitor"}
  <2>1. PICK t \in running : wk[t] \in {"heart", "login", "ip", "user"} /\ num[taskFd[t]] = Absent
    BY <1>2, WorkerThrows
  <2>2. PICK fd : fd = taskFd[t] /\ num[fd] = Absent
    BY <2>1
  <2>3. fd \in tainted \/ BeingEvicted(fd)
    BY <2>1, <2>2, MissingEntry DEF MyServerInv
  <2>4. UNCHANGED <<num, running, taskFd, tainted, monitor, monFd>>
    BY <1>2, ThrownOnly DEF Throw, m_map, pool, tasks, mon, history
  <2>5. taskFd'[t] = fd /\ num'[fd] = Absent /\ (fd \in tainted' \/ BeingEvicted(fd)')
    BY <2>2, <2>3, <2>4 DEF BeingEvicted
  <2> QED
    BY <2>4, <2>5 DEF WorkerThrowsOnlyAfterEviction, BeingEvicted
<1>3. CASE crashed' \in {"no", "monitor"}
  BY <1>3 DEF WorkerThrowsOnlyAfterEviction
<1> QED
  BY <1>1, <1>2, <1>3

\* A pool thread that calls at() in UserStatusEvaluator ends the process only if the
\* monitor has evicted the descriptor under it: without evictions set_0, add_userId,
\* get_ip and get_userId always find the entry that launch has added.
THEOREM MyServerWorkerThrowsOnlyAfterEviction == Spec => []WorkerThrowsOnlyAfterEviction
<1>1. Init => WorkerThrowsOnlyAfterEviction
  BY DEF Init, WorkerThrowsOnlyAfterEviction
<1> QED
  BY <1>1, MyServerAlways, ThrowsNext, PTL DEF Spec
===========================================================================
