# Formal model of the Pick_Up_The_Light server

TLA+ modules, TLC configurations and TLAPS proofs for the server of a video
platform (C++17, boost::asio, MySQL through mysql++). The modules are written
from the source; line numbers below are those of the repository.

## 1. The system

| Part | State | Operations | Interacts with |
|---|---|---|---|
| `ThreadPool` | task queue, `live_num`, `busy_num`, `destroy_num`, `shutdown`, vector of threads | `add_task` (two overloads), worker loop, manager loop, destructor | used by `MyServer` |
| `SnowflakeIdWorker` | `sequence`, `lastTimestamp` | `nextId` | called by uploads, chat pictures, comments |
| `BoostServer`, `Session` | one socket and one session object per connection, as many io threads as cores | accept handler, completion of `async_receive`, synchronous rest of the request | add, reset and remove entries of `UserStatusEvaluator`; call the control classes |
| `UserStatusEvaluator` | `m_map_boost` (and `m_map` for file descriptors): counter and user id per connection | one monitor thread each (every 3 s), `add`, `remove`, `set_0`, `add_userId`, getters | closes the sockets of silent clients under the sessions' hands |
| `LiveListMonitor` | map from user to url | `add`, `remove`, `getLiveList` | start and end of a live stream |
| `InitControl` | none | `do_register`, `do_login` | table `User` |
| `ReceiveFileControl` | files on disk | `receive_file`: profile picture, chat picture, preview, video | tables `User`, `Message`, `Video`, `VideoPush` |
| `SendInfoControl` | none | `send_info`: eleven queries; the one for `VideoPush` also deletes | all tables |
| `ModifyInfoControl` | none | `modify_info`: comment, delete video, likes, follow, live stream, nickname, description | all tables, files, `LiveListMonitor` |
| `SendFileControl` | none | `send_file`: the row, the size, the file, in this order | tables `User`, `Video`, files |
| `DbBroker` | one connection, eight tables without keys | `query_execute`, `query_store` | shared by all threads without a lock |
| `MyServer`, `EpollOperator` | epoll set, file descriptors | main loop, accepting, one task per event: the earlier server, commented out in `main.cpp` | `ThreadPool`, `UserStatusEvaluator`, `LiveListMonitor` |
| `my_recv`, `my_send` | none | loops that complete a partial read or write | used by `MyServer` |
| `NetPacketGenerator`, `Singleton`, `Noncopyable`, `main`, `json/` | none | formatting, start-up, third-party code | |

What is hard in it:

* **Concurrency without exclusion.** `UserStatusEvaluator` takes its mutex with
  `shared_lock` everywhere, so readers and writers of the map run side by side;
  the monitor works on a copy that sessions overtake.
* **Statements without transactions.** A request is a series of SQL statements
  and file operations; those of other threads come in between, and results are
  hardly ever tested.
* **Failure.** asio calls that throw, with nobody to catch; clients that vanish
  in the middle of a request; statements that fail; a clock that is stepped back
  and a process that is restarted.
* **Numbers that are used again.** `MyServer`, its tasks and its monitor know a
  connection by its descriptor only, and the kernel gives a number out again as
  soon as it is closed.
* **Streams of bytes.** Headers, bodies and replies are cut and joined by TCP as
  it likes; the two servers put them together in different ways.
* **A condition variable** shared by three purposes in `ThreadPool`: work,
  shrinking, shutdown.

What makes the parts correct: counters that agree with the threads they count,
tasks executed once and in order, a destructor that returns (pool); ids that
never repeat (generator); no leaked socket, no client evicted without reason, no
entry that comes back (servers and monitors); requests taken out of the stream
whole, in order and by one thread at a time (servers); files sent as they were
uploaded (file transfer); rows, files and pushes that agree
with each other whatever the interleaving (data services).

## 2. Modules

| Module | Models | Built on |
|---|---|---|
| `TaskExecutor` | abstract: a queue of tasks, started in order, once, not after it is closed | |
| `ThreadPool` | `threadpool.h/.cpp` | refines `TaskExecutor` |
| `SnowflakeIdWorker` | `snowflakeidworker.h/.cpp` | |
| `BoostServer` | `boostserver.cpp`, `session.cpp`, the boost half of `userstatusevaluator.cpp`, `livelistmonitor.cpp`, composed: they share the sockets and the map | |
| `VideoService` | upload, push, fetch, delete, follow: `receivefilecontrol.cpp`, `sendinfocontrol.cpp`, `modifyinfocontrol.cpp` over `dbbroker.cpp` | `Doubles` |
| `Accounts` | `initcontrol.cpp` over the table `User` | |
| `MyServer` | `myserver.cpp`, `epolloperator.cpp`, the other half of `userstatusevaluator.cpp` | composed with `TaskExecutor`, which `ThreadPool` implements |
| `Framing` | `config.cpp` and the reading and answering of requests in `session.cpp` and `myserver.cpp`, byte by byte | |
| `Doubles` | ids as MySQL compares them: `modifyinfocontrol.cpp`, `sendinfocontrol.cpp` | |
| `Reactions` | likes, the list of videos in pages: `modifyinfocontrol.cpp`, `sendinfocontrol.cpp` | `Doubles` |
| `FileTransfer` | `receivefilecontrol.cpp`, `sendfilecontrol.cpp` and the deletion of a video's file | |
| `MC...` | instances and symmetry sets for TLC | the module of that name |
| `ThreadPoolProofs`, `BoostServerProofs`, `FramingProofs`, `MyServerProofs`, `VideoServiceProofs`, `FileTransferProofs`, `AccountsProofs` | proofs for TLAPS | the module of that name |
| `IdProofs` | proofs about ids, from their composition to what the database makes of them | `SnowflakeIdWorker`, `Reactions` |

Operators whose name begins with `Mut` are variants of the definition that
follows them, each with one plausible mistake in it. They are not part of the
model; they are there to show that the properties notice such mistakes.

### ThreadPool

All of the pool's fields are accessed under `poll_mutex`, so a critical section
is one action and the mutex is not a variable. A thread in `wait()` is in state
`wait`; a notified one, which still has to get the mutex, is `woken`, so that
other threads may come first; spurious wakeups are allowed. `EnterLoop`,
`WakeAndStay`, `SelfDestruct` and `FinishTask` are the worker loop (lines
80-121), `ManagerPass` and `ManagerExit` the manager (123-159), `BeginDestroy`,
`JoinManager`, `JoinWorker` and `EndDestroy` the destructor (41-54). Elements of
`worker_threads` are interchangeable. A detached thread's slot is free at once,
as it is in the code. The precondition `MinNum <= max_num`, on which the
constructor relies without checking it, is the assumption `PoolAssumption`.

### SnowflakeIdWorker

`nextId` holds its mutex throughout, so a call is one action; only the wait of
`tilNextMillis`, which holds the mutex too, is a state of its own. Widths of the
fields are constants (`StampSize`, `NodeSize`, `SeqSize` stand for 2^42, 2^10 and
2^12). Its specification is `IdSpec`, so that `IdProofs` can extend `Reactions` too. The clock may be stepped back (`StepBack`) and the process restarted
(`Restart`). The constructor sets both node fields to 0, whatever the header's
default member initialisers say.

### BoostServer

One connection is a client's end (`peer`), the kernel's buffer (`inbox`), the
server's socket (`sock`) and its session (`sess`). A request is one of five
kinds, told apart by what matters to the connection: `heart`, `login` (touches
the map), `get` (answered; `HandleGet`, or `HandleLive` for the start of a
stream), `post` (not answered; `HandlePost`, or `HandleUnlive` for its end), and
`half`, a request whose body is not complete yet. A login is three steps, with the
monitor in between: the body is read (`HandleLogin`), the password looked up and
the user entered (`CheckLogin`, wrong passwords included), the answer written. A
handler occupies one of `IoThreads` threads from the completion of its receive to
the end of the request. The blocking `boost::asio::write` either ends at once
(`Reply`) or blocks (`WriteBlocks`) until the client reads or the connection ends
(`WriteEnds`). Every access to the map is a step, and the monitor's `num += 1` is
two, read and write, because the shared lock lets `set_0` and `remove` in between.
An exception of asio or of `at()` ends the process: `crashed` names the call and
nothing happens any more. `quiet` (checks since the last heartbeat) and `ignored`
(clients whose last heartbeat came while the monitor was about to overwrite it or
already held a copy at the limit) are history variables. Time is abstracted: the
monitor's passes come at any pace, which allows more behaviours than passes three
seconds apart. Headers arrive in one piece; `Framing` is about those that do not.

### VideoService

Each handler (`Handlers`, one per thread) works through its request one statement
or file operation at a time; its local variables are the record `req[h]`. Tables
are sets of rows, or functions from rows to numbers where rows can occur twice.
`Failing` says which kinds of statements and file operations may fail, `MaxFailures`
how often, and `failed` records them. Ids of videos are numbers, and the statements
on `Video` (`modifyinfocontrol.cpp:177`, `194`, `sendinfocontrol.cpp:607`) find the rows whose id is the
same double (`RowsOf`): a deletion may take the suffix from the row of a twin (an id
of the same double) and drops the rows of both, and a lookup may name the twin's
publisher. With a twin's suffix `remove()` gets the name of the file or one that does
not exist (`Unlinked`). Ids of users are compared exactly: they are short. The id goes
to the client at the beginning of an upload, so `Delete` may name any id that was
given out. The order in which a result's rows are visited is left open, since no
`order by` fixes it. `owed`, `taken`, `shown`, `late`, `deletions`, `deleted` and
`failed` are history. Likes are in `Reactions`, overwritten and partly written files
in `FileTransfer`.

### Accounts

A registration is a query (`RegisterCheck`) and an insertion (`RegisterInsert`);
a login compares the password with that of the first row. Rows are kept in the
order of insertion. The id of a query is not quoted, so it is compared with the
column as a number: `Number` gives the number of an id, and different ids (`1` and
`01`) may have one.

### MyServer

The kernel's part is `fdTab` (which connection a number stands for), `watched`
and `ready` (epoll's interest and ready lists; a descriptor that is added is ready
at once if there is something to read, afterwards when something arrives) and
`backlog`. The main thread is `Listen`, `ProcessConnect`, `AcceptOne`,
`AcceptNone`, `Watch`, `Dispatch` and `EventsDone` (lines 93-148); accepting,
tracking and watching a connection are separate steps. The pool is an instance of
`TaskExecutor`: `Dispatch` submits a task, `StartTask` starts the first one
queued, `EndTask` finishes it, so what is proved of `ThreadPool` is what is used
here. A task goes through `processClientRequest` one system call or map access at
a time: `Receive` reads a request, `HandleHeart`, `HandleLogin` (right password or
wrong), `HandleLive` and `HandleUnlive` (for the user whom the request names) do what
it asks, `HandleHalf` is a request whose body is late and blocks the thread (`BodyPart`
and `BodyDone` go on), `HeaderError` and `Rearm` return the descriptor to epoll,
`HeaderEof` to `CloseFd` are the seven steps of a disconnection. Answers leave
through the descriptor and change nothing that is modelled here; a `my_send` that
blocks keeps the task as a late body does. The monitor is that of `BoostServer` with
descriptors in place of sockets. Calls on closed or forgotten descriptors fail and
are only reported, as in the code. `owner`, `tainted` (numbers the monitor has closed)
and `orphaned` (streams that nothing will end) are history. Clients follow a script
of requests, each with the user it names.

### Framing

One connection, one thread, positions in a stream of `N` packets whose bytes
arrive in pieces of any size. `server` says which of the two servers reads them:
`ReceiveHeader` is the single `async_receive` of `Session` whose `length` nobody
looks at, `RecvHeader` and `RecvHeaderAgain` the `my_recv` with `MSG_DONTWAIT`, which
may fail after it has read a part. Bodies (`RecvBody`, `BodyEof`) and replies
(`WriteReply`, `WriteFails`) are loops over partial reads and writes. A write to a
client that is gone ends the process (an exception of asio, or SIGPIPE, for which
nothing in the code installs a handler) or, after a reset, lets `my_send` return -1,
at which nobody looks: the epoll server goes on with the next header. A packet that
should have data and whose `data_size` is 0 is read and not handled (`Empty`;
`session.cpp:37`). What is read as a header but is none gives any small `data_size` and
any small reply (`MaxGarbage`). `split` records that a header had arrived in part at
some moment.

### Reactions

Ids are numbers, `Milli` gives their millisecond, and `AsDouble` (in `Doubles`) is MySQL's
comparison of the `varchar` id with an unquoted number: both become the nearest
double. `Ulp`, the distance of neighbouring doubles there, is less than half of
the numbers of a millisecond. A row of `VideoLike` has a number beside the video and
the user, since nothing keeps a user from liking twice and the table has no key. A
deletion is two statements (`DeleteVideo`, `DeleteLikes`); the rows that the first one
leaves are those at the positions `Kept`, in their old order (`Enumerations`).
`Page` is `limit offset, num` on rows in the order of insertion. `wish` and `again`
say what users want and what they have sent twice; `failed` records the likes whose
last statement failed (`LikeFails`, `UnlikeFails`, `DeleteLikesFails`); `lostRows`
counts rows that were deleted before the viewer's offset. The query for an answer does
not fail here: it would give no answer.

### FileTransfer

A name is a subject and a suffix; `file` says which upload it holds, or that it
is missing, just truncated (`Part`), or put together from several (`Mixed`). An upload is
`Upload` (the opening, which truncates) or `OpenFails` (nothing is written and the row
is updated all the same), `WriteFile` or `WriteFails`, and `UpdateRow`; a fetch is
`Fetch` (the row) or `QueryFails` (the suffix stays empty), `Stat`, and `ReadFile`
(opening and reading); a deletion is `Delete`, `RemoveFile`, `DeleteRow`. Each of the
statements and operations may fail, `MaxFailures` times in all. A preview's suffix is
a column of its video's row: it can only be stored while that row exists and goes
with it. The subjects in `Once` have names from `nextId` and are written once.
`calm` records that nobody has written or removed the file since the fetch read
its row and that nothing in the fetch has failed.

## 3. Runs

| Run | Configuration | Shows |
|---|---|---|
| `pool` | 3 slots, minimum 1, steps of 2, 4 tasks, fair | counters are exact, tasks are neither lost nor doubled, `TaskExecutor` is implemented, nobody sleeps through the join, no detachment after shutdown; the destructor returns; a queued task starts, or the pool is shut down, or it shrinks |
| `id_generator` | 2 threads, sequences of 2, 5 milliseconds, 5 ids, the clock stepped back twice, one restart, fair | ids increase; calls return |
| `server_safety` | 2 connections, 2 io threads, limit 2, two requests each, heartbeats and logins, resets, symmetric | tracked sockets are open; no socket leaks; clients are evicted only if silent, or if their last heartbeat met the monitor at work; no entry comes back; a session's `at()` throws only after an eviction |
| `server_live` | 2 connections, 1 io thread, limit 1, answered, unanswered and incomplete requests, clients that do not read, resets, fair | sockets of clients that are gone are closed; sessions of closed sockets end unless every io thread waits for some client again and again |
| `server_monitor_race` | | **violated**: the monitor's `at()` never throws |
| `epoll_server` | 2 clients that share one descriptor number, 2 tasks, limit 1 | tasks serve the connection they were queued for, one task at a time; no edge is lost; the map follows the connections; streams have a connection; a task's `at()` throws only after an eviction |
| `framing` | both servers, 4 packets of 11 bytes in all, one of them empty, headers of 2 bytes, one reply larger than the send buffer, fair | packets are handled whole and in order, replies are written whole and in order, what has arrived is handled, unless a header is cut |
| `video_safety` | 2 publishers, 1 follower, 2 of 3 ids (two of them one double), 2 handlers, one deletion, one failure, symmetric | rows have files, pushed videos exist, publishers are named rightly, deleted videos stay deleted, up to twins and failures |
| `video_pushes` | 1 publisher, 2 followers, 1 video, 2 handlers, rows of `Follow` up to twice, two failures, symmetric | pushes are accounted for, and lost only through the race below |
| `reactions` | 3 videos (two of one millisecond and one double), 2 users, 2 rows of likes, 2 handlers, pages of one, statements may fail | like counts are exact and `ifLike` is right unless a like was repeated or its statement failed; pages miss at most what deletions shift; a deletion stays within a millisecond |
| `files` | a picture, a video and its preview, 2 suffixes, 2 uploads, 1 failure, 2 handlers, symmetric | rows lead to files; undisturbed fetches send one upload's file; videos are sent in part only if they could not be written, and only deletions and files that cannot be opened leave a client unanswered |
| `accounts` | 3 handlers, 3 ids (two of one number), 2 passwords, statements may fail | logins are stable and only with passwords of confirmed accounts; duplicates are bounded |

Every module of a component has a type invariant `TypeOK`. It is proved for all of
them (section 4), for all values of the constants, and therefore not repeated in the
runs; where counters that never go below zero or past the limit are part of it
(`ThreadPool`, `BoostServer`, `MyServer`) it says more than the shape of the variables.

`SessionThrowsOnlyAfterEviction` and `WorkerThrowsOnlyAfterEviction` bound the damage
of the unguarded `at()` by which requests use the map (`userstatusevaluator.cpp:119`-`158`): the
exception, which ends the process, has one cause only, a client that the monitor takes
while a thread is busy with its request.

**Bounds.** Three slots with a minimum of one let the pool grow and shrink by a
whole step; four tasks exceed the slots. Sequences of two make every second id of
a millisecond overflow. Two connections are what the races between a session,
another session and the monitor need; one io thread in `server_live` makes "all
threads are stuck" reachable; a limit of 2 has a counting pass before the
evicting one. One descriptor for two clients makes every closing a reuse; two
tasks are one per client, or two of one. In `framing` a piece may end at every
byte, packets with and without body and reply follow each other, one is empty, and a
reply of 3 bytes needs two writes of at most 2. In `reactions` and `video_safety` 16 ids
per millisecond and doubles 4 apart keep the proportion that matters, several doubles
per millisecond and several ids per double. Two uploads let two overlap, or one
replace the other's file. One failure at any place, with everything that comes after
it, is what the named exceptions are about. Two handlers in `VideoService` and `FileTransfer` give every pair of
requests all their interleavings; three in `Accounts` give a duplicate and a late
third registration. Larger instances passed too, in more time than a run should
take: three tasks in `epoll_server` (8.3 million states), three uploads in `files` (4.3
million), two deletions in `video_safety` (8 million), three rows in `reactions`, half
requests besides heartbeats and logins in `server_safety` (16.7 million). Deadlock is not checked where the system may rightly stop: a
pool that was destroyed or has run out of (bounded) tasks, the end of the
considered time or script, a process ended by an exception.

**Fairness.** `ThreadPool`: weak fairness of each worker, of the manager and of
a destructor that has begun: the mutex is released after every critical section,
tasks return, sleeps end. Nobody is forced to call `add_task`, and spurious
wakeups are not relied on. `SnowflakeIdWorker`: callers go on and time passes.
`BoostServer`: weak fairness of each connection's handlers (the io threads run
what is ready) and of the monitor; clients owe nothing: they need not complete a
request, nor read. Only a blocked write whose client is gone ends of itself.
`Framing`: the serving
thread runs, and the client reads its replies (without that, the blocking write
may wait for ever); it need not send anything.

**Symmetry** is used in runs that check safety only; the symmetric constants are
interchangeable in every definition (the `CHOOSE` in `VideoService!Pending` has
one candidate). The action property of `reactions` is about single steps.

### Where the code and its comments disagree

* `server_monitor_race`, `userstatusevaluator.cpp:75`: a session removes its entry
  after the monitor has copied the map; `at()` throws and ends the process. The
  development log calls the map a shared resource that needs a lock.

Met while modelling and not turned into runs of their own; each is a behaviour of
the modules, and the passing properties are stated so as to leave room for
exactly these:

* `threadpool.cpp:91`: `destroy_num` outlives the pass that set it. A worker woken
  by `notify_one` for a task destroys itself, and the task waits for the next
  `add_task`. `QueuedTaskStartsOrPoolShrinks` is what remains.
* `userstatusevaluator.cpp:67`-`75`: line 67 says that a client is taken for gone after
  three consecutive checks without a heartbeat (连续3次检测没有心跳包). A heartbeat that
  comes between the read and the write of `num += 1` is overwritten; the client then
  reaches the limit, and is evicted in the next scan, after one silent check. One that
  comes after a copy at the limit does not help either. `EvictedOnlyIfSilent` says that
  these are the only ways (`ignored`).
* `session.cpp:40`, `51`: a write to a client that does not read blocks its io thread for
  ever, as an incomplete request does. `ClosedSessionEnds` excludes the case that all
  threads wait like this (`Stuck`); `GoneClientReaped` holds nevertheless.
* `myserver.cpp:295`, `userstatusevaluator.cpp:40`: the development log (lines 199-200)
  says that every disconnection ends the client's live stream (每次断开时处理相应直播信息).
  `processClientRequest` does so for the user logged in on the connection; the
  monitor, when it evicts a client, does not, nor does anybody for a stream started in
  the name of another user. `StreamHasConnection` leaves out exactly these (`orphaned`).
* `config.cpp:53`: after a reset `my_send` returns -1 with a part of the reply unsent, its
  callers do not look, and the next request is served. `RepliesInOrder` is about
  clients that are there.
* `session.cpp:37`, `myserver.cpp:160`: a request with `data_size` 0 gets no answer.
* `modifyinfocontrol.cpp:177`: the row found may be that of a twin, with another suffix: then
  the video's own row is dropped and its file stays; or, if the video's own row is not
  there yet, its file is removed and the row is inserted afterwards (`Misled`).
  `sendinfocontrol.cpp:607` may name the publisher of a twin.
* `sendinfocontrol.cpp:625`: pushes inserted between the query and the deletion are
  deleted unread; `LostOnlyIfLate`.
* `config.cpp:29`, `session.cpp:148`: after a header that arrives in part neither
  server finds the packets again. `config.h` says that `my_recv` returns `length`
  bytes or an error; with `MSG_DONTWAIT` it is an error after bytes were taken.
* `myserver.cpp:282`: at the end of the stream within a header the descriptor is
  neither closed nor returned to epoll (`rx = "forgotten"`).
* `userstatusevaluator.cpp:40` (the monitor for descriptors): it closes descriptors
  while tasks for them are queued or running, and may close one that was used again
  since its copy; the task then serves, or the monitor ends, another client's
  connection. `TaskKeepsConnection`, `OneTaskPerConnection` and
  `EntryMatchesConnection` leave out such numbers (`tainted`).
* `config.cpp:50`: `my_send` to a client that is gone raises SIGPIPE, which nobody
  handles (`rx = "crashed"`).
* `receivefilecontrol.cpp:121`: overlapping uploads of one picture can leave a file
  put together from both (`Mixed`), and a fetch during an upload sends what is
  there. `CalmFetchWhole` leaves both out.
* `sendfilecontrol.cpp:105`: a file removed after the look at its size gives no
  answer at all. `modifyinfocontrol.cpp:188`: a deleted video's preview stays on
  disk.
* `modifyinfocontrol.cpp:194`: ids of one millisecond that are equal as doubles are
  deleted together. `sendinfocontrol.cpp:403`: after a repeated like `ifLike` is
  false. `sendinfocontrol.cpp:365`: a deletion before the viewer's offset makes the
  next page skip a video.
* `session.cpp:36`-`111`: `boost::asio::read` throws when a client disconnects
  within a request, and the process ends (`crashed = "read"`). The development
  log of 2025.1.25 says that such requests are survived; that was the server on
  `my_recv`.
* `session.cpp:155`-`170`: a disconnected client's live stream stays in the list.
* `snowflakeidworker.cpp:66`: a restart forgets `lastTimestamp`; together with a
  clock stepped back ids repeat. `IncreasingIds` excludes that combination.
* `sendinfocontrol.cpp:614`: the push of a deleted video is sent with the
  publisher of the one before it. `PublisherNamed` excludes deleted videos.
* `modifyinfocontrol.cpp:189`: a deletion that reads the suffix before the upload
  has inserted the row leaves the file behind. `DeletedForGood` is about deletions
  that have found the row.
* `receivefilecontrol.cpp:121`-`122` and `modifyinfocontrol.cpp:190`-`196`: a file that could
  not be opened or written, or a row that could not be deleted after its file, leaves a
  row without a file; a file that could not be removed stays without a row.
  `RowHasFile`, `RowNamesFile` and `DeletedForGood` name these failures.
* `sendfilecontrol.cpp:296`, `316`, `342`: after a failed query the suffix is empty and the
  client is told that there is no file. `CalmFetchWhole` is about fetches in which
  nothing fails.
* `initcontrol.cpp:24`, `70`: ids that are one number count as one account at
  registration and login, though they are different rows.
* `initcontrol.cpp:27`: two registrations of one id can both be confirmed; only
  the first password works. `DuplicatesOnlyFromRace` bounds it.
* `modifyinfocontrol.cpp:230`: the statement that takes back the like of a comment
  names a column that the table does not have. (Not modelled.)

## 4. Proofs

TLAPS checks, for all values of the constants that satisfy the named assumptions:

* **ThreadPoolProofs** (`PoolAssumption`): `PoolTypeCorrect`, `PoolCountersExact`,
  `PoolTaskAccounting`, `PoolNobodyWaitsInJoin`, `PoolNoDetachAfterShutdown`,
  `PoolImplementsTaskExecutor`. The counters need each other and the types:
  `busy_num - 1` is a natural number only because some worker is busy, and
  `live_num - 1` keeps to the live threads only because the one that goes was
  live. Task accounting needs that the queue holds no task twice, that busy
  workers hold different tasks, and that queue, running and finished tasks are
  disjoint. The join property needs that shutdown precedes every join and that a
  worker never starts to wait once shutdown is set; the one on detaching, that
  `destroy_num` stays 0 from then on. The refinement maps the queue to
  `taskQ` and the running tasks to those of busy workers; each action is a step of
  `TaskExecutor` or a stutter, and the accounting invariant is what makes
  `FinishTask` remove exactly one task.
* **IdProofs**, first part (`SnowflakeAssumption`): `SnowflakeTypeCorrect`,
  `SnowflakeIncreasing`, `SnowflakeMillisApart`, `SnowflakeIdsLow`. The strengthening says that the last id issued is that
  of the pair (`lastTimestamp`, `sequence`), and that time stamps issued are not
  beyond the clock where that matters; the arithmetic lemma is that ids are
  ordered as these pairs are. The third theorem joins the generator and the
  database: two ids that are one number as doubles are of one millisecond. Every id
  was composed from a time and a sequence number (`ComposedIds`), numbers with one
  double are at most `Ulp` apart, and ids of two milliseconds are further apart than
  that if `SeqSize + Ulp < MilliSize` (2^12 + 128 < 2^22 in the code). The fourth says
  that with node 0, as the constructor has it, an id leaves less than `SeqSize` when
  its millisecond is taken off: the assumption of `Reactions` about ids
  (with `SeqSize` for `MilliIds`) is true of those that the generator hands out.
* **IdProofs**, second part (`ReactionsAssumption`):
  `ReactionsTypeCorrect`, `LikesAnswered`, `DeletionsSpare`, `PagesMissOnlyDeleted`, for
  any ids, users, handlers, sizes of pages and distances of doubles. No double is
  shared by two milliseconds (`AloneNumber`), so statements about a video that is alone
  in its millisecond touch no other. `LikesInv`: such a video has a row of a user
  exactly if that user wants it, and one row only unless he has repeated himself,
  where the last statement about that like has not failed.
  `count(distinct userId)` is then a cardinality of the set of wishes, without
  counting rows. `PagesInv`: the viewer's offset is at most the number of positions
  before it whose videos he has seen and of those that were deleted there; a deletion
  moves rows from the first to the second number because the positions it leaves are
  enumerated in order (`IncreasingAhead`, `DeletionKeeps`, `DeletionCounts`), a page
  adds what it shows (`PageCounts`). The property is about the complement of the
  first set.
* **BoostServerProofs** (`BoostAssumption`): `ServerTypeCorrect`,
  `ServerTrackedSocketOpen`, `ServerEndedSessionReapable`, `ServerNoResurrection`,
  `ServerEvictedOnlyIfSilent`, `ServerSessionThrowsOnlyAfterEviction`. The
  strengthening ties each session's state to its socket and its entry, and the
  monitor's position to the entry it has just erased. `ServerEvictedOnlyIfSilent`
  needs the number of silent checks to be at least the counter, at every place where
  the monitor has it: in the map, in the copy and in the value read, unless the last
  heartbeat was ignored, which the next heartbeat that is not makes good. The last one
  follows from who may leave an open socket untracked
  (`ReapInv`): a session that is closing it itself, which handles nothing any more, or
  the monitor.
* **FramingProofs** (`FramingAssumption`): `FramingTypeCorrect`,
  `FramingPacketsInOrder`, `FramingInStep`, `FramingRepliesInOrder`, for any packets,
  replies and pieces. The invariant has three parts beside the types: what the
  loops over bytes keep (`LoopInv`: no more is read than has arrived or is wanted),
  that without a cut header what has arrived never ends within one
  (`WholeHeaders`), and where the server stands in both streams, that of the packets
  and that of the replies (`StepInv`, after which packet: `StandsAfter`). From the
  second follows that a receive at the start of a packet gets the whole header.
* **MyServerProofs** (`MyServerAssumption`): `MyServerTypeCorrect`,
  `MyServerTaskKeepsConnection`, `MyServerOneTaskPerConnection`,
  `MyServerNoLostEvent`, `MyServerEntryMatchesConnection`,
  `MyServerStreamHasConnection`, `MyServerWorkerThrowsOnlyAfterEviction`, for any number of clients, users, descriptors,
  events per call and tasks, any limit and any scripts. The invariant
  `MyServerInv` has six layers, each proved from those before it:
  `TypeInv` (the queue holds a task once; the monitor's copy is never below the map,
  which keeps its two-step increment within the limit); `HoldInv` (a descriptor is
  in one hand at a time: epoll and the main thread, the main thread after `accept`,
  or one task, `HeldOnce`); `EventInv` (nobody forgets an open descriptor,
  `OpenHeld`, and epoll knows which of its own are readable, `ReadyKnown`; together
  they are `NoLostEvent`); `EntryInv` (a worker that has removed an entry finds it
  absent when it closes); `RequestInv` (what a worker takes for a login of its client
  is one: `InboxAsked`, `LoginAsked`); `StreamInv` (for every stream that is not
  orphaned there is a descriptor, not tainted, on which its user is logged in and whose
  worker has not yet passed the removal of the stream). Most steps are shown to be `Quiet`,
  `EntryCalm` or `StreamCalm` and treated once; the others have a case each. Numbers
  that the monitor has closed are left out, as in the properties: there the code
  does not keep them. The last theorem follows from `HeldOnce` and the entries: the
  descriptor of a running task that is not tainted is open and tracked
  (`MissingEntry`), unless the monitor has it in hand.
* **VideoServiceProofs** (`VideoAssumption`): `VideoTypeCorrect`, `VideoRowHasFile`,
  `VideoPushedVideoThere`, `VideoPushAccounting`, `VideoPublisherNamed`,
  `VideoDeletedForGood`, `VideoLostOnlyIfLate`, for any `Failing`, any videos and any
  `Number` that MySQL compares their ids by. What a failed statement or a twin's number
  excuses is named in the properties, by `failed` and `deletions` (`Asked`, `AskedNumber`,
  `Misled`), and is no assumption of the theorems.
  The strengthening says which of its steps an upload has made (`UploadsOK`), that no
  deletion finds a video before its row is inserted (`HiddenNotFound`), what a deletion
  under way has done (`DeletionsOK`), that what is announced was given out
  (`PushesKnown`) and is there unless a cause is on record (`InsertedThere`), what a
  fetch has in hand (`NamesOK`, `RemovalOK`), and, in place of the sum in
  `PushAccounting`, what is owed while one upload inserts pushes and while none does
  (`Accounted`).
* **FileTransferProofs** (`FileAssumption`): `FileTypeCorrect`, `FileRowNamesFile`,
  `FileCalmFetchWhole`, `FileBadAnswerHasCause`. A name that is written once is
  nobody's before its row is updated (`OnceHidden`); a file whose uploads did not
  overlap is whole, removed, or a part with one writer (`UnspoiltWhole`); and a fetch
  that was not disturbed has the size of the file that is there (`FetchesOK`). A row
  without its file goes back to a deletion that is about to drop the row or has failed
  to, or to a file that could not be opened (`RowHasFileOrDrop`).
* **AccountsProofs** (`AccountsAssumption`): `AccountsTypeCorrect`,
  `AccountsLoginStaysValid`, `AccountsDuplicatesOnlyFromRace`. Beside the properties
  themselves the invariant needs that every row was confirmed. Rows are those of a
  number, for any `Number`: `'01'` and `'1'` are one account to the queries. The bound on
  duplicates counts rows together with insertions under way: the two change places.

Only model-checked is everything with fairness (`DestructionEnds`,
`QueuedTaskStartsOrPoolShrinks`, `CallReturns`, `GoneClientReaped`,
`ClosedSessionEnds`, `PacketHandled`): liveness and `ENABLED` are out of the prover's
reach. Every invariant and every action property that a passing run checks is proved,
and so is the refinement. Induction over data is out of reach too, but none of these
needs it: rows are counted with `Cardinality` of sets of rows or positions, and
a selection from a sequence is described by the positions it keeps.

## 5. Plan

1. Done: pool, generator, both servers with their monitors, framing, videos and
   pushes, likes and pages, files, accounts; proofs of every safety property of
   these modules.
2. Left out: an abstract mailbox for the pushes. It would have to leave room for the
   pushes that a fetch deletes unread and for those repeated by a double follow, and
   would then say what `PushAccounting` and `LostOnlyIfLate` say.

## 6. Not modelled, and why

* Memory-level effects of the data race on `unordered_map` (a rehash under a
  reader): undefined behaviour without a useful set of outcomes. The model has the
  interleavings of whole accesses only.
* Results of concurrent statements mixed up inside the one mysql++ connection:
  statements are atomic and may fail.
* Text of packets, JSON, SQL and log lines; the size limits of packet buffers
  (`netpacketgenerator.cpp` copies replies of any length into a fixed one; in
  `session.cpp:36` `boost::asio::buffer` limits `data_size` to the array). Memory:
  `myserver.cpp:196` returns without freeing the buffer of a broken-off file.
* Comments and their likes, nicknames, descriptions and chat messages: one
  statement each on rows that no other request relates to anything. The queries of
  `SendInfoControl` other than those for pushes, pages and likes change nothing and
  read one table in one statement.
* `FileTransfer` compares ids as names, not as doubles (that is in `Reactions` and
  `VideoService`).
* `NetPacketGenerator`, `Singleton`, `Noncopyable` and `main` have no state that
  lasts. `json/` is the vendored JSON library with its tests and tools, by far
  the largest part of the repository's lines, and is used through its interface
  only. The server's own code is some four thousand lines, and it is these that
  the modules are about.
