---------------------------- MODULE ThreadPool ----------------------------
(***************************************************************************)
(* The elastic thread pool of threadpool.h and threadpool.cpp.             *)
(*                                                                         *)
(* Every access to the pool's fields happens with poll_mutex held, so a    *)
(* critical section is one step here and the mutex itself is not a         *)
(* variable.  poll_cond is: a worker blocked in wait() is in state "wait"  *)
(* and a notified one, which has yet to get the mutex back, in "woken".    *)
(* The elements of worker_threads are the Slots; which free element a new  *)
(* thread is stored in, and the order in which the destructor joins them,  *)
(* is abstracted: the slots are interchangeable.                           *)
(***************************************************************************)
EXTENDS Naturals, FiniteSets, Sequences

CONSTANTS
  Slots,      \* indices of worker_threads; max_num = hardware_concurrency()
  MinNum,     \* MIN_THREAD_NUMBER
  Change,     \* CHANGE_THREAD_NUMBER
  Tasks,      \* the tasks that callers may hand in, each at most once
  NoTask      \* "not executing"

\* The constructor starts min_num threads in a vector of max_num elements: it
\* relies on max_num >= min_num (a host with at least MIN_THREAD_NUMBER cores).
ASSUME PoolAssumption ==
  /\ IsFiniteSet(Slots)
  /\ MinNum \in Nat \ {0}
  /\ MinNum <= Cardinality(Slots)
  /\ Change \in Nat \ {0}
  /\ NoTask \notin Tasks

MaxNum == Cardinality(Slots)

VARIABLES
  taskQ,          \* the queue of tasks
  live_num,       \* threads counted as alive
  busy_num,       \* threads counted as executing a task
  destroy_num,    \* threads that the manager wants to see gone
  shutdown,       \* the destructor has begun
  worker,         \* state of the thread in each slot
  task,           \* the task a worker executes
  manager,        \* state of the manager thread
  dtor,           \* progress of ~ThreadPool
  submitted,      \* history: tasks for which add_task was called
  finished        \* history: tasks whose execution ended

counters  == <<live_num, busy_num, destroy_num>>
lifecycle == <<shutdown, manager, dtor>>
history   == <<submitted, finished>>
vars == <<taskQ, counters, worker, task, lifecycle, history>>

(***************************************************************************)
(* States of a worker thread.                                              *)
(*   none    the element is thread(): nothing to join (never started, or   *)
(*           detached by its own thread, which has returned)               *)
(*   start   at the top of the outer loop, about to take the mutex         *)
(*   wait    blocked in poll_cond.wait                                     *)
(*   woken   notified (or woken spuriously), about to retake the mutex     *)
(*   exec    mutex released, executing its task                            *)
(*   exited  returned because of shutdown, not joined yet                  *)
(*   joined  joined by the destructor                                      *)
(***************************************************************************)
WorkerStates == {"none", "start", "wait", "woken", "exec", "exited", "joined"}

TypeOK ==
  /\ taskQ \in Seq(Tasks)
  /\ live_num \in Nat /\ busy_num \in Nat /\ destroy_num \in Nat
  /\ shutdown \in BOOLEAN
  /\ worker \in [Slots -> WorkerStates]
  /\ task \in [Slots -> Tasks \cup {NoTask}]
  /\ manager \in {"running", "exited", "joined"}
  /\ dtor \in {"alive", "joinManager", "joinWorkers", "done"}
  /\ submitted \subseteq Tasks
  /\ finished \subseteq Tasks

Free    == {w \in Slots : worker[w] = "none"}
Live    == Slots \ Free
Busy    == {w \in Slots : worker[w] = "exec"}
Waiting == {w \in Slots : worker[w] = "wait"}
Queued  == {taskQ[i] : i \in DOMAIN taskQ}
Running == {task[w] : w \in Busy}

(***************************************************************************)
(* The constructor: min_num workers, a manager, an empty queue.            *)
(***************************************************************************)
Init ==
  /\ taskQ = <<>>
  /\ live_num = MinNum /\ busy_num = 0 /\ destroy_num = 0
  /\ shutdown = FALSE
  /\ \E first \in SUBSET Slots :
       /\ Cardinality(first) = MinNum
       /\ worker = [w \in Slots |-> IF w \in first THEN "start" ELSE "none"]
  /\ task = [w \in Slots |-> NoTask]
  /\ manager = "running"
  /\ dtor = "alive"
  /\ submitted = {} /\ finished = {}

(***************************************************************************)
(* poll_cond.                                                              *)
(***************************************************************************)
Notify(f, S) == [w \in Slots |-> IF w \in S /\ f[w] = "wait" THEN "woken" ELSE f[w]]

\* Wakes one waiting thread, if there is one.
NotifyOne ==
  \/ Waiting = {} /\ UNCHANGED worker
  \/ \E w \in Waiting : worker' = Notify(worker, {w})

NotifyAll == worker' = Notify(worker, Slots)

\* std::condition_variable::wait may return without a notification.
SpuriousWakeup(w) ==
  /\ worker[w] = "wait"
  /\ worker' = [worker EXCEPT ![w] = "woken"]
  /\ UNCHANGED <<taskQ, counters, task, lifecycle, history>>

(***************************************************************************)
(* add_task: the overload for a Task lvalue, which notifies one thread,    *)
(* and the forwarding template, which notifies all.  Neither does anything *)
(* once shutdown is set.                                                   *)
(***************************************************************************)
Enqueue(t) == taskQ' = IF shutdown THEN taskQ ELSE Append(taskQ, t)

AddTask(t) ==
  /\ t \notin submitted /\ dtor # "done"
  /\ submitted' = submitted \cup {t}
  /\ Enqueue(t)
  /\ IF shutdown THEN UNCHANGED worker ELSE NotifyOne
  /\ UNCHANGED <<counters, task, lifecycle, finished>>

AddTaskForward(t) ==
  /\ t \notin submitted /\ dtor # "done"
  /\ submitted' = submitted \cup {t}
  /\ Enqueue(t)
  /\ IF shutdown THEN UNCHANGED worker ELSE NotifyAll
  /\ UNCHANGED <<counters, task, lifecycle, finished>>

(***************************************************************************)
(* worker_execute.  The three ways out of the test of the inner loop: wait *)
(* for work, return because of shutdown, take the first task.              *)
(***************************************************************************)
WaitForWork(w) ==
  /\ taskQ = <<>> /\ ~shutdown
  /\ worker' = [worker EXCEPT ![w] = "wait"]
  /\ UNCHANGED <<taskQ, busy_num, task>>

ExitOnShutdown(w) ==
  /\ shutdown
  /\ worker' = [worker EXCEPT ![w] = "exited"]
  /\ UNCHANGED <<taskQ, busy_num, task>>

MutFrontWithoutPop(w) ==
  /\ taskQ # <<>> /\ ~shutdown
  /\ worker' = [worker EXCEPT ![w] = "exec"]
  /\ task' = [task EXCEPT ![w] = Head(taskQ)]
  /\ busy_num' = busy_num + 1
  /\ UNCHANGED taskQ

MutTakeDespiteShutdown(w) ==
  /\ taskQ # <<>>
  /\ worker' = [worker EXCEPT ![w] = "exec"]
  /\ task' = [task EXCEPT ![w] = Head(taskQ)]
  /\ taskQ' = Tail(taskQ)
  /\ busy_num' = busy_num + 1

TakeTask(w) ==
  /\ taskQ # <<>> /\ ~shutdown
  /\ worker' = [worker EXCEPT ![w] = "exec"]
  /\ task' = [task EXCEPT ![w] = Head(taskQ)]
  /\ taskQ' = Tail(taskQ)
  /\ busy_num' = busy_num + 1

LoopTest(w) == WaitForWork(w) \/ ExitOnShutdown(w) \/ TakeTask(w)

\* Lines 85-110 for a thread at the top of the outer loop.
EnterLoop(w) ==
  /\ worker[w] = "start"
  /\ LoopTest(w)
  /\ UNCHANGED <<live_num, destroy_num, lifecycle, history>>

\* A woken worker is asked to go.
DestroyPending == destroy_num > 0

MutMayExit == TRUE

\* A woken worker gives way only while more than min_num threads live.
MayExit == live_num > MinNum

\* Lines 91-99: a woken worker that meets a pending destruction detaches itself
\* and returns, whether or not a task is waiting.
SelfDestruct(w) ==
  /\ worker[w] = "woken"
  /\ DestroyPending /\ MayExit
  /\ destroy_num' = destroy_num - 1
  /\ live_num' = live_num - 1
  /\ worker' = [worker EXCEPT ![w] = "none"]
  /\ UNCHANGED <<taskQ, busy_num, task, lifecycle, history>>

\* Lines 91-92 and the inner loop's test for a woken worker that stays.
WakeAndStay(w) ==
  /\ worker[w] = "woken"
  /\ \/ /\ DestroyPending /\ ~MayExit
        /\ destroy_num' = destroy_num - 1
     \/ /\ ~DestroyPending
        /\ UNCHANGED destroy_num
  /\ LoopTest(w)
  /\ UNCHANGED <<live_num, lifecycle, history>>

BusyAfterTask == busy_num - 1

\* Lines 114-119: the task returns, then the busy count goes down.
FinishTask(w) ==
  /\ worker[w] = "exec"
  /\ worker' = [worker EXCEPT ![w] = "start"]
  /\ finished' = finished \cup {task[w]}
  /\ task' = [task EXCEPT ![w] = NoTask]
  /\ busy_num' = BusyAfterTask
  /\ UNCHANGED <<taskQ, live_num, destroy_num, lifecycle, submitted>>

(***************************************************************************)
(* manager_execute: one pass every three seconds.                          *)
(***************************************************************************)
MinOf(a, b) == IF a <= b THEN a ELSE b

\* How many threads the pass adds: at most Change, at most up to max_num.
GrowBy ==
  IF Len(taskQ) > live_num /\ live_num < MaxNum
  THEN MinOf(Change, MaxNum - live_num)
  ELSE 0

\* The test that follows in the same pass, on the new live_num.
Shrinks(live) == 2 * busy_num < live /\ live > MinNum

MutManagerSilent(f) == f

\* Line 156.
ManagerNotifies(f) == Notify(f, Slots)

\* Lines 132-157 for a pool that is not being destroyed.
ManagerPass ==
  /\ manager = "running"
  /\ ~shutdown
  /\ \E new \in SUBSET Free :
       /\ Cardinality(new) = GrowBy
       /\ live_num' = live_num + GrowBy
       /\ LET grown == [w \in Slots |-> IF w \in new THEN "start" ELSE worker[w]]
          IN  worker' = IF Shrinks(live_num') THEN ManagerNotifies(grown) ELSE grown
  /\ destroy_num' = IF Shrinks(live_num') THEN Change ELSE destroy_num
  /\ UNCHANGED <<taskQ, busy_num, task, lifecycle, history>>

MutManagerExit ==
  /\ manager = "running"
  /\ shutdown /\ taskQ = <<>>
  /\ manager' = "exited"
  /\ UNCHANGED <<taskQ, counters, worker, task, shutdown, dtor, history>>

\* Lines 134-137.
ManagerExit ==
  /\ manager = "running"
  /\ shutdown
  /\ manager' = "exited"
  /\ UNCHANGED <<taskQ, counters, worker, task, shutdown, dtor, history>>

(***************************************************************************)
(* ~ThreadPool.                                                            *)
(***************************************************************************)
MutKeepDestroyNum == destroy_num

DestroyNumAtShutdown == 0

\* Lines 43-46.
BeginDestroy ==
  /\ dtor = "alive"
  /\ shutdown' = TRUE
  /\ destroy_num' = DestroyNumAtShutdown
  /\ dtor' = "joinManager"
  /\ UNCHANGED <<taskQ, live_num, busy_num, worker, task, manager, history>>

MutJoinWithoutNotify == UNCHANGED worker

WakeForShutdown == NotifyAll

\* Lines 48-50: the manager is joined before the workers are woken.
JoinManager ==
  /\ dtor = "joinManager"
  /\ manager = "exited"
  /\ manager' = "joined"
  /\ WakeForShutdown
  /\ dtor' = "joinWorkers"
  /\ UNCHANGED <<taskQ, counters, task, shutdown, history>>

\* Lines 51-53: join() returns when the thread has returned.
JoinWorker(w) ==
  /\ dtor = "joinWorkers"
  /\ worker[w] = "exited"
  /\ worker' = [worker EXCEPT ![w] = "joined"]
  /\ UNCHANGED <<taskQ, counters, task, lifecycle, history>>

EndDestroy ==
  /\ dtor = "joinWorkers"
  /\ \A w \in Slots : worker[w] \in {"none", "joined"}
  /\ dtor' = "done"
  /\ UNCHANGED <<taskQ, counters, worker, task, shutdown, manager, history>>

---------------------------------------------------------------------------
WorkerStep(w) == EnterLoop(w) \/ SelfDestruct(w) \/ WakeAndStay(w) \/ FinishTask(w)

ManagerStep == ManagerPass \/ ManagerExit

Destructor == \/ BeginDestroy
              \/ JoinManager
              \/ \E w \in Slots : JoinWorker(w)
              \/ EndDestroy

Next ==
  \/ \E t \in Tasks : AddTask(t) \/ AddTaskForward(t)
  \/ \E w \in Slots : WorkerStep(w) \/ SpuriousWakeup(w)
  \/ ManagerStep
  \/ Destructor

Spec == Init /\ [][Next]_vars

\* Threads that can take the mutex eventually do; tasks return; the manager's
\* sleeps end; a destructor that has begun goes on.  Nobody has to call add_task
\* or to begin the destruction.
Fairness ==
  /\ \A w \in Slots : WF_vars(WorkerStep(w))
  /\ WF_vars(ManagerStep)
  /\ WF_vars(JoinManager)
  /\ \A w \in Slots : WF_vars(JoinWorker(w))
  /\ WF_vars(EndDestroy)

FairSpec == Spec /\ Fairness
---------------------------------------------------------------------------
(***************************************************************************)
(* Properties.                                                             *)
(***************************************************************************)

\* live_num, which the workers decrement and the manager increments, is the
\* number of elements of worker_threads that hold a thread, and it stays between
\* min_num and max_num.  The manager's search for a free element (lines 143-150)
\* and the bound on self-destruction (line 93) both rest on it.
LiveCount ==
  /\ live_num = Cardinality(Live)
  /\ MinNum <= live_num /\ live_num <= MaxNum

\* busy_num is the number of threads that are executing a task (lines 110-118).
BusyCount == busy_num = Cardinality(Busy)

\* Whatever threads the manager creates and whichever go, the pool's counters tell
\* how many there are and how many are at work: it decides by nothing else.
CountersExact == LiveCount /\ BusyCount

\* A task handed to add_task before the shutdown is, at any time, in exactly one
\* place: once in the queue, with one executing thread, or finished.  No
\* interleaving of callers, workers and manager duplicates it.
TaskAccounting ==
  /\ \A i, j \in DOMAIN taskQ : taskQ[i] = taskQ[j] => i = j
  /\ \A v, w \in Busy : task[v] = task[w] => v = w
  /\ Queued \cap Running = {}
  /\ (Queued \cup Running) \cap finished = {}
  /\ Queued \cup Running \cup finished \subseteq submitted
  /\ ~shutdown => submitted = Queued \cup Running \cup finished

\* No thread is waiting in poll_cond when the destructor joins the workers: the
\* notify_all of line 50 is the last one, and it must not miss anybody.
NobodyWaitsInJoin == dtor \in {"joinWorkers", "done"} => Waiting = {}

\* Once the destructor has set shutdown, no worker detaches itself and no thread
\* is started: the elements of worker_threads that lines 51-53 read without the
\* mutex do not change under them, and no thread is both joined and detached.
NoDetachAfterShutdown ==
  [][shutdown => Free' = Free]_vars

\* The pool implements the task executor: first in first out, at most once,
\* nothing accepted or started after the shutdown.
TE == INSTANCE TaskExecutor WITH pending <- taskQ, running <- Running,
                                 completed <- finished, closed <- shutdown
ImplementsTaskExecutor == TE!Spec

\* A destruction that has begun ends: the manager is joined, every worker is
\* woken, returns and is joined.
DestructionEnds == (dtor = "joinManager") ~> (dtor = "done")

\* A task that was accepted is started, unless the pool is destroyed or has shrunk
\* back to min_num threads in the meantime: the worker that notify_one wakes for the
\* task may be the one that goes, and nobody else is woken then.
QueuedTaskStartsOrPoolShrinks ==
  \A t \in Tasks :
    (t \in Queued /\ live_num > MinNum)
      ~> (t \notin Queued \/ shutdown \/ live_num = MinNum)
===========================================================================
