------------------------- MODULE ThreadPoolProofs -------------------------
(***************************************************************************)
(* Proofs about ThreadPool, for any number of threads, any bounds that     *)
(* satisfy PoolAssumption and any set of tasks: the counters are exact and *)
(* bounded, every accepted task is in exactly one place, no thread is      *)
(* started or detached under the destructor's joins, and the pool          *)
(* implements TaskExecutor.                                                *)
(***************************************************************************)
EXTENDS ThreadPool, FiniteSetTheorems, TLAPS

\* The life cycle of the pool: the order of the destructor's steps, and that no
\* destruction of a thread stays pending once it has begun.
LifeCycle ==
  /\ shutdown <=> dtor # "alive"
  /\ shutdown => destroy_num = 0
  /\ manager = "joined" <=> dtor \in {"joinWorkers", "done"}

\* Exactly the executing threads hold a task.
TaskHeld == \A w \in Slots : worker[w] = "exec" <=> task[w] # NoTask

\* Typing and the counters.
CountInv == TypeOK /\ TaskHeld /\ LiveCount /\ BusyCount /\ LifeCycle

\* The inductive invariant.
PoolInv == CountInv /\ TaskAccounting /\ NobodyWaitsInJoin

---------------------------------------------------------------------------
(***************************************************************************)
(* Finite sets and sequences.                                              *)
(***************************************************************************)

\* Adding or removing one element changes the cardinality by one.
LEMMA CardAdd ==
  ASSUME NEW S, IsFiniteSet(S), NEW x, x \notin S
  PROVE  Cardinality(S \cup {x}) = Cardinality(S) + 1
BY FS_AddElement

LEMMA CardRemove ==
  ASSUME NEW S, IsFiniteSet(S), NEW x \in S
  PROVE  /\ Cardinality(S \ {x}) = Cardinality(S) - 1
         /\ Cardinality(S) \in Nat \ {0}
<1>1. /\ Cardinality(S \ {x}) = Cardinality(S) - 1
      /\ IsFiniteSet(S \ {x})
  BY FS_RemoveElement
<1>2. Cardinality(S) \in Nat /\ Cardinality(S \ {x}) \in Nat
  BY <1>1, FS_CardinalityType
<1> QED
  BY <1>1, <1>2

\* The threads of the pool are finitely many.
LEMMA SlotSets ==
  ASSUME NEW S, S \subseteq Slots
  PROVE  IsFiniteSet(S) /\ Cardinality(S) \in Nat /\ Cardinality(S) <= MaxNum
BY FS_Subset, FS_CardinalityType, PoolAssumption DEF MaxNum

\* What pushing a task does to the set of queued tasks, and to their being
\* different from each other.
LEMMA PushQueue ==
  ASSUME NEW q \in Seq(Tasks), NEW t \in Tasks
  PROVE  /\ Append(q, t) \in Seq(Tasks)
         /\ {Append(q, t)[i] : i \in DOMAIN Append(q, t)}
               = {q[i] : i \in DOMAIN q} \cup {t}
         /\ (\A i, j \in DOMAIN q : q[i] = q[j] => i = j) /\ t \notin {q[i] : i \in DOMAIN q}
              => \A i, j \in DOMAIN Append(q, t) : Append(q, t)[i] = Append(q, t)[j] => i = j
<1> DEFINE a == Append(q, t)
<1>1. /\ a \in Seq(Tasks) /\ Len(a) = Len(q) + 1 /\ Len(q) \in Nat
      /\ DOMAIN a = 1..(Len(q) + 1) /\ DOMAIN q = 1..Len(q)
      /\ \A i \in 1..Len(q) : a[i] = q[i]
      /\ a[Len(q) + 1] = t
  OBVIOUS
<1> HIDE DEF a
<1>2. {a[i] : i \in DOMAIN a} = {q[i] : i \in DOMAIN q} \cup {t}
  <2>1. ASSUME NEW i \in DOMAIN a PROVE a[i] \in {q[k] : k \in DOMAIN q} \cup {t}
    <3>1. i \in 1..Len(q) \/ i = Len(q) + 1
      BY <1>1
    <3> QED
      BY <1>1, <3>1
  <2>2. ASSUME NEW i \in DOMAIN q PROVE q[i] \in {a[k] : k \in DOMAIN a}
    BY <1>1
  <2>3. t \in {a[k] : k \in DOMAIN a}
    <3>1. Len(q) + 1 \in DOMAIN a
      BY <1>1
    <3> QED
      BY <1>1, <3>1
  <2> QED
    BY <2>1, <2>2, <2>3
<1>3. ASSUME \A i, j \in DOMAIN q : q[i] = q[j] => i = j,
             t \notin {q[i] : i \in DOMAIN q},
             NEW i \in DOMAIN a, NEW j \in DOMAIN a, a[i] = a[j]
      PROVE  i = j
  <2>1. (i \in DOMAIN q \/ i = Len(q) + 1) /\ (j \in DOMAIN q \/ j = Len(q) + 1)
    BY <1>1
  <2> QED
    BY <1>1, <1>3, <2>1
<1> QED
  BY <1>1, <1>2, <1>3 DEF a

\* What popping a task does to them.
LEMMA PopQueue ==
  ASSUME NEW q \in Seq(Tasks), q # <<>>
  PROVE  /\ Head(q) \in Tasks /\ Tail(q) \in Seq(Tasks)
         /\ {q[i] : i \in DOMAIN q} = {Tail(q)[i] : i \in DOMAIN Tail(q)} \cup {Head(q)}
         /\ (\A i, j \in DOMAIN q : q[i] = q[j] => i = j)
              => /\ \A i, j \in DOMAIN Tail(q) : Tail(q)[i] = Tail(q)[j] => i = j
                 /\ Head(q) \notin {Tail(q)[i] : i \in DOMAIN Tail(q)}
<1> DEFINE a == Tail(q)
           h == Head(q)
<1>1. /\ h \in Tasks /\ a \in Seq(Tasks) /\ Len(q) \in Nat /\ Len(q) > 0
      /\ Len(a) = Len(q) - 1 /\ DOMAIN a = 1..(Len(q) - 1) /\ DOMAIN q = 1..Len(q)
      /\ \A i \in 1..(Len(q) - 1) : a[i] = q[i + 1]
      /\ h = q[1]
  OBVIOUS
<1> HIDE DEF a, h
<1>2. {q[i] : i \in DOMAIN q} = {a[i] : i \in DOMAIN a} \cup {h}
  <2>1. ASSUME NEW i \in DOMAIN q PROVE q[i] \in {a[k] : k \in DOMAIN a} \cup {h}
    <3>1. CASE i = 1
      BY <1>1, <3>1
    <3>2. CASE i # 1
      <4>1. i - 1 \in DOMAIN a /\ a[i - 1] = q[i]
        BY <1>1, <3>2
      <4> QED
        BY <4>1
    <3> QED
      BY <3>1, <3>2
  <2>2. ASSUME NEW i \in DOMAIN a PROVE a[i] \in {q[k] : k \in DOMAIN q}
    <3>1. i + 1 \in DOMAIN q /\ a[i] = q[i + 1]
      BY <1>1
    <3> QED
      BY <3>1
  <2>3. h \in {q[k] : k \in DOMAIN q}
    BY <1>1
  <2> QED
    BY <2>1, <2>2, <2>3
<1>3. ASSUME \A i, j \in DOMAIN q : q[i] = q[j] => i = j
      PROVE  /\ \A i, j \in DOMAIN a : a[i] = a[j] => i = j
             /\ \A i \in DOMAIN a : a[i] # h
  <2>1. \A i \in DOMAIN a : i + 1 \in DOMAIN q /\ a[i] = q[i + 1] /\ i + 1 # 1 /\ i \in Nat
    BY <1>1
  <2>2. 1 \in DOMAIN q
    BY <1>1
  <2> QED
    BY <1>1, <1>3, <2>1, <2>2
<1> QED
  BY <1>1, <1>2, <1>3 DEF a, h

---------------------------------------------------------------------------
(***************************************************************************)
(* Typing and counters.                                                    *)
(***************************************************************************)

LEMMA CountInit == Init => CountInv
<1> SUFFICES ASSUME Init PROVE CountInv
  OBVIOUS
<1>1. PICK first \in SUBSET Slots :
        /\ Cardinality(first) = MinNum
        /\ worker = [w \in Slots |-> IF w \in first THEN "start" ELSE "none"]
  BY DEF Init
<1>2. Live = first /\ Busy = {}
  BY <1>1 DEF Live, Free, Busy
<1>3. TypeOK /\ TaskHeld
  <2>1. taskQ \in Seq(Tasks)
    BY DEF Init
  <2>2. worker \in [Slots -> WorkerStates] /\ task \in [Slots -> Tasks \cup {NoTask}]
    BY <1>1 DEF Init, WorkerStates
  <2>3. TypeOK
    BY <2>1, <2>2, PoolAssumption DEF Init, TypeOK
  <2> QED
    BY <1>1, <2>3 DEF Init, TaskHeld
<1>4. LiveCount /\ BusyCount
  BY <1>1, <1>2, FS_EmptySet, PoolAssumption DEF Init, LiveCount, BusyCount, MaxNum
<1> QED
  BY <1>3, <1>4 DEF CountInv, LifeCycle, Init

\* A notification neither starts nor ends a thread, nor its task.
LEMMA NotifyKeeps ==
  ASSUME TypeOK, NEW S, worker' = Notify(worker, S)
  PROVE  /\ worker' \in [Slots -> WorkerStates]
         /\ Free' = Free /\ Busy' = Busy
         /\ \A w \in Slots : worker'[w] = worker[w] \/ (worker[w] = "wait" /\ worker'[w] = "woken")
BY DEF TypeOK, Notify, Free, Busy, WorkerStates

LEMMA NotifyOneKeeps ==
  ASSUME TypeOK, NotifyOne \/ UNCHANGED worker
  PROVE  /\ worker' \in [Slots -> WorkerStates]
         /\ Free' = Free /\ Busy' = Busy
         /\ \A w \in Slots : worker'[w] = worker[w] \/ (worker[w] = "wait" /\ worker'[w] = "woken")
<1>1. CASE UNCHANGED worker
  BY <1>1 DEF TypeOK, Free, Busy
<1>2. CASE NotifyOne
  BY <1>1, <1>2, NotifyKeeps DEF NotifyOne
<1> QED
  BY <1>1, <1>2

\* The inner loop's test: a thread that is not executing waits, exits, or takes
\* the first task and is then counted as busy.
LEMMA LoopTestCounts ==
  ASSUME CountInv, NEW w \in Slots, worker[w] \in {"start", "woken"}, LoopTest(w)
  PROVE  /\ taskQ' \in Seq(Tasks) /\ busy_num' \in Nat
         /\ worker' \in [Slots -> WorkerStates]
         /\ task' \in [Slots -> Tasks \cup {NoTask}]
         /\ Free' = Free
         /\ BusyCount' /\ TaskHeld'
<1> USE DEF CountInv, TypeOK, WorkerStates
<1>1. CASE WaitForWork(w) \/ ExitOnShutdown(w)
  <2>1. Busy' = Busy /\ Free' = Free /\ worker' \in [Slots -> WorkerStates]
    BY <1>1 DEF WaitForWork, ExitOnShutdown, Busy, Free
  <2>2. TaskHeld'
    BY <1>1 DEF WaitForWork, ExitOnShutdown, TaskHeld
  <2> QED
    BY <1>1, <2>1, <2>2 DEF WaitForWork, ExitOnShutdown, BusyCount
<1>2. CASE TakeTask(w)
  <2>1. Busy' = Busy \cup {w} /\ w \notin Busy /\ Free' = Free
        /\ worker' \in [Slots -> WorkerStates]
    BY <1>2 DEF TakeTask, Busy, Free
  <2>2. Busy \subseteq Slots
    BY DEF Busy
  <2>3. Cardinality(Busy') = Cardinality(Busy) + 1
    BY <2>1, <2>2, SlotSets, CardAdd
  <2>4. taskQ' \in Seq(Tasks) /\ task' \in [Slots -> Tasks \cup {NoTask}]
    BY <1>2, PopQueue DEF TakeTask
  <2>5. TaskHeld'
    BY <1>2, PopQueue, PoolAssumption DEF TakeTask, TaskHeld
  <2> QED
    BY <1>2, <2>1, <2>3, <2>4, <2>5 DEF TakeTask, BusyCount
<1> QED
  BY <1>1, <1>2 DEF LoopTest

LEMMA CountNext == CountInv /\ [Next]_vars => CountInv'
<1> SUFFICES ASSUME CountInv, [Next]_vars PROVE CountInv'
  OBVIOUS
<1> USE DEF CountInv
<1>0. /\ live_num \in Nat /\ busy_num \in Nat /\ destroy_num \in Nat
      /\ live_num = Cardinality(Live) /\ busy_num = Cardinality(Busy)
      /\ Live \subseteq Slots /\ Busy \subseteq Slots /\ Free \subseteq Slots
  BY DEF TypeOK, LiveCount, BusyCount, Live, Busy, Free
<1>1. ASSUME NEW t \in Tasks, AddTask(t) \/ AddTaskForward(t) PROVE CountInv'
  <2>1. /\ worker' \in [Slots -> WorkerStates] /\ Free' = Free /\ Busy' = Busy
    BY <1>1, NotifyKeeps, NotifyOneKeeps DEF AddTask, AddTaskForward, NotifyAll
  <2>2. taskQ' \in Seq(Tasks)
    <3>1. taskQ \in Seq(Tasks) /\ Append(taskQ, t) \in Seq(Tasks)
      BY DEF TypeOK
    <3>2. taskQ' = taskQ \/ taskQ' = Append(taskQ, t)
      BY <1>1 DEF AddTask, AddTaskForward, Enqueue
    <3> QED
      BY <3>1, <3>2
  <2>3. TypeOK'
    BY <1>1, <2>1, <2>2 DEF AddTask, AddTaskForward, TypeOK, counters, lifecycle
  <2>4. TaskHeld'
    BY <1>1, <2>1 DEF AddTask, AddTaskForward, TaskHeld, Busy
  <2> QED
    BY <1>1, <2>1, <2>3, <2>4 DEF AddTask, AddTaskForward, counters, lifecycle, Live,
       LiveCount, BusyCount, LifeCycle
<1>2. ASSUME NEW w \in Slots, EnterLoop(w) PROVE CountInv'
  BY <1>2, LoopTestCounts DEF EnterLoop, lifecycle, history, TypeOK, Live, LiveCount, LifeCycle
<1>3. ASSUME NEW w \in Slots, WakeAndStay(w) PROVE CountInv'
  <2>1. destroy_num' \in Nat /\ (destroy_num = 0 => destroy_num' = 0)
    BY <1>0, <1>3 DEF WakeAndStay, DestroyPending
  <2> QED
    BY <1>3, <2>1, LoopTestCounts
       DEF WakeAndStay, lifecycle, history, TypeOK, Live, LiveCount, LifeCycle
<1>4. ASSUME NEW w \in Slots, SelfDestruct(w) PROVE CountInv'
  <2>1. /\ Live' = Live \ {w} /\ w \in Live /\ Busy' = Busy
        /\ worker' \in [Slots -> WorkerStates]
    BY <1>4 DEF SelfDestruct, Live, Free, Busy, TypeOK, WorkerStates
  <2>2. Cardinality(Live') = Cardinality(Live) - 1
    BY <1>0, <2>1, SlotSets, CardRemove
  <2>3. LiveCount' /\ live_num' \in Nat /\ destroy_num' \in Nat
    BY <1>0, <1>4, <2>2, PoolAssumption, SlotSets
       DEF SelfDestruct, MayExit, DestroyPending, LiveCount, MaxNum
  <2> QED
    BY <1>0, <1>4, <2>1, <2>3
       DEF SelfDestruct, TypeOK, TaskHeld, BusyCount, LifeCycle, lifecycle, history, DestroyPending
<1>5. ASSUME NEW w \in Slots, FinishTask(w) PROVE CountInv'
  <2>1. /\ Busy' = Busy \ {w} /\ w \in Busy /\ Free' = Free
        /\ worker' \in [Slots -> WorkerStates]
    BY <1>5 DEF FinishTask, Busy, Free, TypeOK, WorkerStates
  <2>2. busy_num' = Cardinality(Busy') /\ busy_num' \in Nat
    BY <1>0, <1>5, <2>1, SlotSets, CardRemove DEF FinishTask, BusyAfterTask
  <2>3. finished' \subseteq Tasks /\ task' \in [Slots -> Tasks \cup {NoTask}]
    BY <1>5 DEF FinishTask, TypeOK, TaskHeld
  <2>4. TaskHeld'
    BY <1>5 DEF FinishTask, TypeOK, TaskHeld
  <2> QED
    BY <1>5, <2>1, <2>2, <2>3, <2>4 DEF FinishTask, TypeOK, LiveCount, BusyCount, LifeCycle,
       lifecycle, Live
<1>6. ASSUME NEW w \in Slots, SpuriousWakeup(w) PROVE CountInv'
  <2>1. Busy' = Busy /\ Free' = Free /\ worker' \in [Slots -> WorkerStates]
    BY <1>6 DEF SpuriousWakeup, Busy, Free, TypeOK, WorkerStates
  <2> QED
    BY <1>6, <2>1 DEF SpuriousWakeup, TypeOK, TaskHeld, LiveCount, BusyCount, LifeCycle,
       counters, lifecycle, history, Live
<1>7. ASSUME ManagerPass PROVE CountInv'
  <2>1. PICK new \in SUBSET Free :
          /\ Cardinality(new) = GrowBy
          /\ live_num' = live_num + GrowBy
          /\ LET grown == [w \in Slots |-> IF w \in new THEN "start" ELSE worker[w]]
             IN  worker' = IF Shrinks(live_num') THEN ManagerNotifies(grown) ELSE grown
    BY <1>7 DEF ManagerPass
  <2>2. /\ Live' = Live \cup new /\ Live \cap new = {} /\ Busy' = Busy
        /\ worker' \in [Slots -> WorkerStates]
    BY <2>1 DEF ManagerNotifies, Notify, Live, Free, Busy, TypeOK, WorkerStates
  <2>3. IsFiniteSet(Live) /\ IsFiniteSet(new) /\ Cardinality(new) \in Nat
    BY <1>0, SlotSets
  <2>4. Cardinality(Live') = Cardinality(Live) + Cardinality(new)
    <3>1. Cardinality(Live \cup new)
             = Cardinality(Live) + Cardinality(new) - Cardinality(Live \cap new)
      BY <2>3, FS_Union
    <3> QED
      BY <2>2, <2>3, <3>1, <1>0, FS_EmptySet
  <2>5. Cardinality(Live') <= MaxNum
    <3>1. Live' \subseteq Slots
      BY <1>0, <2>2
    <3> QED
      BY <3>1, SlotSets
  <2>6. LiveCount' /\ live_num' \in Nat
    BY <1>0, <2>1, <2>3, <2>4, <2>5, PoolAssumption DEF LiveCount, MaxNum
  <2>7. destroy_num' \in Nat
    BY <1>0, <1>7, PoolAssumption DEF ManagerPass
  <2>8. TaskHeld'
    BY <1>7, <2>2 DEF ManagerPass, TaskHeld, Busy
  <2> QED
    BY <1>7, <2>2, <2>6, <2>7, <2>8 DEF ManagerPass, TypeOK, BusyCount, LifeCycle,
       lifecycle, history
<1>8. ASSUME ManagerExit PROVE CountInv'
  BY <1>8 DEF ManagerExit, TypeOK, TaskHeld, LiveCount, BusyCount, LifeCycle,
     Live, Free, Busy, counters, history
<1>9. ASSUME BeginDestroy PROVE CountInv'
  BY <1>9 DEF BeginDestroy, DestroyNumAtShutdown, TypeOK, TaskHeld, LiveCount, BusyCount, LifeCycle,
     Live, Free, Busy, history
<1>10. ASSUME JoinManager PROVE CountInv'
  <2>1. worker' \in [Slots -> WorkerStates] /\ Free' = Free /\ Busy' = Busy
    BY <1>10, NotifyKeeps DEF JoinManager, WakeForShutdown, NotifyAll
  <2>2. TaskHeld'
    BY <1>10, <2>1 DEF JoinManager, TaskHeld, Busy
  <2> QED
    BY <1>10, <2>1, <2>2 DEF JoinManager, TypeOK, LiveCount, BusyCount, LifeCycle,
       Live, counters, history
<1>11. ASSUME NEW w \in Slots, JoinWorker(w) PROVE CountInv'
  <2>1. Busy' = Busy /\ Free' = Free /\ worker' \in [Slots -> WorkerStates]
    BY <1>11 DEF JoinWorker, Busy, Free, TypeOK, WorkerStates
  <2> QED
    BY <1>11, <2>1 DEF JoinWorker, TypeOK, TaskHeld, LiveCount, BusyCount, LifeCycle,
       counters, lifecycle, history, Live
<1>12. ASSUME EndDestroy PROVE CountInv'
  BY <1>12 DEF EndDestroy, TypeOK, TaskHeld, LiveCount, BusyCount, LifeCycle,
     Live, Free, Busy, counters, history
<1>13. ASSUME UNCHANGED vars PROVE CountInv'
  BY <1>13 DEF vars, counters, lifecycle, history, TypeOK, TaskHeld, LiveCount, BusyCount,
     LifeCycle, Live, Free, Busy
<1> QED
  BY <1>1, <1>2, <1>3, <1>4, <1>5, <1>6, <1>7, <1>8, <1>9, <1>10, <1>11, <1>12, <1>13
     DEF Next, WorkerStep, ManagerStep, Destructor

---------------------------------------------------------------------------
(***************************************************************************)
(* Where the tasks are.  Every step adds a task to the queue, moves the    *)
(* first one to a thread, retires one, or leaves all of them where they    *)
(* are.                                                                    *)
(***************************************************************************)
Added(t) ==
  /\ ~shutdown /\ t \notin submitted
  /\ taskQ' = Append(taskQ, t)
  /\ submitted' = submitted \cup {t}
  /\ UNCHANGED <<Busy, task, finished, shutdown>>

Refused(t) ==
  /\ shutdown
  /\ submitted' = submitted \cup {t}
  /\ UNCHANGED <<Busy, task, taskQ, finished, shutdown>>

Moved(w) ==
  /\ ~shutdown /\ taskQ # <<>> /\ w \notin Busy
  /\ taskQ' = Tail(taskQ)
  /\ Busy' = Busy \cup {w}
  /\ task' = [task EXCEPT ![w] = Head(taskQ)]
  /\ UNCHANGED <<submitted, finished, shutdown>>

Retired(w) ==
  /\ w \in Busy
  /\ Busy' = Busy \ {w}
  /\ task' = [task EXCEPT ![w] = NoTask]
  /\ finished' = finished \cup {task[w]}
  /\ UNCHANGED <<taskQ, submitted, shutdown>>

InPlace ==
  /\ UNCHANGED <<Busy, task, taskQ, submitted, finished>>
  /\ shutdown' = shutdown \/ (~shutdown /\ shutdown')

LEMMA LoopTestMoves ==
  ASSUME TypeOK, NEW w \in Slots, worker[w] \in {"start", "woken"}, LoopTest(w),
         UNCHANGED <<shutdown, submitted, finished>>
  PROVE  InPlace \/ Moved(w)
<1>1. CASE WaitForWork(w) \/ ExitOnShutdown(w)
  BY <1>1 DEF WaitForWork, ExitOnShutdown, InPlace, Busy, TypeOK
<1>2. CASE TakeTask(w)
  BY <1>2 DEF TakeTask, Moved, Busy, TypeOK
<1> QED
  BY <1>1, <1>2 DEF LoopTest

LEMMA TaskMoves ==
  ASSUME TypeOK, [Next]_vars
  PROVE  \/ InPlace
         \/ \E t \in Tasks : Added(t) \/ Refused(t)
         \/ \E w \in Slots : Moved(w) \/ Retired(w)
<1>1. ASSUME NEW t \in Tasks, AddTask(t) \/ AddTaskForward(t) PROVE Added(t) \/ Refused(t)
  <2>1. Busy' = Busy
    BY <1>1, NotifyKeeps, NotifyOneKeeps DEF AddTask, AddTaskForward, NotifyAll
  <2> QED
    BY <1>1, <2>1 DEF AddTask, AddTaskForward, Enqueue, Added, Refused, lifecycle
<1>2. ASSUME NEW w \in Slots, EnterLoop(w) \/ WakeAndStay(w) PROVE InPlace \/ Moved(w)
  BY <1>2, LoopTestMoves DEF EnterLoop, WakeAndStay, lifecycle, history
<1>3. ASSUME NEW w \in Slots, SelfDestruct(w) \/ SpuriousWakeup(w) \/ JoinWorker(w) PROVE InPlace
  BY <1>3 DEF SelfDestruct, SpuriousWakeup, JoinWorker, InPlace, Busy, TypeOK, lifecycle, history
<1>4. ASSUME NEW w \in Slots, FinishTask(w) PROVE Retired(w)
  BY <1>4 DEF FinishTask, Retired, Busy, TypeOK, lifecycle
<1>5. ASSUME ManagerPass PROVE InPlace
  <2>1. Busy' = Busy
    BY <1>5 DEF ManagerPass, ManagerNotifies, Notify, Free, Busy, TypeOK
  <2> QED
    BY <1>5, <2>1 DEF ManagerPass, InPlace, lifecycle, history
<1>6. ASSUME JoinManager PROVE InPlace
  <2>1. Busy' = Busy
    BY <1>6, NotifyKeeps DEF JoinManager, WakeForShutdown, NotifyAll
  <2> QED
    BY <1>6, <2>1 DEF JoinManager, InPlace, history
<1>7. ASSUME ManagerExit \/ BeginDestroy \/ EndDestroy \/ UNCHANGED vars PROVE InPlace
  BY <1>7 DEF ManagerExit, BeginDestroy, EndDestroy, vars, InPlace, Busy, TypeOK,
     lifecycle, history
<1> QED
  BY <1>1, <1>2, <1>3, <1>4, <1>5, <1>6, <1>7
     DEF Next, WorkerStep, ManagerStep, Destructor

\* What each kind of step does to the sets of queued and of running tasks.
LEMMA SetsOfTasks ==
  ASSUME CountInv, TaskAccounting
  PROVE  /\ InPlace => Queued' = Queued /\ Running' = Running
         /\ \A t \in Tasks : Added(t) => Queued' = Queued \cup {t} /\ Running' = Running
         /\ \A t \in Tasks : Refused(t) => Queued' = Queued /\ Running' = Running
         /\ \A w \in Slots : Moved(w) =>
              /\ Head(taskQ) \in Queued \ Queued'
              /\ Queued = Queued' \cup {Head(taskQ)}
              /\ Running' = Running \cup {Head(taskQ)}
         /\ \A w \in Slots : Retired(w) =>
              /\ task[w] \in Running \cap Tasks
              /\ Queued' = Queued
              /\ Running' = Running \ {task[w]}
<1> USE DEF CountInv, TypeOK
<1>1. InPlace => Queued' = Queued /\ Running' = Running
  BY DEF InPlace, Queued, Running
<1>2. ASSUME NEW t \in Tasks, Added(t) PROVE Queued' = Queued \cup {t} /\ Running' = Running
  BY <1>2, PushQueue DEF Added, Queued, Running
<1>3. ASSUME NEW t \in Tasks, Refused(t) PROVE Queued' = Queued /\ Running' = Running
  BY <1>3 DEF Refused, Queued, Running
<1>4. ASSUME NEW w \in Slots, Moved(w)
      PROVE  /\ Head(taskQ) \in Queued \ Queued'
             /\ Queued = Queued' \cup {Head(taskQ)}
             /\ Running' = Running \cup {Head(taskQ)}
  <2>1. Head(taskQ) \notin Queued' /\ Queued = Queued' \cup {Head(taskQ)}
    <3>1. taskQ \in Seq(Tasks) /\ taskQ # <<>> /\ taskQ' = Tail(taskQ)
      BY <1>4 DEF Moved
    <3>2. \A i, j \in DOMAIN taskQ : taskQ[i] = taskQ[j] => i = j
      BY DEF TaskAccounting
    <3>3. /\ Head(taskQ) \notin {Tail(taskQ)[i] : i \in DOMAIN Tail(taskQ)}
          /\ Queued = {Tail(taskQ)[i] : i \in DOMAIN Tail(taskQ)} \cup {Head(taskQ)}
      BY <3>1, <3>2, PopQueue DEF Queued
    <3> QED
      BY <3>1, <3>3 DEF Queued
  <2>2. /\ \A v \in Busy : v # w /\ task'[v] = task[v]
        /\ task'[w] = Head(taskQ) /\ Busy' = Busy \cup {w}
    BY <1>4 DEF Moved, Busy
  <2>3. Running' = Running \cup {Head(taskQ)}
    BY <2>2 DEF Running
  <2> QED
    BY <2>1, <2>3
<1>5. ASSUME NEW w \in Slots, Retired(w)
      PROVE  /\ task[w] \in Running \cap Tasks
             /\ Queued' = Queued
             /\ Running' = Running \ {task[w]}
  <2>1. task[w] \in Running \cap Tasks /\ Queued' = Queued
    BY <1>5 DEF Retired, Running, Busy, TaskHeld, Queued
  <2>2. \A v \in Busy' : v \in Busy /\ task'[v] = task[v] /\ task[v] # task[w]
    BY <1>5 DEF Retired, Busy, TaskAccounting
  <2>3. \A v \in Busy : v # w => v \in Busy' /\ task'[v] = task[v]
    BY <1>5 DEF Retired, Busy
  <2>4. Running' = Running \ {task[w]}
    BY <2>2, <2>3 DEF Running
  <2> QED
    BY <2>1, <2>4
<1> QED
  BY <1>1, <1>2, <1>3, <1>4, <1>5

LEMMA AccountingNext ==
  ASSUME CountInv, TaskAccounting, [Next]_vars
  PROVE  TaskAccounting'
<1> USE DEF CountInv, TypeOK
<1>1. ASSUME InPlace PROVE TaskAccounting'
  BY <1>1, SetsOfTasks DEF InPlace, TaskAccounting
<1>2. ASSUME NEW t \in Tasks, Added(t) PROVE TaskAccounting'
  <2>1. t \notin Queued \cup Running \cup finished
    BY <1>2 DEF Added, TaskAccounting
  <2>2. \A i, j \in DOMAIN taskQ' : taskQ'[i] = taskQ'[j] => i = j
    BY <1>2, <2>1, PushQueue DEF Added, TaskAccounting, Queued
  <2>3. \A v, w \in Busy' : task'[v] = task'[w] => v = w
    BY <1>2 DEF Added, TaskAccounting
  <2> QED
    BY <1>2, <2>1, <2>2, <2>3, SetsOfTasks DEF Added, TaskAccounting
<1>3. ASSUME NEW t \in Tasks, Refused(t) PROVE TaskAccounting'
  BY <1>3, SetsOfTasks DEF Refused, TaskAccounting
<1>4. ASSUME NEW w \in Slots, Moved(w) PROVE TaskAccounting'
  <2>1. \A i, j \in DOMAIN taskQ' : taskQ'[i] = taskQ'[j] => i = j
    BY <1>4, PopQueue DEF Moved, TaskAccounting
  <2>2. \A v \in Busy : task'[v] = task[v] /\ task[v] \in Running
    BY <1>4 DEF Moved, Busy, Running
  <2>3. task'[w] = Head(taskQ) /\ Head(taskQ) \notin Running
    BY <1>4, SetsOfTasks DEF Moved, TaskAccounting
  <2>4. \A v, u \in Busy' : task'[v] = task'[u] => v = u
    BY <1>4, <2>2, <2>3 DEF Moved, TaskAccounting
  <2>5. PICK h \in Queued : /\ h \notin Queued' /\ Queued = Queued' \cup {h}
                           /\ Running' = Running \cup {h}
    BY <1>4, SetsOfTasks
  <2>6. UNCHANGED <<submitted, finished, shutdown>>
    BY <1>4 DEF Moved
  <2>7. /\ Queued' \cap Running' = {} /\ (Queued' \cup Running') \cap finished' = {}
        /\ Queued' \cup Running' \cup finished' = Queued \cup Running \cup finished
    BY <2>5, <2>6 DEF TaskAccounting
  <2> QED
    BY <2>1, <2>4, <2>6, <2>7 DEF TaskAccounting
<1>5. ASSUME NEW w \in Slots, Retired(w) PROVE TaskAccounting'
  <2>1. \A v, u \in Busy' : task'[v] = task'[u] => v = u
    BY <1>5 DEF Retired, Busy, TaskAccounting
  <2>2. /\ task[w] \in Running /\ Queued' = Queued
        /\ Running' = Running \ {task[w]} /\ finished' = finished \cup {task[w]}
    BY <1>5, SetsOfTasks DEF Retired
  <2>3. UNCHANGED <<taskQ, submitted, shutdown>>
    BY <1>5 DEF Retired
  <2>4. /\ Queued' \cap Running' = {} /\ (Queued' \cup Running') \cap finished' = {}
        /\ Queued' \cup Running' \cup finished' = Queued \cup Running \cup finished
    BY <2>2 DEF TaskAccounting
  <2> QED
    BY <2>1, <2>3, <2>4 DEF TaskAccounting
<1> QED
  BY <1>1, <1>2, <1>3, <1>4, <1>5, TaskMoves

---------------------------------------------------------------------------
LEMMA NobodyWaitsNext ==
  ASSUME CountInv, NobodyWaitsInJoin, [Next]_vars
  PROVE  NobodyWaitsInJoin'
<1> USE DEF CountInv, TypeOK, WorkerStates, NobodyWaitsInJoin, Waiting
<1>1. ASSUME NEW t \in Tasks, AddTask(t) \/ AddTaskForward(t) PROVE NobodyWaitsInJoin'
  BY <1>1, NotifyKeeps, NotifyOneKeeps DEF AddTask, AddTaskForward, NotifyAll, lifecycle
<1>2. ASSUME NEW w \in Slots, EnterLoop(w) \/ WakeAndStay(w) PROVE NobodyWaitsInJoin'
  <2>1. LoopTest(w) /\ UNCHANGED lifecycle
    BY <1>2 DEF EnterLoop, WakeAndStay
  <2> QED
    BY <2>1 DEF LoopTest, WaitForWork, ExitOnShutdown, TakeTask, LifeCycle, lifecycle
<1>3. ASSUME NEW w \in Slots,
             SelfDestruct(w) \/ SpuriousWakeup(w) \/ JoinWorker(w) \/ FinishTask(w)
      PROVE  NobodyWaitsInJoin'
  BY <1>3 DEF SelfDestruct, SpuriousWakeup, JoinWorker, FinishTask, lifecycle
<1>4. ASSUME ManagerPass PROVE NobodyWaitsInJoin'
  BY <1>4 DEF ManagerPass, lifecycle, LifeCycle
<1>5. ASSUME JoinManager PROVE NobodyWaitsInJoin'
  BY <1>5 DEF JoinManager, WakeForShutdown, NotifyAll, Notify
<1>6. ASSUME ManagerExit \/ BeginDestroy \/ EndDestroy \/ UNCHANGED vars PROVE NobodyWaitsInJoin'
  BY <1>6 DEF ManagerExit, BeginDestroy, EndDestroy, vars, lifecycle
<1> QED
  BY <1>1, <1>2, <1>3, <1>4, <1>5, <1>6 DEF Next, WorkerStep, ManagerStep, Destructor

\* The invariant is inductive.
LEMMA PoolInvInit == Init => PoolInv
<1> SUFFICES ASSUME Init PROVE PoolInv
  OBVIOUS
<1>1. Queued = {} /\ Busy = {} /\ DOMAIN taskQ = {}
  BY DEF Init, Queued, Busy
<1>2. Running = {}
  BY <1>1 DEF Running
<1> QED
  BY <1>1, <1>2, CountInit DEF Init, PoolInv, TaskAccounting, NobodyWaitsInJoin

LEMMA PoolInvNext == PoolInv /\ [Next]_vars => PoolInv'
BY CountNext, AccountingNext, NobodyWaitsNext DEF PoolInv

LEMMA PoolInvariance == Spec => []PoolInv
BY PoolInvInit, PoolInvNext, PTL DEF Spec

---------------------------------------------------------------------------
(***************************************************************************)
(* The results.                                                            *)
(***************************************************************************)

\* The fields of the pool keep their types: no counter becomes negative, no
\* thread is in two states, nothing but tasks is queued.
THEOREM PoolTypeCorrect == Spec => []TypeOK
BY PoolInvariance, PTL DEF PoolInv, CountInv

\* live_num counts the threads of worker_threads exactly and never leaves
\* min_num..max_num, and busy_num counts the executing ones exactly.
THEOREM PoolCountersExact == Spec => []CountersExact
BY PoolInvariance, PTL DEF PoolInv, CountInv, CountersExact

\* No task is lost before the shutdown, duplicated or executed by two threads.
THEOREM PoolTaskAccounting == Spec => []TaskAccounting
BY PoolInvariance, PTL DEF PoolInv

\* The last notify_all reaches every waiting thread: no join blocks on one.
THEOREM PoolNobodyWaitsInJoin == Spec => []NobodyWaitsInJoin
BY PoolInvariance, PTL DEF PoolInv

\* A step of a pool that is shutting down leaves the free slots as they are.
LEMMA FreeUnderShutdown ==
  ASSUME PoolInv, [Next]_vars, shutdown
  PROVE  Free' = Free
<1> USE DEF PoolInv, CountInv, TypeOK, WorkerStates
<1>1. ASSUME NEW t \in Tasks, AddTask(t) \/ AddTaskForward(t) PROVE Free' = Free
  BY <1>1 DEF AddTask, AddTaskForward, Free
<1>2. ASSUME NEW w \in Slots, EnterLoop(w) \/ WakeAndStay(w) PROVE Free' = Free
  BY <1>2, LoopTestCounts DEF EnterLoop, WakeAndStay
<1>3. ASSUME NEW w \in Slots, SelfDestruct(w) PROVE Free' = Free
  BY <1>3 DEF SelfDestruct, DestroyPending, LifeCycle
<1>4. ASSUME NEW w \in Slots, SpuriousWakeup(w) \/ JoinWorker(w) \/ FinishTask(w)
      PROVE  Free' = Free
  BY <1>4 DEF SpuriousWakeup, JoinWorker, FinishTask, Free
<1>5. ASSUME JoinManager PROVE Free' = Free
  BY <1>5, NotifyKeeps DEF JoinManager, WakeForShutdown, NotifyAll
<1>6. ASSUME ManagerPass \/ ManagerExit \/ BeginDestroy \/ EndDestroy \/ UNCHANGED vars
      PROVE  Free' = Free
  BY <1>6 DEF ManagerPass, ManagerExit, BeginDestroy, EndDestroy, vars, Free
<1> QED
  BY <1>1, <1>2, <1>3, <1>4, <1>5, <1>6 DEF Next, WorkerStep, ManagerStep, Destructor

\* Under the destructor no thread detaches itself and none is started: that
\* destroy_num is cleared with the flag (line 45) is what makes this true.
THEOREM PoolNoDetachAfterShutdown == Spec => NoDetachAfterShutdown
<1>1. PoolInv /\ [Next]_vars => [shutdown => Free' = Free]_vars
  BY FreeUnderShutdown
<1> QED
  BY <1>1, PoolInvariance, PTL DEF Spec, NoDetachAfterShutdown

\* Every step of the pool is a step of the abstract executor or changes nothing
\* that it sees.
LEMMA PoolStepImplements ==
  ASSUME PoolInv, [Next]_vars
  PROVE  [TE!Next]_(TE!vars)
<1> USE DEF PoolInv, CountInv, TypeOK, TE!vars
<1>0. TE!Pending = Queued
  BY DEF TE!Pending, Queued
<1>1. ASSUME InPlace PROVE TE!Close \/ UNCHANGED TE!vars
  BY <1>1, SetsOfTasks DEF InPlace, TE!Close
<1>2. ASSUME NEW t \in Tasks, Added(t) PROVE TE!Accept(t)
  <2>1. t \notin Queued \cup Running \cup finished
    BY <1>2 DEF Added, TaskAccounting
  <2> QED
    BY <1>0, <1>2, <2>1, SetsOfTasks DEF Added, TE!Accept
<1>3. ASSUME NEW t \in Tasks, Refused(t) PROVE UNCHANGED TE!vars
  BY <1>3, SetsOfTasks DEF Refused
<1>4. ASSUME NEW w \in Slots, Moved(w) PROVE TE!Start
  <2>1. Head(taskQ) \in Queued /\ Running' = Running \cup {Head(taskQ)}
    BY <1>4, SetsOfTasks
  <2>2. Head(taskQ) \notin Running \cup finished
    BY <2>1 DEF TaskAccounting
  <2> QED
    BY <1>4, <2>1, <2>2 DEF Moved, TE!Start
<1>5. ASSUME NEW w \in Slots, Retired(w) PROVE \E t \in Tasks : TE!Complete(t)
  <2>1. task[w] \in Running \cap Tasks /\ Running' = Running \ {task[w]}
    BY <1>5, SetsOfTasks
  <2>2. TE!Complete(task[w])
    BY <1>5, <2>1 DEF Retired, TE!Complete
  <2> QED
    BY <2>1, <2>2
<1> QED
  BY <1>1, <1>2, <1>3, <1>4, <1>5, TaskMoves DEF TE!Next

\* The thread pool implements the abstract task executor: tasks start in the
\* order of acceptance, at most once, and none after the shutdown.
THEOREM PoolImplementsTaskExecutor == Spec => ImplementsTaskExecutor
<1>1. Init => TE!Init
  BY PoolInvInit DEF Init, TE!Init, Running, Busy
<1>2. PoolInv /\ [Next]_vars => [TE!Next]_(TE!vars)
  BY PoolStepImplements
<1> QED
  BY <1>1, <1>2, PoolInvariance, PTL DEF Spec, ImplementsTaskExecutor, TE!Spec
===========================================================================
