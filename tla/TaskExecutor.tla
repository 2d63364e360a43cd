--------------------------- MODULE TaskExecutor ---------------------------
(***************************************************************************)
(* What a task pool promises its callers, whatever threads it uses: tasks  *)
(* are started in the order in which they were accepted, a task is started *)
(* at most once, and after the pool is closed nothing is accepted and      *)
(* nothing is started any more (what is still pending is dropped).         *)
(* ThreadPool is shown to implement this specification.                    *)
(***************************************************************************)
EXTENDS Sequences

CONSTANT Tasks      \* the function objects handed to the pool

VARIABLES
  pending,          \* accepted, not started: in order of acceptance
  running,          \* started, not completed
  completed,        \* completed
  closed            \* the pool is being destroyed

vars == <<pending, running, completed, closed>>

Pending == {pending[i] : i \in DOMAIN pending}

Init ==
  /\ pending = <<>>
  /\ running = {}
  /\ completed = {}
  /\ closed = FALSE

Accept(t) ==
  /\ ~closed
  /\ t \notin Pending \cup running \cup completed
  /\ pending' = Append(pending, t)
  /\ UNCHANGED <<running, completed, closed>>

Start ==
  /\ ~closed
  /\ pending # <<>>
  /\ Head(pending) \notin running \cup completed
  /\ running' = running \cup {Head(pending)}
  /\ pending' = Tail(pending)
  /\ UNCHANGED <<completed, closed>>

Complete(t) ==
  /\ t \in running
  /\ running' = running \ {t}
  /\ completed' = completed \cup {t}
  /\ UNCHANGED <<pending, closed>>

Close ==
  /\ ~closed
  /\ closed' = TRUE
  /\ UNCHANGED <<pending, running, completed>>

Next ==
  \/ \E t \in Tasks : Accept(t) \/ Complete(t)
  \/ Start
  \/ Close

Spec == Init /\ [][Next]_vars
===========================================================================
