------------------------ MODULE SnowflakeIdWorker -------------------------
(***************************************************************************)
(* The id generator of snowflakeidworker.h/.cpp (the build that takes the  *)
(* lock).  nextId holds the mutex from its first line to its last, so a    *)
(* call is one step, except that tilNextMillis waits for the clock with    *)
(* the mutex held: that caller is in state "spin".  The wall clock may be  *)
(* stepped back, and the process may be restarted, which forgets           *)
(* lastTimestamp and sequence but not the ids already handed out.  The     *)
(* names of the specification begin with Id because proofs join it with    *)
(* Reactions, where the ids are used.                                      *)
(***************************************************************************)
EXTENDS Integers, Sequences

CONSTANTS
  Threads,      \* threads that call nextId
  Twepoch,      \* twepoch: the epoch of the time stamps
  StampSize,    \* 2^42: what is left of 64 bits after timestampLeftShift
  NodeSize,     \* 2^10: values of the datacenterId and workerId fields
  Node,         \* the value of these two fields (0: the constructor's)
  SeqSize,      \* 2^12: sequenceMask + 1
  FirstClock, MaxClock,    \* the span of time considered
  MaxIssued,    \* bound on the ids considered
  MaxBack,      \* bound on the number of times the clock is stepped back
  MaxRestarts   \* bound on the number of restarts

\* Clocks before the epoch or more than StampSize after it are not considered.
ASSUME SnowflakeAssumption ==
  /\ Twepoch \in Nat /\ FirstClock \in Nat /\ MaxClock \in Nat
  /\ 0 < FirstClock /\ Twepoch <= FirstClock /\ FirstClock <= MaxClock
  /\ StampSize \in Nat /\ MaxClock - Twepoch < StampSize
  /\ NodeSize \in Nat /\ Node \in 0..(NodeSize - 1)
  /\ SeqSize \in Nat /\ 1 < SeqSize
  /\ MaxIssued \in Nat /\ MaxBack \in Nat /\ MaxRestarts \in Nat

VARIABLES
  clock,          \* the wall clock, in milliseconds
  backs,          \* how often it was stepped back
  restarts,       \* how often the process was restarted
  sequence,       \* position within the millisecond
  lastTimestamp,  \* time stamp of the last id
  pc,             \* where each calling thread is
  issued          \* history: the ids handed out, in order

generator == <<sequence, lastTimestamp>>
idVars == <<clock, backs, restarts, generator, pc, issued>>

IdTypeOK ==
  /\ clock \in FirstClock..MaxClock
  /\ backs \in 0..MaxBack
  /\ restarts \in 0..MaxRestarts
  /\ sequence \in 0..(SeqSize - 1)
  /\ lastTimestamp \in {0} \cup (FirstClock..MaxClock)
  /\ pc \in [Threads -> {"idle", "called", "spin"}]
  /\ issued \in Seq(Nat)

IdInit ==
  /\ clock = FirstClock
  /\ backs = 0 /\ restarts = 0
  /\ sequence = 0 /\ lastTimestamp = 0
  /\ pc = [t \in Threads |-> "idle"]
  /\ issued = <<>>

(***************************************************************************)
(* The id: time stamp, datacenter and worker, and sequence, side by side.  *)
(* The fields do not overlap, so the bitwise or of the code is a sum.      *)
(***************************************************************************)
Stamp(ts) == (ts - Twepoch) % StampSize

Id(ts, seq) == Stamp(ts) * (NodeSize * SeqSize) + (Node * SeqSize + seq)

NextSequence == (sequence + 1) % SeqSize

MutClockMovedBackwards == FALSE

ClockMovedBackwards == clock < lastTimestamp

\* The mutex is free unless a caller waits for the next millisecond.
MutexFree == \A t \in Threads : pc[t] # "spin"

Call(t) ==
  /\ pc[t] = "idle"
  /\ Len(issued) < MaxIssued
  /\ pc' = [pc EXCEPT ![t] = "called"]
  /\ UNCHANGED <<clock, backs, restarts, generator, issued>>

Return(t, ts, seq) ==
  /\ sequence' = seq
  /\ lastTimestamp' = ts
  /\ issued' = Append(issued, Id(ts, seq))
  /\ pc' = [pc EXCEPT ![t] = "idle"]

\* nextId, the four ways through it.  Lines 31-36: the exception.
Refuse(t) ==
  /\ pc[t] = "called" /\ MutexFree
  /\ ClockMovedBackwards
  /\ pc' = [pc EXCEPT ![t] = "idle"]
  /\ UNCHANGED <<clock, backs, restarts, generator, issued>>

\* Lines 38-44: the sequence overflows, wait for the next millisecond.
Overflow(t) ==
  /\ pc[t] = "called" /\ MutexFree
  /\ ~ClockMovedBackwards
  /\ clock = lastTimestamp /\ NextSequence = 0
  /\ sequence' = NextSequence
  /\ pc' = [pc EXCEPT ![t] = "spin"]
  /\ UNCHANGED <<clock, backs, restarts, lastTimestamp, issued>>

SameMillis(t) ==
  /\ pc[t] = "called" /\ MutexFree
  /\ ~ClockMovedBackwards
  /\ clock = lastTimestamp /\ NextSequence # 0
  /\ Return(t, clock, NextSequence)
  /\ UNCHANGED <<clock, backs, restarts>>

NewMillis(t) ==
  /\ pc[t] = "called" /\ MutexFree
  /\ ~ClockMovedBackwards
  /\ clock # lastTimestamp
  /\ Return(t, clock, 0)
  /\ UNCHANGED <<clock, backs, restarts>>

MutStaleClock == FALSE

\* The loop of tilNextMillis ends: it reads the clock again and again.
MillisOver == clock > lastTimestamp

TilNextMillis(t) ==
  /\ pc[t] = "spin"
  /\ MillisOver
  /\ Return(t, clock, sequence)
  /\ UNCHANGED <<clock, backs, restarts>>

NextId(t) == Refuse(t) \/ Overflow(t) \/ SameMillis(t) \/ NewMillis(t) \/ TilNextMillis(t)

(***************************************************************************)
(* The environment.                                                        *)
(***************************************************************************)
Tick ==
  /\ clock < MaxClock
  /\ clock' = clock + 1
  /\ UNCHANGED <<backs, restarts, generator, pc, issued>>

\* The wall clock (high_resolution_clock) is set back, by any amount.
StepBack ==
  /\ backs < MaxBack
  /\ backs' = backs + 1
  /\ clock' \in FirstClock..(clock - 1)
  /\ UNCHANGED <<restarts, generator, pc, issued>>

\* The process ends at any point and is started again, which takes at least a
\* millisecond: a new object, no callers (lines 62-69).
Restart ==
  /\ restarts < MaxRestarts
  /\ clock < MaxClock
  /\ restarts' = restarts + 1
  /\ clock' = clock + 1
  /\ sequence' = 0 /\ lastTimestamp' = 0
  /\ pc' = [t \in Threads |-> "idle"]
  /\ UNCHANGED <<backs, issued>>

IdNext ==
  \/ \E t \in Threads : Call(t) \/ NextId(t)
  \/ Tick
  \/ StepBack
  \/ Restart

IdSpec == IdInit /\ [][IdNext]_idVars

\* A caller that can go on does, and time passes.
Fairness == WF_idVars(Tick) /\ \A t \in Threads : WF_idVars(NextId(t))

FairIdSpec == IdSpec /\ Fairness

---------------------------------------------------------------------------
\* Ids are handed out in strictly increasing order, by whatever threads, through
\* sequence overflows and refusals, as long as a clock that is stepped back and a
\* restart do not come together.  In particular no id is handed out twice.
IncreasingIds ==
  restarts = 0 \/ backs = 0 =>
    \A i, j \in DOMAIN issued : i < j => issued[i] < issued[j]

\* A call returns, with an id or an exception: the wait with the mutex held does
\* not block the callers for ever (unless the millisecond whose sequence is used
\* up is the last one considered).
CallReturns ==
  \A t \in Threads : (pc[t] # "idle") ~> (pc[t] = "idle" \/ lastTimestamp = MaxClock)
===========================================================================
