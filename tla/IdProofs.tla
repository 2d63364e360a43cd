------------------------------ MODULE IdProofs ----------------------------
(***************************************************************************)
(* Proofs about ids.  SnowflakeIdWorker hands out strictly increasing ids, *)
(* for any number of threads and any widths of the fields; the database,   *)
(* which compares them as doubles, confuses none of two milliseconds; and  *)
(* so the tables of likes and videos (Reactions), whose statements name    *)
(* ids that way, answer rightly about every video alone in its millisecond.*)
(***************************************************************************)
EXTENDS SnowflakeIdWorker, Reactions, FiniteSetTheorems, TLAPS

\* Within the considered time the stamp field does not wrap.
LEMMA StampExact ==
  ASSUME NEW ts \in FirstClock..MaxClock
  PROVE  Stamp(ts) = ts - Twepoch
BY SnowflakeAssumption DEF Stamp

LEMMA ProductGrows ==
  ASSUME NEW a \in Nat, NEW b \in Nat, NEW m \in Nat, a < b
  PROVE  a * m + m <= b * m /\ a * m \in Nat /\ b * m \in Nat
<1>1. PICK d \in Nat : b = a + 1 + d
  <2>1. b - a - 1 \in Nat /\ b = a + 1 + (b - a - 1)
    OBVIOUS
  <2> QED
    BY <2>1
<1>2. (a + 1 + d) * m = a * m + m + d * m /\ d * m \in Nat /\ a * m \in Nat
  OBVIOUS
<1> QED
  BY <1>1, <1>2

\* Ids are naturals, ordered first by time stamp and then by sequence: the fields
\* border on each other without overlapping.
LEMMA IdOrder ==
  ASSUME NEW ts \in FirstClock..MaxClock, NEW us \in FirstClock..MaxClock,
         NEW x \in 0..(SeqSize - 1), NEW y \in 0..(SeqSize - 1)
  PROVE  /\ Id(ts, x) \in Nat
         /\ ts < us => Id(ts, x) < Id(us, y)
         /\ x < y => Id(ts, x) < Id(ts, y)
         /\ x <= y => Id(ts, x) <= Id(ts, y)
<1> DEFINE m == NodeSize * SeqSize
           n == Node * SeqSize
<1>1. m \in Nat /\ n \in Nat /\ n + SeqSize <= m
  BY ProductGrows, SnowflakeAssumption
<1>2. /\ Stamp(ts) = ts - Twepoch /\ Stamp(ts) \in Nat
      /\ Stamp(us) = us - Twepoch /\ Stamp(us) \in Nat
  BY StampExact, SnowflakeAssumption
<1>3. ts \in Nat /\ us \in Nat /\ Twepoch \in Nat /\ SeqSize \in Nat
      /\ x \in Nat /\ y \in Nat /\ x < SeqSize /\ y < SeqSize
  BY SnowflakeAssumption
<1>4. Id(ts, x) = Stamp(ts) * m + (n + x) /\ Id(us, y) = Stamp(us) * m + (n + y)
      /\ Id(ts, y) = Stamp(ts) * m + (n + y)
  BY DEF Id
<1> HIDE DEF m, n
<1>5. PICK p \in Nat : p = Stamp(ts) * m
  BY <1>1, <1>2, SMT
<1>6. PICK q \in Nat : q = Stamp(us) * m
  BY <1>1, <1>2, SMT
<1>7. ts < us => p + m <= q
  BY <1>1, <1>2, <1>3, <1>5, <1>6, ProductGrows
<1>8. Id(ts, x) = p + (n + x) /\ Id(us, y) = q + (n + y) /\ Id(ts, y) = p + (n + y)
  BY <1>4, <1>5, <1>6
<1> QED
  BY <1>1, <1>3, <1>7, <1>8

---------------------------------------------------------------------------
(***************************************************************************)
(* The inductive invariant.  Every id handed out is bounded by what the    *)
(* generator remembers: by the last time stamp and sequence, by the whole  *)
(* last millisecond while a caller waits for the next one, and, when a     *)
(* restart has made it forget, by the clock.                               *)
(***************************************************************************)
Spinning == \E t \in Threads : pc[t] = "spin"

BelowGenerator(id) ==
  IF lastTimestamp = 0
  THEN backs = 0 /\ id < Id(clock, 0)
  ELSE IF Spinning THEN id <= Id(lastTimestamp, SeqSize - 1)
                   ELSE id <= Id(lastTimestamp, sequence)

GeneratorInv ==
  /\ \A t, u \in Threads : pc[t] = "spin" /\ pc[u] = "spin" => t = u
  /\ Spinning => lastTimestamp # 0 /\ sequence = 0
  /\ backs = 0 => lastTimestamp <= clock
  /\ restarts = 0 /\ lastTimestamp = 0 => DOMAIN issued = {}
  /\ restarts = 0 \/ backs = 0 => \A i \in DOMAIN issued : BelowGenerator(issued[i])

IdInv == IdTypeOK /\ GeneratorInv /\ IncreasingIds

\* Handing out an id above all earlier ones keeps the history increasing.
LEMMA AppendIncreasing ==
  ASSUME NEW s \in Seq(Nat), NEW x \in Nat,
         \A i, j \in DOMAIN s : i < j => s[i] < s[j],
         \A i \in DOMAIN s : s[i] < x
  PROVE  /\ Append(s, x) \in Seq(Nat)
         /\ \A i, j \in DOMAIN Append(s, x) : i < j => Append(s, x)[i] < Append(s, x)[j]
         /\ \A i \in DOMAIN Append(s, x) : Append(s, x)[i] <= x
<1> DEFINE a == Append(s, x)
<1>1. /\ a \in Seq(Nat) /\ Len(s) \in Nat
      /\ DOMAIN a = 1..(Len(s) + 1) /\ DOMAIN s = 1..Len(s)
      /\ \A i \in 1..Len(s) : a[i] = s[i] /\ s[i] \in Nat
      /\ a[Len(s) + 1] = x
  OBVIOUS
<1> HIDE DEF a
<1>2. ASSUME NEW i \in DOMAIN a, NEW j \in DOMAIN a, i < j PROVE a[i] < a[j]
  <2>1. i \in DOMAIN s /\ (j \in DOMAIN s \/ j = Len(s) + 1)
    BY <1>1, <1>2
  <2> QED
    BY <1>1, <1>2, <2>1
<1>3. ASSUME NEW i \in DOMAIN a PROVE a[i] <= x
  <2>1. i \in DOMAIN s \/ i = Len(s) + 1
    BY <1>1
  <2> QED
    BY <1>1, <2>1
<1> QED
  BY <1>1, <1>2, <1>3 DEF a

\* A call that returns keeps the invariant if its id is above the earlier ones.
LEMMA ReturnKeeps ==
  ASSUME IdInv, NEW t \in Threads, NEW seq \in 0..(SeqSize - 1),
         Return(t, clock, seq), UNCHANGED <<clock, backs, restarts>>,
         \A u \in Threads : u # t => pc[u] # "spin",
         restarts = 0 \/ backs = 0 =>
           \A i \in DOMAIN issued : issued[i] < Id(clock, seq)
  PROVE  IdInv'
<1>1. /\ clock \in FirstClock..MaxClock /\ clock \in Nat /\ clock # 0
      /\ Id(clock, seq) \in Nat /\ issued \in Seq(Nat)
      /\ pc \in [Threads -> {"idle", "called", "spin"}]
  BY SnowflakeAssumption, IdOrder DEF IdInv, IdTypeOK
<1>2. /\ issued' = Append(issued, Id(clock, seq)) /\ issued' \in Seq(Nat)
      /\ sequence' = seq /\ lastTimestamp' = clock /\ clock' = clock
      /\ backs' = backs /\ restarts' = restarts
      /\ pc' = [pc EXCEPT ![t] = "idle"]
  BY <1>1 DEF Return
<1>3. /\ \A u \in Threads : pc'[u] # "spin"
      /\ pc' \in [Threads -> {"idle", "called", "spin"}]
  BY <1>1, <1>2
<1>4. IdTypeOK'
  BY <1>1, <1>2, <1>3 DEF IdInv, IdTypeOK
<1>5. ASSUME restarts = 0 \/ backs = 0
      PROVE  /\ \A i, j \in DOMAIN issued' : i < j => issued'[i] < issued'[j]
             /\ \A i \in DOMAIN issued' : issued'[i] <= Id(clock, seq)
  BY <1>1, <1>2, <1>5, AppendIncreasing DEF IdInv, IncreasingIds
<1>6. \A x : BelowGenerator(x)' <=> x <= Id(clock, seq)
  BY <1>1, <1>2, <1>3 DEF BelowGenerator, Spinning, Id, Stamp
<1> QED
  BY <1>1, <1>2, <1>3, <1>4, <1>5, <1>6 DEF IdInv, IncreasingIds, GeneratorInv, Spinning

LEMMA IdInvInit == IdInit => IdInv
<1> SUFFICES ASSUME IdInit PROVE IdInv
  OBVIOUS
<1>1. issued \in Seq(Nat) /\ DOMAIN issued = {}
  BY DEF IdInit
<1>2. IdTypeOK
  BY <1>1, SnowflakeAssumption DEF IdInit, IdTypeOK
<1>3. ~Spinning
  BY DEF IdInit, Spinning
<1> QED
  BY <1>1, <1>2, <1>3, SnowflakeAssumption DEF IdInit, IdInv, GeneratorInv, IncreasingIds

LEMMA IdInvNext == IdInv /\ [IdNext]_idVars => IdInv'
<1> SUFFICES ASSUME IdInv, [IdNext]_idVars PROVE IdInv'
  OBVIOUS
<1>0. /\ clock \in FirstClock..MaxClock /\ clock \in Nat /\ clock # 0
      /\ sequence \in 0..(SeqSize - 1) /\ 0 \in 0..(SeqSize - 1)
      /\ SeqSize - 1 \in 0..(SeqSize - 1)
      /\ lastTimestamp \in {0} \cup (FirstClock..MaxClock) /\ lastTimestamp \in Nat
      /\ pc \in [Threads -> {"idle", "called", "spin"}]
      /\ issued \in Seq(Nat)
      /\ backs \in Nat /\ restarts \in Nat
  BY SnowflakeAssumption DEF IdInv, IdTypeOK
<1>s. \A i \in DOMAIN issued : issued[i] \in Nat
  BY <1>0
<1>1. ASSUME NEW t \in Threads, Call(t) \/ Refuse(t) PROVE IdInv'
  <2>1. /\ UNCHANGED <<clock, backs, restarts, sequence, lastTimestamp, issued>>
        /\ pc' \in [Threads -> {"idle", "called", "spin"}]
        /\ \A u \in Threads : pc'[u] = "spin" <=> pc[u] = "spin"
    BY <1>0, <1>1 DEF Call, Refuse, generator
  <2>2. IdTypeOK'
    BY <2>1 DEF IdInv, IdTypeOK
  <2>3. Spinning' <=> Spinning
    BY <2>1 DEF Spinning
  <2>4. GeneratorInv'
    BY <2>1, <2>3 DEF IdInv, GeneratorInv, BelowGenerator, Id, Stamp
  <2> QED
    BY <2>1, <2>2, <2>4 DEF IdInv, IncreasingIds
<1>2. ASSUME NEW t \in Threads, Overflow(t) PROVE IdInv'
  <2>1. /\ UNCHANGED <<clock, backs, restarts, lastTimestamp, issued>>
        /\ sequence' = 0 /\ clock = lastTimestamp /\ ~Spinning
        /\ pc' = [pc EXCEPT ![t] = "spin"]
    BY <1>2 DEF Overflow, MutexFree, Spinning
  <2>2. /\ pc' \in [Threads -> {"idle", "called", "spin"}] /\ Spinning'
        /\ \A u \in Threads : pc'[u] = "spin" => u = t
    BY <1>0, <2>1 DEF Spinning
  <2>3. IdTypeOK'
    BY <1>0, <2>1, <2>2 DEF IdInv, IdTypeOK
  <2>4. Id(lastTimestamp, sequence) <= Id(lastTimestamp, SeqSize - 1)
        /\ Id(lastTimestamp, sequence) \in Nat /\ Id(lastTimestamp, SeqSize - 1) \in Nat
    BY <1>0, <2>1, IdOrder, SnowflakeAssumption
  <2>5. \A x \in Nat : BelowGenerator(x) => BelowGenerator(x)'
    BY <1>0, <2>1, <2>2, <2>4 DEF BelowGenerator, Id, Stamp
  <2>6. GeneratorInv'
    BY <1>0, <1>s, <2>1, <2>2, <2>5 DEF IdInv, GeneratorInv
  <2> QED
    BY <2>1, <2>3, <2>6 DEF IdInv, IncreasingIds
<1>3. ASSUME NEW t \in Threads, SameMillis(t) PROVE IdInv'
  <2>1. /\ NextSequence \in 0..(SeqSize - 1) /\ sequence < NextSequence
    <3>1. sequence + 1 < SeqSize => NextSequence = sequence + 1
      BY <1>0, SnowflakeAssumption DEF NextSequence
    <3>2. sequence + 1 = SeqSize => NextSequence = 0
      BY <1>0, SnowflakeAssumption DEF NextSequence
    <3>3. NextSequence # 0
      BY <1>3 DEF SameMillis
    <3> QED
      BY <1>0, <3>1, <3>2, <3>3, SnowflakeAssumption
  <2>2. /\ clock = lastTimestamp /\ ~Spinning
        /\ Return(t, clock, NextSequence) /\ UNCHANGED <<clock, backs, restarts>>
        /\ \A u \in Threads : u # t => pc[u] # "spin"
    BY <1>3 DEF SameMillis, MutexFree, Spinning
  <2>3. Id(clock, sequence) < Id(clock, NextSequence)
        /\ Id(clock, sequence) \in Nat /\ Id(clock, NextSequence) \in Nat
    BY <1>0, <2>1, IdOrder
  <2>4. restarts = 0 \/ backs = 0 =>
          \A i \in DOMAIN issued : issued[i] < Id(clock, NextSequence)
    BY <1>0, <1>s, <2>2, <2>3 DEF IdInv, GeneratorInv, BelowGenerator
  <2> QED
    BY <2>1, <2>2, <2>4, ReturnKeeps
<1>4. ASSUME NEW t \in Threads, NewMillis(t) PROVE IdInv'
  <2>1. /\ clock > lastTimestamp /\ ~Spinning
        /\ Return(t, clock, 0) /\ UNCHANGED <<clock, backs, restarts>>
        /\ \A u \in Threads : u # t => pc[u] # "spin"
    BY <1>0, <1>4 DEF NewMillis, MutexFree, Spinning, ClockMovedBackwards
  <2>2. lastTimestamp # 0 => /\ Id(lastTimestamp, sequence) < Id(clock, 0)
                             /\ Id(lastTimestamp, sequence) \in Nat /\ Id(clock, 0) \in Nat
    BY <1>0, <2>1, IdOrder
  <2>3. restarts = 0 \/ backs = 0 => \A i \in DOMAIN issued : issued[i] < Id(clock, 0)
    BY <1>0, <1>s, <2>1, <2>2 DEF IdInv, GeneratorInv, BelowGenerator
  <2> QED
    BY <1>0, <2>1, <2>3, ReturnKeeps
<1>5. ASSUME NEW t \in Threads, TilNextMillis(t) PROVE IdInv'
  <2>1. /\ clock > lastTimestamp /\ Spinning /\ lastTimestamp # 0 /\ sequence = 0
        /\ Return(t, clock, sequence) /\ UNCHANGED <<clock, backs, restarts>>
        /\ \A u \in Threads : u # t => pc[u] # "spin"
    BY <1>0, <1>5 DEF TilNextMillis, MillisOver, Spinning, IdInv, GeneratorInv
  <2>2. /\ Id(lastTimestamp, SeqSize - 1) < Id(clock, sequence)
        /\ Id(lastTimestamp, SeqSize - 1) \in Nat /\ Id(clock, sequence) \in Nat
    BY <1>0, <2>1, IdOrder
  <2>3. restarts = 0 \/ backs = 0 => \A i \in DOMAIN issued : issued[i] < Id(clock, sequence)
    BY <1>0, <1>s, <2>1, <2>2 DEF IdInv, GeneratorInv, BelowGenerator
  <2> QED
    BY <1>0, <2>1, <2>3, ReturnKeeps
<1>6. ASSUME Tick PROVE IdInv'
  <2>1. /\ clock' = clock + 1 /\ clock' \in FirstClock..MaxClock
        /\ UNCHANGED <<backs, restarts, sequence, lastTimestamp, pc, issued>>
    BY <1>0, <1>6, SnowflakeAssumption DEF Tick, generator
  <2>2. IdTypeOK'
    BY <2>1 DEF IdInv, IdTypeOK
  <2>3. Id(clock, 0) < Id(clock', 0) /\ Id(clock, 0) \in Nat /\ Id(clock', 0) \in Nat
    BY <1>0, <2>1, IdOrder
  <2>4. \A x \in Nat : BelowGenerator(x) => BelowGenerator(x)'
    <3>1. (Spinning' <=> Spinning) /\ Id(lastTimestamp', sequence') = Id(lastTimestamp, sequence)
          /\ Id(lastTimestamp', SeqSize - 1) = Id(lastTimestamp, SeqSize - 1)
      BY <2>1 DEF Spinning
    <3> QED
      BY <2>1, <2>3, <3>1 DEF BelowGenerator
  <2>5. GeneratorInv'
    BY <1>0, <1>s, <2>1, <2>4 DEF IdInv, GeneratorInv, Spinning
  <2> QED
    BY <2>1, <2>2, <2>5 DEF IdInv, IncreasingIds
<1>7. ASSUME StepBack PROVE IdInv'
  <2>1. /\ backs' = backs + 1 /\ backs' # 0 /\ backs' \in 0..MaxBack
        /\ clock' \in FirstClock..MaxClock
        /\ UNCHANGED <<restarts, sequence, lastTimestamp, pc, issued>>
    BY <1>0, <1>7, SnowflakeAssumption DEF StepBack, generator, IdInv, IdTypeOK
  <2>2. IdTypeOK'
    BY <2>1 DEF IdInv, IdTypeOK
  <2>3. lastTimestamp # 0 => \A x \in Nat : BelowGenerator(x) => BelowGenerator(x)'
    BY <2>1 DEF BelowGenerator, Spinning, Id, Stamp
  <2>4. restarts = 0 => (\A i \in DOMAIN issued : BelowGenerator(issued[i]))'
    BY <1>s, <2>1, <2>3 DEF IdInv, GeneratorInv
  <2>5. GeneratorInv'
    BY <1>0, <2>1, <2>4 DEF IdInv, GeneratorInv, Spinning
  <2> QED
    BY <1>0, <2>1, <2>2, <2>5 DEF IdInv, IncreasingIds
<1>8. ASSUME Restart PROVE IdInv'
  <2>1. /\ clock' = clock + 1 /\ clock' \in FirstClock..MaxClock
        /\ restarts' = restarts + 1 /\ restarts' # 0 /\ restarts' \in 0..MaxRestarts
        /\ sequence' = 0 /\ lastTimestamp' = 0
        /\ pc' = [t \in Threads |-> "idle"]
        /\ UNCHANGED <<backs, issued>>
    BY <1>0, <1>8, SnowflakeAssumption DEF Restart, IdInv, IdTypeOK
  <2>2. IdTypeOK' /\ ~Spinning'
    BY <1>0, <2>1 DEF IdInv, IdTypeOK, Spinning
  <2>3. ASSUME backs = 0, NEW x \in Nat, BelowGenerator(x) PROVE x < Id(clock', 0)
    <3>1. Id(clock, 0) < Id(clock', 0) /\ Id(clock, 0) \in Nat /\ Id(clock', 0) \in Nat
      BY <1>0, <2>1, IdOrder
    <3>2. ASSUME lastTimestamp # 0
          PROVE  /\ Id(lastTimestamp, sequence) < Id(clock', 0)
                 /\ Id(lastTimestamp, SeqSize - 1) < Id(clock', 0)
                 /\ Id(lastTimestamp, sequence) \in Nat /\ Id(lastTimestamp, SeqSize - 1) \in Nat
      <4>1. lastTimestamp < clock'
        BY <1>0, <2>1, <2>3 DEF IdInv, GeneratorInv
      <4> QED
        BY <1>0, <2>1, <3>2, <4>1, IdOrder
    <3> QED
      BY <2>3, <3>1, <3>2 DEF BelowGenerator
  <2>4. backs = 0 => \A i \in DOMAIN issued : issued[i] < Id(clock', 0)
    BY <1>0, <1>s, <2>3 DEF IdInv, GeneratorInv
  <2>5. GeneratorInv'
    BY <1>0, <2>1, <2>2, <2>4 DEF GeneratorInv, BelowGenerator, Spinning
  <2> QED
    BY <1>0, <2>1, <2>2, <2>5 DEF IdInv, IncreasingIds
<1>9. ASSUME UNCHANGED idVars PROVE IdInv'
  BY <1>9 DEF idVars, generator, IdInv, IdTypeOK, IncreasingIds, GeneratorInv, Spinning,
     BelowGenerator, Id, Stamp
<1> QED
  BY <1>1, <1>2, <1>3, <1>4, <1>5, <1>6, <1>7, <1>8, <1>9 DEF IdNext, NextId

\* Every id is greater than all ids handed out before it, across threads,
\* overflows of the sequence and clocks that were stepped back, and also across
\* restarts if the clock was never stepped back.
THEOREM SnowflakeIncreasing == IdSpec => []IncreasingIds
<1>1. IdInv => IncreasingIds
  BY DEF IdInv
<1> QED
  BY <1>1, IdInvInit, IdInvNext, PTL DEF IdSpec

\* The generator's fields stay in range: the sequence fits its twelve bits.
THEOREM SnowflakeTypeCorrect == IdSpec => []IdTypeOK
<1>1. IdInv => IdTypeOK
  BY DEF IdInv
<1> QED
  BY <1>1, IdInvInit, IdInvNext, PTL DEF IdSpec

---------------------------------------------------------------------------
(***************************************************************************)
(* The ids in the database.                                                *)
(***************************************************************************)
LEMMA Division ==
  ASSUME NEW v \in Nat, NEW m \in Nat \ {0}
  PROVE  \E q \in Nat, r \in Nat : q = v \div m /\ r = v % m /\ v = q * m + r /\ r < m
<1>1. v \div m \in Nat /\ v % m \in Nat /\ v % m < m
  BY SMT
<1>2. v = (v \div m) * m + (v % m)
  BY SMT
<1> QED
  BY <1>1, <1>2

LEMMA Quotient ==
  ASSUME NEW k \in Nat, NEW r \in Nat, NEW m \in Nat \ {0}, r < m
  PROVE  (k * m + r) \div m = k
<1>1. PICK v \in Nat : v = k * m + r
  BY SMT
<1>2. PICK q \in Nat, t \in Nat : q = v \div m /\ v = q * m + t /\ t < m
  BY Division
<1>3. PICK a \in Nat : a = k * m
  BY SMT
<1>4. PICK b \in Nat : b = q * m
  BY SMT
<1>5. q < k => b + m <= a
  BY <1>3, <1>4, ProductGrows
<1>6. k < q => a + m <= b
  BY <1>3, <1>4, ProductGrows
<1>7. q = k
  BY <1>1, <1>2, <1>3, <1>4, <1>5, <1>6
<1> QED
  BY <1>1, <1>2, <1>7

\* A double is at most half a step away from the number.
LEMMA DoubleNear ==
  ASSUME NEW v \in Nat, Ulp \in Nat \ {0}
  PROVE  \E d \in Nat : /\ d = AsDouble(v) * Ulp
                        /\ 2 * v <= 2 * d + Ulp /\ 2 * d <= 2 * v + Ulp
<1>1. PICK q \in Nat, r \in Nat : /\ q = v \div Ulp /\ r = v % Ulp
                                  /\ v = q * Ulp + r /\ r < Ulp
  BY Division
<1>2. PICK d \in Nat : d = q * Ulp
  BY <1>1, SMT
<1>3. (q + 1) * Ulp = d + Ulp
  BY <1>1, <1>2, SMT
<1>4. \/ AsDouble(v) = q /\ 2 * r <= Ulp
      \/ AsDouble(v) = q + 1 /\ 2 * r >= Ulp
  BY <1>1 DEF AsDouble
<1>5. CASE AsDouble(v) = q /\ 2 * r <= Ulp
  BY <1>1, <1>2, <1>5
<1>6. CASE AsDouble(v) = q + 1 /\ 2 * r >= Ulp
  <2>1. d + Ulp \in Nat /\ 2 * v <= 2 * (d + Ulp) + Ulp /\ 2 * (d + Ulp) <= 2 * v + Ulp
    BY <1>1, <1>2, <1>6
  <2> QED
    BY <1>3, <1>6, <2>1
<1> QED
  BY <1>4, <1>5, <1>6

\* Numbers with one double are at most a step apart.
LEMMA SameNumberNear ==
  ASSUME NEW a \in Nat, NEW b \in Nat, Ulp \in Nat \ {0}, SameNumber(a, b)
  PROVE  a <= b + Ulp
<1>1. PICK d \in Nat : d = AsDouble(a) * Ulp /\ 2 * a <= 2 * d + Ulp
  BY DoubleNear
<1>2. PICK e \in Nat : e = AsDouble(b) * Ulp /\ 2 * e <= 2 * b + Ulp
  BY DoubleNear
<1>3. d = e
  BY <1>1, <1>2 DEF SameNumber
<1> QED
  BY <1>1, <1>2, <1>3

\* The millisecond of an id, and how far the ids of two of them are apart.
LEMMA IdMilli ==
  ASSUME MilliSize = NodeSize * SeqSize, NEW ts \in FirstClock..MaxClock, NEW x \in 0..(SeqSize - 1)
  PROVE  \E p \in Nat, r \in Nat :
           /\ p = (ts - Twepoch) * MilliSize /\ Id(ts, x) = p + r /\ r < MilliSize
           /\ Node * SeqSize <= r /\ r < Node * SeqSize + SeqSize
           /\ Milli(Id(ts, x)) = ts - Twepoch
<1> DEFINE n == Node * SeqSize
<1>1. MilliSize \in Nat /\ n \in Nat /\ n + SeqSize <= MilliSize
  BY ProductGrows, SnowflakeAssumption
<1>2. PICK s \in Nat : s = Stamp(ts) /\ s = ts - Twepoch
  BY StampExact, SnowflakeAssumption
<1>3. PICK r \in Nat : r = n + x /\ n <= r /\ r < n + SeqSize
  BY <1>1, SnowflakeAssumption
<1>4. PICK p \in Nat : p = s * MilliSize
  BY <1>1, <1>2, SMT
<1>5. Id(ts, x) = p + r
  BY <1>2, <1>3, <1>4 DEF Id
<1> HIDE DEF n
<1>6. r < MilliSize /\ MilliSize \in Nat \ {0}
  BY <1>1, <1>3, SnowflakeAssumption
<1>7. (s * MilliSize + r) \div MilliSize = s
  BY <1>3, <1>6, Quotient
<1>8. Milli(Id(ts, x)) = s
  BY <1>4, <1>5, <1>7 DEF Milli
<1> QED
  BY <1>2, <1>3, <1>4, <1>5, <1>6, <1>8 DEF n

\* Two ids with one double are of one millisecond: the ids of different milliseconds
\* differ by more than a step, because the sequence fills a part of the field only.
LEMMA DoublesOfIds ==
  ASSUME MilliSize = NodeSize * SeqSize, Ulp \in Nat \ {0}, SeqSize + Ulp < MilliSize,
         NEW ts \in FirstClock..MaxClock, NEW us \in FirstClock..MaxClock,
         NEW x \in 0..(SeqSize - 1), NEW y \in 0..(SeqSize - 1),
         SameNumber(Id(ts, x), Id(us, y))
  PROVE  ~(ts < us) /\ ~(us < ts)
<1>1. PICK p \in Nat, a \in Nat :
        /\ p = (ts - Twepoch) * MilliSize /\ Id(ts, x) = p + a
        /\ Node * SeqSize <= a /\ a < Node * SeqSize + SeqSize
  BY IdMilli
<1>2. PICK q \in Nat, b \in Nat :
        /\ q = (us - Twepoch) * MilliSize /\ Id(us, y) = q + b
        /\ Node * SeqSize <= b /\ b < Node * SeqSize + SeqSize
  BY IdMilli
<1>3. PICK n \in Nat : n = Node * SeqSize
  BY SnowflakeAssumption, SMT
<1>4. /\ ts - Twepoch \in Nat /\ us - Twepoch \in Nat /\ SeqSize \in Nat /\ MilliSize \in Nat
      /\ ts \in Nat /\ us \in Nat /\ Twepoch \in Nat
  BY SnowflakeAssumption
<1>5. p + a <= q + b + Ulp /\ q + b <= p + a + Ulp
  BY <1>1, <1>2, SameNumberNear DEF SameNumber
<1>6. ts < us => p + MilliSize <= q
  BY <1>1, <1>2, <1>4, ProductGrows
<1>7. us < ts => q + MilliSize <= p
  BY <1>1, <1>2, <1>4, ProductGrows
<1> QED
  BY <1>1, <1>2, <1>3, <1>4, <1>5, <1>6, <1>7

\* Every id was composed from a time and a sequence number within their fields.
ComposedIds ==
  \A i \in DOMAIN issued :
    \E ts \in FirstClock..MaxClock, seq \in 0..(SeqSize - 1) : issued[i] = Id(ts, seq)

LEMMA ReturnComposes ==
  ASSUME IdTypeOK, ComposedIds, NEW t \in Threads, NEW seq \in 0..(SeqSize - 1), Return(t, clock, seq)
  PROVE  ComposedIds'
<1>1. issued \in Seq(Nat) /\ issued' = Append(issued, Id(clock, seq)) /\ clock \in FirstClock..MaxClock
  BY DEF IdTypeOK, Return
<1>2. /\ Len(issued) \in Nat /\ DOMAIN issued = 1..Len(issued) /\ DOMAIN issued' = 1..(Len(issued) + 1)
      /\ issued'[Len(issued) + 1] = Id(clock, seq)
      /\ \A i \in 1..Len(issued) : issued'[i] = issued[i]
  BY <1>1
<1>3. \A i \in DOMAIN issued' : i \in DOMAIN issued \/ i = Len(issued) + 1
  BY <1>2
<1> QED
  BY <1>1, <1>2, <1>3 DEF ComposedIds

LEMMA ComposedAlways == IdSpec => []ComposedIds
<1>1. IdInit => ComposedIds
  BY DEF IdInit, ComposedIds
<1>2. IdTypeOK /\ ComposedIds /\ [IdNext]_idVars => ComposedIds'
  <2> SUFFICES ASSUME IdTypeOK, ComposedIds, [IdNext]_idVars PROVE ComposedIds'
    OBVIOUS
  <2>1. 0 \in 0..(SeqSize - 1) /\ sequence \in 0..(SeqSize - 1) /\ NextSequence \in 0..(SeqSize - 1)
    <3>1. sequence \in Nat /\ SeqSize \in Nat /\ 1 < SeqSize
      BY SnowflakeAssumption DEF IdTypeOK
    <3> QED
      BY <3>1 DEF IdTypeOK, NextSequence
  <2>2. ASSUME NEW t \in Threads, SameMillis(t) \/ NewMillis(t) \/ TilNextMillis(t) PROVE ComposedIds'
    BY <2>1, <2>2, ReturnComposes DEF SameMillis, NewMillis, TilNextMillis
  <2>3. CASE UNCHANGED issued
    BY <2>3 DEF ComposedIds, Id, Stamp
  <2> QED
    BY <2>2, <2>3 DEF IdNext, Call, NextId, Refuse, Overflow, Tick, StepBack, Restart, idVars
<1> QED
  BY <1>1, <1>2, SnowflakeTypeCorrect, PTL DEF IdSpec

\* Ids of two milliseconds are two numbers.
MillisApart ==
  \A i, j \in DOMAIN issued : SameNumber(issued[i], issued[j]) => Milli(issued[i]) = Milli(issued[j])

\* A statement that names an id without quotes finds no row but those of the same
\* millisecond, whatever ids nextId has handed out, before and after restarts and
\* clocks stepped back: the sequence and a step between doubles (2^12 and 128) fit
\* into the ids of a millisecond (2^22).
THEOREM SnowflakeMillisApart ==
  ASSUME MilliSize = NodeSize * SeqSize, Ulp \in Nat \ {0}, SeqSize + Ulp < MilliSize
  PROVE  IdSpec => []MillisApart
<1>1. ComposedIds => MillisApart
  <2> SUFFICES ASSUME ComposedIds, NEW i \in DOMAIN issued, NEW j \in DOMAIN issued,
                      SameNumber(issued[i], issued[j])
               PROVE  Milli(issued[i]) = Milli(issued[j])
    BY DEF MillisApart
  <2>1. PICK ts \in FirstClock..MaxClock, x \in 0..(SeqSize - 1) : issued[i] = Id(ts, x)
    BY DEF ComposedIds
  <2>2. PICK us \in FirstClock..MaxClock, y \in 0..(SeqSize - 1) : issued[j] = Id(us, y)
    BY DEF ComposedIds
  <2>3. ts = us
    <3>1. ~(ts < us) /\ ~(us < ts)
      BY <2>1, <2>2, DoublesOfIds
    <3> QED
      BY <3>1, SnowflakeAssumption
  <2>4. Milli(issued[i]) = ts - Twepoch /\ Milli(issued[j]) = us - Twepoch
    BY <2>1, <2>2, IdMilli
  <2> QED
    BY <2>3, <2>4
<1> QED
  BY <1>1, ComposedAlways, PTL
LEMMA Remainder ==
  ASSUME NEW k \in Nat, NEW r \in Nat, NEW m \in Nat \ {0}, r < m
  PROVE  (k * m + r) % m = r
<1>1. PICK v \in Nat : v = k * m + r
  BY SMT
<1>2. PICK q \in Nat, t \in Nat : q = v \div m /\ t = v % m /\ v = q * m + t
  BY Division
<1>3. q = k
  BY <1>1, <1>2, Quotient
<1>4. PICK a \in Nat : a = k * m
  BY SMT
<1> QED
  BY <1>1, <1>2, <1>3, <1>4

\* Ids fill only the low end of their millisecond.
IdsLow == \A i \in DOMAIN issued : issued[i] % MilliSize < SeqSize

\* With the datacenter and the worker that the constructor sets, every id handed out
\* is what Reactions assumes of the ids in the tables, with SeqSize for MilliIds.
THEOREM SnowflakeIdsLow ==
  ASSUME MilliSize = NodeSize * SeqSize, Node = 0
  PROVE  IdSpec => []IdsLow
<1>1. ComposedIds => IdsLow
  <2> SUFFICES ASSUME ComposedIds, NEW i \in DOMAIN issued PROVE issued[i] % MilliSize < SeqSize
    BY DEF IdsLow
  <2>1. PICK ts \in FirstClock..MaxClock, x \in 0..(SeqSize - 1) : issued[i] = Id(ts, x)
    BY DEF ComposedIds
  <2>2. PICK p \in Nat, r \in Nat :
          /\ p = (ts - Twepoch) * MilliSize /\ issued[i] = p + r /\ r < MilliSize
          /\ r < Node * SeqSize + SeqSize
    BY <2>1, IdMilli
  <2>3. r < SeqSize
    BY <2>2, SnowflakeAssumption
  <2>4. ts - Twepoch \in Nat /\ MilliSize \in Nat \ {0}
    <3>1. MilliSize \in Nat
      BY SnowflakeAssumption, SMT
    <3> QED
      BY <2>2, <3>1, SnowflakeAssumption
  <2>5. issued[i] % MilliSize = r
    BY <2>2, <2>4, Remainder
  <2> QED
    BY <2>3, <2>5
<1> QED
  BY <1>1, ComposedAlways, PTL

---------------------------------------------------------------------------
(***************************************************************************)
(* The tables.                                                             *)
(***************************************************************************)
\* Ids with one double are of one millisecond.
LEMMA SameNumberMilli ==
  ASSUME NEW v \in Ids, NEW w \in Ids, SameNumber(v, w)
  PROVE  Milli(v) = Milli(w)
<1>1. /\ v \in Nat /\ w \in Nat /\ MilliSize \in Nat \ {0} /\ MilliIds \in Nat /\ Ulp \in Nat \ {0}
      /\ MilliIds + Ulp < MilliSize /\ v % MilliSize < MilliIds /\ w % MilliSize < MilliIds
  BY ReactionsAssumption
<1>2. PICK q \in Nat, r \in Nat : q = v \div MilliSize /\ r = v % MilliSize /\ v = q * MilliSize + r
  BY <1>1, Division
<1>3. PICK p \in Nat, s \in Nat : p = w \div MilliSize /\ s = w % MilliSize /\ w = p * MilliSize + s
  <2>1. w \in Nat /\ MilliSize \in Nat \ {0}
    BY <1>1
  <2> QED
    BY <2>1, Division
<1>4. PICK a \in Nat : a = q * MilliSize
  BY <1>1, SMT
<1>5. PICK b \in Nat : b = p * MilliSize
  BY <1>1, SMT
<1>6. v <= w + Ulp /\ w <= v + Ulp
  <2>1. SameNumber(v, w) /\ SameNumber(w, v)
    BY DEF SameNumber, AsDouble, SameNumber, AsDouble
  <2> QED
    BY <1>1, <2>1, SameNumberNear
<1>7. (q < p => a + MilliSize <= b) /\ (p < q => b + MilliSize <= a)
  BY <1>1, <1>4, <1>5, ProductGrows
<1>8. q = p
  BY <1>1, <1>2, <1>3, <1>4, <1>5, <1>6, <1>7
<1> QED
  BY <1>2, <1>3, <1>8 DEF Milli

\* Positions in the table Video are finitely many.
LEMMA PositionsFinite ==
  ASSUME TypeOK, NEW S \in SUBSET (DOMAIN Video)
  PROVE  IsFiniteSet(S) /\ Cardinality(S) \in Nat
<1>1. Len(Video) \in Nat /\ DOMAIN Video = 1..Len(Video)
  BY DEF TypeOK
<1>2. IsFiniteSet(DOMAIN Video)
  BY <1>1, FS_Interval
<1>3. IsFiniteSet(S)
  BY <1>2, FS_Subset
<1> QED
  BY <1>3, FS_CardinalityType

\* An increasing sequence of positions has left j - 1 of them behind at its j-th.
LEMMA IncreasingAhead ==
  ASSUME NEW n \in Nat, NEW f \in [1..n -> Nat \ {0}],
         \A i, j \in 1..n : i < j => f[i] < f[j],
         NEW j \in 1..n
  PROVE  j <= f[j]
<1> DEFINE g == [i \in 1..j |-> f[i]]
<1>1. \A i \in 1..j : i \in 1..n /\ f[i] \in Nat \ {0} /\ f[i] <= f[j]
  OBVIOUS
<1>2. g \in [1..j -> 1..f[j]]
  BY <1>1
<1>3. \A a, b \in 1..j : f[a] = f[b] => a = b
  <2> SUFFICES ASSUME NEW a \in 1..j, NEW b \in 1..j, a # b PROVE f[a] # f[b]
    OBVIOUS
  <2>1. a \in 1..n /\ b \in 1..n /\ (a < b \/ b < a)
    BY <1>1
  <2>2. f[a] \in Nat /\ f[b] \in Nat /\ (f[a] < f[b] \/ f[b] < f[a])
    BY <1>1, <2>1
  <2> QED
    BY <2>2
<1>4. g \in Injection(1..j, 1..f[j])
  BY <1>2, <1>3 DEF Injection, IsInjective
<1> HIDE DEF g
<1>5. j \in Nat /\ 1 <= j /\ f[j] \in Nat /\ 1 <= f[j]
  BY <1>1
<1>6. IsFiniteSet(1..f[j]) /\ Cardinality(1..f[j]) = f[j] /\ Cardinality(1..j) = j
  BY <1>5, FS_Interval
<1> QED
  BY <1>4, <1>6, FS_Injection

\* The table after a deletion: the rows kept, in their order, none of them further back.
LEMMA DeletionKeeps ==
  ASSUME TypeOK, NEW v \in Ids,
         NEW f \in Enumerations(Kept(v)), NEW rows, rows = [i \in DOMAIN f |-> Video[f[i]]]
  PROVE  /\ rows \in Seq(Ids) /\ DOMAIN rows = DOMAIN f
         /\ \A j \in DOMAIN f : /\ j \in Nat /\ f[j] \in Kept(v) /\ f[j] \in Nat /\ j <= f[j]
                                /\ rows[j] = Video[f[j]]
         /\ \A k \in Kept(v) : \E j \in DOMAIN f : f[j] = k
<1>1. /\ Video \in Seq(Ids) /\ Len(Video) \in Nat /\ DOMAIN Video = 1..Len(Video)
      /\ Kept(v) \subseteq DOMAIN Video
  BY DEF TypeOK, Kept
<1>2. PICK n \in Nat : n = Cardinality(Kept(v))
  BY <1>1, PositionsFinite
<1>3. /\ f \in [1..n -> Kept(v)] /\ DOMAIN f = 1..n
      /\ \A k \in Kept(v) : \E j \in 1..n : f[j] = k
      /\ \A i, j \in 1..n : i < j => f[i] < f[j]
  BY <1>2 DEF Enumerations, Bijection, Injection, Surjection
<1>4. Kept(v) \subseteq Nat \ {0}
  BY <1>1
<1>5. f \in [1..n -> Nat \ {0}]
  BY <1>3, <1>4
<1>6. \A j \in 1..n : j <= f[j]
  BY <1>3, <1>5, IncreasingAhead
<1>7. \A j \in 1..n : rows[j] = Video[f[j]] /\ rows[j] \in Ids
  BY <1>1, <1>3
<1>8. rows \in [1..n -> Ids]
  BY <1>3, <1>7
<1>9. rows \in Seq(Ids)
  BY <1>8, SMT
<1> QED
  BY <1>3, <1>4, <1>6, <1>7, <1>9

\* A page: the rows that follow the offset.
LEMMA PageFollows ==
  ASSUME TypeOK, offset < Len(Video)
  PROVE  /\ Len(Page(offset)) \in Nat /\ DOMAIN Page(offset) = 1..Len(Page(offset))
         /\ offset + Len(Page(offset)) <= Len(Video)
         /\ \A i \in DOMAIN Page(offset) : Page(offset)[i] = Video[offset + i]
<1> DEFINE last == Smaller(offset + PageSize, Len(Video))
<1>1. /\ Video \in Seq(Ids) /\ Len(Video) \in Nat /\ offset \in Nat /\ PageSize \in Nat \ {0}
  BY ReactionsAssumption DEF TypeOK
<1>2. last \in Nat /\ offset + 1 <= last /\ last <= Len(Video)
  BY <1>1 DEF Smaller
<1>3. Page(offset) = SubSeq(Video, offset + 1, last)
  BY DEF Page
<1> HIDE DEF last
<1>4. /\ Len(SubSeq(Video, offset + 1, last)) = last - offset
      /\ DOMAIN SubSeq(Video, offset + 1, last) = 1..(last - offset)
      /\ \A i \in 1..(last - offset) : SubSeq(Video, offset + 1, last)[i] = Video[offset + i]
  BY <1>1, <1>2
<1> QED
  BY <1>1, <1>2, <1>3, <1>4

---------------------------------------------------------------------------
\* The types are preserved.
LEMMA ReactionsTypeInit == Init => TypeOK
BY DEF Init, TypeOK

LEMMA ReactionsTypeNext ==
  ASSUME TypeOK, [Next]_vars
  PROVE  TypeOK'
<1>0. /\ Video \in Seq(Ids) /\ VideoLike \subseteq Ids \X Users \X (1..MaxRows)
      /\ del \in [Handlers -> Ids \cup {None}]
      /\ offset \in Nat /\ seen \subseteq Ids /\ lostRows \in Nat
      /\ wish \subseteq Ids \X Users /\ again \subseteq wish /\ failed \subseteq Ids \X Users
      /\ inserted \subseteq Ids
  BY DEF TypeOK, Likes
<1>1. ASSUME NEW v \in Ids, InsertVideo(v) PROVE TypeOK'
  <2>1. Append(Video, v) \in Seq(Ids) /\ inserted \cup {v} \subseteq Ids
    BY <1>0
  <2> QED
    BY <1>0, <1>1, <2>1 DEF InsertVideo, TypeOK, viewer, Likes
<1>2. ASSUME NEW v \in Ids, NEW u \in Users, Like(v, u) \/ LikeFails(v, u) PROVE TypeOK'
  <2>1. VideoLike' \subseteq Ids \X Users \X (1..MaxRows)
    <3>1. CASE Like(v, u)
      BY <1>0, <3>1 DEF Like
    <3>2. CASE LikeFails(v, u)
      BY <1>0, <3>2 DEF LikeFails, tables
    <3> QED
      BY <1>2, <3>1, <3>2
  <2>2. /\ wish' \subseteq Ids \X Users /\ again' \subseteq wish'
        /\ failed' \subseteq Ids \X Users
    <3>1. CASE Like(v, u)
      BY <1>0, <3>1 DEF Like
    <3>2. CASE LikeFails(v, u)
      BY <1>0, <3>2 DEF LikeFails
    <3> QED
      BY <1>2, <3>1, <3>2
  <2>3. UNCHANGED <<Video, del, viewer, inserted>>
    BY <1>2 DEF Like, LikeFails, tables
  <2> QED
    BY <1>0, <2>1, <2>2, <2>3 DEF TypeOK, viewer, Likes
<1>3. ASSUME NEW v \in Ids, NEW u \in Users, Unlike(v, u) \/ UnlikeFails(v, u) PROVE TypeOK'
  <2>1. /\ VideoLike' \subseteq VideoLike /\ wish' \subseteq wish /\ again' \subseteq wish'
        /\ failed' \subseteq Ids \X Users
    BY <1>0, <1>3 DEF Unlike, Unliked, UnlikeFails, tables
  <2>2. UNCHANGED <<Video, del, viewer, inserted>>
    BY <1>3 DEF Unlike, UnlikeFails, tables
  <2> QED
    BY <1>0, <2>1, <2>2 DEF TypeOK, viewer, Likes
<1>4. ASSUME NEW h \in Handlers, DeleteLikes(h) \/ DeleteLikesFails(h) PROVE TypeOK'
  <2>1. /\ VideoLike' \subseteq VideoLike /\ wish' \subseteq wish /\ again' \subseteq wish'
        /\ failed' \subseteq Ids \X Users
    BY <1>0, <1>4 DEF DeleteLikes, LikesLeft, DeleteLikesFails, tables
  <2>2. del' \in [Handlers -> Ids \cup {None}] /\ UNCHANGED <<Video, viewer, inserted>>
    BY <1>0, <1>4 DEF DeleteLikes, DeleteLikesFails, tables
  <2> QED
    BY <1>0, <2>1, <2>2 DEF TypeOK, viewer, Likes
<1>5. ASSUME NEW h \in Handlers, NEW v \in Ids, DeleteVideo(h, v) PROVE TypeOK'
  <2>1. Video' \in Seq(Ids)
    BY <1>5, DeletionKeeps DEF DeleteVideo
  <2> DEFINE gone == {i \in DOMAIN Video : i <= offset /\ SameNumber(v, Video[i])}
  <2>2. lostRows' \in Nat
    <3>1. gone \in SUBSET DOMAIN Video
      OBVIOUS
    <3>2. Cardinality(gone) \in Nat
      BY <3>1, PositionsFinite
    <3>3. lostRows' = lostRows + Cardinality(gone)
      BY <1>5 DEF DeleteVideo
    <3> QED
      BY <1>0, <3>2, <3>3
  <2>3. del' \in [Handlers -> Ids \cup {None}]
    BY <1>0, <1>5 DEF DeleteVideo
  <2> QED
    BY <1>0, <1>5, <2>1, <2>2, <2>3 DEF DeleteVideo, TypeOK, Likes, history
<1>8. ASSUME NEW h \in Handlers, NEW v \in Ids, DeleteVideoFails(h, v) PROVE TypeOK'
  <2>1. del' \in [Handlers -> Ids \cup {None}]
    BY <1>0, <1>8 DEF DeleteVideoFails
  <2> QED
    BY <1>0, <1>8, <2>1 DEF DeleteVideoFails, TypeOK, Likes, tables, viewer, history
<1>6. ASSUME NextPage PROVE TypeOK'
  <2>1. offset < Len(Video)
    BY <1>6 DEF NextPage
  <2>2. /\ Len(Page(offset)) \in Nat /\ DOMAIN Page(offset) = 1..Len(Page(offset))
        /\ offset + Len(Page(offset)) <= Len(Video)
        /\ \A i \in DOMAIN Page(offset) : Page(offset)[i] = Video[offset + i]
    BY <2>1, PageFollows
  <2>3. Len(Video) \in Nat /\ DOMAIN Video = 1..Len(Video) /\ \A i \in 1..Len(Video) : Video[i] \in Ids
    BY <1>0
  <2>4. \A i \in DOMAIN Page(offset) : Page(offset)[i] \in Ids
    <3> SUFFICES ASSUME NEW i \in DOMAIN Page(offset) PROVE Page(offset)[i] \in Ids
      OBVIOUS
    <3>1. offset + i \in 1..Len(Video)
      BY <1>0, <2>2, <2>3
    <3> QED
      BY <2>2, <2>3, <3>1
  <2>5. /\ seen' = seen \cup {Page(offset)[i] : i \in DOMAIN Page(offset)}
        /\ offset' = offset + Len(Page(offset))
    BY <1>6 DEF NextPage
  <2>6. seen' \subseteq Ids
    BY <1>0, <2>4, <2>5
  <2>7. offset' \in Nat
    BY <1>0, <2>2, <2>5
  <2> QED
    BY <1>0, <1>6, <2>6, <2>7 DEF NextPage, TypeOK, tables, history, Likes
<1>7. ASSUME UNCHANGED vars PROVE TypeOK'
  BY <1>7 DEF vars, tables, viewer, history, TypeOK, Likes
<1> QED
  BY <1>1, <1>2, <1>3, <1>4, <1>5, <1>6, <1>7, <1>8 DEF Next

\* The rows of the tables and what the model remembers about them keep their types.
THEOREM ReactionsTypeCorrect == Spec => []TypeOK
BY ReactionsTypeInit, ReactionsTypeNext, PTL DEF Spec

---------------------------------------------------------------------------
(***************************************************************************)
(* Likes.  A video that is the only one of its millisecond shares its      *)
(* double with no other, so only requests about it touch its rows: a user  *)
(* has rows exactly if his last request was a like, and one row unless he  *)
(* sent it again, as long as the statement of that request did not fail.   *)
(***************************************************************************)
HasRow(v, u) == \E n \in 1..MaxRows : <<v, u, n>> \in VideoLike

OneRow(v, u) ==
  \A m, n \in 1..MaxRows : <<v, u, m>> \in VideoLike /\ <<v, u, n>> \in VideoLike => m = n

LikesStand(v, u) ==
  <<v, u>> \notin failed =>
    /\ <<v, u>> \in wish <=> HasRow(v, u)
    /\ <<v, u>> \in wish \ again => OneRow(v, u)

LikesInv == \A v \in Ids, u \in Users : Alone(v) => LikesStand(v, u)

\* A video that is alone in its millisecond is the only one with its double.
LEMMA AloneNumber ==
  ASSUME NEW v \in Ids, Alone(v), NEW w \in Ids,
         SameNumber(v, w) \/ SameNumber(w, v)
  PROVE  w = v
<1>1. Milli(w) = Milli(v)
  BY SameNumberMilli
<1> QED
  BY <1>1 DEF Alone

LEMMA SameNumberSelf == \A v : SameNumber(v, v)
BY DEF SameNumber

LEMMA LikesInvNext ==
  ASSUME TypeOK, LikesInv, [Next]_vars
  PROVE  LikesInv'
<1> SUFFICES ASSUME NEW v \in Ids, NEW u \in Users, Alone(v) PROVE LikesStand(v, u)'
  BY DEF LikesInv, Alone, Milli
<1>0. /\ LikesStand(v, u)
      /\ VideoLike \subseteq Ids \X Users \X (1..MaxRows) /\ again \subseteq wish
      /\ MaxRows \in Nat
      /\ del \in [Handlers -> Ids \cup {None}]
  BY ReactionsAssumption DEF LikesInv, TypeOK
<1>1. ASSUME NEW w \in Ids, NEW x \in Users, Like(w, x) PROVE LikesStand(v, u)'
  <2>1. PICK n \in 1..MaxRows : VideoLike' = VideoLike \cup {<<w, x, n>>}
    BY <1>1 DEF Like
  <2>2. CASE w = v /\ x = u
    <3>1. wish' = wish \cup {<<v, u>>} /\ again' = again \cup ({<<v, u>>} \cap (wish \cup failed))
      BY <1>1, <2>2 DEF Like, Followed, Likes
    <3>2. HasRow(v, u)'
      BY <2>1, <2>2 DEF HasRow
    <3>3. <<v, u>> \notin wish \cup failed => OneRow(v, u)'
      <4>1. <<v, u>> \notin wish \cup failed => \A m \in 1..MaxRows : <<v, u, m>> \notin VideoLike
        BY <1>0 DEF LikesStand, HasRow
      <4>2. <<v, u>> \notin wish \cup failed => \A m \in 1..MaxRows : <<v, u, m>> \in VideoLike' => m = n
        BY <2>1, <2>2, <4>1
      <4> QED
        BY <4>2 DEF OneRow
    <3> QED
      BY <3>1, <3>2, <3>3 DEF LikesStand
  <2>3. CASE w # v \/ x # u
    <3>1. <<w, x>> # <<v, u>> /\ \A m, k : <<w, x, m>> # <<v, u, k>>
      BY <2>3
    <3>2. \A m : <<v, u, m>> \in VideoLike' <=> <<v, u, m>> \in VideoLike
      BY <2>1, <3>1
    <3>3. /\ <<v, u>> \in wish' <=> <<v, u>> \in wish
          /\ <<v, u>> \in again' <=> <<v, u>> \in again
          /\ <<v, u>> \in failed' <=> <<v, u>> \in failed
      BY <1>1, <3>1 DEF Like
    <3> QED
      BY <1>0, <3>2, <3>3 DEF LikesStand, HasRow, OneRow
  <2> QED
    BY <2>2, <2>3
<1>2. ASSUME NEW w \in Ids, NEW x \in Users, Unlike(w, x) PROVE LikesStand(v, u)'
  <2>1. VideoLike' = {r \in VideoLike : ~(SameNumber(r[1], w) /\ r[2] = x)}
    BY <1>2 DEF Unlike, Unliked
  <2>2. \A m : <<v, u, m>> \in VideoLike' <=>
                 <<v, u, m>> \in VideoLike /\ ~(SameNumber(v, w) /\ u = x)
    BY <2>1
  <2>3. SameNumber(v, w) <=> v = w
    BY AloneNumber, SameNumberSelf
  <2>4. wish' = wish \ {<<w, x>>} /\ again' = again \ {<<w, x>>} /\ failed' = failed \ {<<w, x>>}
    BY <1>2 DEF Unlike
  <2>5. CASE v = w /\ u = x
    <3>1. ~HasRow(v, u)' /\ <<v, u>> \notin wish'
      BY <2>2, <2>3, <2>4, <2>5 DEF HasRow
    <3> QED
      BY <3>1 DEF LikesStand
  <2>6. CASE ~(v = w /\ u = x)
    <3>1. <<w, x>> # <<v, u>>
      BY <2>6
    <3>2. \A m : <<v, u, m>> \in VideoLike' <=> <<v, u, m>> \in VideoLike
      BY <2>2, <2>3, <2>6
    <3>3. /\ <<v, u>> \in wish' <=> <<v, u>> \in wish
          /\ <<v, u>> \in again' <=> <<v, u>> \in again
          /\ <<v, u>> \in failed' <=> <<v, u>> \in failed
      BY <2>4, <3>1
    <3> QED
      BY <1>0, <3>2, <3>3 DEF LikesStand, HasRow, OneRow
  <2> QED
    BY <2>5, <2>6
<1>3. ASSUME NEW h \in Handlers, DeleteLikes(h) PROVE LikesStand(v, u)'
  <2>1. /\ del[h] \in Ids
        /\ VideoLike' = {r \in VideoLike : ~SameNumber(r[1], del[h])}
        /\ wish' = {l \in wish : l[1] # del[h]} /\ again' = {l \in again : l[1] # del[h]}
        /\ failed' = {l \in failed : l[1] # del[h]}
    BY <1>0, <1>3 DEF DeleteLikes, LikesLeft
  <2>2. SameNumber(v, del[h]) <=> v = del[h]
    BY <2>1, AloneNumber, SameNumberSelf
  <2>3. \A m : <<v, u, m>> \in VideoLike' <=> <<v, u, m>> \in VideoLike /\ v # del[h]
    BY <2>1, <2>2
  <2>4. /\ <<v, u>> \in wish' <=> <<v, u>> \in wish /\ v # del[h]
        /\ <<v, u>> \in again' <=> <<v, u>> \in again /\ v # del[h]
        /\ <<v, u>> \in failed' <=> <<v, u>> \in failed /\ v # del[h]
    BY <2>1
  <2> QED
    BY <1>0, <2>3, <2>4 DEF LikesStand, HasRow, OneRow
<1>4. ASSUME NEW w \in Ids, NEW x \in Users, LikeFails(w, x) \/ UnlikeFails(w, x)
      PROVE  LikesStand(v, u)'
  <2>1. CASE w = v /\ x = u
    BY <1>4, <2>1 DEF LikeFails, UnlikeFails, Followed, Likes, LikesStand
  <2>2. CASE w # v \/ x # u
    <3>1. <<w, x>> # <<v, u>> /\ VideoLike' = VideoLike
      BY <1>4, <2>2 DEF LikeFails, UnlikeFails, tables
    <3>2. /\ <<v, u>> \in wish' <=> <<v, u>> \in wish
          /\ <<v, u>> \in again' <=> <<v, u>> \in again
          /\ <<v, u>> \in failed' <=> <<v, u>> \in failed
      BY <1>4, <3>1 DEF LikeFails, UnlikeFails
    <3> QED
      BY <1>0, <3>1, <3>2 DEF LikesStand, HasRow, OneRow
  <2> QED
    BY <2>1, <2>2
<1>5. ASSUME NEW h \in Handlers, DeleteLikesFails(h) PROVE LikesStand(v, u)'
  <2>1. /\ VideoLike' = VideoLike
        /\ <<v, u>> \in wish' <=> <<v, u>> \in wish /\ v # del[h]
        /\ <<v, u>> \in again' <=> <<v, u>> \in again /\ v # del[h]
        /\ <<v, u>> \in failed' <=> <<v, u>> \in failed \/ (<<v, u>> \in wish /\ v = del[h])
    BY <1>5 DEF DeleteLikesFails, tables
  <2> QED
    BY <1>0, <2>1 DEF LikesStand, HasRow, OneRow
<1>6. ASSUME UNCHANGED <<VideoLike, wish, again, failed>> PROVE LikesStand(v, u)'
  BY <1>0, <1>6 DEF LikesStand, HasRow, OneRow
<1> QED
  BY <1>1, <1>2, <1>3, <1>4, <1>5, <1>6
  DEF Next, InsertVideo, DeleteVideo, DeleteVideoFails, NextPage, vars, tables, history

\* The rows of one like are finitely many.
LEMMA RowsFinite ==
  ASSUME TypeOK, NEW v \in Ids, NEW u \in Users
  PROVE  IsFiniteSet({r \in VideoLike : r[1] = v /\ r[2] = u})
<1> DEFINE all == {<<v, u, n>> : n \in 1..MaxRows}
           f == [n \in 1..MaxRows |-> <<v, u, n>>]
<1>1. MaxRows \in Nat /\ VideoLike \subseteq Ids \X Users \X (1..MaxRows)
  BY ReactionsAssumption DEF TypeOK
<1>2. f \in Surjection(1..MaxRows, all)
  BY DEF Surjection
<1>3. IsFiniteSet(1..MaxRows)
  BY <1>1, FS_Interval
<1>4. IsFiniteSet(all)
  BY <1>2, <1>3, FS_Surjection
<1>5. {r \in VideoLike : r[1] = v /\ r[2] = u} \in SUBSET all
  BY <1>1
<1> QED
  BY <1>4, <1>5, FS_Subset

LEMMA LikesInvRight ==
  ASSUME TypeOK, LikesInv
  PROVE  LikeInfoRight
<1> SUFFICES ASSUME NEW v \in Ids, NEW u \in Users, Alone(v)
             PROVE  /\ (\A w \in Users : <<v, w>> \notin failed) =>
                         LikeInfo(v, u).likeCount = Cardinality({w \in Users : <<v, w>> \in wish})
                    /\ <<v, u>> \notin failed =>
                         /\ LikeInfo(v, u).ifLike => <<v, u>> \in wish
                         /\ <<v, u>> \in wish \ again => LikeInfo(v, u).ifLike
  BY DEF LikeInfoRight
<1> DEFINE here == {r \in VideoLike : SameNumber(r[1], v)}
           mine == {r \in here : r[2] = u}
<1>1. VideoLike \subseteq Ids \X Users \X (1..MaxRows) /\ \A w \in Users : LikesStand(v, w)
  BY DEF TypeOK, LikesInv
<1>2. /\ LikeInfo(v, u).likeCount = Cardinality({r[2] : r \in here})
      /\ LikeInfo(v, u).ifLike <=> Cardinality(mine) = 1
  BY DEF LikeInfo
<1>3. \A r \in VideoLike : r[1] \in Ids /\ r[2] \in Users /\ r[3] \in 1..MaxRows /\ r = <<r[1], r[2], r[3]>>
  BY <1>1
<1>4. here = {r \in VideoLike : r[1] = v}
  <2>1. \A r \in VideoLike : SameNumber(r[1], v) <=> r[1] = v
    BY <1>3, AloneNumber, SameNumberSelf
  <2> QED
    BY <2>1
<1>5. ASSUME \A w \in Users : <<v, w>> \notin failed
      PROVE  {r[2] : r \in here} = {w \in Users : <<v, w>> \in wish}
  <2>1. ASSUME NEW r \in here PROVE r[2] \in Users /\ <<v, r[2]>> \in wish
    <3>1. r \in VideoLike /\ r = <<v, r[2], r[3]>> /\ r[2] \in Users /\ r[3] \in 1..MaxRows
      BY <1>3, <1>4
    <3> QED
      BY <1>1, <1>5, <3>1 DEF LikesStand, HasRow
  <2>2. ASSUME NEW w \in Users, <<v, w>> \in wish PROVE \E r \in here : r[2] = w
    <3>1. PICK n \in 1..MaxRows : <<v, w, n>> \in VideoLike
      BY <1>1, <1>5, <2>2 DEF LikesStand, HasRow
    <3>2. <<v, w, n>> \in here
      BY <1>4, <3>1
    <3> QED
      BY <3>2
  <2> QED
    BY <2>1, <2>2
<1>6. mine = {r \in VideoLike : r[1] = v /\ r[2] = u}
  BY <1>4
<1> HIDE DEF here, mine
<1>7. IsFiniteSet(mine)
  BY <1>6, RowsFinite
<1>8. <<v, u>> \notin failed /\ Cardinality(mine) = 1 => <<v, u>> \in wish
  <2> SUFFICES ASSUME <<v, u>> \notin failed, Cardinality(mine) = 1 PROVE <<v, u>> \in wish
    OBVIOUS
  <2>1. PICK r : mine = {r}
    BY <1>7, FS_Singleton
  <2>2. r \in VideoLike /\ r = <<v, u, r[3]>> /\ r[3] \in 1..MaxRows
    BY <1>3, <1>6, <2>1
  <2> QED
    BY <1>1, <2>2 DEF LikesStand, HasRow
<1>9. <<v, u>> \notin failed /\ <<v, u>> \in wish \ again => Cardinality(mine) = 1
  <2> SUFFICES ASSUME <<v, u>> \notin failed, <<v, u>> \in wish \ again PROVE Cardinality(mine) = 1
    OBVIOUS
  <2>1. PICK n \in 1..MaxRows : <<v, u, n>> \in VideoLike
    BY <1>1 DEF LikesStand, HasRow
  <2>2. OneRow(v, u)
    BY <1>1 DEF LikesStand
  <2>3. <<v, u, n>> \in mine
    BY <1>6, <2>1
  <2>4. ASSUME NEW r \in mine PROVE r = <<v, u, n>>
    <3>1. r \in VideoLike /\ r = <<v, u, r[3]>> /\ r[3] \in 1..MaxRows
      BY <1>3, <1>6
    <3>2. r[3] = n
      BY <2>1, <2>2, <3>1 DEF OneRow
    <3> QED
      BY <3>1, <3>2
  <2>5. mine = {<<v, u, n>>}
    BY <2>3, <2>4
  <2> QED
    BY <2>5, FS_Singleton
<1> QED
  BY <1>2, <1>5, <1>8, <1>9

\* Whatever is liked, liked again, taken back and deleted by any number of users and
\* handlers, the answer about a video that is alone in its millisecond is right about
\* every like whose last statement did not fail.
THEOREM LikesAnswered == Spec => []LikeInfoRight
<1>1. Init => LikesInv
  BY DEF Init, LikesInv, LikesStand, HasRow, OneRow
<1> QED
  BY <1>1, ReactionsTypeCorrect, LikesInvNext, LikesInvRight, PTL DEF Spec

---------------------------------------------------------------------------
(***************************************************************************)
(* Deletions, and the viewer who pages through the list meanwhile.         *)
(***************************************************************************)
\* A deletion leaves the videos of all other milliseconds in the table.
LEMMA DeletionSpares ==
  ASSUME TypeOK, NEW h \in Handlers, NEW v \in Ids, DeleteVideo(h, v),
         NEW w \in Rows, Milli(w) # Milli(v)
  PROVE  \E i \in DOMAIN Video' : Video'[i] = w
<1>1. PICK f \in Enumerations(Kept(v)) : Video' = [i \in DOMAIN f |-> Video[f[i]]]
  BY DEF DeleteVideo
<1>2. /\ DOMAIN Video' = DOMAIN f
      /\ \A j \in DOMAIN f : Video'[j] = Video[f[j]]
      /\ \A k \in Kept(v) : \E j \in DOMAIN f : f[j] = k
  BY <1>1, DeletionKeeps
<1>3. PICK k \in DOMAIN Video : w = Video[k]
  BY DEF Rows
<1>4. w \in Ids
  BY <1>3 DEF TypeOK
<1>5. k \in Kept(v)
  BY <1>3, <1>4, SameNumberMilli DEF Kept
<1> QED
  BY <1>2, <1>3, <1>5

\* Deleting a video removes no video of another millisecond, although ids are compared
\* with less precision than they have.
THEOREM DeletionsSpare == Spec => DeletionStaysInMilli
<1>1. TypeOK /\ [Next]_vars =>
        [\A h \in Handlers, v \in Ids :
           DeleteVideo(h, v) =>
             \A w \in Rows : Milli(w) # Milli(v) => \E i \in DOMAIN Video' : Video'[i] = w]_vars
  BY DeletionSpares
<1> QED
  BY <1>1, ReactionsTypeCorrect, PTL DEF Spec, DeletionStaysInMilli

\* The rows before the offset that the viewer has seen.
SeenBefore == {i \in DOMAIN Video : i <= offset /\ Video[i] \in seen}

\* The offset counts rows that the viewer has seen and that are still there, and rows
\* that were deleted.
PagesInv == offset <= Cardinality(SeenBefore) + lostRows

LEMMA SeenFiniteAfter ==
  ASSUME TypeOK'
  PROVE  IsFiniteSet(SeenBefore')
<1>1. Len(Video') \in Nat /\ DOMAIN Video' = 1..Len(Video')
  BY DEF TypeOK
<1>2. IsFiniteSet(DOMAIN Video') /\ SeenBefore' \in SUBSET DOMAIN Video'
  BY <1>1, FS_Interval DEF SeenBefore
<1> QED
  BY <1>2, FS_Subset

\* A larger set of positions seen keeps the invariant.
LEMMA SeenGrows ==
  ASSUME TypeOK, TypeOK', PagesInv, UNCHANGED <<offset, lostRows>>, SeenBefore \subseteq SeenBefore'
  PROVE  PagesInv'
<1>1. IsFiniteSet(SeenBefore) /\ Cardinality(SeenBefore) \in Nat
  BY PositionsFinite DEF SeenBefore
<1>2. IsFiniteSet(SeenBefore')
  BY SeenFiniteAfter
<1>3. Cardinality(SeenBefore) <= Cardinality(SeenBefore') /\ Cardinality(SeenBefore') \in Nat
  BY <1>2, FS_Subset, FS_CardinalityType
<1> QED
  BY <1>1, <1>3 DEF PagesInv, TypeOK

\* A deletion moves the rows seen forward, and takes from them what it counts in lostRows.
LEMMA DeletionCounts ==
  ASSUME TypeOK, TypeOK', PagesInv,
         NEW h \in Handlers, NEW v \in Ids, DeleteVideo(h, v)
  PROVE  PagesInv'
<1> DEFINE gone == {i \in DOMAIN Video : i <= offset /\ SameNumber(v, Video[i])}
           left == SeenBefore \ gone
<1>1. PICK f \in Enumerations(Kept(v)) : Video' = [i \in DOMAIN f |-> Video[f[i]]]
  BY DEF DeleteVideo
<1>2. /\ DOMAIN Video' = DOMAIN f
      /\ \A j \in DOMAIN f : j \in Nat /\ f[j] \in Nat /\ j <= f[j] /\ Video'[j] = Video[f[j]]
      /\ \A k \in Kept(v) : \E j \in DOMAIN f : f[j] = k
  BY <1>1, DeletionKeeps
<1>3. offset' = offset /\ seen' = seen /\ lostRows' = lostRows + Cardinality(gone)
  BY DEF DeleteVideo
<1>4. IsFiniteSet(SeenBefore) /\ IsFiniteSet(gone) /\ IsFiniteSet(left)
      /\ Cardinality(SeenBefore) \in Nat /\ Cardinality(gone) \in Nat /\ Cardinality(left) \in Nat
  BY PositionsFinite DEF SeenBefore
<1>5. IsFiniteSet(SeenBefore')
  BY SeenFiniteAfter
<1>6. \A k \in left : k \in Kept(v) /\ k <= offset /\ Video[k] \in seen
  BY DEF SeenBefore, Kept
<1> DEFINE new == [k \in left |-> CHOOSE j \in DOMAIN f : f[j] = k]
<1>7. \A k \in left : new[k] \in DOMAIN f /\ f[new[k]] = k
  BY <1>2, <1>6
<1>8. \A k \in left : new[k] \in SeenBefore'
  <2> SUFFICES ASSUME NEW k \in left PROVE new[k] \in SeenBefore'
    OBVIOUS
  <2> HIDE DEF new, left
  <2>1. PICK j \in DOMAIN f : j = new[k] /\ f[j] = k
    BY <1>7
  <2>2. j \in DOMAIN Video' /\ j <= offset /\ Video'[j] \in seen
    <3>1. j \in Nat /\ k \in Nat /\ j <= k /\ Video'[j] = Video[k] /\ offset \in Nat
      BY <1>2, <2>1 DEF TypeOK
    <3> QED
      BY <1>2, <1>6, <2>1, <3>1
  <2> QED
    BY <1>3, <2>1, <2>2 DEF SeenBefore
<1>9. new \in Injection(left, SeenBefore')
  <2>1. new \in [left -> SeenBefore']
    BY <1>8
  <2>2. \A a, b \in left : new[a] = new[b] => a = b
    BY <1>7
  <2> HIDE DEF new, left
  <2> QED
    BY <2>1, <2>2 DEF Injection, IsInjective
<1> HIDE DEF new
<1>10. Cardinality(left) <= Cardinality(SeenBefore') /\ Cardinality(SeenBefore') \in Nat
  BY <1>5, <1>9, FS_Injection, FS_CardinalityType
<1>11. Cardinality(left) >= Cardinality(SeenBefore) - Cardinality(gone)
  <2>1. Cardinality(left) = Cardinality(SeenBefore) - Cardinality(SeenBefore \cap gone)
    BY <1>4, FS_Difference
  <2>2. /\ Cardinality(SeenBefore \cap gone) <= Cardinality(gone)
        /\ IsFiniteSet(SeenBefore \cap gone)
    BY <1>4, FS_Intersection
  <2>3. Cardinality(SeenBefore \cap gone) \in Nat
    BY <2>2, FS_CardinalityType
  <2> HIDE DEF left, gone
  <2> QED
    BY <1>4, <2>1, <2>2, <2>3
<1>12. PICK a \in Nat, b \in Nat, c \in Nat, d \in Nat :
         a = Cardinality(SeenBefore) /\ b = Cardinality(gone) /\ c = Cardinality(left)
         /\ d = Cardinality(SeenBefore')
  BY <1>4, <1>10
<1>13. offset \in Nat /\ lostRows \in Nat /\ offset <= a + lostRows
  BY <1>12 DEF TypeOK, PagesInv
<1>14. offset <= d + (lostRows + b)
  BY <1>10, <1>11, <1>12, <1>13
<1> QED
  BY <1>3, <1>12, <1>14 DEF PagesInv

\* A page adds the rows it shows to those seen.
LEMMA PageCounts ==
  ASSUME TypeOK, TypeOK', PagesInv, NextPage
  PROVE  PagesInv'
<1>1. PICK len \in Nat : len = Len(Page(offset))
  BY PageFollows DEF NextPage
<1>2. /\ DOMAIN Page(offset) = 1..len
      /\ offset + len <= Len(Video)
      /\ \A i \in 1..len : Page(offset)[i] = Video[offset + i]
  BY <1>1, PageFollows DEF NextPage
<1>3. /\ offset \in Nat /\ lostRows \in Nat
      /\ Len(Video) \in Nat /\ DOMAIN Video = 1..Len(Video)
  BY DEF TypeOK
<1>4. /\ Video' = Video /\ lostRows' = lostRows /\ offset' = offset + len
      /\ seen' = seen \cup {Page(offset)[i] : i \in DOMAIN Page(offset)}
  BY <1>1 DEF NextPage, tables
<1>5. ASSUME NEW k \in (offset + 1)..(offset + len) PROVE k \in SeenBefore'
  <2>1. PICK i \in 1..len : k = offset + i
    <3>1. k - offset \in 1..len /\ k = offset + (k - offset)
      BY <1>3
    <3> QED
      BY <3>1
  <2>2. Video[k] \in seen'
    BY <1>2, <1>4, <2>1
  <2>3. k \in 1..Len(Video) /\ k <= offset + len
    BY <1>2, <1>3, <2>1
  <2> QED
    BY <1>3, <1>4, <2>2, <2>3 DEF SeenBefore
<1>6. SeenBefore \subseteq SeenBefore'
  <2>1. \A k \in SeenBefore : k \in DOMAIN Video /\ k <= offset /\ k <= offset + len /\ Video[k] \in seen'
    BY <1>3, <1>4 DEF SeenBefore
  <2> QED
    BY <1>4, <2>1 DEF SeenBefore
<1> DEFINE shown == (offset + 1)..(offset + len)
<1>7. IsFiniteSet(SeenBefore) /\ Cardinality(SeenBefore) \in Nat
  BY PositionsFinite DEF SeenBefore
<1>8. IsFiniteSet(shown) /\ Cardinality(shown) = len
  <2>1. offset + 1 \in Int /\ offset + len \in Int
    BY <1>3
  <2>2. /\ IsFiniteSet(shown)
        /\ Cardinality(shown) = IF offset + 1 > offset + len THEN 0 ELSE (offset + len) - (offset + 1) + 1
    BY <2>1, FS_Interval
  <2> HIDE DEF shown
  <2> QED
    BY <1>3, <2>2
<1>9. SeenBefore \cap shown = {}
  BY <1>3 DEF SeenBefore
<1>10. IsFiniteSet(SeenBefore')
  BY SeenFiniteAfter
<1>11. SeenBefore \cup shown \in SUBSET SeenBefore'
  BY <1>5, <1>6
<1> HIDE DEF shown
<1>12. Cardinality(SeenBefore \cup shown) = Cardinality(SeenBefore) + len
  <2>1. Cardinality(SeenBefore \cup shown) =
          Cardinality(SeenBefore) + Cardinality(shown) - Cardinality(SeenBefore \cap shown)
    BY <1>7, <1>8, FS_Union
  <2>2. Cardinality(SeenBefore \cap shown) = 0
    BY <1>9, FS_EmptySet
  <2> QED
    BY <1>7, <1>8, <2>1, <2>2
<1>13. Cardinality(SeenBefore) + len <= Cardinality(SeenBefore') /\ Cardinality(SeenBefore') \in Nat
  <2>1. Cardinality(SeenBefore \cup shown) <= Cardinality(SeenBefore')
    BY <1>10, <1>11, FS_Subset
  <2> QED
    BY <1>10, <1>12, <2>1, FS_CardinalityType
<1> QED
  BY <1>3, <1>4, <1>7, <1>13 DEF PagesInv

LEMMA PagesInvNext ==
  ASSUME TypeOK, TypeOK', PagesInv, [Next]_vars
  PROVE  PagesInv'
<1>1. ASSUME NEW v \in Ids, InsertVideo(v) PROVE PagesInv'
  <2>1. /\ Video \in Seq(Ids) /\ Video' = Append(Video, v)
        /\ UNCHANGED <<offset, seen, lostRows>>
    BY <1>1 DEF InsertVideo, viewer, TypeOK
  <2>2. DOMAIN Video \subseteq DOMAIN Video' /\ \A i \in DOMAIN Video : Video'[i] = Video[i]
    BY <2>1
  <2>3. SeenBefore \subseteq SeenBefore'
    BY <2>1, <2>2 DEF SeenBefore
  <2> QED
    BY <2>1, <2>3, SeenGrows
<1>2. ASSUME NEW h \in Handlers, NEW v \in Ids, DeleteVideo(h, v) PROVE PagesInv'
  BY <1>2, DeletionCounts
<1>3. ASSUME NextPage PROVE PagesInv'
  BY <1>3, PageCounts
<1>4. ASSUME UNCHANGED <<Video, offset, seen, lostRows>> PROVE PagesInv'
  BY <1>4 DEF PagesInv, SeenBefore
<1> QED
  BY <1>1, <1>2, <1>3, <1>4
  DEF Next, Like, LikeFails, Unlike, UnlikeFails, DeleteLikes, DeleteLikesFails, DeleteVideoFails,
      vars, tables, viewer

LEMMA PagesInvBounds ==
  ASSUME TypeOK, PagesInv
  PROVE  MissedOnlyByDeletion
<1> DEFINE missed == {i \in DOMAIN Video : i <= offset /\ Video[i] \notin seen}
<1>1. Len(Video) \in Nat /\ DOMAIN Video = 1..Len(Video) /\ offset \in Nat /\ lostRows \in Nat
  BY DEF TypeOK
<1>2. /\ IsFiniteSet(SeenBefore) /\ Cardinality(SeenBefore) \in Nat
      /\ IsFiniteSet(missed) /\ Cardinality(missed) \in Nat
  BY PositionsFinite DEF SeenBefore
<1>3. IsFiniteSet(1..offset) /\ Cardinality(1..offset) = offset
  BY <1>1, FS_Interval
<1>4. missed \cap SeenBefore = {} /\ missed \cup SeenBefore \in SUBSET (1..offset)
  BY <1>1 DEF SeenBefore
<1> HIDE DEF missed
<1>5. Cardinality(missed \cup SeenBefore) <= offset
  BY <1>3, <1>4, FS_Subset
<1>6. Cardinality(missed \cup SeenBefore) = Cardinality(missed) + Cardinality(SeenBefore)
  <2>1. Cardinality(missed \cup SeenBefore) =
          Cardinality(missed) + Cardinality(SeenBefore) - Cardinality(missed \cap SeenBefore)
    BY <1>2, FS_Union
  <2>2. Cardinality(missed \cap SeenBefore) = 0
    BY <1>4, FS_EmptySet
  <2> QED
    BY <1>2, <2>1, <2>2
<1>7. Cardinality(missed) <= lostRows
  BY <1>1, <1>2, <1>5, <1>6 DEF PagesInv
<1> QED
  BY <1>7 DEF missed, MissedOnlyByDeletion

\* The viewer misses at most as many of the videos before his offset as were deleted
\* there, however uploads, deletions and pages interleave and whatever the page size.
THEOREM PagesMissOnlyDeleted == Spec => []MissedOnlyByDeletion
<1>1. Init => PagesInv
  <2> SUFFICES ASSUME Init PROVE PagesInv
    OBVIOUS
  <2>1. SeenBefore = {} /\ offset = 0 /\ lostRows = 0
    BY DEF Init, SeenBefore
  <2> QED
    BY <2>1, FS_EmptySet DEF PagesInv
<1> QED
  BY <1>1, ReactionsTypeCorrect, PagesInvNext, PagesInvBounds, PTL DEF Spec
===========================================================================
