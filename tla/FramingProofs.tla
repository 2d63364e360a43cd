--------------------------- MODULE FramingProofs --------------------------
(***************************************************************************)
(* Proofs about Framing: for streams of any length, headers and bodies of  *)
(* any size, and bytes that arrive in pieces of any size.                  *)
(***************************************************************************)
EXTENDS Framing, TLAPS

\* The loops have not read more than they want.
LoopInv ==
  /\ rx = "header" => got < H
  /\ rx = "body" => got < want
  /\ rx = "reply" => got = 0
  /\ rx \in {"header", "body"} => left = 0

\* What has arrived does not end within a header.
WholeHeaders == ~split => ~InHeader(arrived)

\* The server is through with k packets.  After a body that was cut short by the end
\* of the connection it stands within a packet, but there is nothing left to be read.
StandsAfter(k) ==
  /\ Through(k)
  /\ rx = "header" => got = 0 /\ (pos = Start[k + 1] \/ (closed /\ pos = arrived))
  /\ rx = "body" => /\ hdr \in 1..N /\ hdr = k + 1 /\ want = Size(hdr)
                    /\ pos = Start[hdr] + H + got
  /\ rx = "reply" => pos = Start[k + 1]
  /\ rx # "forgotten"
  /\ ~closed /\ rx \in {"header", "body"} => written = ReplyAt[k + 1]
  /\ ~closed /\ rx = "reply" => written + left = ReplyAt[k + 1]

StepInv == ~split => \E k \in 0..N : StandsAfter(k)

FramingInv == TypeOK /\ LoopInv /\ WholeHeaders /\ StepInv

\* Positions and sizes of packets, for the provers.
LEMMA StreamFacts ==
  /\ N \in Nat /\ H \in Nat /\ H > 0 /\ MaxGarbage \in Nat /\ OutCap \in Nat /\ OutCap > 0
  /\ \A i \in 1..(N + 1) : Start[i] \in Nat
  /\ Start[1] = 0 /\ Start[N + 1] \in Nat
  /\ \A i \in 1..N : i + 1 \in 1..(N + 1) /\ i \in 1..(N + 1)
  /\ \A i \in 1..N : Size(i) \in Nat /\ Start[i] + H + Size(i) = Start[i + 1]
  /\ \A i \in 1..N : Start[i + 1] <= Start[N + 1]
  /\ \A i, j \in 1..(N + 1) : Start[i] = Start[j] => i = j
  /\ \A i \in 1..(N + 1) : ReplyAt[i] \in Nat
  /\ ReplyAt[1] = 0
  /\ \A i \in 1..N : ReplyAt[i] <= ReplyAt[i + 1]
  /\ \A i \in 1..N : Size(i) = 0 \/ i \in Empty => ReplyAt[i + 1] = ReplyAt[i]
<1>1. /\ N \in Nat /\ H \in Nat /\ H > 0 /\ MaxGarbage \in Nat /\ OutCap \in Nat /\ OutCap > 0
      /\ \A i \in 1..(N + 1) : Start[i] \in Nat
      /\ Start[1] = 0
  BY FramingAssumption
<1>2. \A i \in 1..N : i + 1 \in 1..(N + 1) /\ i \in 1..(N + 1)
  BY <1>1
<1>3. \A i, j \in 1..(N + 1) : i < j => Start[i] + H <= Start[j]
  BY FramingAssumption
<1>4. \A i \in 1..N : Size(i) \in Nat /\ Start[i] + H + Size(i) = Start[i + 1]
  BY <1>1, <1>2, <1>3 DEF Size
<1>5. \A i \in 1..N : Start[i + 1] <= Start[N + 1]
  BY <1>1, <1>2, <1>3
<1>6. \A i, j \in 1..(N + 1) : Start[i] = Start[j] => i = j
  BY <1>1, <1>3
<1>7. \A i \in 1..(N + 1) : ReplyAt[i] \in Nat
  BY <1>1, FramingAssumption
<1>9. \A i \in 1..N : ReplyAt[i] <= ReplyAt[i + 1]
  BY <1>1, <1>2, <1>7, FramingAssumption
<1>10. \A i \in 1..N : Size(i) = 0 \/ i \in Empty => ReplyAt[i + 1] = ReplyAt[i]
  <2> SUFFICES ASSUME NEW i \in 1..N, Size(i) = 0 \/ i \in Empty
               PROVE  ReplyAt[i + 1] = ReplyAt[i]
    OBVIOUS
  <2>1. Start[i] \in Nat /\ Start[i + 1] \in Nat /\ H \in Nat
    BY <1>1, <1>2
  <2>2. Size(i) = 0 => Start[i + 1] = Start[i] + H
    BY <2>1 DEF Size
  <2> QED
    BY <2>2, FramingAssumption
<1>8. Start[N + 1] \in Nat
  BY <1>1
<1> QED
  BY <1>1, <1>2, <1>4, <1>5, <1>6, <1>7, <1>8, <1>9, <1>10, FramingAssumption

LEMMA FramingInvInit == Init => FramingInv
<1> SUFFICES ASSUME Init PROVE FramingInv
  OBVIOUS
<1>1. TypeOK
  <2>1. closed \in BOOLEAN /\ split \in BOOLEAN
    BY Zenon DEF Init
  <2>2. server \in {"asio", "epoll"} /\ handled \in Seq(0..N)
    BY FramingAssumption DEF Init
  <2>3. arrived \in 0..Start[N + 1] /\ pos \in 0..arrived /\ hdr \in 0..N /\ out \in 0..OutCap
    BY StreamFacts DEF Init
  <2> QED
    BY <2>1, <2>2, <2>3 DEF Init, TypeOK
<1>2. LoopInv
  BY StreamFacts DEF Init, LoopInv
<1>3. WholeHeaders
  BY StreamFacts DEF Init, WholeHeaders, InHeader
<1>4. StepInv
  <2>1. DOMAIN handled = {} /\ 1..0 \ Empty = {}
    BY DEF Init
  <2>2. Through(0)
    BY <2>1 DEF Through
  <2>3. StandsAfter(0) /\ 0 \in 0..N
    BY <2>2, StreamFacts DEF Init, StandsAfter
  <2> QED
    BY <2>3 DEF StepInv
<1> QED
  BY <1>1, <1>2, <1>3, <1>4 DEF FramingInv

LEMMA AppendType ==
  ASSUME NEW s \in Seq(0..N), NEW i \in 0..N
  PROVE  Append(s, i) \in Seq(0..N)
OBVIOUS

\* What Handle makes of the list of packets.
LEMMA HandleType ==
  ASSUME TypeOK, NEW i \in 0..N, Handle(i)
  PROVE  handled' \in Seq(0..N)
BY AppendType DEF TypeOK, Handle

\* Handling the next packet keeps them in order.
LEMMA HandleNext ==
  ASSUME TypeOK, NEW k \in 0..N, Through(k), k + 1 \in 1..N, Handle(k + 1)
  PROVE  Through(k + 1)'
<1> DEFINE n == Len(handled)
<1>1. handled \in Seq(0..N) /\ DOMAIN handled = 1..n /\ n \in Nat
  BY DEF TypeOK
<1>2. k \in Nat /\ N \in Nat
  BY StreamFacts
<1>3. \A j \in DOMAIN handled : handled[j] \in 1..k
  BY DEF Through
<1>4. CASE k + 1 \in Empty
  <2>1. handled' = handled
    BY <1>4 DEF Handle
  <2>2. 1..(k + 1) \ Empty = 1..k \ Empty
    BY <1>2, <1>4
  <2> QED
    BY <2>1, <2>2 DEF Through
<1>5. CASE k + 1 \notin Empty
  <2>1. handled' = Append(handled, k + 1)
    BY <1>5 DEF Handle
  <2>2. /\ DOMAIN handled' = 1..(n + 1) /\ handled'[n + 1] = k + 1
        /\ \A j \in 1..n : handled'[j] = handled[j]
    BY <1>1, <2>1
  <2> HIDE DEF n
  <2>3. 1..(n + 1) = (1..n) \cup {n + 1} /\ \A i \in 1..n : i <= n
    BY <1>1
  <2>4. \A i, j \in DOMAIN handled' : i < j => handled'[i] < handled'[j]
    <3> SUFFICES ASSUME NEW i \in DOMAIN handled', NEW j \in DOMAIN handled', i < j
                 PROVE  handled'[i] < handled'[j]
      OBVIOUS
    <3>1. i \in 1..(n + 1) /\ j \in 1..(n + 1)
      BY <2>2
    <3>2. i \in 1..n /\ (j = n + 1 \/ j \in 1..n)
      BY ONLY <1>1, <3>1, i < j
    <3>3. handled'[i] = handled[i] /\ handled[i] \in 1..k
      BY <1>1, <1>3, <2>2, <3>2
    <3>4. CASE j = n + 1
      BY <1>2, <2>2, <3>3, <3>4
    <3>5. CASE j \in 1..n
      <4>1. handled'[j] = handled[j] /\ handled[i] < handled[j]
        BY <1>1, <2>2, <3>2, <3>5 DEF Through
      <4> QED
        BY <3>3, <4>1
    <3> QED
      BY <3>2, <3>4, <3>5
  <2>5. {handled'[j] : j \in DOMAIN handled'} = {handled[j] : j \in DOMAIN handled} \cup {k + 1}
    <3>1. {handled'[j] : j \in 1..n} = {handled[j] : j \in 1..n}
      <4>1. \A j \in 1..n : handled'[j] = handled[j]
        BY <2>2
      <4> QED
        BY <4>1, Zenon
    <3>2. {handled'[j] : j \in (1..n) \cup {n + 1}} = {handled'[j] : j \in 1..n} \cup {handled'[n + 1]}
      BY Zenon
    <3> QED
      BY <1>1, <2>2, <2>3, <3>1, <3>2, Zenon
  <2>6. 1..(k + 1) \ Empty = (1..k \ Empty) \cup {k + 1}
    BY <1>2, <1>5
  <2> QED
    BY <2>4, <2>5, <2>6 DEF Through
<1> QED
  BY <1>4, <1>5

\* A server that stands at the beginning of a packet finds its whole header.
LEMMA HeaderThere ==
  ASSUME FramingInv, ~split, rx = "header", Available > 0
  PROVE  \E k \in 0..N : /\ StandsAfter(k) /\ k + 1 \in 1..N
                         /\ got = 0 /\ pos = Start[k + 1]
                         /\ Available >= H
<1>0. PICK k \in 0..N : StandsAfter(k)
  BY DEF FramingInv, StepInv
<1>1. /\ got = 0 /\ pos \in Nat /\ arrived \in Nat /\ pos < arrived /\ arrived <= Start[N + 1]
      /\ k + 1 \in 1..(N + 1)
  BY <1>0, StreamFacts DEF FramingInv, TypeOK, StandsAfter, Available
<1>2. pos = Start[k + 1]
  BY <1>0, <1>1 DEF StandsAfter
<1>3. k + 1 \in 1..N
  BY <1>1, <1>2, StreamFacts
<1>4. ~(Start[k + 1] < arrived /\ arrived < Start[k + 1] + H)
  BY <1>3 DEF FramingInv, WholeHeaders, InHeader
<1>5. Start[k + 1] \in Nat /\ H \in Nat
  BY <1>1, StreamFacts
<1>6. arrived >= Start[k + 1] + H
  BY <1>1, <1>2, <1>4, <1>5
<1>7. Available >= H
  BY <1>1, <1>2, <1>5, <1>6 DEF Available
<1> QED
  BY <1>0, <1>1, <1>2, <1>3, <1>7

\* What Decode does to the types, for any bytes.
LEMMA DecodeTypes ==
  ASSUME FramingInv, NEW from, Decode(from) \/ DecodePart,
         NEW p \in 0..arrived, pos' = p,
         rx = "header", UNCHANGED <<net, answer>>
  PROVE  TypeOK' /\ LoopInv' /\ WholeHeaders' /\ hdr' \in 0..N /\ want' \in Nat
<1> USE StreamFacts
<1>1. /\ got' = 0 /\ hdr' \in 0..N
      /\ rx' = IF want' = 0 THEN "header" ELSE "body"
      /\ IF want' = 0 THEN Handle(hdr') ELSE handled' = handled
  BY DEF Decode, DecodePart
<1>2. want' \in Nat
  BY DEF Decode, DecodePart
<1>3. TypeOK'
  <2>1. handled' \in Seq(0..N)
    <3>1. TypeOK /\ handled \in Seq(0..N)
      BY DEF FramingInv, TypeOK
    <3>2. CASE want' = 0
      BY <1>1, <3>1, <3>2, HandleType
    <3>3. CASE want' # 0
      BY <1>1, <3>1, <3>3
    <3> QED
      BY <3>2, <3>3
  <2>2. rx' \in {"header", "body", "reply", "closed", "forgotten", "crashed"}
    BY <1>1
  <2> QED
    BY <1>1, <1>2, <2>1, <2>2 DEF FramingInv, TypeOK, net, answer
<1>4. LoopInv'
  BY <1>1, <1>2 DEF FramingInv, LoopInv, answer
<1>5. WholeHeaders'
  BY DEF FramingInv, WholeHeaders, InHeader, net
<1> QED
  BY <1>1, <1>2, <1>3, <1>4, <1>5

\* What Decode does with the header of the next packet.
LEMMA DecodeStep ==
  ASSUME FramingInv, NEW k \in 0..N, StandsAfter(k), k + 1 \in 1..N, rx = "header",
         Decode(Start[k + 1]), pos' = Start[k + 1] + H, UNCHANGED <<net, answer>>
  PROVE  StepInv'
<1> USE StreamFacts
<1>1. /\ hdr' = k + 1 /\ want' = Size(k + 1) /\ got' = 0
      /\ rx' = IF want' = 0 THEN "header" ELSE "body"
      /\ IF want' = 0 THEN Handle(hdr') ELSE handled' = handled
  BY DEF Decode
<1>2. Start[k + 1] \in Nat /\ H \in Nat /\ Start[k + 1] + H + Size(k + 1) = Start[k + 2]
  BY DEF Size
<1>3. ~closed => written = ReplyAt[k + 1]
  BY DEF StandsAfter
<1>4. CASE want' = 0
  <2>1. pos' = Start[k + 2] /\ ReplyAt[k + 2] = ReplyAt[k + 1]
    BY <1>1, <1>2, <1>4
  <2>2. Through(k + 1)'
    BY <1>1, <1>4, HandleNext DEF FramingInv, StandsAfter
  <2>3. StandsAfter(k + 1)' /\ k + 1 \in 0..N
    BY <1>1, <1>3, <1>4, <2>1, <2>2 DEF StandsAfter, net, answer
  <2> QED
    BY <2>3 DEF StepInv
<1>5. CASE want' # 0
  <2>1. handled' = handled /\ rx' = "body" /\ Through(k)'
    BY <1>1, <1>5 DEF StandsAfter, Through
  <2>2. pos' = Start[hdr'] + H + got'
    BY <1>1, <1>2
  <2>3. StandsAfter(k)'
    BY <1>1, <1>3, <2>1, <2>2 DEF StandsAfter, Size, net, answer
  <2> QED
    BY <2>3 DEF StepInv
<1> QED
  BY <1>4, <1>5

LEMMA SumAssociative ==
  \A a, b, c, d \in Nat : a + b + c + d = a + b + (c + d)
OBVIOUS

\* A step that leaves the server where it is.
LEMMA StepRest ==
  ASSUME StepInv, UNCHANGED <<pos, rx, got, want, hdr, handled, left, written>>,
         split \in BOOLEAN, closed \in BOOLEAN, split => split', closed => closed' = closed,
         closed => arrived' = arrived
  PROVE  StepInv'
<1> SUFFICES ASSUME ~split' PROVE \E k \in 0..N : StandsAfter(k)'
  BY DEF StepInv
<1>1. PICK k \in 0..N : StandsAfter(k)
  BY DEF StepInv
<1>2. StandsAfter(k)'
  BY <1>1 DEF StandsAfter, Through, Size
<1> QED
  BY <1>2

LEMMA FramingInvNext == FramingInv /\ [Next]_vars => FramingInv'
<1> SUFFICES ASSUME FramingInv, [Next]_vars PROVE FramingInv'
  OBVIOUS
<1> USE StreamFacts
<1>0. TypeOK /\ LoopInv /\ WholeHeaders /\ StepInv
  BY DEF FramingInv
<1>1. CASE UNCHANGED vars
  <2>1. TypeOK' /\ LoopInv' /\ WholeHeaders'
    BY <1>0, <1>1 DEF vars, net, answer, TypeOK, LoopInv, WholeHeaders, InHeader
  <2>2. StepInv'
    BY <1>0, <1>1, StepRest DEF vars, net, answer, TypeOK
  <2> QED
    BY <2>1, <2>2 DEF FramingInv
<1>2. ASSUME NEW n \in 1..Start[N + 1], Arrive(n) PROVE FramingInv'
  <2>1. TypeOK'
    BY <1>0, <1>2 DEF Arrive, TypeOK, answer
  <2>2. LoopInv' /\ WholeHeaders'
    BY <1>0, <1>2 DEF Arrive, LoopInv, WholeHeaders, InHeader, answer
  <2>3. StepInv'
    BY <1>0, <1>2, StepRest DEF Arrive, TypeOK, answer
  <2> QED
    BY <2>1, <2>2, <2>3 DEF FramingInv
<1>3. CASE ClientCloses
  <2>1. TypeOK' /\ LoopInv' /\ WholeHeaders'
    BY <1>0, <1>3 DEF ClientCloses, TypeOK, LoopInv, WholeHeaders, InHeader, answer
  <2>2. StepInv'
    BY <1>0, <1>3, StepRest DEF ClientCloses, TypeOK, answer
  <2> QED
    BY <2>1, <2>2 DEF FramingInv
<1>4. CASE ClientReads
  <2>1. TypeOK' /\ LoopInv' /\ WholeHeaders'
    BY <1>0, <1>4 DEF ClientReads, TypeOK, LoopInv, WholeHeaders, InHeader, net
  <2>2. StepInv'
    BY <1>0, <1>4, StepRest DEF ClientReads, TypeOK, net
  <2> QED
    BY <2>1, <2>2 DEF FramingInv
<1>5. CASE ReceiveHeader
  <2>1. /\ pos \in Nat /\ arrived \in Nat /\ Available \in Nat /\ Available > 0
        /\ pos + Smaller(H, Available) \in 0..arrived
        /\ rx = "header" /\ UNCHANGED <<net, answer>>
        /\ pos' = pos + Smaller(H, Available)
    BY <1>0, <1>5 DEF ReceiveHeader, TypeOK, Available, Smaller
  <2>2. Decode(pos) \/ DecodePart
    BY <1>5 DEF ReceiveHeader
  <2>3. TypeOK' /\ LoopInv' /\ WholeHeaders'
    BY <2>1, <2>2, DecodeTypes
  <2>4. ASSUME ~split PROVE StepInv'
    <3>1. PICK k \in 0..N : /\ StandsAfter(k) /\ k + 1 \in 1..N
                            /\ pos = Start[k + 1] /\ Available >= H
      BY <2>1, <2>4, HeaderThere
    <3>2. Decode(Start[k + 1]) /\ pos' = Start[k + 1] + H
      BY <1>5, <2>1, <3>1 DEF ReceiveHeader, Smaller
    <3> QED
      BY <2>1, <3>1, <3>2, DecodeStep
  <2>5. split => StepInv'
    BY <2>1 DEF StepInv, net
  <2> QED
    BY <2>3, <2>4, <2>5 DEF FramingInv
<1>6. CASE RecvHeader
  <2>1. /\ pos \in Nat /\ arrived \in Nat /\ got \in Nat /\ Available \in Nat /\ Available > 0
        /\ got < H
        /\ rx = "header" /\ UNCHANGED <<net, answer>>
        /\ pos' = pos + Smaller(H - got, Available)
        /\ pos + Smaller(H - got, Available) \in 0..arrived
    BY <1>0, <1>6 DEF RecvHeader, TypeOK, LoopInv, Available, Smaller
  <2>2. CASE Available >= H - got
    <3>1. Decode(pos - got)
      BY <1>6, <2>2 DEF RecvHeader
    <3>2. TypeOK' /\ LoopInv' /\ WholeHeaders'
      BY <2>1, <3>1, DecodeTypes
    <3>3. ASSUME ~split PROVE StepInv'
      <4>1. PICK k \in 0..N : /\ StandsAfter(k) /\ k + 1 \in 1..N /\ got = 0
                              /\ pos = Start[k + 1] /\ Available >= H
        BY <2>1, <3>3, HeaderThere
      <4>2. pos - got = Start[k + 1] /\ pos' = Start[k + 1] + H
        BY <2>1, <4>1 DEF Smaller
      <4> QED
        BY <2>1, <3>1, <4>1, <4>2, DecodeStep
    <3>4. split => StepInv'
      BY <2>1 DEF StepInv, net
    <3> QED
      BY <3>2, <3>3, <3>4 DEF FramingInv
  <2>3. CASE ~(Available >= H - got)
    <3>1. split
      <4> SUFFICES ASSUME ~split PROVE FALSE
        BY <1>0 DEF TypeOK
      <4>1. got = 0 /\ Available >= H
        BY <2>1, HeaderThere
      <4> QED
        BY <2>1, <2>3, <4>1
    <3>2. got' = got + Available /\ UNCHANGED <<rx, want, hdr, handled>>
      BY <1>6, <2>3 DEF RecvHeader
    <3>3. TypeOK' /\ LoopInv'
      BY <1>0, <2>1, <2>3, <3>2 DEF TypeOK, LoopInv, net, answer
    <3>4. WholeHeaders' /\ StepInv'
      BY <2>1, <3>1 DEF WholeHeaders, StepInv, net
    <3> QED
      BY <3>3, <3>4 DEF FramingInv
  <2> QED
    BY <2>2, <2>3
<1>7. CASE RecvHeaderAgain
  <2>1. split
    BY <1>0, <1>7 DEF RecvHeaderAgain, StepInv, StandsAfter, TypeOK
  <2> QED
    BY <1>0, <1>7, <2>1 DEF RecvHeaderAgain, FramingInv, TypeOK, LoopInv, WholeHeaders, StepInv, net, answer
<1>8. CASE HeaderEof
  <2>1. TypeOK' /\ LoopInv' /\ WholeHeaders'
    BY <1>0, <1>8 DEF HeaderEof, TypeOK, LoopInv, WholeHeaders, InHeader, net, answer
  <2>2. ASSUME ~split PROVE StepInv'
    <3>1. PICK k \in 0..N : StandsAfter(k)
      BY <1>0, <2>2 DEF StepInv
    <3>2. StandsAfter(k)'
      BY <1>8, <3>1 DEF HeaderEof, StandsAfter, Through, net
    <3> QED
      BY <3>2 DEF StepInv
  <2> QED
    BY <1>8, <2>1, <2>2 DEF FramingInv, StepInv, HeaderEof, net
<1>9. CASE RecvBody
  <2> DEFINE k == Smaller(want - got, Available)
  <2>1. /\ got \in Nat /\ want \in Nat /\ pos \in Nat /\ arrived \in Nat /\ hdr \in 0..N
        /\ Available \in Nat /\ Available = arrived - pos
        /\ rx = "body" /\ got < want /\ left = 0
    BY <1>0, <1>9 DEF RecvBody, TypeOK, LoopInv, Available
  <2>2. k \in Nat /\ got + k <= want /\ pos + k <= arrived
    BY <2>1 DEF Smaller
  <2>3. pos' = pos + k /\ UNCHANGED <<net, want, hdr, written, out>>
    BY <1>9 DEF RecvBody
  <2>4. WholeHeaders'
    BY <1>0, <2>3 DEF WholeHeaders, InHeader, net
  <2> HIDE DEF k
  <2>5. CASE got + k = want
    <3>1. /\ got' = 0 /\ Handle(hdr) /\ left' \in Replies(hdr)
          /\ rx' = IF left' = 0 THEN "header" ELSE "reply"
      BY <1>9, <2>5 DEF RecvBody, BodyComplete, k
    <3>2. left' \in Nat /\ handled' \in Seq(0..N)
      <4>1. \A i \in 1..N : ReplyAt[i + 1] - ReplyAt[i] \in Nat
        OBVIOUS
      <4> QED
        BY <1>0, <2>1, <3>1, <4>1, HandleType DEF Replies
    <3>3. TypeOK'
      BY <1>0, <2>1, <2>2, <2>3, <3>1, <3>2 DEF TypeOK, net
    <3>4. LoopInv'
      BY <1>0, <3>1, <3>2 DEF LoopInv
    <3>5. ASSUME ~split PROVE StepInv'
      <4>1. PICK m \in 0..N : StandsAfter(m)
        BY <1>0, <3>5 DEF StepInv
      <4>2. /\ hdr \in 1..N /\ hdr = m + 1 /\ want = Size(m + 1)
            /\ pos = Start[m + 1] + H + got /\ Through(m)
            /\ ~closed => written = ReplyAt[m + 1]
        BY <2>1, <4>1 DEF StandsAfter
      <4>3. /\ Start[m + 1] \in Nat /\ H \in Nat /\ Start[m + 1] + H + Size(m + 1) = Start[m + 2]
            /\ ReplyAt[m + 1] \in Nat /\ ReplyAt[m + 2] \in Nat
        BY <4>2 DEF Size
      <4>4. pos' = Start[m + 2]
        <5>1. Start[m + 1] + H + got + k = Start[m + 1] + H + (got + k)
          BY <2>1, <2>2, <4>3, SumAssociative
        <5> QED
          BY <2>3, <2>5, <4>2, <4>3, <5>1, Zenon
      <4>5. Through(m + 1)'
        BY <1>0, <3>1, <4>2, HandleNext
      <4>6. left' = ReplyAt[m + 2] - ReplyAt[m + 1]
        BY <3>1, <4>2 DEF Replies
      <4>7. /\ ~closed' => written' = ReplyAt[m + 1]
            /\ left' = 0 => ReplyAt[m + 1] = ReplyAt[m + 2]
            /\ ReplyAt[m + 1] + left' = ReplyAt[m + 2]
        BY <2>3, <4>2, <4>3, <4>6 DEF net
      <4>8. m + 1 \in 0..N /\ (m + 1) + 1 = m + 2
        BY <4>2
      <4>9. /\ rx' \in {"header", "reply"} /\ rx' = "header" => left' = 0
            /\ ~closed' /\ rx' = "header" => written' = ReplyAt[m + 2]
            /\ ~closed' /\ rx' = "reply" => written' + left' = ReplyAt[m + 2]
        <5> HIDE StreamFacts
        <5> QED
          BY <3>1, <4>7
      <4>10. StandsAfter(m + 1)'
        <5> HIDE StreamFacts
        <5> QED
          BY <3>1, <4>4, <4>5, <4>8, <4>9 DEF StandsAfter
      <4> QED
        BY <4>8, <4>10 DEF StepInv
    <3> QED
      BY <2>3, <2>4, <3>3, <3>4, <3>5 DEF FramingInv, StepInv, net
  <2>6. CASE got + k # want
    <3>1. got' = got + k /\ UNCHANGED <<handled, left, rx>>
      BY <1>9, <2>6 DEF RecvBody, BodyComplete, k
    <3>2. TypeOK' /\ LoopInv'
      <4>1. got' \in Nat /\ got' < want' /\ pos' \in 0..arrived'
        BY <2>1, <2>2, <2>3, <2>6, <3>1 DEF net
      <4> QED
        BY <1>0, <2>1, <2>3, <3>1, <4>1 DEF TypeOK, LoopInv, net
    <3>3. ASSUME ~split PROVE StepInv'
      <4>1. PICK m \in 0..N : StandsAfter(m)
        BY <1>0, <3>3 DEF StepInv
      <4>2. hdr \in 1..N /\ pos = Start[hdr] + H + got /\ Start[hdr] \in Nat /\ H \in Nat
        BY <2>1, <4>1 DEF StandsAfter
      <4>3. pos' = Start[hdr'] + H + got'
        <5>1. Start[hdr] + H + got + k = Start[hdr] + H + (got + k)
          BY <2>1, <2>2, <4>2, SumAssociative
        <5> QED
          BY <2>3, <3>1, <4>2, <5>1, Zenon
      <4>4. StandsAfter(m)'
        BY <2>1, <2>3, <3>1, <4>1, <4>3 DEF StandsAfter, Through, Size, net
      <4> QED
        BY <4>4 DEF StepInv
    <3> QED
      BY <2>3, <2>4, <3>2, <3>3 DEF FramingInv, StepInv, net
  <2> QED
    BY <2>5, <2>6
<1>10. CASE BodyEof
  <2>1. TypeOK' /\ LoopInv' /\ WholeHeaders'
    BY <1>0, <1>10 DEF BodyEof, TypeOK, LoopInv, WholeHeaders, InHeader, net, answer
  <2>2. ASSUME ~split PROVE StepInv'
    <3>1. PICK k \in 0..N : StandsAfter(k)
      BY <1>0, <2>2 DEF StepInv
    <3>2. pos' = arrived' /\ closed'
      BY <1>0, <1>10 DEF BodyEof, Available, TypeOK, net
    <3>3. StandsAfter(k)'
      BY <1>10, <3>1, <3>2 DEF BodyEof, StandsAfter, Through, net
    <3> QED
      BY <3>3 DEF StepInv
  <2> QED
    BY <1>10, <2>1, <2>2 DEF FramingInv, StepInv, BodyEof, net
<1>11. CASE WriteReply
  <2> DEFINE k == Smaller(left, OutCap - out)
  <2>1. /\ left \in Nat /\ out \in 0..OutCap /\ k \in Nat /\ left - k \in Nat /\ written \in Nat
        /\ out + k \in 0..OutCap /\ written + k \in Nat
    BY <1>0 DEF TypeOK, Smaller
  <2>2. /\ out' = out + k /\ left' = left - k /\ written' = written + k
        /\ rx' = IF left' = 0 THEN "header" ELSE "reply"
        /\ rx = "reply" /\ got = 0 /\ UNCHANGED <<net, pos, got, want, hdr, handled>>
    BY <1>0, <1>11 DEF WriteReply, ReplyDone, LoopInv
  <2> HIDE DEF k
  <2>3. TypeOK'
    BY <1>0, <2>1, <2>2 DEF TypeOK, net
  <2>4. LoopInv' /\ WholeHeaders'
    BY <1>0, <2>2 DEF LoopInv, WholeHeaders, InHeader, net
  <2>5. ASSUME ~split PROVE StepInv'
    <3>1. PICK m \in 0..N : StandsAfter(m)
      BY <1>0, <2>5 DEF StepInv
    <3>2. written' + left' = written + left /\ (left' = 0 => written' = written + left)
      BY <2>1, <2>2
    <3>3. StandsAfter(m)'
      BY <2>2, <3>1, <3>2 DEF StandsAfter, Through, net
    <3> QED
      BY <3>3 DEF StepInv
  <2> QED
    BY <2>2, <2>3, <2>4, <2>5 DEF FramingInv, StepInv, net
<1>12. CASE WriteFails
  <2>1. /\ closed' /\ rx = "reply" /\ rx' \in {"crashed", "header"} /\ left' \in {left, 0}
        /\ rx' = "header" => left' = 0
        /\ UNCHANGED <<net, pos, got, want, hdr, handled, written, out>>
    BY <1>12 DEF WriteFails, net
  <2>2. TypeOK' /\ LoopInv' /\ WholeHeaders'
    BY <1>0, <2>1 DEF TypeOK, LoopInv, WholeHeaders, InHeader, net
  <2>3. ASSUME ~split PROVE StepInv'
    <3>1. PICK k \in 0..N : StandsAfter(k)
      BY <1>0, <2>3 DEF StepInv
    <3>2. got = 0
      BY <1>0, <2>1 DEF LoopInv
    <3>3. StandsAfter(k)'
      BY <2>1, <3>1, <3>2 DEF StandsAfter, Through, net
    <3> QED
      BY <3>3 DEF StepInv
  <2> QED
    BY <2>1, <2>2, <2>3 DEF FramingInv, StepInv, net
<1> QED
  BY <1>1, <1>2, <1>3, <1>4, <1>5, <1>6, <1>7, <1>8, <1>9, <1>10, <1>11, <1>12 DEF Next, Server

LEMMA FramingInvariance == Spec => []FramingInv
BY FramingInvInit, FramingInvNext, PTL DEF Spec

\* Byte counts stay within the stream: no loop of my_recv or boost::asio::read reads
\* beyond what has arrived or asks for a negative number of bytes.
THEOREM FramingTypeCorrect == Spec => []TypeOK
BY FramingInvariance, PTL DEF FramingInv

\* Both servers handle the packets in the order in which they were sent, each once.
THEOREM FramingPacketsInOrder == Spec => []PacketsInOrder
<1>1. FramingInv => PacketsInOrder
  BY DEF FramingInv, StepInv, StandsAfter, PacketsInOrder
<1> QED
  BY <1>1, FramingInvariance, PTL

\* Both servers stay in step with the stream.
THEOREM FramingInStep == Spec => []InStep
<1>1. FramingInv => InStep
  <2> SUFFICES ASSUME FramingInv, ~split PROVE InStep
    BY DEF InStep
  <2>1. PICK k \in 0..N : StandsAfter(k)
    BY DEF FramingInv, StepInv
  <2>2. hdr = k + 1 => hdr - 1 = k /\ hdr > 0
    BY StreamFacts
  <2> QED
    BY <2>1, <2>2 DEF InStep, StandsAfter
<1> QED
  BY <1>1, FramingInvariance, PTL

\* The replies of both servers go out in the order of the requests, each of them whole,
\* however small the pieces are that the kernel takes.
THEOREM FramingRepliesInOrder == Spec => []RepliesInOrder
<1>1. FramingInv => RepliesInOrder
  <2> SUFFICES ASSUME FramingInv, ~split, ~closed, NEW k \in 0..N, Between(k)
               PROVE  written = ReplyAt[k + 1]
    BY DEF RepliesInOrder
  <2>1. PICK m \in 0..N : StandsAfter(m)
    BY DEF FramingInv, StepInv
  <2>2. k + 1 \in 1..(N + 1) /\ m + 1 \in 1..(N + 1)
    BY StreamFacts
  <2>3. m = k
    BY <2>1, <2>2, StreamFacts DEF Between, StandsAfter
  <2> QED
    BY <2>1, <2>3 DEF Between, StandsAfter
<1> QED
  BY <1>1, FramingInvariance, PTL
===========================================================================
