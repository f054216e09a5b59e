--------------------------- MODULE NTPPeerProofs ---------------------------
(***************************************************************************)
(* The clock filter of a peer and the counters of its polls, for any       *)
(* network, any number of polls and a filter of any size.                  *)
(***************************************************************************)
EXTENDS NTPPeer, TLAPS

-----------------------------------------------------------------------------
(* Arithmetic. *)

\* Halving loses at most one unit of the doubled value.
LEMMA HalveProperties ==
    ASSUME NEW x \in Int
    PROVE  /\ Halve(x) \in Int
           /\ 2 * Halve(x) - x \in {-1, 0, 1}
<1>1. ASSUME NEW n \in Nat PROVE n \div 2 \in Int /\ n - 2 * (n \div 2) \in {0, 1}
  BY <1>1, SMTT(30)
<1>2. CASE x >= 0
  BY <1>1, <1>2 DEF Halve
<1>3. CASE x < 0
  <2> DEFINE n == -x
  <2>1. n \in Nat /\ x = -n
    BY <1>3
  <2>2. Halve(x) = -(n \div 2)
    BY <1>3 DEF Halve
  <2> HIDE DEF n
  <2> QED BY <1>1, <2>1, <2>2
<1> QED BY <1>2, <1>3

\* Remainders of what is at most one turn away.
LEMMA Wrap ==
    ASSUME NEW x \in Int, -FilterSize <= x, x < 2 * FilterSize
    PROVE  x % FilterSize = IF x < 0 THEN x + FilterSize
                            ELSE IF x < FilterSize THEN x ELSE x - FilterSize
BY FilterAssumption, SMTT(60)


-----------------------------------------------------------------------------
(* Types of the variables the theorems are about. *)

LoopTypeOK ==
    /\ now \in Nat /\ t1 \in Nat
    /\ pc \in {"idle", "waiting", "stopped"}
    /\ unanswered \subseteq Nat
    /\ queue \in Seq(Answer)
    /\ pollCount \in Nat /\ errorCount \in Nat

FilterTypeOK ==
    /\ offsets \in [Slots -> Int] /\ delays \in [Slots -> Int]
    /\ filterIdx \in Slots /\ filterCount \in 0 .. FilterSize
    /\ samples \in Seq(Sample)

\* Whoever sent what is answered or may be answered, sent it before, and an
\* answer's times are in the order of the packet's way.
Causal ==
    /\ t1 <= now
    /\ \A s \in unanswered : s <= t1
    /\ \A i \in DOMAIN queue :
         /\ queue[i].sent <= t1
         /\ queue[i].sent <= queue[i].received
         /\ queue[i].received <= queue[i].answered
         /\ queue[i].answered <= now

LoopInv == LoopTypeOK /\ Causal

LEMMA SampleType ==
    ASSUME LoopTypeOK, NEW p \in Answer
    PROVE  SampleOf(p) \in Sample
<1> DEFINE x == ((p.received + Theta) - t1) + ((p.answered + Theta) - now)
<1>1. p.sent \in Nat /\ p.received \in Nat /\ p.answered \in Nat
  BY DEF Answer
<1>2. x \in Int
  BY <1>1, ThetaAssumption DEF LoopTypeOK
<1>3. Halve(x) \in Int
  <2> HIDE DEF x
  <2> QED BY <1>2, HalveProperties
<1> DEFINE o == Halve(x)
<1>4. SampleOf(p) = [offset |-> o,
                     delay |-> (now - t1) - ((p.answered + Theta) - (p.received + Theta)),
                     lag |-> t1 - p.sent]
  BY DEF SampleOf
<1>5. o \in Int
  BY <1>3
<1>6. /\ (now - t1) - ((p.answered + Theta) - (p.received + Theta)) \in Int
      /\ t1 - p.sent \in Int
  BY <1>1, ThetaAssumption DEF LoopTypeOK
<1> HIDE DEF o
<1> QED BY <1>4, <1>5, <1>6 DEF Sample

\* The error of the sample made of an answer that travelled in order.
LEMMA SampleError ==
    ASSUME LoopTypeOK, t1 <= now, NEW p \in Answer,
           p.sent <= t1, p.sent <= p.received,
           p.received <= p.answered, p.answered <= now
    PROVE  Abs(2 * SampleOf(p).offset - 2 * Theta)
             <= SampleOf(p).delay + 2 * SampleOf(p).lag + 1
<1> DEFINE x == ((p.received + Theta) - t1) + ((p.answered + Theta) - now)
           o == Halve(x)
<1>1. p.sent \in Nat /\ p.received \in Nat /\ p.answered \in Nat
      /\ now \in Nat /\ t1 \in Nat /\ Theta \in Int
  BY ThetaAssumption DEF Answer, LoopTypeOK
<1>2. x \in Int
  BY <1>1
<1>3. o \in Int /\ 2 * o - x \in {-1, 0, 1}
  <2> HIDE DEF x
  <2> QED BY <1>2, HalveProperties
<1>4. SampleOf(p) = [offset |-> o,
                     delay |-> (now - t1) - ((p.answered + Theta) - (p.received + Theta)),
                     lag |-> t1 - p.sent]
  BY DEF SampleOf
<1> HIDE DEF o
<1>5. Abs(2 * o - 2 * Theta)
        <= (now - t1) - ((p.answered + Theta) - (p.received + Theta)) + 2 * (t1 - p.sent) + 1
  BY <1>1, <1>3 DEF Abs
<1> QED BY <1>4, <1>5

LEMMA InitLoop == Init => LoopInv /\ FilterTypeOK
BY FilterAssumption DEF Init, LoopInv, LoopTypeOK, FilterTypeOK, Causal, Answer, Sample, Slots

\* The head of the socket's queue is an answer that travelled in order, and the
\* rest of the queue keeps what is known of it.
LEMMA QueueHead ==
    ASSUME LoopInv, queue # <<>>
    PROVE  /\ Head(queue) \in Answer
           /\ Head(queue).sent <= t1
           /\ Head(queue).sent <= Head(queue).received
           /\ Head(queue).received <= Head(queue).answered
           /\ Head(queue).answered <= now
           /\ Tail(queue) \in Seq(Answer)
           /\ \A i \in DOMAIN Tail(queue) :
                i + 1 \in DOMAIN queue /\ Tail(queue)[i] = queue[i + 1]
BY DEF LoopInv, LoopTypeOK, Causal

-----------------------------------------------------------------------------
(* Causality is kept by every step. *)

\* Answers wait longer or one of them is read; nothing else disturbs the queue.
LEMMA QueueKept ==
    ASSUME LoopInv, now' \in Nat, t1' \in Nat, now <= now', t1 <= t1', t1' <= now',
           pc' \in {"idle", "waiting", "stopped"},
           pollCount' \in Nat, errorCount' \in Nat,
           unanswered' \subseteq unanswered \cup {t1'},
           \/ queue' = queue
           \/ queue' = <<>>
           \/ queue # <<>> /\ queue' = Tail(queue)
    PROVE  LoopInv'
<1> USE DEF LoopInv, LoopTypeOK
<1>1. \A n \in Nat : n <= t1 => n <= t1'
  OBVIOUS
<1>2. \A n \in Nat : n <= now => n <= now'
  OBVIOUS
<1>3. unanswered' \subseteq Nat /\ \A s \in unanswered' : s <= t1'
  BY <1>1 DEF Causal
<1>4. queue' \in Seq(Answer)
  <2>1. CASE queue' = queue
    BY <2>1
  <2>2. CASE queue' = <<>>
    BY <2>2
  <2>3. CASE queue # <<>> /\ queue' = Tail(queue)
    BY <2>3, QueueHead
  <2> QED BY <2>1, <2>2, <2>3
<1>5. ASSUME NEW i \in DOMAIN queue'
      PROVE  \E j \in DOMAIN queue : queue'[i] = queue[j]
  <2>1. CASE queue' = queue
    BY <1>5, <2>1
  <2>2. CASE queue' = <<>>
    BY <1>5, <2>2
  <2>3. CASE queue # <<>> /\ queue' = Tail(queue)
    <3>1. i + 1 \in DOMAIN queue /\ queue'[i] = queue[i + 1]
      BY <1>5, <2>3, QueueHead
    <3> QED BY <3>1
  <2> QED BY <2>1, <2>2, <2>3
<1>6. ASSUME NEW i \in DOMAIN queue'
      PROVE  /\ queue'[i].sent <= t1'
             /\ queue'[i].sent <= queue'[i].received
             /\ queue'[i].received <= queue'[i].answered
             /\ queue'[i].answered <= now'
  <2>1. PICK j \in DOMAIN queue : queue'[i] = queue[j]
    BY <1>5, <1>6
  <2>2. queue[j] \in Answer
    OBVIOUS
  <2>3. queue[j].sent \in Nat /\ queue[j].answered \in Nat
    BY <2>2 DEF Answer
  <2> QED BY <1>1, <1>2, <2>1, <2>3 DEF Causal
<1> QED BY <1>3, <1>4, <1>6 DEF Causal

LEMMA ArriveLoop == LoopInv /\ Arrive => LoopInv'
<1> SUFFICES ASSUME LoopInv, Arrive PROVE LoopInv'
  OBVIOUS
<1>1. PICK s \in unanswered, str \in Strata : \E received \in s .. now : \E answered \in received .. now :
         /\ unanswered' \subseteq unanswered
         /\ queue' = Append(queue, [sent |-> s, received |-> received,
                                    answered |-> answered, stratum |-> str])
  BY DEF Arrive
<1>2. PICK received \in s .. now : \E answered \in received .. now :
         queue' = Append(queue, [sent |-> s, received |-> received,
                                 answered |-> answered, stratum |-> str])
  BY <1>1
<1>3. PICK answered \in received .. now :
         queue' = Append(queue, [sent |-> s, received |-> received,
                                 answered |-> answered, stratum |-> str])
  BY <1>2
<1> DEFINE a == [sent |-> s, received |-> received, answered |-> answered, stratum |-> str]
<1>4. s \in Nat /\ str \in Nat /\ now \in Nat /\ t1 \in Nat /\ s <= t1 /\ t1 <= now
      /\ queue \in Seq(Answer)
  BY StrataAssumption DEF LoopInv, LoopTypeOK, Causal
<1>5. received \in Nat /\ answered \in Nat
      /\ s <= received /\ received <= answered /\ answered <= now
  BY <1>4
<1>6. a \in Answer /\ a.sent <= t1 /\ a.sent <= a.received
      /\ a.received <= a.answered /\ a.answered <= now
  BY <1>4, <1>5 DEF Answer
<1>7. now' = now /\ t1' = t1 /\ pc' = pc /\ pollCount' = pollCount /\ errorCount' = errorCount
      /\ unanswered' \subseteq unanswered /\ queue' = Append(queue, a)
  BY <1>1, <1>3 DEF Arrive, loop, counters
<1> HIDE DEF a
<1>8. queue' \in Seq(Answer)
  BY <1>4, <1>6, <1>7
<1>9. ASSUME NEW i \in DOMAIN queue'
      PROVE  queue'[i] = a \/ (i \in DOMAIN queue /\ queue'[i] = queue[i])
  <2>1. DOMAIN queue' = 1 .. Len(queue) + 1 /\ DOMAIN queue = 1 .. Len(queue)
        /\ Len(queue) \in Nat
    BY <1>4, <1>6, <1>7
  <2>2. CASE i = Len(queue) + 1
    BY <1>4, <1>7, <2>2
  <2>3. CASE i \in 1 .. Len(queue)
    <3>1. Append(queue, a)[i] = queue[i]
      BY <1>4, <1>6, <2>1, <2>3
    <3> QED BY <1>7, <2>1, <2>3, <3>1
  <2> QED BY <1>9, <2>1, <2>2, <2>3
<1>10. Causal'
  BY <1>6, <1>7, <1>9 DEF LoopInv, Causal
<1> QED BY <1>7, <1>8, <1>10 DEF LoopInv, LoopTypeOK

LEMMA StepLoop == LoopInv /\ [Next]_vars => LoopInv'
<1> SUFFICES ASSUME LoopInv, [Next]_vars PROVE LoopInv'
  OBVIOUS
<1>1. /\ now \in Nat /\ t1 \in Nat /\ t1 <= now /\ pc \in {"idle", "waiting", "stopped"}
      /\ pollCount \in Nat /\ errorCount \in Nat
  BY DEF LoopInv, LoopTypeOK, Causal
<1>2. CASE Elapse
  BY <1>1, <1>2, QueueKept DEF Elapse, loop, network, counters
<1>3. CASE Arrive
  BY <1>3, ArriveLoop
<1>4. CASE SendRequest
  BY <1>1, <1>4, QueueKept DEF SendRequest
<1>5. CASE WriteFails
  BY <1>1, <1>5, QueueKept DEF WriteFails, Fail, network
<1>6. CASE ReadFails
  BY <1>1, <1>6, QueueKept DEF ReadFails, Fail
<1>7. CASE ReadAnswer
  <2>1. queue' = Tail(queue) /\ queue # <<>> /\ pc' = "idle"
        /\ UNCHANGED <<now, t1, pollCount, unanswered>>
    BY <1>7 DEF ReadAnswer
  <2>2. errorCount' \in Nat
    <3>1. CASE Usable(Head(queue))
      BY <1>1, <1>7, <3>1 DEF ReadAnswer, Accept
    <3>2. CASE ~Usable(Head(queue))
      BY <1>1, <1>7, <3>2 DEF ReadAnswer, Fail
    <3> QED BY <3>1, <3>2
  <2> QED BY <1>1, <2>1, <2>2, QueueKept
<1>8. CASE Cancel
  BY <1>1, <1>8, QueueKept DEF Cancel, network, counters
<1>9. CASE Stop
  BY <1>1, <1>9, QueueKept DEF Stop, counters
<1>10. CASE Return
  BY <1>1, <1>10, QueueKept DEF Return, counters
<1>11. CASE UNCHANGED vars
  BY <1>1, <1>11, QueueKept DEF vars, loop, network, counters
<1> QED BY <1>2, <1>3, <1>4, <1>5, <1>6, <1>7, <1>8, <1>9, <1>10, <1>11
     DEF Next, Poll, Environment

-----------------------------------------------------------------------------
(* Only a usable answer touches the filter. *)

LEMMA FilterStep ==
    ASSUME [Next]_vars, ~(ReadAnswer /\ Usable(Head(queue)))
    PROVE  UNCHANGED filter
<1>1. CASE Poll
  BY <1>1 DEF Poll, SendRequest, WriteFails, ReadFails, ReadAnswer, Return, Fail
<1>2. CASE Environment \/ Cancel \/ Stop
  BY <1>2 DEF Environment, Elapse, Arrive, Cancel, Stop
<1> QED BY <1>1, <1>2 DEF Next, vars

LEMMA AcceptFilter ==
    ASSUME LoopInv, ReadAnswer, Usable(Head(queue))
    PROVE  Accept(Head(queue)) /\ Head(queue) \in Answer /\ SampleOf(Head(queue)) \in Sample
<1>1. Accept(Head(queue)) /\ queue # <<>>
  BY DEF ReadAnswer
<1>2. Head(queue) \in Answer
  BY <1>1, QueueHead
<1> QED BY <1>1, <1>2, SampleType DEF LoopInv

LEMMA NextSlotProperties ==
    ASSUME filterIdx \in Slots
    PROVE  /\ NextSlot \in Slots
           /\ NextSlot = IF filterIdx + 1 < FilterSize THEN filterIdx + 1 ELSE 0
<1> DEFINE x == filterIdx + 1
<1>1. x \in 0 .. FilterSize
  BY FilterAssumption DEF Slots
<1>2. x % FilterSize = IF x < FilterSize THEN x ELSE x - FilterSize
  <2> HIDE DEF x
  <2> QED BY <1>1, Wrap, FilterAssumption
<1>3. NextSlot = IF x < FilterSize THEN x ELSE x - FilterSize
  BY <1>2 DEF NextSlot
<1> QED BY <1>1, <1>3, FilterAssumption DEF Slots

LEMMA StepFilter == LoopInv /\ FilterTypeOK /\ [Next]_vars => FilterTypeOK'
<1> SUFFICES ASSUME LoopInv, FilterTypeOK, [Next]_vars PROVE FilterTypeOK'
  OBVIOUS
<1>1. CASE ReadAnswer /\ Usable(Head(queue))
  <2> DEFINE z == SampleOf(Head(queue))
  <2>1. Accept(Head(queue)) /\ z \in Sample
    BY <1>1, AcceptFilter
  <2>2. /\ offsets' = [offsets EXCEPT ![filterIdx] = z.offset]
        /\ delays' = [delays EXCEPT ![filterIdx] = z.delay]
        /\ filterIdx' = NextSlot
        /\ filterCount' = IF filterCount < FilterSize THEN filterCount + 1 ELSE filterCount
        /\ samples' = Append(samples, z)
    BY <2>1 DEF Accept
  <2> HIDE DEF z
  <2>3. z.offset \in Int /\ z.delay \in Int
    BY <2>1 DEF Sample
  <2>4. filterIdx' \in Slots /\ filterCount' \in 0 .. FilterSize
    BY <2>2, NextSlotProperties, FilterAssumption DEF FilterTypeOK
  <2> QED BY <2>1, <2>2, <2>3, <2>4 DEF FilterTypeOK
<1>2. CASE ~(ReadAnswer /\ Usable(Head(queue)))
  BY <1>2, FilterStep DEF FilterTypeOK, filter
<1> QED BY <1>1, <1>2

-----------------------------------------------------------------------------
(* Every poll is counted once. *)

LEMMA StepPolls ==
    LoopInv /\ FilterTypeOK /\ PollsAccounted /\ [Next]_vars => PollsAccounted'
<1> SUFFICES ASSUME LoopInv, FilterTypeOK, PollsAccounted, [Next]_vars PROVE PollsAccounted'
  OBVIOUS
<1>1. pollCount \in Nat /\ errorCount \in Nat /\ Len(samples) \in Nat
      /\ pollCount = Len(samples) + errorCount + IF pc = "waiting" THEN 1 ELSE 0
  BY DEF LoopInv, LoopTypeOK, FilterTypeOK, PollsAccounted
<1>2. CASE SendRequest
  BY <1>1, <1>2 DEF SendRequest, MayPoll, filter, PollsAccounted
<1>3. CASE WriteFails
  BY <1>1, <1>3 DEF WriteFails, MayPoll, Fail, filter, PollsAccounted
<1>4. CASE ReadFails
  BY <1>1, <1>4 DEF ReadFails, Fail, filter, PollsAccounted
<1>5. CASE ReadAnswer /\ Usable(Head(queue))
  <2> DEFINE z == SampleOf(Head(queue))
  <2>1. Accept(Head(queue)) /\ z \in Sample
    BY <1>5, AcceptFilter
  <2>2. samples' = Append(samples, z) /\ errorCount' = errorCount
    BY <2>1 DEF Accept
  <2> HIDE DEF z
  <2>3. Len(samples') = Len(samples) + 1
    BY <2>1, <2>2 DEF FilterTypeOK
  <2>4. pc = "waiting" /\ pc' = "idle" /\ pollCount' = pollCount
    BY <1>5 DEF ReadAnswer
  <2> QED BY <1>1, <2>2, <2>3, <2>4 DEF PollsAccounted
<1>6. CASE ReadAnswer /\ ~Usable(Head(queue))
  BY <1>1, <1>6 DEF ReadAnswer, Fail, filter, PollsAccounted
<1>7. CASE Return
  BY <1>1, <1>7 DEF Return, counters, filter, PollsAccounted
<1>8. CASE Environment \/ Cancel \/ Stop \/ UNCHANGED vars
  BY <1>1, <1>8 DEF Environment, Elapse, Arrive, Cancel, Stop, vars, loop, counters, filter,
                    PollsAccounted
<1> QED BY <1>2, <1>3, <1>4, <1>5, <1>6, <1>7, <1>8 DEF Next, Poll

-----------------------------------------------------------------------------
(* The error of the samples. *)

LEMMA StepError ==
    LoopInv /\ FilterTypeOK /\ ErrorWithinLag /\ [Next]_vars => ErrorWithinLag'
<1> SUFFICES ASSUME LoopInv, FilterTypeOK, ErrorWithinLag, [Next]_vars PROVE ErrorWithinLag'
  OBVIOUS
<1>1. CASE ReadAnswer /\ Usable(Head(queue))
  <2> DEFINE z == SampleOf(Head(queue))
  <2>1. Accept(Head(queue)) /\ z \in Sample
    BY <1>1, AcceptFilter
  <2>2. samples' = Append(samples, z)
    BY <2>1 DEF Accept
  <2>3. Abs(2 * z.offset - 2 * Theta) <= z.delay + 2 * z.lag + 1
    <3>1. queue # <<>> /\ LoopTypeOK /\ t1 <= now
      BY <1>1 DEF ReadAnswer, LoopInv, Causal
    <3> QED BY <3>1, QueueHead, SampleError
  <2> HIDE DEF z
  <2>4. ASSUME NEW i \in DOMAIN samples'
        PROVE  samples'[i] = z \/ (i \in DOMAIN samples /\ samples'[i] = samples[i])
    <3>1. DOMAIN samples' = 1 .. Len(samples) + 1 /\ DOMAIN samples = 1 .. Len(samples)
          /\ Len(samples) \in Nat /\ samples \in Seq(Sample)
      BY <2>1, <2>2 DEF FilterTypeOK
    <3>2. CASE i = Len(samples) + 1
      BY <2>2, <3>1, <3>2
    <3>3. CASE i \in 1 .. Len(samples)
      <4>1. Append(samples, z)[i] = samples[i]
        BY <2>1, <3>1, <3>3
      <4> QED BY <2>2, <3>1, <3>3, <4>1
    <3> QED BY <2>4, <3>1, <3>2, <3>3
  <2> QED BY <2>3, <2>4 DEF ErrorWithinLag
<1>2. CASE ~(ReadAnswer /\ Usable(Head(queue)))
  BY <1>2, FilterStep DEF ErrorWithinLag, filter
<1> QED BY <1>1, <1>2

-----------------------------------------------------------------------------
(* The ring of the filter. *)

\* The slot k places behind the latest one, without the remainder.
Behind(h, k) == IF k < h THEN h - 1 - k ELSE h - 1 - k + FilterSize

LEMMA BehindIsRemainder ==
    ASSUME NEW h \in Slots, NEW k \in 0 .. FilterSize - 1
    PROVE  /\ (h - 1 - k) % FilterSize = Behind(h, k)
           /\ Behind(h, k) \in Slots
<1> DEFINE x == h - 1 - k
<1>1. x \in Int /\ -FilterSize <= x /\ x < FilterSize
  BY FilterAssumption DEF Slots
<1>2. x % FilterSize = IF x < 0 THEN x + FilterSize ELSE x
  <2> HIDE DEF x
  <2> QED BY <1>1, Wrap, FilterAssumption
<1>3. /\ (IF x < 0 THEN x + FilterSize ELSE x) = Behind(h, k)
      /\ Behind(h, k) \in Slots
  BY FilterAssumption DEF Behind, Slots
<1> QED BY <1>2, <1>3

\* After an answer the latest slot is the one filled, and every other one is a
\* place further back.
LEMMA BehindNext ==
    ASSUME filterIdx \in Slots
    PROVE  /\ Behind(NextSlot, 0) = filterIdx
           /\ \A k \in 1 .. FilterSize - 1 :
                /\ Behind(NextSlot, k) = Behind(filterIdx, k - 1)
                /\ Behind(filterIdx, k - 1) # filterIdx
<1>1. PICK n \in Slots : /\ n = NextSlot
                         /\ n = IF filterIdx + 1 < FilterSize THEN filterIdx + 1 ELSE 0
  BY NextSlotProperties
<1>2. /\ Behind(n, 0) = filterIdx
      /\ \A k \in 1 .. FilterSize - 1 : /\ Behind(n, k) = Behind(filterIdx, k - 1)
                                        /\ Behind(filterIdx, k - 1) # filterIdx
  BY <1>1, FilterAssumption DEF Behind, Slots
<1> QED BY <1>1, <1>2

\* RingHoldsLatest with the slots named directly.
RingInv ==
    /\ filterCount = IF Len(samples) < FilterSize THEN Len(samples) ELSE FilterSize
    /\ \A k \in 0 .. filterCount - 1 :
         /\ offsets[Behind(filterIdx, k)] = samples[Len(samples) - k].offset
         /\ delays[Behind(filterIdx, k)] = samples[Len(samples) - k].delay

LEMMA InitRing == Init => RingInv
BY FilterAssumption DEF Init, RingInv

LEMMA StepRing == LoopInv /\ FilterTypeOK /\ RingInv /\ [Next]_vars => RingInv'
<1> SUFFICES ASSUME LoopInv, FilterTypeOK, RingInv, [Next]_vars PROVE RingInv'
  OBVIOUS
<1>1. CASE ReadAnswer /\ Usable(Head(queue))
  <2> DEFINE z == SampleOf(Head(queue))
             n == Len(samples)
  <2>1. Accept(Head(queue)) /\ z \in Sample
    BY <1>1, AcceptFilter
  <2>2. /\ offsets' = [offsets EXCEPT ![filterIdx] = z.offset]
        /\ delays' = [delays EXCEPT ![filterIdx] = z.delay]
        /\ filterIdx' = NextSlot
        /\ filterCount' = IF filterCount < FilterSize THEN filterCount + 1 ELSE filterCount
        /\ samples' = Append(samples, z)
    BY <2>1 DEF Accept
  <2> HIDE DEF z
  <2>3. /\ n \in Nat /\ samples \in Seq(Sample) /\ Len(samples') = n + 1
        /\ samples'[n + 1] = z
        /\ \A i \in 1 .. n : samples'[i] = samples[i]
        /\ filterIdx \in Slots /\ filterCount \in 0 .. FilterSize
        /\ offsets \in [Slots -> Int] /\ delays \in [Slots -> Int]
        /\ filterCount = IF n < FilterSize THEN n ELSE FilterSize
    BY <2>1, <2>2 DEF FilterTypeOK, RingInv
  <2>4. filterCount' = IF n + 1 < FilterSize THEN n + 1 ELSE FilterSize
    BY <2>2, <2>3, FilterAssumption
  <2>5. ASSUME NEW k \in 0 .. filterCount' - 1
        PROVE  /\ offsets'[Behind(filterIdx', k)] = samples'[n + 1 - k].offset
               /\ delays'[Behind(filterIdx', k)] = samples'[n + 1 - k].delay
    <3>1. CASE k = 0
      BY <2>2, <2>3, <3>1, BehindNext
    <3>2. CASE k # 0
      <4>1. k \in 1 .. FilterSize - 1 /\ k - 1 \in 0 .. filterCount - 1
            /\ k - 1 \in 0 .. FilterSize - 1 /\ n + 1 - k \in 1 .. n
            /\ n - (k - 1) = n + 1 - k
        BY <2>3, <2>4, <2>5, <3>2, FilterAssumption
      <4>2. Behind(filterIdx', k) = Behind(filterIdx, k - 1)
            /\ Behind(filterIdx, k - 1) # filterIdx
        BY <2>2, <2>3, <4>1, BehindNext
      <4>3. Behind(filterIdx, k - 1) \in Slots
        BY <2>3, <4>1, BehindIsRemainder
      <4>4. /\ offsets[Behind(filterIdx, k - 1)] = samples[n + 1 - k].offset
            /\ delays[Behind(filterIdx, k - 1)] = samples[n + 1 - k].delay
        BY <4>1 DEF RingInv
      <4> QED BY <2>2, <2>3, <4>1, <4>2, <4>3, <4>4
    <3> QED BY <3>1, <3>2
  <2> QED BY <2>3, <2>4, <2>5 DEF RingInv
<1>2. CASE ~(ReadAnswer /\ Usable(Head(queue)))
  BY <1>2, FilterStep DEF RingInv, filter
<1> QED BY <1>1, <1>2

LEMMA RingIsLatest == FilterTypeOK /\ RingInv => RingHoldsLatest
<1> SUFFICES ASSUME FilterTypeOK, RingInv, NEW k \in 0 .. filterCount - 1
             PROVE  LET i == (filterIdx - 1 - k) % FilterSize
                        s == samples[Len(samples) - k]
                    IN  offsets[i] = s.offset /\ delays[i] = s.delay
  BY DEF RingHoldsLatest, RingInv
<1>1. filterIdx \in Slots /\ k \in 0 .. FilterSize - 1
  BY FilterAssumption DEF FilterTypeOK
<1>2. (filterIdx - 1 - k) % FilterSize = Behind(filterIdx, k)
  BY <1>1, BehindIsRemainder
<1> QED BY <1>2 DEF RingInv

-----------------------------------------------------------------------------
\* What the theorems share: causality, and the types of the filter.
LEMMA Grounds == Spec => [](LoopInv /\ FilterTypeOK)
<1>1. Init => LoopInv /\ FilterTypeOK
  BY InitLoop
<1>2. LoopInv /\ FilterTypeOK /\ [Next]_vars => (LoopInv /\ FilterTypeOK)'
  BY StepLoop, StepFilter
<1> QED BY <1>1, <1>2, PTL DEF Spec

\* Every poll is counted as a sample or as an error, once, however it ends.
THEOREM PollsAreAccounted == Spec => []PollsAccounted
<1>1. Init => PollsAccounted
  BY DEF Init, PollsAccounted
<1> QED BY <1>1, StepPolls, Grounds, PTL DEF Spec

\* No sample is wrong by more than half its delay and the lag of its answer,
\* whatever the network loses, delays, reorders or duplicates.
THEOREM ErrorIsWithinLag == Spec => []ErrorWithinLag
<1>1. Init => ErrorWithinLag
  BY DEF Init, ErrorWithinLag
<1> QED BY <1>1, StepError, Grounds, PTL DEF Spec

\* The filter holds the latest samples in the order it is read, whatever its size.
THEOREM RingAlwaysHoldsLatest == Spec => []RingHoldsLatest
<1>1. Spec => []RingInv
  BY InitRing, StepRing, Grounds, PTL DEF Spec
<1> QED BY <1>1, RingIsLatest, Grounds, PTL

-----------------------------------------------------------------------------
(* Whose answers are read. *)

\* An answer reaches the socket: it is one more, to a request that is not answered yet.
LEMMA ArriveAnswer ==
    ASSUME LoopInv, Arrive
    PROVE  \E a \in Answer :
             /\ a.sent \in unanswered /\ queue' = Append(queue, a)
             /\ \/ unanswered' = unanswered \ {a.sent} /\ duplicates' = duplicates
                \/ /\ duplicates < MaxDuplicates /\ duplicates' = duplicates + 1
                   /\ unanswered' = unanswered
<1>1. PICK s \in unanswered, str \in Strata : \E received \in s .. now : \E answered \in received .. now :
         /\ \/ unanswered' = unanswered \ {s} /\ UNCHANGED duplicates
            \/ duplicates < MaxDuplicates /\ duplicates' = duplicates + 1 /\ UNCHANGED unanswered
         /\ queue' = Append(queue, [sent |-> s, received |-> received,
                                    answered |-> answered, stratum |-> str])
  BY DEF Arrive
<1>2. PICK received \in s .. now : \E answered \in received .. now :
         queue' = Append(queue, [sent |-> s, received |-> received,
                                 answered |-> answered, stratum |-> str])
  BY <1>1
<1>3. PICK answered \in received .. now :
         queue' = Append(queue, [sent |-> s, received |-> received,
                                 answered |-> answered, stratum |-> str])
  BY <1>2
<1>4. s \in Nat /\ str \in Nat /\ now \in Nat
  BY StrataAssumption DEF LoopInv, LoopTypeOK
<1>5. received \in Nat /\ answered \in Nat
  BY <1>4
<1> DEFINE a == [sent |-> s, received |-> received, answered |-> answered, stratum |-> str]
<1>6. a \in Answer /\ a.sent = s
  BY <1>4, <1>5 DEF Answer
<1>7. queue' = Append(queue, a)
  BY <1>3
<1> HIDE DEF a
<1> QED BY <1>1, <1>6, <1>7

\* While no poll has failed and nothing was duplicated, at most one request is without
\* its answer, and it is the one being waited for.
Punctual ==
    errorCount = 0 /\ duplicates = 0 =>
      /\ \A i \in DOMAIN samples : samples[i].lag = 0
      /\ pc # "waiting" => unanswered = {} /\ queue = <<>>
      /\ pc = "waiting" => \/ unanswered = {t1} /\ queue = <<>>
                           \/ unanswered = {} /\ queue = <<>>
                           \/ unanswered = {} /\ \E a \in Answer : a.sent = t1 /\ queue = <<a>>

\* A poll that fails is counted.
LEMMA FailCounts ==
    ASSUME LoopInv, Fail
    PROVE  errorCount' # 0
BY DEF LoopInv, LoopTypeOK, Fail

LEMMA StepPunctual ==
    LoopInv /\ FilterTypeOK /\ duplicates \in Nat /\ Punctual /\ [Next]_vars => Punctual'
<1> SUFFICES ASSUME LoopInv, FilterTypeOK, duplicates \in Nat, Punctual, [Next]_vars PROVE Punctual'
  OBVIOUS
<1>0. t1 \in Nat /\ errorCount \in Nat /\ queue \in Seq(Answer) /\ samples \in Seq(Sample)
  BY DEF LoopInv, LoopTypeOK, FilterTypeOK
<1>1. CASE SendRequest
  <2>1. /\ pc = "idle" /\ pc' = "waiting" /\ t1' = now /\ unanswered' = unanswered \cup {now}
        /\ UNCHANGED <<queue, duplicates, errorCount, samples>>
    BY <1>1 DEF SendRequest, MayPoll, filter
  <2> QED BY <2>1 DEF Punctual
<1>2. CASE WriteFails \/ ReadFails
  <2>1. Fail
    BY <1>2 DEF WriteFails, ReadFails
  <2> QED BY <2>1, FailCounts DEF Punctual
<1>3. CASE ReadAnswer /\ ~Usable(Head(queue))
  <2>1. Fail
    BY <1>3 DEF ReadAnswer
  <2> QED BY <2>1, FailCounts DEF Punctual
<1>4. CASE ReadAnswer /\ Usable(Head(queue))
  <2>1. /\ pc = "waiting" /\ queue # <<>> /\ queue' = Tail(queue) /\ pc' = "idle"
        /\ UNCHANGED <<t1, unanswered, duplicates>>
    BY <1>4 DEF ReadAnswer
  <2> DEFINE z == SampleOf(Head(queue))
  <2>2. /\ z \in Sample /\ z.lag = t1 - Head(queue).sent
        /\ samples' = Append(samples, z) /\ errorCount' = errorCount
    BY <1>4, AcceptFilter DEF Accept, SampleOf
  <2> HIDE DEF z
  <2>3. ASSUME errorCount' = 0, duplicates' = 0
        PROVE  /\ unanswered' = {} /\ queue' = <<>>
               /\ \A i \in DOMAIN samples' : samples'[i].lag = 0
    <3>1. PICK a \in Answer : a.sent = t1 /\ queue = <<a>> /\ unanswered = {}
      BY <2>1, <2>2, <2>3 DEF Punctual
    <3>2. Head(queue) = a /\ Tail(queue) = <<>>
      BY <3>1
    <3>3. z.lag = 0
      BY <1>0, <2>2, <3>1, <3>2
    <3>4. ASSUME NEW i \in DOMAIN samples' PROVE samples'[i].lag = 0
      <4>1. DOMAIN samples' = 1 .. Len(samples) + 1 /\ DOMAIN samples = 1 .. Len(samples)
            /\ Len(samples) \in Nat
        BY <1>0, <2>2
      <4>2. CASE i = Len(samples) + 1
        <5>1. samples'[i] = z
          BY <1>0, <2>2, <4>2
        <5> QED BY <3>3, <5>1
      <4>3. CASE i \in 1 .. Len(samples)
        <5>1. samples'[i] = samples[i]
          BY <1>0, <2>2, <4>1, <4>3
        <5> QED BY <2>1, <2>2, <2>3, <4>1, <4>3, <5>1 DEF Punctual
      <4> QED BY <3>4, <4>1, <4>2, <4>3
    <3> QED BY <2>1, <3>1, <3>2, <3>4
  <2> QED BY <2>1, <2>3 DEF Punctual
<1>5. CASE Return \/ Stop
  <2>1. /\ queue' = <<>> /\ pc' \in {pc, "stopped"} /\ (pc' = "stopped" => pc # "waiting")
        /\ UNCHANGED <<t1, unanswered, duplicates, errorCount, samples>>
    <3>1. CASE Return
      BY <3>1 DEF Return, counters, filter
    <3>2. CASE Stop /\ pc # "stopped"
      BY <3>2 DEF Stop, counters, filter
    <3>3. CASE Stop /\ pc = "stopped"
      BY <3>3 DEF Stop, counters, filter
    <3> QED BY <1>5, <3>1, <3>2, <3>3
  <2> QED BY <2>1 DEF Punctual
<1>6. CASE Arrive
  <2>1. PICK a \in Answer :
          /\ a.sent \in unanswered /\ queue' = Append(queue, a)
          /\ \/ unanswered' = unanswered \ {a.sent} /\ duplicates' = duplicates
             \/ duplicates' = duplicates + 1
    BY <1>6, ArriveAnswer
  <2>2. UNCHANGED <<t1, pc, errorCount, samples>>
    BY <1>6 DEF Arrive, loop, counters, filter
  <2>3. CASE duplicates' = duplicates + 1
    BY <2>3 DEF Punctual
  <2>4. CASE unanswered' = unanswered \ {a.sent} /\ duplicates' = duplicates
    <3>1. ASSUME errorCount' = 0, duplicates' = 0
          PROVE  pc = "waiting" /\ unanswered' = {} /\ a.sent = t1 /\ queue' = <<a>>
      <4>1. pc = "waiting" /\ unanswered = {t1} /\ queue = <<>>
        BY <2>1, <2>2, <2>4, <3>1 DEF Punctual
      <4> QED BY <2>1, <2>4, <4>1
    <3> QED BY <2>2, <2>4, <3>1 DEF Punctual
  <2> QED BY <2>1, <2>3, <2>4
<1>7. CASE Elapse \/ Cancel \/ UNCHANGED vars
  BY <1>7 DEF Elapse, Cancel, vars, loop, network, counters, filter, Punctual
<1> QED BY <1>1, <1>2, <1>3, <1>4, <1>5, <1>6, <1>7 DEF Next, Poll, Environment

-----------------------------------------------------------------------------
(* The register. *)

\* Multiples of k lie k apart.
LEMMA Times ==
    ASSUME NEW k \in Nat \ {0}, NEW p \in Int, NEW q \in Int, p < q
    PROVE  k * p + k <= k * q
<1>1. PICK d \in Nat \ {0} : q = p + d
  <2>1. q - p \in Nat \ {0} /\ q = p + (q - p)
    OBVIOUS
  <2> QED BY <2>1
<1>2. k * q = k * p + k * d
  BY <1>1
<1>3. k * d >= k
  BY <1>1
<1> QED BY <1>2, <1>3

\* Quotient and remainder, and what they are known by.
LEMMA Division ==
    ASSUME NEW k \in Nat \ {0}, NEW n \in Int
    PROVE  /\ n \div k \in Int /\ n % k \in 0 .. k - 1 /\ n = k * (n \div k) + (n % k)
           /\ k * (n \div k) <= n /\ n < k * (n \div k) + k
OBVIOUS

LEMMA DividedBy ==
    ASSUME NEW k \in Nat \ {0}, NEW q \in Int, NEW s \in 0 .. k - 1, NEW n, n = k * q + s
    PROVE  n \div k = q /\ n % k = s
<1> DEFINE r == n \div k
<1>1. n \in Int /\ k * q <= n /\ n < k * q + k
  <2>1. k * q \in Int
    OBVIOUS
  <2> QED BY <2>1
<1>2. r \in Int /\ k * r <= n /\ n < k * r + k /\ n = k * r + (n % k) /\ n % k \in 0 .. k - 1
  BY <1>1, Division
<1> HIDE DEF r
<1>3. ~(r < q)
  BY <1>1, <1>2, Times
<1>4. ~(q < r)
  BY <1>1, <1>2, Times
<1>5. r = q
  BY <1>2, <1>3, <1>4
<1>6. n % k = s
  <2>1. k * q \in Int /\ n = k * q + (n % k)
    BY <1>2, <1>5
  <2> QED BY <1>2, <2>1
<1> QED BY <1>5, <1>6 DEF r

\* The register's size is an even multiple of each bit's weight.
LEMMA Weights ==
    /\ 2^0 = 1 /\ 2^ReachBits \in Nat \ {0}
    /\ \A k \in 0 .. ReachBits - 1 :
         /\ 2^k \in Nat \ {0}
         /\ \E m \in Nat \ {0} : 2^ReachBits = 2 * (2^k * m)
    /\ \A k \in 1 .. ReachBits - 1 : 2^k = 2 * 2^(k - 1)
<1>1. 2^0 = 1 /\ 2^1 = 2
  OBVIOUS
<1>2. ReachBits \in Nat \ {0}
  BY ReachAssumption
<1>3. ASSUME NEW k \in 0 .. ReachBits PROVE 2^k \in Nat \ {0}
  BY PowerAssumption
<1>4. ASSUME NEW j \in 0 .. ReachBits, NEW k \in 0 .. ReachBits, j + k <= ReachBits
      PROVE  2^(j + k) = 2^j * 2^k
  BY <1>4, PowerAssumption
<1>5. ASSUME NEW k \in 1 .. ReachBits PROVE 2^k = 2 * 2^(k - 1)
  <2>1. 1 \in 0 .. ReachBits /\ k - 1 \in 0 .. ReachBits /\ 1 + (k - 1) = k /\ k <= ReachBits
    BY <1>2
  <2>2. 2^(1 + (k - 1)) = 2^1 * 2^(k - 1)
    BY <1>4, <2>1
  <2> QED BY <1>1, <2>1, <2>2
<1>6. ASSUME NEW k \in 0 .. ReachBits - 1
      PROVE  \E m \in Nat \ {0} : 2^ReachBits = 2 * (2^k * m)
  <2> DEFINE j == ReachBits - (k + 1)
  <2>1. k + 1 \in 1 .. ReachBits /\ k + 1 \in 0 .. ReachBits /\ j \in 0 .. ReachBits
        /\ (k + 1) + j = ReachBits /\ (k + 1) - 1 = k /\ k \in 0 .. ReachBits
    BY <1>2
  <2> HIDE DEF j
  <2>2. 2^ReachBits = 2^(k + 1) * 2^j
    BY <1>2, <1>4, <2>1
  <2>3. 2^(k + 1) = 2 * 2^k
    BY <1>5, <2>1
  <2>4. 2^k \in Nat \ {0} /\ 2^j \in Nat \ {0}
    BY <1>3, <2>1
  <2> DEFINE x == 2^k
             m == 2^j
  <2>5. x \in Nat \ {0} /\ m \in Nat \ {0} /\ 2^ReachBits = (2 * x) * m
    BY <2>2, <2>3, <2>4
  <2> HIDE DEF x, m
  <2>6. (2 * x) * m = 2 * (x * m)
    BY <2>5
  <2>7. 2^ReachBits = 2 * (x * m)
    BY <2>5, <2>6
  <2> QED BY <2>5, <2>7 DEF x
<1>7. ReachBits \in 0 .. ReachBits /\ \A k \in 0 .. ReachBits - 1 : k \in 0 .. ReachBits
  BY <1>2
<1>8. \A k \in 1 .. ReachBits - 1 : k \in 1 .. ReachBits
  BY <1>2
<1> QED BY <1>1, <1>3, <1>5, <1>6, <1>7, <1>8

\* A shift moves every bit up by one, and the outcome is the lowest.
LEMMA Shift ==
    ASSUME NEW r \in 0 .. 2^ReachBits - 1, NEW b \in {0, 1},
           NEW n, n = (2 * r + b) % 2^ReachBits
    PROVE  /\ n \in 0 .. 2^ReachBits - 1
           /\ (n \div 2^0) % 2 = b
           /\ \A k \in 1 .. ReachBits - 1 : (n \div 2^k) % 2 = (r \div 2^(k - 1)) % 2
<1> DEFINE w == 2^ReachBits
<1>1. w \in Nat \ {0} /\ r \in Nat /\ 2 * r + b \in Int /\ ReachBits \in Nat \ {0}
  BY Weights, ReachAssumption
<1>2. n \in 0 .. w - 1
  BY <1>1, Division
<1> DEFINE c == (2 * r + b) \div w
<1>3. c \in Int /\ 2 * r + b = w * c + n
  BY <1>1, Division
<1>4. n \in Int
  BY <1>1, <1>2
<1>5. (n \div 2^0) % 2 = b
  <2>1. 0 \in 0 .. ReachBits - 1
    BY <1>1
  <2>2. PICK m \in Nat \ {0} : w = 2 * (2^0 * m)
    BY <2>1, Weights
  <2>3. 2^0 = 1
    BY Weights
  <2> HIDE DEF w, c
  <2>4. w * c = 2 * (m * c)
    BY <1>3, <2>2, <2>3
  <2>5. n = 2 * (r - m * c) + b
    BY <1>1, <1>3, <1>4, <2>2, <2>4
  <2> DEFINE q == r - m * c
  <2>6. q \in Int /\ b \in 0 .. 2 - 1 /\ 2 \in Nat \ {0} /\ n = 2 * q + b
    BY <1>1, <1>3, <2>2, <2>5
  <2> HIDE DEF q
  <2>7. n % 2 = b
    <3>1. ASSUME NEW k \in Nat \ {0}, NEW i \in Int, NEW s \in 0 .. k - 1, NEW x, x = k * i + s
          PROVE  x % k = s
      BY <3>1, DividedBy
    <3> QED BY <2>6, <3>1
  <2>8. n \div 1 = n
    BY <1>4, DividedBy
  <2> QED BY <2>3, <2>7, <2>8
<1>6. ASSUME NEW k \in 1 .. ReachBits - 1
      PROVE  (n \div 2^k) % 2 = (r \div 2^(k - 1)) % 2
  <2> DEFINE x == 2^(k - 1)
  <2>1. k - 1 \in 0 .. ReachBits - 1 /\ k \in 0 .. ReachBits - 1
    BY <1>1
  <2>2. x \in Nat \ {0} /\ 2^k = 2 * x
    BY <2>1, Weights
  <2>3. PICK m \in Nat \ {0} : w = 2 * (2^k * m)
    BY <2>1, Weights
  <2> DEFINE u == r \div x
             v == r % x
  <2> HIDE DEF x
  <2>4. u \in Int /\ v \in 0 .. x - 1 /\ r = x * u + v
    BY <1>1, <2>2, Division
  <2> HIDE DEF w, c, u, v
  <2>5. w * c = (2 * x) * (2 * (m * c))
    <3>1. w = 2 * ((2 * x) * m)
      BY <2>2, <2>3
    <3> QED BY <1>3, <2>2, <2>3, <3>1
  <2> DEFINE e == m * c
             q == u - 2 * e
  <2>6. n = (2 * x) * q + (2 * v + b)
    <3>1. e \in Int /\ w * c = (2 * x) * (2 * e)
      BY <1>3, <2>3, <2>5
    <3> HIDE DEF e
    <3>2. (2 * x) * q = (2 * x) * u - (2 * x) * (2 * e)
      BY <2>2, <2>4, <3>1
    <3>3. (2 * x) * u = 2 * (x * u)
      BY <2>2, <2>4
    <3>4. x * u \in Int /\ (2 * x) * (2 * e) \in Int /\ v \in Int
      BY <2>2, <2>4, <3>1
    <3> DEFINE f == (2 * x) * (2 * e)
               g == x * u
    <3>5. (2 * x) * q = 2 * g - f /\ w * c = f /\ r = g + v /\ f \in Int /\ g \in Int
      BY <2>4, <3>1, <3>2, <3>3, <3>4
    <3> HIDE DEF f, g, q
    <3> QED BY <1>1, <1>3, <1>4, <3>4, <3>5
  <2>7. q \in Int /\ 2 * v + b \in 0 .. 2 * x - 1 /\ 2 * x \in Nat \ {0}
    BY <1>3, <2>2, <2>3, <2>4
  <2>8. n \div (2 * x) = u - 2 * (m * c)
    <3> DEFINE s == 2 * v + b
               y == 2 * x
    <3>1. q \in Int /\ s \in 0 .. y - 1 /\ y \in Nat \ {0} /\ n = y * q + s
      BY <2>6, <2>7
    <3> HIDE DEF s, y, q
    <3>2. n \div y = q
      BY <3>1, DividedBy
    <3> QED BY <3>2 DEF y, q
  <2>9. (u - 2 * (m * c)) % 2 = u % 2
    <3>1. u \div 2 \in Int /\ u % 2 \in 0 .. 2 - 1 /\ u = 2 * (u \div 2) + (u % 2)
      BY <2>4, Division
    <3> DEFINE p == (u \div 2) - e
               s == u % 2
    <3>2. p \in Int /\ s \in 0 .. 2 - 1 /\ 2 \in Nat \ {0} /\ q = 2 * p + s
      <4>1. e \in Int
        BY <1>3, <2>3
      <4> HIDE DEF e
      <4> QED BY <2>4, <3>1, <4>1
    <3> HIDE DEF p, s, q
    <3>3. q % 2 = s
      BY <3>2, DividedBy
    <3> QED BY <3>3 DEF q, s
  <2> QED BY <2>2, <2>8, <2>9 DEF u, x
<1> QED BY <1>2, <1>5, <1>6

\* Types of the variables no earlier theorem is about.
RestTypeOK ==
    /\ nextPoll \in Nat /\ open \in BOOLEAN /\ cancelled \in BOOLEAN
    /\ duplicates \in 0 .. MaxDuplicates /\ stratum \in Nat
    /\ reach \in 0 .. 2^ReachBits - 1
    /\ outcomes \in Seq(BOOLEAN)

\* A poll that ends is one outcome more, and shifts the register; nothing else does.
LEMMA OutcomeStep ==
    ASSUME [Next]_vars
    PROVE  \/ UNCHANGED <<reach, outcomes>>
           \/ \E ok \in BOOLEAN : reach' = ReachAfter(ok) /\ outcomes' = Append(outcomes, ok)
<1>1. CASE WriteFails \/ ReadFails
  <2>1. Fail
    BY <1>1 DEF WriteFails, ReadFails
  <2>2. reach' = ReachAfter(FALSE) /\ outcomes' = Append(outcomes, FALSE)
    BY <2>1 DEF Fail
  <2> QED BY <2>2
<1>2. CASE ReadAnswer
  <2>1. CASE Usable(Head(queue))
    <3>1. reach' = ReachAfter(TRUE) /\ outcomes' = Append(outcomes, TRUE)
      BY <1>2, <2>1 DEF ReadAnswer, Accept
    <3> QED BY <3>1
  <2>2. CASE ~Usable(Head(queue))
    <3>1. reach' = ReachAfter(FALSE) /\ outcomes' = Append(outcomes, FALSE)
      BY <1>2, <2>2 DEF ReadAnswer, Fail
    <3> QED BY <3>1
  <2> QED BY <2>1, <2>2
<1>3. CASE SendRequest \/ Return \/ Stop \/ Cancel \/ Environment \/ UNCHANGED vars
  BY <1>3 DEF SendRequest, Return, Stop, Cancel, Environment, Elapse, Arrive, vars, counters
<1> QED BY <1>1, <1>2, <1>3 DEF Next, Poll

LEMMA ReachShifts ==
    ASSUME RestTypeOK, NEW ok \in BOOLEAN, reach' = ReachAfter(ok)
    PROVE  /\ reach' \in 0 .. 2^ReachBits - 1
           /\ (reach' \div 2^0) % 2 = IF ok THEN 1 ELSE 0
           /\ \A k \in 1 .. ReachBits - 1 : (reach' \div 2^k) % 2 = (reach \div 2^(k - 1)) % 2
<1>1. PICK b \in {0, 1} : b = IF ok THEN 1 ELSE 0
  OBVIOUS
<1>2. PICK r : r = reach
  OBVIOUS
<1>3. PICK n : n = reach'
  OBVIOUS
<1>4. r \in 0 .. 2^ReachBits - 1 /\ n = (2 * r + b) % 2^ReachBits
  BY <1>1, <1>2, <1>3 DEF RestTypeOK, ReachAfter
<1>5. /\ n \in 0 .. 2^ReachBits - 1
      /\ (n \div 2^0) % 2 = b
      /\ \A k \in 1 .. ReachBits - 1 : (n \div 2^k) % 2 = (r \div 2^(k - 1)) % 2
  BY <1>4, Shift
<1> QED BY <1>1, <1>2, <1>3, <1>5

LEMMA StepRest == LoopInv /\ RestTypeOK /\ [Next]_vars => RestTypeOK'
<1> SUFFICES ASSUME LoopInv, RestTypeOK, [Next]_vars PROVE RestTypeOK'
  OBVIOUS
<1>1. reach' \in 0 .. 2^ReachBits - 1 /\ outcomes' \in Seq(BOOLEAN)
  <2>1. CASE UNCHANGED <<reach, outcomes>>
    BY <2>1 DEF RestTypeOK
  <2>2. CASE \E ok \in BOOLEAN : reach' = ReachAfter(ok) /\ outcomes' = Append(outcomes, ok)
    <3>1. PICK ok \in BOOLEAN : reach' = ReachAfter(ok) /\ outcomes' = Append(outcomes, ok)
      BY <2>2
    <3> QED BY <3>1, ReachShifts DEF RestTypeOK
  <2> QED BY <2>1, <2>2, OutcomeStep
<1>2. /\ now \in Nat /\ nextPoll \in Nat /\ BurstGap \in Nat /\ PollInterval \in Nat
  BY TimeAssumption DEF LoopInv, LoopTypeOK, RestTypeOK
<1>3. nextPoll' \in Nat
  <2>1. \A n : NextPollAfter(n) \in Nat
    BY <1>2 DEF NextPollAfter
  <2>2. nextPoll' = nextPoll \/ \E n : nextPoll' = NextPollAfter(n)
    <3>1. CASE WriteFails \/ ReadFails \/ ReadAnswer
      BY <3>1 DEF WriteFails, ReadFails, ReadAnswer
    <3>2. CASE SendRequest \/ Return \/ Stop \/ Cancel \/ Environment \/ UNCHANGED vars
      BY <3>2 DEF SendRequest, Return, Stop, Cancel, Environment, Elapse, Arrive, vars, loop
    <3> QED BY <3>1, <3>2 DEF Next, Poll
  <2> QED BY <1>2, <2>1, <2>2
<1>4. stratum' \in Nat
  <2>1. CASE ReadAnswer /\ Usable(Head(queue))
    <3>1. stratum' = Head(queue).stratum /\ Head(queue) \in Answer
      BY <2>1, AcceptFilter DEF Accept
    <3> QED BY <3>1 DEF Answer
  <2>2. CASE ~(ReadAnswer /\ Usable(Head(queue)))
    <3>1. stratum' = stratum
      BY <2>2 DEF Next, Poll, SendRequest, WriteFails, ReadFails, ReadAnswer, Fail, Return, Stop, Cancel,
                  Environment, Elapse, Arrive, vars
    <3> QED BY <3>1 DEF RestTypeOK
  <2> QED BY <2>1, <2>2
<1>5. duplicates' \in 0 .. MaxDuplicates
  <2>1. CASE Arrive
    <3>1. duplicates' = duplicates \/ (duplicates < MaxDuplicates /\ duplicates' = duplicates + 1)
      BY <2>1, ArriveAnswer
    <3> QED BY <3>1, TimeAssumption DEF RestTypeOK
  <2>2. CASE ~Arrive
    <3>1. duplicates' = duplicates
      BY <2>2 DEF Next, Poll, SendRequest, WriteFails, ReadFails, ReadAnswer, Return, Stop, Cancel,
                  Environment, Elapse, vars, network
    <3> QED BY <3>1 DEF RestTypeOK
  <2> QED BY <2>1, <2>2
<1>6. open' \in {open, FALSE} /\ cancelled' \in {cancelled, TRUE}
  BY DEF Next, Poll, SendRequest, WriteFails, ReadFails, ReadAnswer, Return, Stop, Cancel,
         Environment, Elapse, Arrive, vars, loop
<1>7. open' \in BOOLEAN /\ cancelled' \in BOOLEAN
  BY <1>6 DEF RestTypeOK
<1> QED BY <1>1, <1>3, <1>4, <1>5, <1>7 DEF RestTypeOK

LEMMA InitRest == Init => RestTypeOK
<1> SUFFICES ASSUME Init PROVE RestTypeOK
  OBVIOUS
<1>1. 0 \in 0 .. MaxDuplicates /\ PollInterval \in Nat /\ 0 \in 0 .. 2^ReachBits - 1
  BY TimeAssumption, Weights
<1>2. <<>> \in Seq(BOOLEAN)
  OBVIOUS
<1> QED BY <1>1, <1>2 DEF Init, RestTypeOK

LEMMA StepReach == RestTypeOK /\ ReachIsHistory /\ [Next]_vars => ReachIsHistory'
<1> SUFFICES ASSUME RestTypeOK, ReachIsHistory, [Next]_vars PROVE ReachIsHistory'
  OBVIOUS
<1>1. CASE UNCHANGED <<reach, outcomes>>
  BY <1>1 DEF ReachIsHistory
<1>2. CASE \E ok \in BOOLEAN : reach' = ReachAfter(ok) /\ outcomes' = Append(outcomes, ok)
  <2>1. PICK ok \in BOOLEAN : reach' = ReachAfter(ok) /\ outcomes' = Append(outcomes, ok)
    BY <1>2
  <2> DEFINE n == Len(outcomes)
  <2>2. /\ outcomes \in Seq(BOOLEAN) /\ n \in Nat /\ Len(outcomes') = n + 1 /\ outcomes'[n + 1] = ok
        /\ \A i \in 1 .. n : outcomes'[i] = outcomes[i]
    BY <2>1 DEF RestTypeOK
  <2> SUFFICES ASSUME NEW k \in 0 .. ReachBits - 1
               PROVE  (reach' \div 2^k) % 2 = 1 <=> (k < n + 1 /\ outcomes'[(n + 1) - k])
    BY <2>2 DEF ReachIsHistory
  <2>3. CASE k = 0
    <3>1. (reach' \div 2^k) % 2 = 1 <=> ok
      BY <2>1, <2>3, ReachShifts
    <3>2. k < n + 1 /\ (n + 1) - k = n + 1
      BY <2>2, <2>3
    <3> QED BY <2>2, <3>1, <3>2
  <2>4. CASE k # 0
    <3>1. k \in 1 .. ReachBits - 1 /\ k - 1 \in 0 .. ReachBits - 1
          /\ (k < n + 1 <=> k - 1 < n) /\ (n + 1) - k = n - (k - 1)
      BY <2>2, <2>4, ReachAssumption
    <3>2. (reach' \div 2^k) % 2 = (reach \div 2^(k - 1)) % 2
      BY <2>1, <3>1, ReachShifts
    <3>3. (reach \div 2^(k - 1)) % 2 = 1 <=> (k - 1 < n /\ outcomes[n - (k - 1)])
      BY <3>1 DEF ReachIsHistory
    <3>4. k - 1 < n => n - (k - 1) \in 1 .. n
      BY <2>2, <3>1, ReachAssumption
    <3>5. k - 1 < n => outcomes'[n - (k - 1)] = outcomes[n - (k - 1)]
      BY <2>2, <3>4
    <3> QED BY <3>1, <3>2, <3>3, <3>5
  <2> QED BY <2>3, <2>4
<1> QED BY <1>1, <1>2, OutcomeStep

LEMMA InitReach == Init => ReachIsHistory
<1> SUFFICES ASSUME Init, NEW k \in 0 .. ReachBits - 1
             PROVE  ~((reach \div 2^k) % 2 = 1) /\ ~(k < Len(outcomes))
  BY DEF ReachIsHistory
<1>1. reach = 0 /\ outcomes = <<>>
  BY DEF Init
<1>2. 2^k \in Nat \ {0}
  BY Weights
<1> DEFINE w == 2^k
<1>3. 0 \div w = 0
  <2>1. w \in Nat \ {0} /\ 0 \in 0 .. w - 1 /\ 0 = w * 0 + 0
    BY <1>2
  <2> HIDE DEF w
  <2>2. ASSUME NEW i \in Int, NEW s \in 0 .. w - 1, NEW x, x = w * i + s PROVE x \div w = i
    BY <2>1, <2>2, DividedBy
  <2> QED BY <2>1, <2>2
<1>4. 0 % 2 # 1
  OBVIOUS
<1>5. ~(k < Len(outcomes))
  BY <1>1, ReachAssumption
<1> QED BY <1>1, <1>3, <1>4, <1>5

-----------------------------------------------------------------------------
LEMMA Types == Spec => [](LoopInv /\ FilterTypeOK /\ RestTypeOK)
<1>1. Spec => []RestTypeOK
  BY InitRest, StepRest, Grounds, PTL DEF Spec
<1> QED BY <1>1, Grounds, PTL

\* Every variable of a peer keeps its type, for any network and any number of polls.
THEOREM PeerTypeCorrect == Spec => []TypeOK
<1>1. LoopInv /\ FilterTypeOK /\ RestTypeOK => TypeOK
  BY DEF LoopInv, LoopTypeOK, FilterTypeOK, RestTypeOK, TypeOK
<1> QED BY <1>1, Types, PTL

\* The reachability register is the record of the last polls, whatever its width.
THEOREM ReachIsAlwaysHistory == Spec => []ReachIsHistory
BY InitReach, StepReach, Types, PTL DEF Spec

\* An answer is taken for another request's only after a poll has failed or the network
\* has duplicated a packet, however late answers come.
THEOREM LagAlwaysNeedsFailure == Spec => []LagNeedsFailure
<1>1. Init => Punctual
  BY DEF Init, Punctual
<1>2. LoopInv /\ FilterTypeOK /\ RestTypeOK /\ Punctual => LagNeedsFailure
  <2> SUFFICES ASSUME LoopInv, FilterTypeOK, RestTypeOK, Punctual,
                      NEW i \in DOMAIN samples, samples[i].lag > 0
               PROVE  errorCount + duplicates > 0
    BY DEF LagNeedsFailure
  <2>1. errorCount \in Nat /\ duplicates \in Nat
    BY TimeAssumption DEF LoopInv, LoopTypeOK, RestTypeOK
  <2>2. ~(errorCount = 0 /\ duplicates = 0)
    BY DEF Punctual
  <2> QED BY <2>1, <2>2
<1>3. RestTypeOK => duplicates \in Nat
  BY TimeAssumption DEF RestTypeOK
<1>4. Spec => []Punctual
  BY <1>1, <1>3, StepPunctual, Types, PTL DEF Spec
<1> QED BY <1>2, <1>4, Types, PTL

\* What the four timestamps are for holds until a poll fails or a packet is duplicated:
\* a sample is within half its round-trip delay of the peer's true offset.
THEOREM SoundUntilFailure == Spec => [](errorCount + duplicates = 0 => HalfDelayBound)
<1>1. Spec => []ErrorWithinLag
  BY ErrorIsWithinLag
<1>3. Init => Punctual
  BY DEF Init, Punctual
<1>4. RestTypeOK => duplicates \in Nat
  BY TimeAssumption DEF RestTypeOK
<1>5. Spec => []Punctual
  BY <1>3, <1>4, StepPunctual, Types, PTL DEF Spec
<1>6. LoopInv /\ FilterTypeOK /\ RestTypeOK /\ Punctual /\ ErrorWithinLag
        => (errorCount + duplicates = 0 => HalfDelayBound)
  <2> SUFFICES ASSUME LoopInv, FilterTypeOK, RestTypeOK, Punctual, ErrorWithinLag,
                      errorCount + duplicates = 0, NEW i \in DOMAIN samples
               PROVE  Abs(2 * samples[i].offset - 2 * Theta) <= samples[i].delay + 1
    BY DEF HalfDelayBound
  <2>1. errorCount = 0 /\ duplicates = 0
    BY TimeAssumption DEF LoopInv, LoopTypeOK, RestTypeOK
  <2>2. samples[i].lag = 0 /\ samples[i].delay \in Int
    <3>1. samples[i].lag = 0
      BY <2>1 DEF Punctual
    <3>2. samples[i] \in Sample
      BY DEF FilterTypeOK
    <3> QED BY <3>1, <3>2 DEF Sample
  <2>3. Abs(2 * samples[i].offset - 2 * Theta) <= samples[i].delay + 2 * samples[i].lag + 1
    BY DEF ErrorWithinLag
  <2>4. samples[i].delay + 2 * samples[i].lag + 1 = samples[i].delay + 1
    BY <2>2
  <2> QED BY <2>3, <2>4
<1> QED BY <1>1, <1>5, <1>6, Types, PTL
=============================================================================
