--------------------------- MODULE ReceiverProofs ---------------------------
(***************************************************************************)
(* A receiver reached over the network never claims a lock that is not of  *)
(* its present connection, for any number of connections and messages.     *)
(***************************************************************************)
EXTENDS Receiver, TLAPS

\* A lock is what the last message with a time said, on the last connection; and
\* there is none while a connection is made.  Only a cancelled reader leaves its
\* loop with the lock it had, and it makes no connection any more.
LockInv ==
    /\ queue \in Seq(Message)
    /\ npc = "got" => queue # <<>>
    /\ locked => /\ lastTimed = [fix |-> TRUE, conn |-> dialled]
                 /\ npc \in {"scan", "got", "lost", "returned"} \/ (npc = "loop" /\ cancelled)

LEMMA LockInit == Init => LockInv
BY DEF Init, InitNetwork, LockInv

LEMMA StartSteps ==
    ASSUME LockInv, StartNetwork, UNCHANGED cancelled
    PROVE  LockInv'
<1> USE DEF LockInv
<1>1. CASE LoopNetwork
  BY <1>1 DEF LoopNetwork
<1>2. CASE Dial
  <2>1. ~locked' /\ npc' # "got"
    BY <1>2 DEF Dial
  <2>2. queue' = queue \/ queue' = <<>>
    BY <1>2 DEF Dial
  <2>3. queue' \in Seq(Message)
    <3>1. CASE queue' = queue
      BY <3>1
    <3>2. CASE queue' = <<>>
      BY <3>2
    <3> QED BY <2>2, <3>1, <3>2
  <2> QED BY <2>1, <2>3
<1>3. CASE AssignConn
  BY <1>3 DEF AssignConn
<1>4. CASE Watch
  BY <1>4 DEF Watch
<1>5. CASE FailedConnect
  BY <1>5 DEF FailedConnect
<1>6. CASE TakeConn
  BY <1>6 DEF TakeConn
<1>7. CASE Scan
  BY <1>7 DEF Scan
<1>8. CASE Process
  <2>1. CASE cancelled
    BY <1>8, <2>1 DEF Process
  <2>2. CASE ~cancelled
    <3>1. /\ Head(queue) \in Message
          /\ Tail(queue) \in Seq(Message)
      BY <1>8 DEF Process
    <3>2. PICK m \in Message : m = Head(queue)
      BY <3>1
    <3>3. /\ locked' = IF m.timed THEN m.fix ELSE locked
          /\ lastTimed' = IF m.timed THEN [fix |-> m.fix, conn |-> dialled] ELSE lastTimed
          /\ queue' = Tail(queue) /\ npc' = "scan" /\ dialled' = dialled
      BY <1>8, <2>2, <3>2 DEF Process, LockAfter
    <3>4. m.fix \in BOOLEAN
      BY DEF Message
    <3>5. locked' => lastTimed' = [fix |-> TRUE, conn |-> dialled]
      <4>1. CASE m.timed
        BY <3>3, <3>4, <4>1
      <4>2. CASE ~m.timed
        BY <3>3, <4>2
      <4> QED BY <4>1, <4>2
    <3> QED BY <3>1, <3>3, <3>5
  <2> QED BY <2>1, <2>2
<1>9. CASE Lost
  BY <1>9 DEF Lost, LockAfterLoss
<1> QED BY <1>1, <1>2, <1>3, <1>4, <1>5, <1>6, <1>7, <1>8, <1>9 DEF StartNetwork

LEMMA GpsdSteps ==
    ASSUME LockInv, Send \/ HangUp, UNCHANGED cancelled
    PROVE  LockInv'
<1>1. CASE Send
  <2>1. PICK m \in Message : queue' = Append(queue, m)
    BY <1>1 DEF Send
  <2>2. queue' \in Seq(Message) /\ queue' # <<>>
    BY <2>1 DEF LockInv
  <2> QED BY <1>1, <2>2 DEF Send, LockInv
<1>2. CASE HangUp
  BY <1>2 DEF HangUp, LockInv
<1> QED BY <1>1, <1>2

\* Cancelling only allows more, and Stop leaves lock and connection number alone.
LEMMA LockStep ==
    ASSUME LockInv, [Next]_vars
    PROVE  LockInv'
<1>1. CASE Run
  <2>1. UNCHANGED cancelled
    BY <1>1 DEF Run
  <2>2. CASE NetworkNext
    BY <2>1, <2>2, StartSteps, GpsdSteps DEF NetworkNext
  <2>3. CASE UNCHANGED network
    BY <2>1, <2>3 DEF network, LockInv
  <2> QED BY <1>1, <2>2, <2>3 DEF Run, Simulate
<1>2. CASE Cancel
  BY <1>2 DEF Cancel, network, LockInv
<1>3. CASE Stop
  BY <1>3 DEF Stop, StopNetwork, network, LockInv
<1>4. CASE UNCHANGED vars
  BY <1>4 DEF vars, network, LockInv
<1> QED BY <1>1, <1>2, <1>3, <1>4 DEF Next

\* A client that says it is locked has been told of a fix over the connection it has.
THEOREM LockIsAlwaysOfThisConnection == Spec => []LockIsOfThisConnection
<1>1. LockInv => LockIsOfThisConnection
  BY DEF LockInv, LockIsOfThisConnection, NetworkIsLocked
<1> QED BY LockInit, LockStep, <1>1, PTL DEF Spec
-----------------------------------------------------------------------------
(* The pulse *)

\* Remainders: what is a multiple has none, and the next number's is one more or
\* none again.
LEMMA Remainders ==
    ASSUME NEW k \in Nat \ {0}, NEW n \in Int
    PROVE  /\ n % k \in 0 .. k - 1
           /\ \E q \in Int : n = k * q + (n % k)
           /\ \A q \in Int, r \in 0 .. k - 1 : (k * q + r) % k = r
           /\ (n + 1) % k = IF n % k = k - 1 THEN 0 ELSE (n % k) + 1
<1> DEFINE q == n \div k
<1>1. n = k * q + (n % k) /\ q \in Int /\ n % k \in 0 .. k - 1
  OBVIOUS
<1> HIDE DEF q
<1>2. ASSUME NEW p \in Int, NEW r \in 0 .. k - 1
      PROVE  (k * p + r) % k = r
  OBVIOUS
<1>3. CASE n % k = k - 1
  <2>1. n + 1 = k * (q + 1) + 0
    BY <1>1, <1>3
  <2>2. (k * (q + 1) + 0) % k = 0
    BY <1>1, <1>2
  <2> QED BY <1>1, <1>2, <1>3, <2>1, <2>2
<1>4. CASE n % k # k - 1
  <2>1. n + 1 = k * q + ((n % k) + 1) /\ (n % k) + 1 \in 0 .. k - 1
    BY <1>1, <1>4
  <2>2. (k * q + ((n % k) + 1)) % k = (n % k) + 1
    BY <1>1, <1>2, <2>1
  <2> QED BY <1>1, <1>2, <1>4, <2>1, <2>2
<1> QED BY <1>3, <1>4

\* The offset measured d after the second began is the true one and d, but for whole
\* seconds.
LEMMA MeasuredOffset ==
    ASSUME NEW c \in Nat, NEW e \in Int, (e - Theta) % Second = 0
    PROVE  /\ Centered(c % Second) \in Int
           /\ 2 * Centered(c % Second) \in 1 - Second .. Second
           /\ (Centered(c % Second) - Theta - (c - e)) % Second = 0
<1>1. Second \in Nat \ {0} /\ Theta \in Int /\ e - Theta \in Int
  BY SecondAssumption
<1> DEFINE n == c % Second
<1>a. ASSUME NEW x \in Int PROVE \E q \in Int : x = Second * q + (x % Second)
  BY <1>1, Remainders
<1>2. PICK p \in Int : e - Theta = Second * p + 0
  <2>1. PICK p \in Int : e - Theta = Second * p + ((e - Theta) % Second)
    BY <1>1, <1>a
  <2> QED BY <2>1
<1>3. n \in 0 .. Second - 1
  BY <1>1, Remainders
<1>4. PICK q \in Int : c = Second * q + n
  <2>1. c \in Int
    OBVIOUS
  <2> QED BY <1>a, <2>1
<1> HIDE DEF n
<1>5. PICK z \in {0, 1} : Centered(n) = n - Second * z /\ 2 * Centered(n) \in 1 - Second .. Second
  BY <1>1, <1>3 DEF Centered
<1>6. Centered(n) - Theta - (c - e) = Second * (p - q - z) + 0
  <2>1. Second * (p - q - z) = Second * p - Second * q - Second * z
    BY <1>1, <1>5
  <2>2. e = Theta + Second * p
    BY <1>1, <1>2
  <2> QED BY <1>1, <1>3, <1>4, <1>5, <2>1, <2>2
<1>7. p - q - z \in Int /\ 0 \in 0 .. Second - 1
  BY <1>1
<1>8. (Second * (p - q - z) + 0) % Second = 0
  BY <1>1, <1>7, Remainders
<1> QED BY <1>1, <1>3, <1>5, <1>6, <1>8 DEF n

\* The latest pulse has not been counted yet.
Unseen == edge > lastPPS

\* When the reader looks: it ends a look in time, and counts a pulse one look later
\* if it came during a look.
LooksInTime ==
    /\ time <= due /\ due <= time + PollDelay
    /\ stat <= edge
    /\ Unseen => /\ due <= edge + 2 * PollDelay
                 /\ stat \notin {-1, edge} => due <= edge + PollDelay

\* The latest pulse is less than a second ago, and lies on the receiver's second.
PulseOnSecond ==
    /\ pulses = 0 <=> edge = 0
    /\ pulses > 0 => (edge - Theta) % Second = 0 /\ time - edge = (time - Theta) % Second

\* What has been counted: every pulse but one that came during the first look, and
\* once more for the first look itself.
CountedOnce ==
    /\ lastPPS = -1 => ppsCount = 0 /\ pulses <= 1
    /\ lastPPS # -1 => ppsCount + (IF Unseen THEN 1 ELSE 0) \in pulses .. pulses + 1
    /\ stat > lastPPS => stat = edge \/ (lastPPS = -1 /\ stat = 0)

MeasuredLate ==
    ppsCount > 1 => \E d \in 0 .. 2 * PollDelay : (ppsOffset - Theta - d) % Second = 0

PulseForms ==
    /\ spc \in {"opening", "running", "failed", "stopped"}
    /\ time \in 0 .. MaxTime /\ edge \in 0 .. time /\ pulses \in Nat
    /\ stat \in -1 .. time /\ due \in Nat /\ lastPPS \in -1 .. time
    /\ ppsCount \in Nat /\ ppsOffset \in Int /\ 2 * ppsOffset \in 1 - Second .. Second
    /\ spc = "opening" => time = 0 /\ stat = -1 /\ lastPPS = -1

PulseInv == PulseForms /\ LooksInTime /\ PulseOnSecond /\ CountedOnce /\ MeasuredLate

LEMMA PulseTypes ==
    ASSUME PulseInv
    PROVE  /\ time \in Nat /\ edge \in Nat /\ edge <= time /\ pulses \in Nat
           /\ stat \in Int /\ stat >= -1 /\ stat <= time /\ lastPPS \in Int /\ lastPPS >= -1 /\ lastPPS <= time
           /\ due \in Nat /\ ppsCount \in Nat /\ ppsOffset \in Int
           /\ Second \in Nat \ {0} /\ Theta \in 0 .. Second - 1 /\ PollDelay \in Nat
           /\ 2 * PollDelay < Second
BY SecondAssumption, LookAssumption, TableAssumption DEF PulseInv, PulseForms

\* A pulse that is not counted yet has come so lately that there is no other one.
LEMMA PulseStep == ASSUME PulseInv, Elapse PROVE PulseInv'
<1> USE DEF PulseInv
<1>1. /\ spc = "running" /\ time < due /\ time < MaxTime /\ time' = time + 1
      /\ UNCHANGED <<spc, stat, due, lastPPS, ppsCount, ppsOffset>>
  BY DEF Elapse
<1>2. /\ time \in Nat /\ edge \in Nat /\ edge <= time /\ pulses \in Nat
      /\ stat \in Int /\ stat >= -1 /\ stat <= time /\ lastPPS \in Int /\ lastPPS >= -1 /\ lastPPS <= time
      /\ due \in Nat /\ ppsCount \in Nat
      /\ Second \in Nat \ {0} /\ Theta \in Int /\ PollDelay \in Nat /\ 2 * PollDelay < Second
      /\ MaxTime \in Nat
  BY PulseTypes, TableAssumption
<1> DEFINE r == (time - Theta) % Second
<1> DEFINE s == (time' - Theta) % Second
<1>a. IF s = 0 THEN edge' = time + 1 /\ pulses' = pulses + 1 ELSE edge' = edge /\ pulses' = pulses
  <2>1. IF s = 0 THEN edge' = time' /\ pulses' = pulses + 1 ELSE UNCHANGED <<edge, pulses>>
    BY DEF Elapse
  <2> HIDE DEF s
  <2> QED BY <1>1, <2>1
<1>3. r \in 0 .. Second - 1 /\ s = IF r = Second - 1 THEN 0 ELSE r + 1
  <2> DEFINE x == time - Theta
  <2>1. x \in Int /\ x + 1 = time' - Theta
    BY <1>1, <1>2
  <2>2. s = (x + 1) % Second
    BY <2>1
  <2> HIDE DEF x, s
  <2>3. x % Second \in 0 .. Second - 1 /\ s = IF x % Second = Second - 1 THEN 0 ELSE (x % Second) + 1
    BY <1>2, <2>1, <2>2, Remainders
  <2> QED BY <2>3 DEF x
<1> HIDE DEF r, s
<1>4. pulses > 0 => (edge - Theta) % Second = 0 /\ time - edge = r
  BY DEF PulseOnSecond, r
<1>5. MeasuredLate'
  <2>1. \A d \in 0 .. 2 * PollDelay : ((ppsOffset - Theta - d) % Second)' = (ppsOffset - Theta - d) % Second
    BY <1>1
  <2> QED BY <1>1, <2>1 DEF MeasuredLate
<1>6. CASE s = 0
  <2>1. edge' = time + 1 /\ pulses' = pulses + 1
    BY <1>6, <1>a
  <2>2. pulses > 0 => ~Unseen
    <3> SUFFICES ASSUME pulses > 0, Unseen PROVE FALSE
      OBVIOUS
    <3>1. time + 1 = edge + Second
      BY <1>2, <1>3, <1>4, <1>6
    <3>2. due <= edge + 2 * PollDelay
      BY DEF LooksInTime
    <3> QED BY <1>1, <1>2, <3>1, <3>2
  <2>3. pulses = 0 => edge = 0
    BY DEF PulseOnSecond
  <2>4. PulseForms'
    BY <1>1, <1>2, <2>1 DEF PulseForms
  <2>5. LooksInTime'
    BY <1>1, <1>2, <2>1 DEF LooksInTime, Unseen
  <2>6. PulseOnSecond'
    <3>1. (edge' - Theta) % Second = 0 /\ (time' - Theta) % Second = 0
      <4>1. edge' = time'
        BY <1>1, <2>1
      <4> QED BY <1>6, <4>1 DEF s
    <3> QED BY <1>1, <1>2, <2>1, <3>1 DEF PulseOnSecond
  <2>7. CountedOnce'
    <3>1. CASE lastPPS = -1
      BY <1>1, <1>2, <2>1, <2>2, <2>3, <3>1 DEF CountedOnce, Unseen, LooksInTime
    <3>2. CASE lastPPS # -1
      <4>1. ~Unseen
        BY <1>2, <2>2, <2>3, <3>2 DEF Unseen
      <4> QED BY <1>1, <1>2, <2>1, <3>2, <4>1 DEF CountedOnce, Unseen, LooksInTime
    <3> QED BY <3>1, <3>2
  <2> QED BY <1>5, <2>4, <2>5, <2>6, <2>7
<1>7. CASE s # 0
  <2>1. edge' = edge /\ pulses' = pulses
    BY <1>7, <1>a
  <2>2. PulseForms'
    BY <1>1, <1>2, <2>1 DEF PulseForms
  <2>3. LooksInTime'
    BY <1>1, <1>2, <2>1 DEF LooksInTime, Unseen
  <2>4. PulseOnSecond'
    <3>1. s = r + 1
      BY <1>3, <1>7
    <3>2. (time' - Theta) % Second = s
      BY DEF s
    <3>3. pulses > 0 => time' - edge = s
      BY <1>1, <1>2, <1>3, <1>4, <3>1
    <3>4. pulses' > 0 => (edge' - Theta) % Second = 0
      BY <1>4, <2>1
    <3> QED BY <2>1, <3>2, <3>3, <3>4 DEF PulseOnSecond
  <2>5. CountedOnce'
    BY <1>1, <2>1 DEF CountedOnce, Unseen
  <2> QED BY <1>5, <2>2, <2>3, <2>4, <2>5
<1> QED BY <1>6, <1>7

\* A look before the clock is read: it finds the latest pulse.
LEMMA StatStep == ASSUME PulseInv, StatPPS PROVE PulseInv'
<1> USE DEF PulseInv
<1>1. /\ spc = "running" /\ stat = -1 /\ stat' = edge
      /\ UNCHANGED <<spc, time, edge, pulses, due, lastPPS, ppsCount, ppsOffset>>
  BY DEF StatPPS
<1>2. /\ time \in Nat /\ edge \in Nat /\ edge <= time /\ lastPPS \in Int /\ lastPPS >= -1
  BY PulseTypes
<1>3. PulseForms'
  BY <1>1, <1>2 DEF PulseForms
<1>4. LooksInTime'
  BY <1>1, <1>2 DEF LooksInTime, Unseen
<1>5. PulseOnSecond' /\ MeasuredLate'
  BY <1>1 DEF PulseOnSecond, MeasuredLate
<1>6. CountedOnce'
  BY <1>1, <1>2 DEF CountedOnce, Unseen
<1> QED BY <1>3, <1>4, <1>5, <1>6

\* A look at the clock: a pulse is counted if the look before has found one.
LEMMA CheckStep == ASSUME PulseInv, CheckPPS PROVE PulseInv'
<1> USE DEF PulseInv
<1>1. /\ spc = "running" /\ stat # -1 /\ stat' = -1 /\ due' = time + PollDelay
      /\ UNCHANGED <<spc, time, edge, pulses>>
  BY DEF CheckPPS
<1>2. /\ time \in Nat /\ edge \in Nat /\ edge <= time /\ pulses \in Nat
      /\ stat \in Int /\ stat >= -1 /\ stat <= time /\ lastPPS \in Int /\ lastPPS >= -1 /\ lastPPS <= time
      /\ due \in Nat /\ ppsCount \in Nat /\ ppsOffset \in Int
      /\ Second \in Nat \ {0} /\ Theta \in Int /\ PollDelay \in Nat /\ 2 * PollDelay < Second
  BY PulseTypes
<1>3. PulseOnSecond'
  BY <1>1 DEF PulseOnSecond
<1>4. CASE stat > lastPPS
  <2>1. lastPPS' = time /\ ppsCount' = ppsCount + 1 /\ ppsOffset' = Centered(time % Second)
    BY <1>4 DEF CheckPPS, PulseSeen
  <2>2. ~Unseen'
    BY <1>1, <1>2, <2>1 DEF Unseen
  <2>3. LooksInTime'
    BY <1>1, <1>2, <2>2 DEF LooksInTime
  <2>4. CountedOnce'
    <3>1. CASE lastPPS = -1
      BY <1>1, <1>2, <2>1, <2>2, <3>1 DEF CountedOnce
    <3>2. CASE lastPPS # -1
      <4>1. stat = edge /\ Unseen
        BY <1>2, <1>4, <3>2 DEF CountedOnce, Unseen
      <4> QED BY <1>1, <1>2, <2>1, <2>2, <3>2, <4>1 DEF CountedOnce
    <3> QED BY <3>1, <3>2
  <2>5. /\ Centered(time % Second) \in Int /\ 2 * Centered(time % Second) \in 1 - Second .. Second
    <3>1. Theta - Theta = 0 /\ 0 % Second = 0
      BY <1>2, Remainders
    <3> QED BY <1>2, <3>1, MeasuredOffset
  <2>6. PulseForms'
    BY <1>1, <1>2, <2>1, <2>5 DEF PulseForms
  <2>7. MeasuredLate'
    <3> SUFFICES ASSUME ppsCount' > 1
                 PROVE  \E d \in 0 .. 2 * PollDelay : (ppsOffset' - Theta - d) % Second = 0
      BY DEF MeasuredLate
    <3>1. ppsCount > 0 /\ lastPPS # -1
      BY <1>2, <2>1 DEF CountedOnce
    <3>2. stat = edge /\ Unseen /\ edge > 0
      BY <1>2, <1>4, <3>1 DEF CountedOnce, Unseen
    <3>3. (edge - Theta) % Second = 0
      BY <1>2, <3>2 DEF PulseOnSecond
    <3>4. time - edge \in 0 .. 2 * PollDelay
      BY <1>2, <3>2 DEF LooksInTime
    <3>5. (ppsOffset' - Theta - (time - edge)) % Second = 0
      <4>1. edge \in Int
        BY <1>2
      <4>2. (Centered(time % Second) - Theta - (time - edge)) % Second = 0
        BY <1>2, <3>3, <4>1, MeasuredOffset
      <4>3. ppsOffset' = Centered(time % Second)
        BY <2>1
      <4> QED BY <4>2, <4>3
    <3> QED BY <3>4, <3>5
  <2> QED BY <1>3, <2>3, <2>4, <2>6, <2>7
<1>5. CASE ~(stat > lastPPS)
  <2>1. UNCHANGED <<lastPPS, ppsCount, ppsOffset>>
    BY <1>5 DEF CheckPPS
  <2>2. LooksInTime'
    <3>1. time <= due /\ stat <= edge
      BY DEF LooksInTime
    <3>2. Unseen => due <= edge + PollDelay
      BY <1>1, <1>2, <1>5 DEF LooksInTime, Unseen
    <3> QED BY <1>1, <1>2, <2>1, <3>1, <3>2 DEF LooksInTime, Unseen
  <2>3. PulseForms'
    BY <1>1, <1>2, <2>1 DEF PulseForms
  <2>4. CountedOnce' /\ MeasuredLate'
    BY <1>1, <1>2, <2>1 DEF CountedOnce, MeasuredLate, Unseen
  <2> QED BY <1>3, <2>2, <2>3, <2>4
<1> QED BY <1>4, <1>5

\* Where Start is does not matter to what was measured.
LEMMA PulseKept ==
    ASSUME PulseInv, UNCHANGED pulse, spc' \in {"opening", "running", "failed", "stopped"},
           spc' = "opening" => spc = "opening"
    PROVE  PulseInv'
BY DEF PulseInv, PulseForms, LooksInTime, PulseOnSecond, CountedOnce, MeasuredLate, Unseen, pulse

LEMMA PulseInit == InitSerial => PulseInv
<1> SUFFICES ASSUME InitSerial PROVE PulseInv
  OBVIOUS
<1>1. /\ spc = "opening" /\ time = 0 /\ edge = 0 /\ pulses = 0 /\ stat = -1 /\ due = PollDelay
      /\ lastPPS = -1 /\ ppsCount = 0 /\ ppsOffset = 0
  BY DEF InitSerial
<1>2. PollDelay \in Nat /\ Second \in Nat \ {0} /\ MaxTime \in Nat
  BY SecondAssumption, TableAssumption
<1> QED BY <1>1, <1>2
        DEF PulseInv, PulseForms, LooksInTime, PulseOnSecond, CountedOnce, MeasuredLate, Unseen

LEMMA PulseAlways ==
    ASSUME PulseInv, [Next]_vars
    PROVE  PulseInv'
<1>1. CASE UNCHANGED serial
  BY <1>1, PulseKept DEF serial, PulseInv, PulseForms
<1>2. CASE SerialNext
  <2>1. CASE OpenDevices
    <3>1. /\ spc = "opening" /\ spc' \in {"running", "failed"} /\ due' = time + PollDelay
          /\ UNCHANGED <<time, edge, pulses, stat, lastPPS, ppsCount, ppsOffset>>
      BY <2>1 DEF OpenDevices
    <3>2. /\ time = 0 /\ edge \in Nat /\ edge <= time /\ stat = -1 /\ lastPPS = -1 /\ PollDelay \in Nat
      BY <3>1, PulseTypes DEF PulseInv, PulseForms
    <3>3. PulseForms' /\ LooksInTime'
      BY <3>1, <3>2 DEF PulseInv, PulseForms, LooksInTime, Unseen
    <3>4. PulseOnSecond' /\ CountedOnce' /\ MeasuredLate'
      BY <3>1 DEF PulseInv, PulseOnSecond, CountedOnce, MeasuredLate, Unseen
    <3> QED BY <3>3, <3>4 DEF PulseInv
  <2>2. CASE ParseNMEA
    BY <2>2, PulseKept DEF ParseNMEA, PulseInv, PulseForms
  <2> QED BY <1>2, <2>1, <2>2, PulseStep, StatStep, CheckStep DEF SerialNext
<1>3. CASE StopSerial
  BY <1>3, PulseKept DEF StopSerial, PulseInv, PulseForms
<1> QED BY <1>1, <1>2, <1>3 DEF Next, Run, Cancel, Stop, Simulate, vars

\* Every pulse is counted once, but for the first look, and measured no later than two
\* looks after it came, whatever seconds the pulse and the look fall in.
THEOREM PulseIsMeasured == Spec => []PulseMeasured
<1>1. Init => PulseInv
  BY PulseInit DEF Init
<1>2. PulseInv => PulseMeasured
  <2> SUFFICES ASSUME PulseInv PROVE PulseMeasured
    OBVIOUS
  <2>1. ppsCount > 0 => ppsCount \in pulses - 1 .. pulses + 1
    <3> SUFFICES ASSUME ppsCount > 0 PROVE ppsCount \in pulses - 1 .. pulses + 1
      OBVIOUS
    <3>1. ppsCount \in Nat /\ pulses \in Nat
      BY PulseTypes
    <3>2. ppsCount + (IF Unseen THEN 1 ELSE 0) \in pulses .. pulses + 1
      BY <3>1 DEF PulseInv, CountedOnce
    <3> QED BY <3>1, <3>2
  <2> QED BY <2>1 DEF PulseMeasured, PulseInv, MeasuredLate
<1> QED BY <1>1, <1>2, PulseAlways, PTL DEF Spec

-----------------------------------------------------------------------------
(* Types *)

TableOK(t) ==
    /\ t \in Seq(Entry) /\ Len(t) <= MaxSatellites
    /\ \A i, j \in DOMAIN t : t[i].prn = t[j].prn => i = j

\* A satellite has one entry, however often it is reported, and the table never
\* outgrows its bound.
LEMMA SatelliteAdded ==
    ASSUME NEW t, TableOK(t), NEW p \in PRN
    PROVE  TableOK(AddSatellite(t, p))
<1> USE DEF TableOK
<1> DEFINE e == [prn |-> p, used |-> FALSE]
<1>0. e \in Entry /\ e.prn = p
  BY DEF Entry
<1>1. /\ t \in Seq(Entry) /\ Len(t) \in Nat /\ DOMAIN t = 1 .. Len(t)
      /\ \A i \in DOMAIN t : t[i] \in Entry
  OBVIOUS
<1> HIDE DEF e
<1>2. CASE \E i \in DOMAIN t : t[i].prn = p
  <2> DEFINE u == [i \in DOMAIN t |-> IF t[i].prn = p THEN e ELSE t[i]]
  <2>1. AddSatellite(t, p) = u
    BY <1>2 DEF AddSatellite, e
  <2>2. u \in [1 .. Len(t) -> Entry] /\ DOMAIN u = DOMAIN t
    BY <1>0, <1>1
  <2>3. u \in Seq(Entry) /\ Len(u) = Len(t)
    BY <1>1, <2>2
  <2>4. \A i \in DOMAIN u : u[i].prn = t[i].prn
    BY <1>0, <2>2
  <2> HIDE DEF u
  <2> QED BY <2>1, <2>2, <2>3, <2>4
<1>3. CASE ~(\E i \in DOMAIN t : t[i].prn = p) /\ Len(t) < MaxSatellites
  <2> DEFINE u == Append(t, e)
  <2>1. AddSatellite(t, p) = u
    BY <1>3 DEF AddSatellite, e
  <2>2. u \in Seq(Entry) /\ Len(u) = Len(t) + 1 /\ u[Len(t) + 1] = e
        /\ DOMAIN u = 1 .. Len(t) + 1
    BY <1>0, <1>1
  <2>3. \A i \in DOMAIN t : u[i] = t[i]
    BY <1>0, <1>1
  <2>4. Len(u) <= MaxSatellites
    BY <1>1, <1>3, <2>2, TableAssumption
  <2> HIDE DEF u
  <2>5. ASSUME NEW i \in DOMAIN u, NEW j \in DOMAIN u, u[i].prn = u[j].prn PROVE i = j
    <3>1. i \in DOMAIN t \/ i = Len(t) + 1
      BY <1>1, <2>2
    <3>2. j \in DOMAIN t \/ j = Len(t) + 1
      BY <1>1, <2>2
    <3> QED BY <1>0, <1>3, <2>2, <2>3, <2>5, <3>1, <3>2
  <2> QED BY <2>1, <2>2, <2>4, <2>5
<1>4. CASE ~(\E i \in DOMAIN t : t[i].prn = p) /\ ~(Len(t) < MaxSatellites)
  BY <1>4 DEF AddSatellite
<1> QED BY <1>2, <1>3, <1>4

SentencesOK ==
    /\ fixed \in BOOLEAN /\ lockStarted = fixed
    /\ satellites \in Nat
    /\ TableOK(table)

LEMMA SentencesStep ==
    ASSUME SentencesOK, ParseNMEA
    PROVE  SentencesOK'
<1>1. CASE ParseRMC
  BY <1>1 DEF ParseRMC, SentencesOK, TableOK
<1>2. CASE ParseGGA
  <2>1. satellites' \in Nat
    BY <1>2, TableAssumption DEF ParseGGA
  <2> QED BY <1>2, <2>1 DEF ParseGGA, SentencesOK, TableOK
<1>3. CASE ParseGSV
  <2>1. PICK p \in PRN, q \in PRN : table' = AddSatellite(AddSatellite(table, p), q)
    BY <1>3 DEF ParseGSV
  <2>2. TableOK(AddSatellite(table, p))
    BY SatelliteAdded DEF SentencesOK
  <2>3. TableOK(AddSatellite(AddSatellite(table, p), q))
    BY <2>2, SatelliteAdded
  <2>4. TableOK(table')
    BY <2>1, <2>3
  <2>5. UNCHANGED <<fixed, lockStarted, satellites>>
    BY <1>3 DEF ParseGSV
  <2> QED BY <2>4, <2>5 DEF SentencesOK, TableOK
<1>4. CASE ParseGSA
  <2>1. PICK used \in SUBSET PRN :
          table' = [i \in DOMAIN table |-> [table[i] EXCEPT !.used = table[i].prn \in used]]
    BY <1>4 DEF ParseGSA
  <2>2. /\ table \in Seq(Entry) /\ Len(table) \in Nat /\ DOMAIN table = 1 .. Len(table)
        /\ Len(table) <= MaxSatellites
        /\ \A i, j \in DOMAIN table : table[i].prn = table[j].prn => i = j
    BY DEF SentencesOK, TableOK
  <2>3. ASSUME NEW i \in DOMAIN table
        PROVE  /\ [table[i] EXCEPT !.used = table[i].prn \in used] \in Entry
               /\ [table[i] EXCEPT !.used = table[i].prn \in used].prn = table[i].prn
    <3>1. PICK e \in Entry : e = table[i]
      BY <2>2
    <3>2. [e EXCEPT !.used = e.prn \in used] = [prn |-> e.prn, used |-> e.prn \in used]
      BY DEF Entry
    <3>3. (e.prn \in used) \in BOOLEAN /\ e.prn \in PRN
      BY DEF Entry
    <3> QED BY <3>1, <3>2, <3>3 DEF Entry
  <2>4. table' \in [1 .. Len(table) -> Entry] /\ DOMAIN table' = DOMAIN table
    BY <2>1, <2>2, <2>3
  <2>5. table' \in Seq(Entry) /\ Len(table') = Len(table)
    BY <2>2, <2>4
  <2>6. \A i \in DOMAIN table : table'[i].prn = table[i].prn
    BY <2>1, <2>3
  <2>7. \A i, j \in DOMAIN table' : table'[i].prn = table'[j].prn => i = j
    BY <2>2, <2>4, <2>6
  <2>8. UNCHANGED <<fixed, lockStarted, satellites>>
    BY <1>4 DEF ParseGSA
  <2> QED BY <2>2, <2>5, <2>7, <2>8 DEF SentencesOK, TableOK
<1> QED BY <1>1, <1>2, <1>3, <1>4 DEF ParseNMEA
LEMMA NetworkStep ==
    ASSUME LockInv, NetworkTypeOK, NetworkNext \/ StopNetwork
    PROVE  NetworkTypeOK'
<1> USE ConnectionAssumption
<1>0. /\ dialled \in 0 .. MaxConns /\ conn \in 0 .. dialled /\ open \subseteq 1 .. dialled
      /\ queue \in Seq(Message) /\ Len(queue) <= MaxQueue /\ Len(queue) \in Nat
  BY DEF NetworkTypeOK
<1>1. CASE LoopNetwork \/ TakeConn \/ Scan \/ FailedConnect \/ HangUp
  BY <1>1 DEF LoopNetwork, TakeConn, Scan, FailedConnect, HangUp, NetworkTypeOK
<1>2. CASE Dial
  <2>1. CASE dialled < MaxConns /\ dialled' = dialled + 1
    <3>1. \/ open' = open \cup {dialled'} /\ alive' = TRUE /\ queue' = <<>> /\ npc' = "assign"
          \/ dialled' = dialled
      BY <1>2, <2>1 DEF Dial
    <3>2. open' = open \cup {dialled + 1} /\ alive' = TRUE /\ queue' = <<>> /\ npc' = "assign"
      BY <1>0, <2>1, <3>1
    <3>3. queue' \in Seq(Message) /\ Len(queue') <= MaxQueue
      BY <3>2
    <3>4. UNCHANGED <<conn, connected, locked, lastTimed>>
      BY <1>2 DEF Dial
    <3>5. /\ dialled' \in 0 .. MaxConns /\ conn' \in 0 .. dialled' /\ open' \subseteq 1 .. dialled'
          /\ lastTimed' \in [fix : BOOLEAN, conn : 0 .. dialled']
      BY <1>0, <2>1, <3>2, <3>4 DEF NetworkTypeOK
    <3> QED BY <3>2, <3>3, <3>4, <3>5 DEF NetworkTypeOK
  <2>2. CASE ~(dialled < MaxConns /\ dialled' = dialled + 1)
    BY <1>2, <2>2 DEF Dial, NetworkTypeOK
  <2> QED BY <2>1, <2>2
<1>3. CASE AssignConn
  BY <1>0, <1>3 DEF AssignConn, NetworkTypeOK
<1>4. CASE Watch
  BY <1>4 DEF Watch, NetworkTypeOK
<1>5. CASE Process
  <2>1. CASE cancelled
    BY <1>5, <2>1 DEF Process, NetworkTypeOK
  <2>2. CASE ~cancelled
    <3>1. queue # <<>>
      BY <1>5 DEF Process, LockInv
    <3>2. Head(queue) \in Message /\ Tail(queue) \in Seq(Message) /\ Len(Tail(queue)) = Len(queue) - 1
      BY <1>0, <3>1
    <3>3. PICK m \in Message : m = Head(queue)
      BY <3>2
    <3>4. /\ locked' = IF m.timed THEN m.fix ELSE locked
          /\ lastTimed' = IF m.timed THEN [fix |-> m.fix, conn |-> dialled] ELSE lastTimed
          /\ queue' = Tail(queue) /\ npc' = "scan"
          /\ UNCHANGED <<dialled, conn, connected, open, alive>>
      BY <1>5, <2>2, <3>3 DEF Process, LockAfter
    <3>5. m.fix \in BOOLEAN /\ dialled \in 0 .. dialled
      BY <1>0 DEF Message
    <3>6. queue' \in Seq(Message) /\ Len(queue') <= MaxQueue
      BY <1>0, <3>2, <3>4
    <3>7. locked' \in BOOLEAN
      <4>1. CASE m.timed
        BY <3>4, <3>5, <4>1
      <4>2. CASE ~m.timed
        BY <3>4, <4>2 DEF NetworkTypeOK
      <4> QED BY <4>1, <4>2
    <3>8. lastTimed' \in [fix : BOOLEAN, conn : 0 .. dialled]
      <4>1. CASE m.timed
        BY <3>4, <3>5, <4>1
      <4>2. CASE ~m.timed
        BY <3>4, <4>2 DEF NetworkTypeOK
      <4> QED BY <4>1, <4>2
    <3> QED BY <3>4, <3>6, <3>7, <3>8 DEF NetworkTypeOK
  <2> QED BY <2>1, <2>2
<1>6. CASE Lost
  <2>1. /\ npc' = "loop" /\ connected' = FALSE /\ locked' = FALSE /\ conn' = 0 /\ open' = open \ {conn}
        /\ UNCHANGED <<dialled, alive, queue, lastTimed>>
    BY <1>6 DEF Lost, LockAfterLoss
  <2>2. 0 \in 0 .. dialled /\ open \ {conn} \subseteq 1 .. dialled
    BY <1>0
  <2> QED BY <2>1, <2>2 DEF NetworkTypeOK
<1>7. CASE Send
  <2>1. PICK m \in Message : queue' = Append(queue, m)
    BY <1>7 DEF Send
  <2>2. queue' \in Seq(Message) /\ Len(queue') = Len(queue) + 1
    BY <1>0, <2>1
  <2>3. Len(queue') <= MaxQueue
    BY <1>0, <1>7, <2>2 DEF Send
  <2> QED BY <1>7, <2>2, <2>3 DEF Send, NetworkTypeOK
<1>8. CASE StopNetwork
  <2>1. /\ connected' = FALSE /\ conn' = 0 /\ open' = open \ {conn}
        /\ UNCHANGED <<npc, dialled, locked, alive, queue, lastTimed>>
    BY <1>8 DEF StopNetwork
  <2>2. 0 \in 0 .. dialled /\ open \ {conn} \subseteq 1 .. dialled
    BY <1>0
  <2> QED BY <2>1, <2>2 DEF NetworkTypeOK
<1> QED BY <1>1, <1>2, <1>3, <1>4, <1>5, <1>6, <1>7, <1>8 DEF NetworkNext, StartNetwork

MainOK ==
    /\ type \in {"serialpps", "network", "dummy"}
    /\ cancelled \in BOOLEAN /\ stopped \in BOOLEAN /\ (stopped => cancelled)
    /\ dummy \in [locked : BOOLEAN, pps : 0 .. MaxTime]

TypesInv == LockInv /\ PulseInv /\ MainOK /\ SentencesOK /\ NetworkTypeOK

LEMMA TypesInit == Init => TypesInv
<1> SUFFICES ASSUME Init PROVE TypesInv
  OBVIOUS
<1>1. LockInv /\ PulseInv
  BY LockInit, PulseInit DEF Init
<1>2. MainOK
  <2>1. /\ type \in {"serialpps", "network", "dummy"} /\ cancelled = FALSE /\ stopped = FALSE
        /\ dummy = [locked |-> TRUE, pps |-> 0]
    BY DEF Init, InitDummy
  <2>2. [locked |-> TRUE, pps |-> 0] \in [locked : BOOLEAN, pps : 0 .. MaxTime]
    <3>1. 0 \in 0 .. MaxTime
      BY TableAssumption
    <3> QED BY <3>1
  <2> QED BY <2>1, <2>2 DEF MainOK
<1>3. SentencesOK
  <2>1. fixed = FALSE /\ lockStarted = FALSE /\ satellites = 0 /\ table = <<>>
    BY DEF Init, InitSerial
  <2>2. TableOK(<<>>)
    BY TableAssumption DEF TableOK
  <2> QED BY <2>1, <2>2 DEF SentencesOK
<1>4. NetworkTypeOK
  <2>1. /\ npc = "loop" /\ dialled = 0 /\ conn = 0 /\ connected = FALSE /\ locked = FALSE
        /\ open = {} /\ alive = FALSE /\ queue = <<>> /\ lastTimed = [fix |-> FALSE, conn |-> 0]
    BY DEF Init, InitNetwork
  <2>2. queue \in Seq(Message) /\ Len(queue) <= MaxQueue
    BY <2>1, ConnectionAssumption
  <2>3. 0 \in 0 .. MaxConns /\ 0 \in 0 .. dialled /\ {} \subseteq 1 .. dialled
    BY <2>1, ConnectionAssumption
  <2>4. lastTimed \in [fix : BOOLEAN, conn : 0 .. dialled]
    BY <2>1, <2>3
  <2> QED BY <2>1, <2>2, <2>3, <2>4 DEF NetworkTypeOK
<1> QED BY <1>1, <1>2, <1>3, <1>4 DEF TypesInv

LEMMA TypesStep == TypesInv /\ [Next]_vars => TypesInv'
<1> SUFFICES ASSUME TypesInv, [Next]_vars PROVE TypesInv'
  OBVIOUS
<1>1. LockInv' /\ PulseInv'
  BY LockStep, PulseAlways DEF TypesInv
<1>2. MainOK'
  <2>1. CASE Simulate
    BY <2>1, TableAssumption, [Next]_vars
       DEF TypesInv, MainOK, Simulate, Next, Run, Cancel, Stop, vars
  <2>2. CASE UNCHANGED dummy
    <3>1. type' = type
      BY DEF Next, Run, Cancel, Stop, vars
    <3>2. \/ UNCHANGED <<cancelled, stopped>>
          \/ cancelled' = TRUE /\ UNCHANGED stopped
          \/ cancelled /\ stopped' = TRUE /\ UNCHANGED cancelled
      BY DEF Next, Run, Cancel, Stop, vars
    <3>3. /\ type \in {"serialpps", "network", "dummy"}
          /\ cancelled \in BOOLEAN /\ stopped \in BOOLEAN /\ (stopped => cancelled)
          /\ dummy \in [locked : BOOLEAN, pps : 0 .. MaxTime]
      BY DEF TypesInv, MainOK
    <3>4. cancelled' \in BOOLEAN /\ stopped' \in BOOLEAN /\ (stopped' => cancelled')
      <4>1. CASE UNCHANGED <<cancelled, stopped>>
        BY <3>3, <4>1
      <4>2. CASE cancelled' = TRUE /\ UNCHANGED stopped
        BY <3>3, <4>2
      <4>3. CASE cancelled /\ stopped' = TRUE /\ UNCHANGED cancelled
        BY <3>3, <4>3
      <4> QED BY <3>2, <4>1, <4>2, <4>3
    <3>5. dummy' \in [locked : BOOLEAN, pps : 0 .. MaxTime]
      BY <2>2, <3>3
    <3> QED BY <3>1, <3>3, <3>4, <3>5 DEF MainOK
  <2> QED BY <2>1, <2>2 DEF Next, Run, Cancel, Stop, vars
<1>3. SentencesOK'
  <2>1. CASE UNCHANGED sentences
    BY <2>1 DEF TypesInv, SentencesOK, TableOK, sentences
  <2>2. CASE ParseNMEA
    BY <2>2, SentencesStep DEF TypesInv
  <2> QED BY <2>1, <2>2
          DEF Next, Run, Cancel, Stop, Simulate, SerialNext, OpenDevices, Elapse, StatPPS, CheckPPS,
              StopSerial, serial, vars
<1>4. NetworkTypeOK'
  <2>1. CASE UNCHANGED network
    BY <2>1 DEF TypesInv, NetworkTypeOK, network
  <2>2. CASE NetworkNext \/ StopNetwork
    BY <2>2, NetworkStep DEF TypesInv
  <2> QED BY <2>1, <2>2 DEF Next, Run, Cancel, Stop, Simulate, vars
<1> QED BY <1>1, <1>2, <1>3, <1>4 DEF TypesInv

\* Every variable of the three receivers keeps its type: among others the table of
\* satellites never outgrows its bound and has one entry for each.
THEOREM ReceiverTypeCorrect == Spec => []TypeOK
<1>1. TypesInv => TypeOK
  BY DEF TypesInv, MainOK, SentencesOK, TableOK, PulseInv, PulseForms, SerialTypeOK, TypeOK
<1> QED BY <1>1, TypesInit, TypesStep, PTL DEF Spec
=============================================================================
