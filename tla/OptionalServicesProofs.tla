------------------------ MODULE OptionalServicesProofs ------------------------
(***************************************************************************)
(* For any number of connections: the metrics of the key exchange add up   *)
(* and its sessions expire in time.  For any delays and any number of      *)
(* message numbers which outlasts them: a slave of the grandmaster is      *)
(* wrong by half of what the network and the grandmaster may take at most. *)
(***************************************************************************)
EXTENDS OptionalServices, FiniteSetTheorems, TLAPS

\* A counter modulo k: it goes on by one, or begins again.
LEMMA ModNext ==
    ASSUME NEW k \in Nat \ {0}, NEW n \in Nat
    PROVE  /\ n % k \in 0 .. k - 1
           /\ (n + 1) % k = IF n % k = k - 1 THEN 0 ELSE (n % k) + 1
<1> DEFINE q == n \div k
<1>1. n = k * q + (n % k) /\ q \in Nat /\ n % k \in 0 .. k - 1
  OBVIOUS
<1> HIDE DEF q
<1>2. ASSUME NEW p \in Nat, NEW r \in 0 .. k - 1
      PROVE  (k * p + r) % k = r
  OBVIOUS
<1>3. CASE n % k = k - 1
  <2>1. n + 1 = k * (q + 1) + 0
    BY <1>1, <1>3
  <2>2. (k * (q + 1) + 0) % k = 0
    BY <1>1, <1>2
  <2> QED BY <1>1, <1>3, <2>1, <2>2
<1>4. CASE n % k # k - 1
  <2>1. n + 1 = k * q + ((n % k) + 1) /\ (n % k) + 1 \in 0 .. k - 1
    BY <1>1, <1>4
  <2>2. (k * q + ((n % k) + 1)) % k = (n % k) + 1
    BY <1>1, <1>2, <2>1
  <2> QED BY <1>1, <1>4, <2>1, <2>2
<1> QED BY <1>3, <1>4
\* Multiples of k lie k apart.
LEMMA Times ==
    ASSUME NEW k \in Nat \ {0}, NEW p \in Int, NEW q \in Int, p < q
    PROVE  k * p + k <= k * q
<1>1. PICK d \in Nat \ {0} : q = p + d
  <2>1. q - p \in Nat \ {0} /\ q = p + (q - p)
    OBVIOUS
  <2> QED BY <2>1
<1>2. k * q = k * p + k * d
  BY <1>1
<1>3. k * d >= k
  BY <1>1
<1> QED BY <1>2, <1>3

\* A quotient, its bounds, and what it is known by.
LEMMA DivParts ==
    ASSUME NEW k \in Nat \ {0}, NEW n \in Int
    PROVE  n \div k \in Int /\ k * (n \div k) <= n /\ n < k * (n \div k) + k
OBVIOUS

LEMMA Quotient ==
    ASSUME NEW k \in Nat \ {0}, NEW n \in Int, NEW q \in Int, k * q <= n, n < k * q + k
    PROVE  n \div k = q
<1> DEFINE r == n \div k
<1>1. r \in Int /\ k * r <= n /\ n < k * r + k
  BY DivParts
<1> HIDE DEF r
<1>2. ~(r < q)
  BY <1>1, Times
<1>3. ~(q < r)
  BY <1>1, Times
<1> QED BY <1>1, <1>2, <1>3 DEF r

\* More divided by the same, the next multiple, and the same by more.
LEMMA DivMono ==
    ASSUME NEW k \in Nat \ {0}, NEW m \in Int, NEW n \in Int, m <= n
    PROVE  m \div k <= n \div k
<1> DEFINE r == n \div k
<1> DEFINE q == m \div k
<1>1. r \in Int /\ k * r <= n /\ n < k * r + k
  BY DivParts
<1>2. q \in Int /\ k * q <= m /\ m < k * q + k
  BY DivParts
<1> HIDE DEF r, q
<1>3. ~(r < q)
  BY <1>1, <1>2, Times
<1> QED BY <1>1, <1>2, <1>3 DEF r, q

LEMMA DivNext ==
    ASSUME NEW k \in Nat \ {0}, NEW n \in Int
    PROVE  (n + k) \div k = (n \div k) + 1
<1> DEFINE r == n \div k
<1>1. r \in Int /\ k * r <= n /\ n < k * r + k
  BY DivParts
<1> HIDE DEF r
<1>2. k * (r + 1) = k * r + k
  BY <1>1
<1>3. k * (r + 1) <= n + k /\ n + k < k * (r + 1) + k
  BY <1>1, <1>2
<1>4. (n + k) \div k = r + 1
  BY <1>1, <1>3, Quotient
<1> QED BY <1>4 DEF r

LEMMA DivLess ==
    ASSUME NEW k \in Nat \ {0}, NEW l \in Nat \ {0}, NEW n \in Nat, l <= k
    PROVE  n \div k <= n \div l
<1> DEFINE q == n \div k
<1>1. q \in Nat /\ k * q <= n
  BY DivParts
<1> HIDE DEF q
<1>2. l * q <= k * q
  <2>1. PICK d \in Nat : k = l + d
    <3>1. k - l \in Nat /\ k = l + (k - l)
      OBVIOUS
    <3> QED BY <3>1
  <2>2. k * q = l * q + d * q /\ d * q \in Nat
    BY <1>1, <2>1
  <2> QED BY <1>1, <2>2
<1>3. l * q <= n
  BY <1>1, <1>2
<1>4. ~(n \div l < q)
  <2> SUFFICES ASSUME n \div l < q PROVE FALSE
    OBVIOUS
  <2> DEFINE r == n \div l
  <2>1. r \in Int /\ n < l * r + l /\ r < q
    BY DivParts
  <2> HIDE DEF r
  <2> QED BY <1>1, <1>3, <2>1, Times
<1>5. n \div l \in Int
  BY DivParts
<1> QED BY <1>1, <1>4, <1>5 DEF q

\* A timer that fires every k fires once as time goes on, or not.
LEMMA DivTick ==
    ASSUME NEW k \in Nat \ {0}, NEW n \in Nat
    PROVE  (n + 1) \div k = (n \div k) + (IF (n + 1) % k = 0 THEN 1 ELSE 0)
<1> DEFINE r == (n + 1) \div k
<1> DEFINE s == (n + 1) % k
<1>1. r \in Int /\ s \in 0 .. k - 1 /\ n + 1 = k * r + s
  OBVIOUS
<1> HIDE DEF r, s
<1>2. CASE s = 0
  <2>1. k * (r - 1) = k * r - k
    BY <1>1
  <2>2. k * (r - 1) <= n /\ n < k * (r - 1) + k
    BY <1>1, <1>2, <2>1
  <2>3. n \div k = r - 1
    BY <1>1, <2>2, Quotient
  <2> QED BY <1>1, <1>2, <2>3 DEF r, s
<1>3. CASE s # 0
  <2>2. k * r <= n /\ n < k * r + k
    BY <1>1, <1>3
  <2>3. n \div k = r
    BY <1>1, <2>2, Quotient
  <2> QED BY <1>1, <1>3, <2>3 DEF r, s
<1> QED BY <1>2, <1>3
-----------------------------------------------------------------------------
(* The key exchange *)

Begun == {c \in Conn : exchange[c] # "none"}

\* A session is in the map only after its exchange has made it, and no older than
\* the last sweep has left it and the time since.
NTSInv ==
    /\ start \in {"new", "listening", "started"}
    /\ listener \in {"new", "open", "closed"} /\ running \in BOOLEAN
    /\ exchange \in [Conn -> {"none", "handshake", "read", "process", "cookies", "write", "done"}]
    /\ answer \in [Conn -> {"none", "error", "plain", Supported, OtherAEAD}]
    /\ DOMAIN lastUsed \subseteq Conn
    /\ requests \in Nat /\ success \in Nat /\ failures \in Nat
    /\ ntime \in 0 .. NTSTime /\ sweepDue \in BOOLEAN
    /\ requests = Cardinality(Begun)
    /\ requests = success + failures + Cardinality(Busy)
    /\ gauge = Cardinality(DOMAIN lastUsed)
    /\ \A c \in DOMAIN lastUsed :
         /\ answer[c] \notin {"none", "error"}
         /\ exchange[c] \in {"cookies", "write", "done"}
         /\ lastUsed[c] \in 0 .. ntime
         /\ ntime - lastUsed[c] <= MaxAge + (IF sweepDue THEN SweepInterval ELSE ntime % SweepInterval)

LEMMA FiniteParts ==
    /\ IsFiniteSet(Busy) /\ IsFiniteSet(Begun)
    /\ Cardinality(Busy) \in Nat /\ Cardinality(Begun) \in Nat
    /\ Cardinality(Begun) <= Cardinality(Conn) /\ Cardinality(Conn) \in Nat
BY ConnAssumption, FS_Subset, FS_CardinalityType DEF Busy, Begun

LEMMA NTSInit == InitNTS => NTSInv
<1> SUFFICES ASSUME InitNTS PROVE NTSInv
  OBVIOUS
<1>1. Busy = {} /\ Begun = {} /\ DOMAIN lastUsed = {}
  BY DEF InitNTS, Busy, Begun
<1>2. Cardinality({}) = 0
  BY FS_EmptySet
<1>3. ntime = 0 /\ sweepDue = FALSE /\ listener = "new" /\ running = FALSE
      /\ start = "new"
  BY DEF InitNTS
<1>5. ntime \in 0 .. NTSTime
  BY <1>3, SweepAssumption
<1>4. /\ exchange \in [Conn -> {"none", "handshake", "read", "process", "cookies", "write", "done"}]
      /\ answer \in [Conn -> {"none", "error", "plain", Supported, OtherAEAD}]
      /\ gauge = 0 /\ requests = 0 /\ success = 0 /\ failures = 0
  BY DEF InitNTS
<1> HIDE DEF InitNTS
<1>6. /\ requests = Cardinality(Begun) /\ requests = success + failures + Cardinality(Busy)
      /\ gauge = Cardinality(DOMAIN lastUsed)
  BY <1>1, <1>2, <1>4
<1>7. DOMAIN lastUsed \subseteq Conn /\ \A c \in DOMAIN lastUsed : FALSE
  BY <1>1
<1>8. requests \in Nat /\ success \in Nat /\ failures \in Nat /\ sweepDue \in BOOLEAN
      /\ listener \in {"new", "open", "closed"} /\ running \in BOOLEAN
      /\ start \in {"new", "listening", "started"}
  BY <1>3, <1>4
<1> QED BY <1>4, <1>5, <1>6, <1>7, <1>8 DEF NTSInv

\* An exchange that is neither begun nor over before the step, or neither after it.
LEMMA BusyEnds ==
    ASSUME NTSInv, NEW c \in Conn, exchange[c] \notin {"none", "done"},
           exchange' = [exchange EXCEPT ![c] = "done"]
    PROVE  /\ Cardinality(Busy') = Cardinality(Busy) - 1
           /\ Begun' = Begun
<1>1. Busy' = Busy \ {c} /\ c \in Busy /\ Begun' = Begun
  BY DEF NTSInv, Busy, Begun
<1> QED BY <1>1, FiniteParts, FS_RemoveElement

LEMMA BusyStays ==
    ASSUME NTSInv, NEW c \in Conn, exchange[c] \notin {"none", "done"},
           NEW l \in {"read", "process", "cookies", "write"},
           exchange' = [exchange EXCEPT ![c] = l]
    PROVE  Busy' = Busy /\ Begun' = Begun
BY DEF NTSInv, Busy, Begun

LEMMA AnswerNames ==
    ASSUME NEW aeads \in BoundedSeq({Supported, OtherAEAD}, 2)
    PROVE  AnswerTo(TRUE, aeads) \in {"plain", Supported, OtherAEAD}
<1>1. PICK n \in 0 .. 2 : aeads \in [1 .. n -> {Supported, OtherAEAD}]
  BY DEF BoundedSeq, SeqOf
<1>2. CASE Supported \in Range(aeads)
  <2>1. n \in 1 .. 2
    BY <1>1, <1>2 DEF Range
  <2>2. Len(aeads) = n
    BY <1>1
  <2>3. Last(aeads) \in {Supported, OtherAEAD}
    BY <1>1, <2>1, <2>2 DEF Last
  <2> QED BY <1>2, <2>3 DEF AnswerTo
<1>3. CASE Supported \notin Range(aeads)
  BY <1>3 DEF AnswerTo
<1> QED BY <1>2, <1>3

\* What an exchange does to the map is to add its own session.
LEMMA NTSExchange ==
    ASSUME NTSInv, NEW c \in Conn, Accept(c) \/ HandleConnection(c)
    PROVE  NTSInv'
<1>0. /\ Cardinality(Busy) \in Nat /\ Cardinality(Begun) \in Nat
      /\ \A d \in DOMAIN lastUsed : exchange[d] \in {"cookies", "write", "done"}
      /\ exchange \in [Conn -> {"none", "handshake", "read", "process", "cookies", "write", "done"}]
  BY FiniteParts DEF NTSInv
<1>1. CASE Accept(c)
  <2>1. /\ exchange[c] = "none" /\ exchange' = [exchange EXCEPT ![c] = "handshake"]
        /\ requests' = requests + 1
        /\ UNCHANGED <<start, listener, running, answer, success, failures, lastUsed, gauge, ntime, sweepDue>>
    BY <1>1 DEF Accept, service, sessions
  <2>2. Busy' = Busy \cup {c} /\ c \notin Busy /\ Begun' = Begun \cup {c} /\ c \notin Begun
    BY <1>0, <2>1 DEF Busy, Begun
  <2>3. Cardinality(Busy') = Cardinality(Busy) + 1 /\ Cardinality(Begun') = Cardinality(Begun) + 1
    BY <2>2, FiniteParts, FS_AddElement
  <2>4. \A d \in DOMAIN lastUsed : exchange'[d] = exchange[d]
    BY <1>0, <2>1 DEF NTSInv
  <2>5. exchange' \in [Conn -> {"none", "handshake", "read", "process", "cookies", "write", "done"}]
    BY <1>0, <2>1
  <2>6. requests' = Cardinality(Begun') /\ requests' = success' + failures' + Cardinality(Busy')
        /\ requests' \in Nat
    <3>1. /\ requests \in Nat /\ success \in Nat /\ failures \in Nat
          /\ requests = Cardinality(Begun) /\ requests = success + failures + Cardinality(Busy)
      BY DEF NTSInv
    <3>2. requests' = requests + 1 /\ success' = success /\ failures' = failures
      BY <2>1
    <3> QED BY <1>0, <2>3, <3>1, <3>2
  <2> QED BY <2>1, <2>4, <2>5, <2>6 DEF NTSInv
<1>2. ASSUME NEW l \in {"read", "process", "cookies", "write", "done"},
             exchange[c] \notin {"none", "done"},
             c \in DOMAIN lastUsed => l \in {"cookies", "write", "done"},
             exchange' = [exchange EXCEPT ![c] = l],
             l = "done" => success' + failures' = success + failures + 1,
             l # "done" => success' + failures' = success + failures,
             success' \in Nat, failures' \in Nat,
             UNCHANGED <<start, listener, running, requests, ntime, sweepDue>>,
             UNCHANGED <<answer, lastUsed, gauge>>
      PROVE  NTSInv'
  <2>1. \A d \in DOMAIN lastUsed : exchange'[d] \in {"cookies", "write", "done"}
    BY <1>0, <1>2 DEF NTSInv
  <2>0. /\ success \in Nat /\ failures \in Nat /\ Cardinality(Busy) \in Nat
        /\ requests \in Nat /\ requests = Cardinality(Begun)
        /\ requests = success + failures + Cardinality(Busy)
    BY <1>0 DEF NTSInv
  <2>2. /\ Begun' = Begun
        /\ success' + failures' + Cardinality(Busy') = success + failures + Cardinality(Busy)
    <3>1. CASE l = "done"
      <4>1. Cardinality(Busy') = Cardinality(Busy) - 1 /\ Begun' = Begun
        BY <1>2, <3>1, BusyEnds
      <4>2. success' + failures' = success + failures + 1 /\ success' \in Nat /\ failures' \in Nat
        BY <1>2, <3>1
      <4>3. PICK s \in Nat, f \in Nat : s = success' /\ f = failures'
        BY <4>2
      <4>4. s + f = success + failures + 1
        BY <4>2, <4>3
      <4>5. (s + f) + (Cardinality(Busy) - 1) = success + failures + Cardinality(Busy)
        BY <2>0, <4>4
      <4>6. (success' + failures') + (Cardinality(Busy) - 1) = success + failures + Cardinality(Busy)
        BY <4>3, <4>5
      <4> QED BY <4>1, <4>6
    <3>2. CASE l # "done"
      <4>1. Busy' = Busy /\ Begun' = Begun
        BY <1>2, <3>2, BusyStays
      <4> QED BY <1>2, <3>2, <4>1
    <3> QED BY <3>1, <3>2
  <2>3. exchange' \in [Conn -> {"none", "handshake", "read", "process", "cookies", "write", "done"}]
    BY <1>0, <1>2
  <2>4. requests' = Cardinality(Begun') /\ requests' = success' + failures' + Cardinality(Busy')
    BY <1>2, <2>0, <2>2
  <2> QED BY <1>2, <2>1, <2>3, <2>4 DEF NTSInv
<1>3. CASE FailExchange(c)
  BY <1>2, <1>3 DEF FailExchange, NTSInv, service, sessions
<1>4. CASE WriteResponse(c)
  BY <1>2, <1>4 DEF WriteResponse, NTSInv, service, sessions
<1>5. CASE Proceed(c, "handshake", "read") \/ Proceed(c, "read", "process") \/ Proceed(c, "cookies", "write")
  BY <1>0, <1>2, <1>5 DEF Proceed, NTSInv, service, sessions
<1>6. CASE Refuse(c)
  <2>1. /\ exchange[c] = "process" /\ exchange' = [exchange EXCEPT ![c] = "write"]
        /\ answer' = [answer EXCEPT ![c] = "error"]
        /\ UNCHANGED <<start, listener, running, requests, success, failures, lastUsed, gauge, ntime, sweepDue>>
    BY <1>6 DEF Refuse, AnswerTo, service, sessions
  <2>2. c \notin DOMAIN lastUsed
    BY <1>0, <2>1
  <2>3. Busy' = Busy /\ Begun' = Begun
    BY <2>1, BusyStays
  <2>4. \A d \in DOMAIN lastUsed : exchange'[d] = exchange[d] /\ answer'[d] = answer[d]
    BY <2>1, <2>2 DEF NTSInv
  <2>5. /\ exchange' \in [Conn -> {"none", "handshake", "read", "process", "cookies", "write", "done"}]
        /\ answer' \in [Conn -> {"none", "error", "plain", Supported, OtherAEAD}]
    BY <2>1 DEF NTSInv
  <2> QED BY <2>1, <2>3, <2>4, <2>5 DEF NTSInv
<1>7. CASE MakeSession(c)
  <2>1. /\ exchange[c] = "process" /\ exchange' = [exchange EXCEPT ![c] = "cookies"]
        /\ lastUsed' = [d \in DOMAIN lastUsed \cup {c} |-> IF d = c THEN ntime ELSE lastUsed[d]]
        /\ gauge' = Cardinality(DOMAIN lastUsed')
        /\ UNCHANGED <<start, listener, running, requests, success, failures, ntime, sweepDue>>
    BY <1>7 DEF MakeSession, SessionStored, GaugeAfter, service
  <2>2. PICK aeads \in BoundedSeq({Supported, OtherAEAD}, 2) :
          answer' = [answer EXCEPT ![c] = AnswerTo(TRUE, aeads)]
    BY <1>7 DEF MakeSession
  <2>3. AnswerTo(TRUE, aeads) \in {"plain", Supported, OtherAEAD}
    BY AnswerNames
  <2>4. Busy' = Busy /\ Begun' = Begun
    BY <2>1, BusyStays
  <2>5. /\ exchange' \in [Conn -> {"none", "handshake", "read", "process", "cookies", "write", "done"}]
        /\ answer' \in [Conn -> {"none", "error", "plain", Supported, OtherAEAD}]
    BY <2>1, <2>2, <2>3 DEF NTSInv
  <2>6. answer'[c] \notin {"none", "error"} /\ \A d \in Conn \ {c} : answer'[d] = answer[d]
    BY <2>2, <2>3 DEF NTSInv, Supported, OtherAEAD
  <2>7. /\ ntime \in Nat /\ SweepInterval \in Nat \ {0} /\ MaxAge \in Nat
        /\ ntime % SweepInterval \in 0 .. SweepInterval - 1
    BY SweepAssumption, ModNext DEF NTSInv
  <2>8. ASSUME NEW d \in DOMAIN lastUsed'
        PROVE  /\ answer'[d] \notin {"none", "error"}
               /\ exchange'[d] \in {"cookies", "write", "done"}
               /\ lastUsed'[d] \in 0 .. ntime'
               /\ ntime' - lastUsed'[d] <= MaxAge + (IF sweepDue' THEN SweepInterval ELSE ntime' % SweepInterval)
    <3>1. CASE d = c
      <4>1. lastUsed'[d] = ntime /\ exchange'[d] = "cookies"
        BY <1>0, <2>1, <3>1
      <4> QED BY <2>1, <2>6, <2>7, <3>1, <4>1
    <3>2. CASE d # c
      <4>1. d \in DOMAIN lastUsed /\ lastUsed'[d] = lastUsed[d] /\ d \in Conn
        BY <2>1, <2>8, <3>2 DEF NTSInv
      <4>2. exchange'[d] = exchange[d]
        BY <2>1, <3>2, <4>1
      <4> QED BY <2>1, <2>6, <3>2, <4>1, <4>2 DEF NTSInv
    <3> QED BY <3>1, <3>2
  <2>9. DOMAIN lastUsed' \subseteq Conn
    BY <2>1 DEF NTSInv
  <2> QED BY <2>1, <2>4, <2>5, <2>8, <2>9 DEF NTSInv
<1> QED BY <1>1, <1>3, <1>4, <1>5, <1>6, <1>7 DEF HandleConnection

\* The sweeper forgets what has outlived its time.
LEMMA NTSSweep ==
    ASSUME NTSInv, CleanupSessions \/ ElapseNTS
    PROVE  NTSInv'
<1>0. /\ ntime \in Nat /\ SweepInterval \in Nat \ {0} /\ MaxAge \in Nat /\ NTSTime \in Nat
      /\ ntime % SweepInterval \in 0 .. SweepInterval - 1
      /\ (ntime + 1) % SweepInterval = IF ntime % SweepInterval = SweepInterval - 1 THEN 0
                                       ELSE (ntime % SweepInterval) + 1
  <2>1. ntime \in Nat /\ SweepInterval \in Nat \ {0} /\ MaxAge \in Nat /\ NTSTime \in Nat
    BY SweepAssumption DEF NTSInv
  <2> QED BY <2>1, ModNext
<1>1. CASE CleanupSessions
  <2>1. /\ sweepDue' = FALSE /\ gauge' = Cardinality(DOMAIN lastUsed')
        /\ DOMAIN lastUsed' = {d \in DOMAIN lastUsed : Fresh(d)}
        /\ \A d \in DOMAIN lastUsed' : lastUsed'[d] = lastUsed[d]
        /\ UNCHANGED <<start, listener, running, exchange, answer, requests, success, failures, ntime>>
    BY <1>1 DEF CleanupSessions, GaugeAfter, exchanges, service
  <2>2. ASSUME NEW d \in DOMAIN lastUsed'
        PROVE  /\ d \in DOMAIN lastUsed /\ lastUsed'[d] = lastUsed[d]
               /\ ntime' - lastUsed'[d] <= MaxAge + (IF sweepDue' THEN SweepInterval ELSE ntime' % SweepInterval)
    <3>1. d \in DOMAIN lastUsed /\ ntime - lastUsed[d] <= MaxAge /\ lastUsed[d] \in 0 .. ntime
      BY <2>1 DEF Fresh, NTSInv
    <3> QED BY <1>0, <2>1, <3>1
  <2>3. Busy' = Busy /\ Begun' = Begun
    BY <2>1 DEF Busy, Begun
  <2> QED BY <2>1, <2>2, <2>3 DEF NTSInv
<1>2. CASE ElapseNTS
  <2>1. /\ ntime < NTSTime /\ ~sweepDue /\ ntime' = ntime + 1
        /\ sweepDue' = ((ntime + 1) % SweepInterval = 0)
        /\ UNCHANGED <<start, listener, running, exchange, answer, requests, success, failures, lastUsed, gauge>>
    BY <1>2 DEF ElapseNTS, exchanges, service, sessions
  <2>2. ASSUME NEW d \in DOMAIN lastUsed
        PROVE  /\ lastUsed[d] \in 0 .. ntime'
               /\ ntime' - lastUsed[d] <= MaxAge + (IF sweepDue' THEN SweepInterval ELSE ntime' % SweepInterval)
    <3>1. lastUsed[d] \in 0 .. ntime /\ ntime - lastUsed[d] <= MaxAge + (ntime % SweepInterval)
      BY <2>1 DEF NTSInv
    <3>2. CASE ntime % SweepInterval = SweepInterval - 1
      <4>1. sweepDue' = TRUE
        BY <1>0, <2>1, <3>2
      <4> QED BY <1>0, <2>1, <3>1, <3>2, <4>1
    <3>3. CASE ntime % SweepInterval # SweepInterval - 1
      BY <1>0, <2>1, <3>1, <3>3
    <3> QED BY <3>2, <3>3
  <2>3. Busy' = Busy /\ Begun' = Begun
    BY <2>1 DEF Busy, Begun
  <2>4. ntime' \in 0 .. NTSTime /\ sweepDue' \in BOOLEAN
    BY <1>0, <2>1
  <2> QED BY <2>1, <2>2, <2>3, <2>4 DEF NTSInv
<1> QED BY <1>1, <1>2

LEMMA NTSStep == NTSInv /\ [Next]_vars => NTSInv'
<1> SUFFICES ASSUME NTSInv, [Next]_vars PROVE NTSInv'
  OBVIOUS
<1> USE DEF exchanges, service, sessions
<1>1. CASE UNCHANGED nts
  BY <1>1 DEF nts, NTSInv, Busy, Begun
<1>2. CASE NTSNext
  <2>1. CASE ListenNTS \/ SetRunning
    <3>1. /\ UNCHANGED <<exchange, answer, requests, success, failures, lastUsed, gauge, ntime, sweepDue>>
          /\ listener' \in {"new", "open", "closed"} /\ running' \in BOOLEAN
          /\ start' \in {"new", "listening", "started"}
      BY <2>1 DEF ListenNTS, SetRunning, NTSInv, sessions
    <3>2. Busy' = Busy /\ Begun' = Begun
      BY <3>1 DEF Busy, Begun
    <3> QED BY <3>1, <3>2 DEF NTSInv
  <2> QED BY <1>2, <2>1, NTSSweep, NTSExchange DEF NTSNext
<1>3. CASE ElapseNTS
  BY <1>3, NTSSweep
<1>4. CASE StopNTS
  BY <1>4 DEF StopNTS, NTSInv, Busy, Begun
<1> QED BY <1>1, <1>2, <1>3, <1>4 DEF Next, Run, Elapse, Cancel, Stop, vars

\* A session in the map is as old as its exchange; one that is not has outlived its
\* time.
StoredInv ==
    /\ DOMAIN lastUsed \subseteq Conn
    /\ ntime \in Nat /\ madeAt \in [Conn -> Nat] /\ \A c \in Conn : madeAt[c] <= ntime
    /\ answer \in [Conn -> {"none", "error", "plain", Supported, OtherAEAD}]
    /\ \A c \in DOMAIN lastUsed : lastUsed[c] = madeAt[c]
    /\ \A c \in Conn : answer[c] \notin {"none", "error"} /\ ntime - madeAt[c] <= MaxAge
                         => c \in DOMAIN lastUsed

LEMMA StoredInit == InitNTS => StoredInv
BY DEF InitNTS, StoredInv

LEMMA StoredExchange ==
    ASSUME StoredInv, NEW c \in Conn, Accept(c) \/ HandleConnection(c)
    PROVE  StoredInv'
<1>1. CASE MakeSession(c)
  <2>1. /\ lastUsed' = [d \in DOMAIN lastUsed \cup {c} |-> IF d = c THEN ntime ELSE lastUsed[d]]
        /\ madeAt' = [madeAt EXCEPT ![c] = ntime] /\ ntime' = ntime
    BY <1>1 DEF MakeSession, SessionStored
  <2>2. PICK aeads \in BoundedSeq({Supported, OtherAEAD}, 2) :
          answer' = [answer EXCEPT ![c] = AnswerTo(TRUE, aeads)]
    BY <1>1 DEF MakeSession
  <2>3. AnswerTo(TRUE, aeads) \in {"plain", Supported, OtherAEAD}
    BY AnswerNames
  <2>4. answer' \in [Conn -> {"none", "error", "plain", Supported, OtherAEAD}]
    BY <2>2, <2>3 DEF StoredInv
  <2>5. \A d \in Conn \ {c} : answer'[d] = answer[d] /\ madeAt'[d] = madeAt[d]
    BY <2>1, <2>2 DEF StoredInv
  <2>6. /\ ntime \in Nat /\ madeAt \in [Conn -> Nat] /\ DOMAIN lastUsed \subseteq Conn
        /\ \A d \in Conn : madeAt[d] <= ntime
    BY DEF StoredInv
  <2>7. /\ DOMAIN lastUsed' \subseteq Conn /\ ntime' \in Nat /\ madeAt' \in [Conn -> Nat]
        /\ \A d \in Conn : madeAt'[d] <= ntime'
    BY <2>1, <2>6
  <2>8. \A d \in DOMAIN lastUsed' : lastUsed'[d] = madeAt'[d]
    <3>1. \A d \in DOMAIN lastUsed : lastUsed[d] = madeAt[d]
      BY DEF StoredInv
    <3> QED BY <2>1, <2>6, <3>1
  <2>9. ASSUME NEW d \in Conn, answer'[d] \notin {"none", "error"}, ntime' - madeAt'[d] <= MaxAge
        PROVE  d \in DOMAIN lastUsed'
    <3>1. CASE d = c
      BY <2>1, <3>1
    <3>2. CASE d # c
      BY <2>1, <2>5, <2>9, <3>2 DEF StoredInv
    <3> QED BY <3>1, <3>2
  <2> QED BY <2>4, <2>7, <2>8, <2>9 DEF StoredInv
<1>2. CASE Refuse(c)
  <2>1. /\ answer' = [answer EXCEPT ![c] = "error"]
        /\ UNCHANGED <<lastUsed, madeAt, ntime>>
    BY <1>2 DEF Refuse, AnswerTo, sessions
  <2> QED BY <2>1 DEF StoredInv
<1>3. CASE UNCHANGED <<answer, lastUsed, madeAt, ntime>>
  BY <1>3 DEF StoredInv
<1> QED BY <1>1, <1>2, <1>3 DEF Accept, HandleConnection, FailExchange, WriteResponse, Proceed, sessions

LEMMA StoredStep == StoredInv /\ [Next]_vars => StoredInv'
<1> SUFFICES ASSUME StoredInv, [Next]_vars PROVE StoredInv'
  OBVIOUS
<1>1. CASE UNCHANGED <<answer, lastUsed, madeAt, ntime>>
  BY <1>1 DEF StoredInv
<1>2. CASE CleanupSessions
  <2>1. /\ DOMAIN lastUsed' = {d \in DOMAIN lastUsed : ntime - lastUsed[d] <= MaxAge}
        /\ \A d \in DOMAIN lastUsed' : lastUsed'[d] = lastUsed[d]
        /\ UNCHANGED <<answer, madeAt, ntime>>
    BY <1>2 DEF CleanupSessions, Fresh, exchanges
  <2> QED BY <2>1 DEF StoredInv
<1>3. CASE ElapseNTS
  <2>1. ntime' = ntime + 1 /\ UNCHANGED <<answer, lastUsed, madeAt>>
    BY <1>3 DEF ElapseNTS, exchanges, sessions
  <2>2. \A c \in Conn : ntime' - madeAt[c] <= MaxAge => ntime - madeAt[c] <= MaxAge
    BY <2>1, SweepAssumption DEF StoredInv
  <2> QED BY <2>1, <2>2 DEF StoredInv
<1>4. ListenNTS \/ SetRunning \/ StopNTS \/ UNCHANGED nts => UNCHANGED <<answer, lastUsed, madeAt, ntime>>
  BY DEF ListenNTS, SetRunning, StopNTS, nts, exchanges, sessions
<1> QED BY <1>1, <1>2, <1>3, <1>4, StoredExchange DEF Next, Run, Elapse, Cancel, Stop, NTSNext, vars

\* Requests are successes, failures and exchanges in progress; the gauge is the size
\* of the map; an exchange not answered with an error has left its session in the map,
\* until the session is too old.
THEOREM ExchangesAreAccounted == Spec => []ExchangesAccounted
<1>1. Init => NTSInv /\ StoredInv
  BY NTSInit, StoredInit DEF Init
<1>2. NTSInv /\ StoredInv => ExchangesAccounted
  BY DEF NTSInv, StoredInv, ExchangesAccounted
<1> QED BY <1>1, <1>2, NTSStep, StoredStep, PTL DEF Spec

\* A session is forgotten one sweep after its time at the latest.
THEOREM SessionsAlwaysExpire == Spec => []SessionsExpire
<1>1. Init => NTSInv
  BY NTSInit DEF Init
<1>2. NTSInv => SessionsExpire
  <2> SUFFICES ASSUME NTSInv, NEW c \in DOMAIN lastUsed
               PROVE  ntime - lastUsed[c] <= MaxAge + SweepInterval
    BY DEF SessionsExpire
  <2>1. /\ ntime \in Nat /\ SweepInterval \in Nat \ {0} /\ MaxAge \in Nat
        /\ ntime % SweepInterval \in 0 .. SweepInterval - 1
    BY SweepAssumption, ModNext DEF NTSInv
  <2>2. /\ lastUsed[c] \in 0 .. ntime
        /\ ntime - lastUsed[c] <= MaxAge + (IF sweepDue THEN SweepInterval ELSE ntime % SweepInterval)
    BY DEF NTSInv
  <2> QED BY <2>1, <2>2
<1> QED BY <1>1, <1>2, NTSStep, PTL DEF Spec
-----------------------------------------------------------------------------
(* The grandmaster *)

\* The longest life of anything about a Sync: until it is written, on its way, and
\* kept by the slave; and of a Delay_Req and its answer.
Life == MaxLag + 2 * MaxDelay

\* How many numbers are from b to a.
Distance(a, b) == IF a >= b THEN a - b ELSE a - b + Modulus

\* How many times a timer that fires every k fires from t to now.
Fired(k, t) == (ptime \div k) - ((t - 1) \div k)

Waiting(loop) == IF loop \in ticks THEN 1 ELSE 0

\* The numbers that have been taken, or soon are, since a Sync took seq at t: no more
\* than the timers fired, of which one was for this Sync.
TakenSince(seq, t) ==
    Distance(sequenceID, seq) + Waiting("sync") + Waiting("announce") + 1
        <= Fired(SyncInterval, t) + Fired(AnnounceInterval, t)

TimeMessages == {m \in air : m.kind \in {"Sync", "Follow_Up"}}
DelayMessages == {m \in air : m.kind \in {"Delay_Req", "Delay_Resp"}}

\* The numbers of Syncs, and their times, that are not forgotten.
Stamps ==
    {[seq |-> m.seq, t |-> m.t] : m \in TimeMessages}
      \cup (IF sync.at = "wait" THEN {} ELSE {[seq |-> sync.seq, t |-> sync.t]})
      \cup (IF slave.follow = None THEN {} ELSE {slave.follow})

Kept == [seq : -1 .. Modulus - 1, t : Nat]
Way == [known : BOOLEAN, diff : Int]

PTPForms ==
    /\ twoStep \in BOOLEAN /\ logSync \in LogSyncInts /\ logAnnounce \in LogAnnounceInts
    /\ gmStart \in {"new", "listening", "started"} /\ sockets \in {"new", "open", "closed"}
    /\ portState \in {"INITIALIZING", "MASTER", "DISABLED"}
    /\ sequenceID \in 0 .. Modulus - 1
    /\ ticks \subseteq {"announce", "sync"}
    /\ "sync" \in ticks => ptime % SyncInterval = 0
    /\ "announce" \in ticks => ptime % AnnounceInterval = 0
    /\ ptime \in 0 .. PTPTime
    /\ sync \in [at : {"wait", "write", "follow"}, seq : 0 .. Modulus - 1, t : Nat, until : Nat]
    /\ air \subseteq [kind : Kinds, seq : 0 .. Modulus - 1, t : Nat, until : Nat]
    /\ \A m \in air : m.t <= ptime /\ ptime <= m.until
    /\ slave \in [sync : Kept, follow : Kept, request : Kept, down : Way, up : Way]
    /\ slave.sync.t <= ptime /\ slave.follow.t <= ptime /\ slave.request.t <= ptime

\* What is sent about a Sync is in time.
InTime ==
    /\ sync.at # "wait" => sync.t <= ptime /\ ptime <= sync.t + MaxLag /\ sync.until = sync.t + MaxLag
    /\ \A m \in TimeMessages : m.until <= m.t + MaxLag + MaxDelay
    /\ slave.follow # None => ptime <= slave.follow.t + MaxLag + MaxDelay
    /\ slave.sync # None => ptime <= slave.sync.t + MaxDelay

\* A number that is not forgotten was not taken again: it names one Sync.
NumberOfOne ==
    /\ \A o \in Stamps : o.seq # -1 /\ TakenSince(o.seq, o.t)
    /\ \A o, p \in Stamps : o.seq = p.seq => o.t = p.t
    /\ slave.sync # None =>
         /\ slave.sync.seq # -1
         /\ TakenSince(slave.sync.seq, slave.sync.t - MaxLag - MaxDelay)
         /\ \A o \in Stamps :
              o.seq = slave.sync.seq => slave.sync.t - o.t \in 0 .. MaxLag + MaxDelay

\* When the request was made at the earliest.
AskedAt(m) == IF m.kind = "Delay_Req" THEN m.t ELSE m.t - MaxLag - MaxDelay

\* The same of requests, which the slave numbers itself.
RequestOfOne ==
    /\ slave.request.seq = -1 => slave.request = None
    /\ \A m \in DelayMessages :
         /\ slave.request # None
         /\ m.until <= AskedAt(m) + Life
         /\ m.kind = "Delay_Req" => m.t <= slave.request.t /\ m.until <= m.t + MaxLag + MaxDelay
         /\ Distance(slave.request.seq, m.seq) <= (slave.request.t - AskedAt(m)) \div Second
         /\ m.seq = slave.request.seq =>
              m.t - slave.request.t \in 0 .. (IF m.kind = "Delay_Req" THEN 0 ELSE MaxLag + MaxDelay)

WaysInRange ==
    /\ slave.down.known => slave.down.diff \in 0 .. MaxLag + MaxDelay
    /\ slave.up.known => slave.up.diff \in 0 .. MaxLag + MaxDelay

PTPInv == PTPForms /\ InTime /\ NumberOfOne /\ RequestOfOne /\ WaysInRange

LEMMA Intervals ==
    ASSUME PTPForms
    PROVE  /\ LeastSync \in Nat \ {0} /\ Second \in Nat \ {0}
           /\ SyncInterval \in Nat \ {0} /\ SyncInterval >= LeastSync
           /\ AnnounceInterval \in Nat \ {0} /\ AnnounceInterval >= LeastSync
<1>1. LeastSync \in Nat \ {0} /\ Second \in Nat \ {0} /\ LeastSync <= Second
  BY IntervalAssumption
<1>2. ASSUME NEW log \in LogSyncInts \cup LogAnnounceInts, NEW least \in {LeastSync, Second}
      PROVE  Interval(log, least) \in Nat \ {0} /\ Interval(log, least) >= LeastSync
  <2>1. Duration(log) \in Int
    <3>1. CASE log < 0
      BY <3>1 DEF Duration
    <3>2. CASE log >= 0
      <4> DEFINE n == 2^log * Second
      <4>1. 2^log \in Nat /\ log \in Int
        BY <3>2, IntervalAssumption
      <4>2. n \in Nat
        BY <1>1, <4>1
      <4> HIDE DEF n
      <4>3. n + MaxDuration \in Nat /\ 2 * MaxDuration \in Nat \ {0} /\ MaxDuration \in Nat
        BY <4>2, IntervalAssumption
      <4>4. (n + MaxDuration) % (2 * MaxDuration) \in Int
        BY <4>3, ModNext
      <4>5. Wrapped(n) \in Int
        BY <4>3, <4>4 DEF Wrapped
      <4> QED BY <3>2, <4>1, <4>5 DEF Duration, n
    <3> QED BY <3>1, <3>2, IntervalAssumption
  <2>2. least \in Nat \ {0} /\ least >= LeastSync
    BY <1>1
  <2> QED BY <1>1, <2>1, <2>2 DEF Interval
<1> QED BY <1>1, <1>2 DEF PTPForms, SyncInterval, AnnounceInterval

LEMMA Numbers ==
    /\ Modulus \in Nat \ {0} /\ MaxDelay \in Nat /\ MaxLag \in Nat /\ Life \in Nat
    /\ Life \div LeastSync \in Nat
    /\ Modulus > 2 * (Life \div LeastSync) + 1
BY NumbersAssumption, IntervalAssumption, DivParts DEF Life

\* The next number: the distance from those before it grows by one, unless it is one
\* of them.
LEMMA DistanceNext ==
    ASSUME NEW a \in 0 .. Modulus - 1, NEW b \in 0 .. Modulus - 1
    PROVE  /\ Distance(a, b) \in 0 .. Modulus - 1
           /\ Distance(a, b) = 0 <=> a = b
           /\ (a + 1) % Modulus \in 0 .. Modulus - 1
           /\ Distance(a, b) + 1 < Modulus =>
                Distance((a + 1) % Modulus, b) = Distance(a, b) + 1
<1>1. Modulus \in Nat \ {0} /\ a \in Nat /\ a % Modulus = a
  BY Numbers
<1>2. (a + 1) % Modulus = IF a = Modulus - 1 THEN 0 ELSE a + 1
  <2>1. (a + 1) % Modulus = IF a % Modulus = Modulus - 1 THEN 0 ELSE (a % Modulus) + 1
    BY <1>1, ModNext
  <2> QED BY <1>1, <2>1
<1> QED BY <1>1, <1>2 DEF Distance

\* How often a timer fires in a life.
LEMMA FiredBound ==
    ASSUME NEW k \in Nat \ {0}, k >= LeastSync, NEW t \in Int, ptime \in Nat,
           t <= ptime, ptime - t <= Life
    PROVE  Fired(k, t) \in Int /\ Fired(k, t) <= (Life \div LeastSync) + 1
<1>1. (ptime - t) \in Nat /\ LeastSync \in Nat \ {0} /\ Life \in Nat
  BY Numbers, IntervalAssumption
<1>2. (ptime - t) \div k <= Life \div LeastSync
  <2>1. (ptime - t) \div k <= (ptime - t) \div LeastSync
    BY <1>1, DivLess
  <2>2. (ptime - t) \div LeastSync <= Life \div LeastSync
    BY <1>1, DivMono
  <2>3. (ptime - t) \div k \in Int /\ (ptime - t) \div LeastSync \in Int /\ Life \div LeastSync \in Int
    BY <1>1, DivParts
  <2> QED BY <2>1, <2>2, <2>3
<1> DEFINE q == (t - 1) \div k
<1> DEFINE r == (ptime - t) \div k
<1> DEFINE n == ptime \div k
<1>3. /\ q \in Int /\ t - 1 < k * q + k
      /\ r \in Int /\ ptime - t < k * r + k
      /\ n \in Int /\ k * n <= ptime
  BY <1>1, DivParts
<1> HIDE DEF q, r, n
<1>4. k * n < k * (q + r + 2)
  <2>1. k * (q + r + 2) = k * q + k * r + k + k
    BY <1>3
  <2> QED BY <1>3, <2>1
<1>5. ~(q + r + 2 <= n)
  <2>1. CASE q + r + 2 = n
    BY <1>3, <1>4, <2>1
  <2>2. CASE q + r + 2 < n
    <3>1. k * (q + r + 2) + k <= k * n
      BY <1>3, <2>2, Times
    <3>2. k * (q + r + 2) \in Int /\ k * n \in Int
      BY <1>3
    <3> QED BY <1>4, <3>1, <3>2
  <2> QED BY <1>3, <2>1, <2>2
<1>6. Fired(k, t) = n - q
  BY DEF Fired, n, q
<1>7. r <= Life \div LeastSync /\ Life \div LeastSync \in Int
  BY <1>1, <1>2, DivParts DEF r
<1> QED BY <1>3, <1>5, <1>6, <1>7

LEMMA TakenTypes ==
    ASSUME PTPForms, NEW seq \in 0 .. Modulus - 1, NEW t \in Int
    PROVE  /\ Distance(sequenceID, seq) \in 0 .. Modulus - 1
           /\ Waiting("sync") \in 0 .. 1 /\ Waiting("announce") \in 0 .. 1
           /\ Fired(SyncInterval, t) \in Int /\ Fired(AnnounceInterval, t) \in Int
<1>1. sequenceID \in 0 .. Modulus - 1 /\ ptime \in Int
  BY NumbersAssumption DEF PTPForms
<1>2. ptime \div SyncInterval \in Int /\ (t - 1) \div SyncInterval \in Int
  BY <1>1, Intervals, DivParts
<1>3. ptime \div AnnounceInterval \in Int /\ (t - 1) \div AnnounceInterval \in Int
  BY <1>1, Intervals, DivParts
<1>4. Fired(SyncInterval, t) \in Int /\ Fired(AnnounceInterval, t) \in Int
  BY <1>2, <1>3 DEF Fired
<1> QED BY <1>1, <1>4, DistanceNext DEF Waiting

\* No more numbers are taken since an earlier time than may be.
LEMMA TakenEarlier ==
    ASSUME PTPForms, NEW seq \in 0 .. Modulus - 1, NEW t \in Int, NEW u \in Int, t <= u,
           TakenSince(seq, u)
    PROVE  TakenSince(seq, t)
<1>1. ASSUME NEW k \in Nat \ {0}
      PROVE  Fired(k, u) <= Fired(k, t)
  <2>1. (t - 1) \div k <= (u - 1) \div k
    BY DivMono
  <2>2. ptime \div k \in Int /\ (t - 1) \div k \in Int /\ (u - 1) \div k \in Int
    BY DivParts, NumbersAssumption DEF PTPForms
  <2> QED BY <2>1, <2>2 DEF Fired
<1>2. Fired(SyncInterval, u) <= Fired(SyncInterval, t) /\ Fired(AnnounceInterval, u) <= Fired(AnnounceInterval, t)
  BY <1>1, Intervals
<1>3. Distance(sequenceID, seq) \in Nat /\ Waiting("sync") \in Nat /\ Waiting("announce") \in Nat
  BY TakenTypes, NumbersAssumption
<1>4. /\ Fired(SyncInterval, t) \in Int /\ Fired(AnnounceInterval, t) \in Int
      /\ Fired(SyncInterval, u) \in Int /\ Fired(AnnounceInterval, u) \in Int
  BY TakenTypes
<1> QED BY <1>2, <1>3, <1>4 DEF TakenSince

\* A number is taken: it is not one that was taken in the last Life.
LEMMA TakenNumber ==
    ASSUME PTPForms, NEW loop \in {"sync", "announce"}, loop \in ticks,
           ticks' = ticks \ {loop}, sequenceID' = NextNumber,
           UNCHANGED ptpConfig, UNCHANGED ptime,
           NEW seq \in 0 .. Modulus - 1, NEW t \in Int, t <= ptime, ptime - t <= Life,
           TakenSince(seq, t)
    PROVE  TakenSince(seq, t)' /\ seq # NextNumber
<1> DEFINE d == Distance(sequenceID, seq)
<1> DEFINE w == Waiting("sync") + Waiting("announce")
<1> DEFINE f == Fired(SyncInterval, t) + Fired(AnnounceInterval, t)
<1> DEFINE l == Life \div LeastSync
<1>1. ptime \in Nat /\ l \in Nat /\ Modulus \in Nat \ {0} /\ Modulus > 2 * l + 1
  BY Numbers, NumbersAssumption DEF PTPForms
<1>2. d \in 0 .. Modulus - 1 /\ w \in 1 .. 2 /\ f \in Int
  <2>1. w \in 1 .. 2
    BY DEF Waiting
  <2> QED BY <2>1, TakenTypes
<1>3. d + w + 1 <= f
  <2>1. /\ Waiting("sync") \in 0 .. 1 /\ Waiting("announce") \in 0 .. 1
        /\ d \in Int
    BY <1>2, TakenTypes
  <2> QED BY <2>1 DEF TakenSince
<1>4. f <= 2 * l + 2
  <2>1. Fired(SyncInterval, t) \in Int /\ Fired(SyncInterval, t) <= l + 1
    BY <1>1, Intervals, FiredBound
  <2>2. Fired(AnnounceInterval, t) \in Int /\ Fired(AnnounceInterval, t) <= l + 1
    BY <1>1, Intervals, FiredBound
  <2> QED BY <1>1, <2>1, <2>2
<1> HIDE DEF l
<1>5. d + 1 < Modulus
  BY <1>1, <1>2, <1>3, <1>4
<1>6. /\ Distance(NextNumber, seq) = d + 1 /\ NextNumber \in 0 .. Modulus - 1
      /\ Distance(NextNumber, seq) = 0 <=> NextNumber = seq
  <2>1. sequenceID \in 0 .. Modulus - 1
    BY DEF PTPForms
  <2>2. Distance((sequenceID + 1) % Modulus, seq) = d + 1 /\ (sequenceID + 1) % Modulus \in 0 .. Modulus - 1
    BY <1>5, <2>1, DistanceNext
  <2>3. Distance((sequenceID + 1) % Modulus, seq) = 0 <=> (sequenceID + 1) % Modulus = seq
    BY <2>2, DistanceNext
  <2> QED BY <2>2, <2>3 DEF NextNumber
<1>7. seq # NextNumber
  BY <1>2, <1>6
<1>8. Waiting("sync")' + Waiting("announce")' = w - 1
  BY DEF Waiting
<1>9. Fired(SyncInterval, t)' + Fired(AnnounceInterval, t)' = f
  BY DEF Fired, SyncInterval, AnnounceInterval, ptpConfig
<1>10. Distance(sequenceID, seq)' = d + 1
  <2>1. Distance(sequenceID, seq)' = Distance(NextNumber, seq)
    BY DEF Distance
  <2> QED BY <1>6, <2>1
<1>11. Waiting("sync")' \in Int /\ Waiting("announce")' \in Int
  BY DEF Waiting
<1> HIDE DEF d, w, f
<1> QED
  <2>1. (d + 1) + (Waiting("sync")' + Waiting("announce")') + 1 <= f
    BY <1>2, <1>3, <1>8
  <2>2. Distance(sequenceID, seq)' + Waiting("sync")' + Waiting("announce")' + 1 <= f
    BY <1>2, <1>10, <1>11, <2>1
  <2> QED BY <1>7, <1>9, <2>2 DEF TakenSince
LEMMA TakenSame ==
    ASSUME UNCHANGED <<ptpConfig, sequenceID, ticks, ptime>>, NEW seq, NEW t
    PROVE  TakenSince(seq, t)' = TakenSince(seq, t)
BY DEF TakenSince, Distance, Waiting, Fired, SyncInterval, AnnounceInterval, ptpConfig

\* The number of a Sync is taken when its timer has fired.
LEMMA TakenFirst ==
    ASSUME PTPForms, "sync" \in ticks, ticks' = ticks \ {"sync"}, sequenceID' = NextNumber,
           UNCHANGED ptpConfig, UNCHANGED ptime, NEW n, n = NextNumber, NEW t, t = ptime
    PROVE  TakenSince(n, t)'
<1>1. /\ ptime \in Nat /\ ptime % SyncInterval = 0
      /\ "announce" \in ticks => ptime % AnnounceInterval = 0
      /\ SyncInterval \in Nat \ {0} /\ AnnounceInterval \in Nat \ {0}
  BY Intervals, NumbersAssumption DEF PTPForms
<1>2. ASSUME NEW k \in Nat \ {0}
      PROVE  (ptime \div k) - ((ptime - 1) \div k) = IF ptime % k = 0 THEN 1 ELSE 0
  <2>1. CASE ptime = 0
    <3>1. 0 \div k = 0 /\ 0 % k = 0 /\ (-1) \div k = -1
      BY Quotient
    <3>2. ptime - 1 = -1
      BY <2>1
    <3> QED BY <2>1, <3>1, <3>2
  <2>2. CASE ptime # 0
    <3>1. ptime - 1 \in Nat /\ (ptime - 1) + 1 = ptime
      BY <1>1, <2>2
    <3>2. ptime \div k = ((ptime - 1) \div k) + (IF ptime % k = 0 THEN 1 ELSE 0)
      BY <3>1, DivTick
    <3>3. (ptime - 1) \div k \in Int
      BY <3>1, DivParts
    <3> QED BY <3>2, <3>3
  <2> QED BY <2>1, <2>2
<1>3. /\ Fired(SyncInterval, t)' = 1
      /\ Fired(AnnounceInterval, t)' \in 0 .. 1
      /\ "announce" \in ticks => Fired(AnnounceInterval, t)' = 1
  <2>1. /\ Fired(SyncInterval, t)' = (ptime \div SyncInterval) - ((ptime - 1) \div SyncInterval)
        /\ Fired(AnnounceInterval, t)' = (ptime \div AnnounceInterval) - ((ptime - 1) \div AnnounceInterval)
    BY DEF Fired, SyncInterval, AnnounceInterval, ptpConfig
  <2>2. (ptime \div SyncInterval) - ((ptime - 1) \div SyncInterval) = 1
    BY <1>1, <1>2
  <2>3. (ptime \div AnnounceInterval) - ((ptime - 1) \div AnnounceInterval) =
          IF ptime % AnnounceInterval = 0 THEN 1 ELSE 0
    BY <1>1, <1>2
  <2> QED BY <1>1, <2>1, <2>2, <2>3
<1>4. Distance(sequenceID, n)' = 0
  <2>1. sequenceID \in 0 .. Modulus - 1
    BY DEF PTPForms
  <2>2. NextNumber \in 0 .. Modulus - 1
    BY <2>1, DistanceNext DEF NextNumber
  <2>3. Distance(NextNumber, NextNumber) = 0
    BY <2>2, DistanceNext
  <2>4. Distance(sequenceID, n)' = Distance(NextNumber, NextNumber)
    BY DEF Distance
  <2> QED BY <2>3, <2>4
<1>5. Waiting("sync")' = 0 /\ Waiting("announce")' = IF "announce" \in ticks THEN 1 ELSE 0
  BY DEF Waiting
<1> QED BY <1>3, <1>4, <1>5 DEF TakenSince

\* Time goes on: a timer that fires takes a number later.
LEMMA TakenLater ==
    ASSUME PTPForms, ElapsePTP, NEW seq \in 0 .. Modulus - 1, NEW t \in Int, TakenSince(seq, t)
    PROVE  TakenSince(seq, t)'
<1>1. /\ ptime' = ptime + 1 /\ ticks = {} /\ UNCHANGED ptpConfig /\ UNCHANGED sequenceID
      /\ ticks' = {k \in {"announce", "sync"} :
                     (ptime + 1) % (IF k = "sync" THEN SyncInterval ELSE AnnounceInterval) = 0}
  BY DEF ElapsePTP
<1>2. ptime \in Nat /\ SyncInterval \in Nat \ {0} /\ AnnounceInterval \in Nat \ {0}
  BY Intervals, NumbersAssumption DEF PTPForms
<1> DEFINE s == IF (ptime + 1) % SyncInterval = 0 THEN 1 ELSE 0
<1> DEFINE a == IF (ptime + 1) % AnnounceInterval = 0 THEN 1 ELSE 0
<1>3. ASSUME NEW k \in Nat \ {0}
      PROVE  ((ptime + 1) \div k) - ((t - 1) \div k) =
               Fired(k, t) + (IF (ptime + 1) % k = 0 THEN 1 ELSE 0)
  <2>1. ptime \div k \in Int /\ (t - 1) \div k \in Int
    BY <1>2, DivParts
  <2>2. (ptime + 1) \div k = (ptime \div k) + (IF (ptime + 1) % k = 0 THEN 1 ELSE 0)
    BY <1>2, DivTick
  <2> QED BY <2>1, <2>2 DEF Fired
<1>4. /\ Fired(SyncInterval, t)' = Fired(SyncInterval, t) + s
      /\ Fired(AnnounceInterval, t)' = Fired(AnnounceInterval, t) + a
  <2>1. /\ Fired(SyncInterval, t)' = ((ptime + 1) \div SyncInterval) - ((t - 1) \div SyncInterval)
        /\ Fired(AnnounceInterval, t)' = ((ptime + 1) \div AnnounceInterval) - ((t - 1) \div AnnounceInterval)
    BY <1>1 DEF Fired, SyncInterval, AnnounceInterval, ptpConfig
  <2> QED BY <1>2, <1>3, <2>1
<1>5. /\ Waiting("sync") = 0 /\ Waiting("announce") = 0
      /\ Waiting("sync")' = s /\ Waiting("announce")' = a
  BY <1>1 DEF Waiting
<1>6. Distance(sequenceID, seq)' = Distance(sequenceID, seq)
  BY <1>1 DEF Distance
<1>7. s \in 0 .. 1 /\ a \in 0 .. 1
  OBVIOUS
<1> HIDE DEF s, a
<1>8. Distance(sequenceID, seq) + s + a + 1 <= (Fired(SyncInterval, t) + s) + (Fired(AnnounceInterval, t) + a)
  <2>1. Distance(sequenceID, seq) \in Int /\ Fired(SyncInterval, t) \in Int /\ Fired(AnnounceInterval, t) \in Int
    BY TakenTypes, NumbersAssumption
  <2>2. Distance(sequenceID, seq) + 1 <= Fired(SyncInterval, t) + Fired(AnnounceInterval, t)
    BY <1>5, <2>1 DEF TakenSince
  <2> QED BY <1>7, <2>1, <2>2
<1> QED BY <1>4, <1>5, <1>6, <1>8 DEF TakenSince
LEMMA StampForms ==
    ASSUME PTPForms, InTime
    PROVE  /\ \A o \in Stamps :
                /\ o.seq \in -1 .. Modulus - 1 /\ o.t \in Nat /\ o.t <= ptime
                /\ ptime - o.t <= MaxLag + MaxDelay
           /\ \A m \in air : /\ m.kind \in Kinds /\ m.seq \in 0 .. Modulus - 1
                             /\ m.t \in Nat /\ m.until \in Nat /\ m.t <= ptime /\ ptime <= m.until
           /\ slave.sync.seq \in -1 .. Modulus - 1 /\ slave.sync.t \in Nat /\ slave.sync.t <= ptime
           /\ slave.request.seq \in -1 .. Modulus - 1 /\ slave.request.t \in Nat /\ slave.request.t <= ptime
           /\ ptime \in Nat /\ MaxLag \in Nat /\ MaxDelay \in Nat /\ Modulus \in Nat \ {0}
<1>1. ptime \in Nat /\ MaxLag \in Nat /\ MaxDelay \in Nat /\ Modulus \in Nat \ {0}
  BY Numbers, NumbersAssumption DEF PTPForms
<1>2. \A m \in air : /\ m.kind \in Kinds /\ m.seq \in 0 .. Modulus - 1
                     /\ m.t \in Nat /\ m.until \in Nat /\ m.t <= ptime /\ ptime <= m.until
  BY DEF PTPForms
<1>3. /\ slave.sync \in Kept /\ slave.follow \in Kept /\ slave.request \in Kept
      /\ slave.sync.t <= ptime /\ slave.follow.t <= ptime /\ slave.request.t <= ptime
  BY DEF PTPForms
<1>4. \A k \in Kept : k.seq \in -1 .. Modulus - 1 /\ k.t \in Nat
  BY DEF Kept
<1>5. ASSUME NEW o \in Stamps
      PROVE  /\ o.seq \in -1 .. Modulus - 1 /\ o.t \in Nat /\ o.t <= ptime
             /\ ptime - o.t <= MaxLag + MaxDelay
  <2>1. CASE o \in {[seq |-> m.seq, t |-> m.t] : m \in TimeMessages}
    <3>1. PICK m \in TimeMessages : o.seq = m.seq /\ o.t = m.t
      BY <2>1
    <3>2. m \in air /\ m.until <= m.t + MaxLag + MaxDelay
      BY DEF TimeMessages, InTime
    <3> QED BY <1>1, <1>2, <3>1, <3>2
  <2>2. CASE sync.at # "wait" /\ o = [seq |-> sync.seq, t |-> sync.t]
    <3>1. /\ sync.seq \in 0 .. Modulus - 1 /\ sync.t \in Nat
          /\ sync.t <= ptime /\ ptime <= sync.t + MaxLag
      BY <2>2 DEF PTPForms, InTime
    <3> QED BY <1>1, <2>2, <3>1
  <2>3. CASE slave.follow # None /\ o = slave.follow
    BY <1>1, <1>3, <1>4, <2>3 DEF InTime
  <2> QED BY <2>1, <2>2, <2>3 DEF Stamps
<1> QED BY <1>1, <1>2, <1>3, <1>4, <1>5

\* What a step does not touch stays as it was.
LEMMA SameNumbers ==
    ASSUME NumberOfOne, UNCHANGED <<ptpConfig, sequenceID, ticks, ptime>>,
           Stamps' \subseteq Stamps, slave'.sync = slave.sync
    PROVE  NumberOfOne'
<1>1. \A o \in Stamps : o.seq # -1 /\ TakenSince(o.seq, o.t)'
  BY TakenSame DEF NumberOfOne
<1>2. slave.sync # None => TakenSince(slave.sync.seq, slave.sync.t - MaxLag - MaxDelay)'
  <2> DEFINE q == slave.sync.seq
  <2> DEFINE u == slave.sync.t - MaxLag - MaxDelay
  <2>1. slave'.sync.seq = q /\ slave'.sync.t - MaxLag - MaxDelay = u
    OBVIOUS
  <2>2. slave.sync # None => TakenSince(q, u)
    BY DEF NumberOfOne
  <2> QED BY <2>1, <2>2 DEF TakenSince, Distance, Waiting, Fired, SyncInterval, AnnounceInterval, ptpConfig
<1> QED BY <1>1, <1>2 DEF NumberOfOne

LEMMA SameRequests ==
    ASSUME RequestOfOne, slave'.request = slave.request, DelayMessages' \subseteq DelayMessages
    PROVE  RequestOfOne'
BY DEF RequestOfOne, AskedAt, Distance

LEMMA SameTimes ==
    ASSUME InTime, UNCHANGED <<sync, ptime>>, TimeMessages' \subseteq TimeMessages,
           slave'.sync = slave.sync, slave'.follow = slave.follow
    PROVE  InTime'
BY DEF InTime

LEMMA SameWays ==
    ASSUME WaysInRange, slave'.down = slave.down, slave'.up = slave.up
    PROVE  WaysInRange'
BY DEF WaysInRange

\* A number is taken for an Announce.
\* Most steps leave the whole of the port alone.
USE DEF port

LEMMA AnnounceStep == ASSUME PTPInv, SendAnnounce PROVE PTPInv'
<1> USE DEF PTPInv
<1>1. /\ "announce" \in ticks /\ ticks' = ticks \ {"announce"} /\ sequenceID' = NextNumber
      /\ UNCHANGED <<ptpConfig, port, sync, air, slave, ptime>>
  BY DEF SendAnnounce
<1>2. Stamps' = Stamps /\ TimeMessages' = TimeMessages /\ DelayMessages' = DelayMessages
  BY <1>1 DEF Stamps, TimeMessages, DelayMessages
<1>3. NextNumber \in 0 .. Modulus - 1
  BY DistanceNext DEF NextNumber, PTPForms
<1>4. PTPForms'
  <2>1. SyncInterval' = SyncInterval /\ AnnounceInterval' = AnnounceInterval
    BY <1>1 DEF SyncInterval, AnnounceInterval, ptpConfig
  <2> QED BY <1>1, <1>3, <2>1 DEF PTPForms, ptpConfig
<1>5. ASSUME NEW q \in 0 .. Modulus - 1, NEW u \in Int, u <= ptime, ptime - u <= Life, TakenSince(q, u)
      PROVE  TakenSince(q, u)'
  BY <1>1, <1>5, TakenNumber
<1>6. ASSUME NEW o \in Stamps PROVE o.seq # -1 /\ TakenSince(o.seq, o.t)'
  <2>1. /\ o.seq \in 0 .. Modulus - 1 /\ o.t \in Int /\ o.t <= ptime /\ ptime - o.t <= Life
        /\ TakenSince(o.seq, o.t)
    BY StampForms DEF NumberOfOne, Life
  <2> QED BY <1>5, <2>1
<1>7. ASSUME slave.sync # None
      PROVE  TakenSince(slave.sync.seq, slave.sync.t - MaxLag - MaxDelay)'
  <2> DEFINE q == slave.sync.seq
  <2> DEFINE u == slave.sync.t - MaxLag - MaxDelay
  <2>1. q \in 0 .. Modulus - 1 /\ u \in Int /\ u <= ptime /\ ptime - u <= Life /\ TakenSince(q, u)
    BY <1>7, StampForms DEF NumberOfOne, InTime, Life
  <2>2. q' = q /\ u' = u
    BY <1>1
  <2> HIDE DEF q, u
  <2>3. \E x \in 0 .. Modulus - 1, y \in Int : x = q /\ y = u /\ TakenSince(x, y)'
    BY <1>5, <2>1
  <2>4. PICK x \in 0 .. Modulus - 1, y \in Int : x = q /\ y = u /\ TakenSince(x, y)'
    BY <2>3
  <2>5. TakenSince(q, u)'
    BY <2>2, <2>4 DEF TakenSince, Distance, Waiting, Fired
  <2> QED BY <2>5 DEF q, u
<1>8. NumberOfOne'
  BY <1>1, <1>2, <1>6, <1>7 DEF NumberOfOne
<1> QED BY <1>1, <1>2, <1>4, <1>8, SameRequests, SameTimes, SameWays
\* What the slave has kept of a Sync is not too old for its number.
LEMMA KeptSync ==
    ASSUME PTPInv, slave.sync # None
    PROVE  \E q \in 0 .. Modulus - 1, u \in Int :
             /\ q = slave.sync.seq /\ u = slave.sync.t - MaxLag - MaxDelay
             /\ u <= ptime /\ ptime - u <= Life /\ TakenSince(q, u)
<1>1. /\ slave.sync.seq \in 0 .. Modulus - 1 /\ slave.sync.t - MaxLag - MaxDelay \in Int
      /\ slave.sync.t - MaxLag - MaxDelay <= ptime
      /\ ptime - (slave.sync.t - MaxLag - MaxDelay) <= Life
  BY StampForms DEF PTPInv, NumberOfOne, InTime, Life
<1>2. TakenSince(slave.sync.seq, slave.sync.t - MaxLag - MaxDelay)
  BY DEF PTPInv, NumberOfOne
<1> QED BY <1>1, <1>2

\* A number is taken for a Sync: it is nobody else's.
LEMMA BeginStep == ASSUME PTPInv, BeginSync PROVE PTPInv'
<1> USE DEF PTPInv
<1>a. PICK own : own = [seq |-> NextNumber, t |-> ptime]
  OBVIOUS
<1>1. /\ "sync" \in ticks /\ ticks' = ticks \ {"sync"} /\ sequenceID' = NextNumber
      /\ sync.at = "wait"
      /\ sync' = [at |-> "write", seq |-> NextNumber, t |-> ptime, until |-> ptime + MaxLag]
      /\ UNCHANGED <<ptpConfig, port, air, slave, ptime>>
  BY DEF BeginSync
<1>2. /\ Stamps' = Stamps \cup {own}
      /\ TimeMessages' = TimeMessages /\ DelayMessages' = DelayMessages
  <2>1. TimeMessages' = TimeMessages /\ DelayMessages' = DelayMessages
    BY <1>1 DEF TimeMessages, DelayMessages
  <2>2. sync'.at # "wait" /\ [seq |-> sync'.seq, t |-> sync'.t] = own /\ slave' = slave
    BY <1>a, <1>1
  <2> QED BY <1>1, <2>1, <2>2 DEF Stamps
<1>3. NextNumber \in 0 .. Modulus - 1
  BY DistanceNext DEF NextNumber, PTPForms
<1>0. ptime \in Nat /\ MaxLag \in Nat /\ MaxDelay \in Nat
  BY StampForms
<1>4. PTPForms'
  <2>1. SyncInterval' = SyncInterval /\ AnnounceInterval' = AnnounceInterval
    BY <1>1 DEF SyncInterval, AnnounceInterval, ptpConfig
  <2>2. sync' \in [at : {"wait", "write", "follow"}, seq : 0 .. Modulus - 1, t : Nat, until : Nat]
    BY <1>0, <1>1, <1>3
  <2> QED BY <1>1, <1>3, <2>1, <2>2 DEF PTPForms, ptpConfig
<1>5. ASSUME NEW q \in 0 .. Modulus - 1, NEW u \in Int, u <= ptime, ptime - u <= Life, TakenSince(q, u)
      PROVE  TakenSince(q, u)' /\ q # NextNumber
  BY <1>1, <1>5, TakenNumber
<1>6. ASSUME NEW o \in Stamps PROVE o.seq # -1 /\ TakenSince(o.seq, o.t)' /\ o.seq # NextNumber
  <2>1. /\ o.seq \in 0 .. Modulus - 1 /\ o.t \in Int /\ o.t <= ptime /\ ptime - o.t <= Life
        /\ TakenSince(o.seq, o.t)
    BY StampForms DEF NumberOfOne, Life
  <2> QED BY <1>5, <2>1
<1>7. ASSUME slave.sync # None
      PROVE  /\ TakenSince(slave.sync.seq, slave.sync.t - MaxLag - MaxDelay)'
             /\ slave.sync.seq # NextNumber
  <2>1. PICK q \in 0 .. Modulus - 1, u \in Int :
          /\ q = slave.sync.seq /\ u = slave.sync.t - MaxLag - MaxDelay
          /\ u <= ptime /\ ptime - u <= Life /\ TakenSince(q, u)
    BY <1>7, KeptSync
  <2>2. TakenSince(q, u)' /\ q # NextNumber
    BY <1>5, <2>1
  <2>3. slave' = slave
    BY <1>1
  <2> QED BY <2>1, <2>2, <2>3 DEF TakenSince, Distance, Waiting, Fired
<1>9. own.seq = NextNumber /\ own.t = ptime /\ NextNumber # -1
  <2>1. NextNumber # -1
    BY <1>3, NumbersAssumption
  <2> QED BY <1>a, <2>1
<1>10. TakenSince(own.seq, own.t)'
  BY <1>1, <1>9, TakenFirst
<1>11. NumberOfOne'
  <2>1. ASSUME NEW o \in Stamps' PROVE o.seq # -1 /\ TakenSince(o.seq, o.t)'
    <3>1. CASE o \in Stamps
      BY <1>6, <3>1
    <3>2. CASE o = own
      BY <1>9, <1>10, <3>2
    <3> QED BY <1>2, <3>1, <3>2
  <2>2. \A o, p \in Stamps' : o.seq = p.seq => o.t = p.t
    BY <1>2, <1>6, <1>9 DEF NumberOfOne
  <2>3. slave.sync # None => \A o \in Stamps' :
          o.seq = slave.sync.seq => slave.sync.t - o.t \in 0 .. MaxLag + MaxDelay
    BY <1>2, <1>7, <1>9 DEF NumberOfOne
  <2> QED BY <1>1, <1>7, <2>1, <2>2, <2>3 DEF NumberOfOne
<1>12. InTime'
  BY <1>0, <1>1, <1>2 DEF InTime
<1> QED BY <1>1, <1>2, <1>4, <1>11, <1>12, SameRequests, SameWays
\* A Sync or its time is written: with the number and the time it has had.
LEMMA WriteStep == ASSUME PTPInv, WriteSync \/ WriteFollowUp PROVE PTPInv'
<1> USE DEF PTPInv
<1>1. PICK kind \in {"Sync", "Follow_Up"} :
        /\ sync.at # "wait"
        /\ \E at \in {"wait", "follow"} : sync' = [sync EXCEPT !.at = at]
        /\ air' \in {air, air \cup {Message(kind, sync.seq, sync.t, ptime + MaxDelay)}}
        /\ UNCHANGED <<ptpConfig, port, sequenceID, ticks, slave, ptime>>
  BY DEF WriteSync, WriteFollowUp, PreciseTime
<1>2. /\ ptime \in Nat /\ MaxLag \in Nat /\ MaxDelay \in Nat
      /\ sync.seq \in 0 .. Modulus - 1 /\ sync.t \in Nat
      /\ sync.t <= ptime /\ ptime <= sync.t + MaxLag /\ sync.until = sync.t + MaxLag
  BY <1>1, StampForms DEF InTime, PTPForms
<1> DEFINE own == Message(kind, sync.seq, sync.t, ptime + MaxDelay)
<1>3. /\ own.kind = kind /\ own.seq = sync.seq /\ own.t = sync.t /\ own.until = ptime + MaxDelay
      /\ own \in [kind : Kinds, seq : 0 .. Modulus - 1, t : Nat, until : Nat]
  BY <1>2 DEF Message, Kinds
<1> HIDE DEF own
<1>4. /\ TimeMessages' \subseteq TimeMessages \cup {own}
      /\ DelayMessages' = DelayMessages
  BY <1>1, <1>3 DEF TimeMessages, DelayMessages, own
<1>5. /\ sync'.seq = sync.seq /\ sync'.t = sync.t /\ sync'.until = sync.until
      /\ sync' \in [at : {"wait", "write", "follow"}, seq : 0 .. Modulus - 1, t : Nat, until : Nat]
  BY <1>1 DEF PTPForms
<1>6. Stamps' \subseteq Stamps
  <2>1. [seq |-> own.seq, t |-> own.t] \in Stamps
    BY <1>1, <1>3 DEF Stamps
  <2>2. slave' = slave
    BY <1>1
  <2>3. ASSUME NEW x \in TimeMessages' PROVE [seq |-> x.seq, t |-> x.t] \in Stamps
    <3>1. CASE x \in TimeMessages
      BY <3>1 DEF Stamps
    <3> QED BY <1>4, <2>1, <3>1
  <2>4. sync'.at # "wait" => [seq |-> sync'.seq, t |-> sync'.t] \in Stamps
    BY <1>1, <1>5 DEF Stamps
  <2>5. slave'.follow # None => slave'.follow \in Stamps
    BY <2>2 DEF Stamps
  <2>6. ASSUME NEW o \in Stamps' PROVE o \in Stamps
    <3>1. CASE \E x \in TimeMessages' : o = [seq |-> x.seq, t |-> x.t]
      BY <2>3, <3>1
    <3>2. CASE sync'.at # "wait" /\ o = [seq |-> sync'.seq, t |-> sync'.t]
      BY <2>4, <3>2
    <3>3. CASE slave'.follow # None /\ o = slave'.follow
      BY <2>5, <3>3
    <3> QED BY <2>6, <3>1, <3>2, <3>3 DEF Stamps
  <2> QED BY <2>6
<1>7. PTPForms'
  <2>1. SyncInterval' = SyncInterval /\ AnnounceInterval' = AnnounceInterval
    BY <1>1 DEF SyncInterval, AnnounceInterval, ptpConfig
  <2>2. /\ air' \subseteq [kind : Kinds, seq : 0 .. Modulus - 1, t : Nat, until : Nat]
        /\ \A m \in air' : m.t <= ptime /\ ptime <= m.until
    BY <1>1, <1>2, <1>3 DEF PTPForms, own
  <2> QED BY <1>1, <1>5, <2>1, <2>2 DEF PTPForms, ptpConfig
<1>8. InTime'
  <2>1. \A m \in TimeMessages' : m.until <= m.t + MaxLag + MaxDelay
    BY <1>2, <1>3, <1>4 DEF InTime
  <2> QED BY <1>1, <1>2, <1>5, <2>1 DEF InTime
<1>9. NumberOfOne'
  BY <1>1, <1>6, SameNumbers
<1> QED BY <1>1, <1>4, <1>7, <1>8, <1>9, SameRequests, SameWays

\* The slave has a message, which is no longer on its way.
LEMMA TakeOut ==
    ASSUME PTPInv, NEW m \in air, air' = air \ {m},
           UNCHANGED <<ptpConfig, port, sequenceID, ticks, sync, ptime>>,
           slave' \in [sync : Kept, follow : Kept, request : Kept, down : Way, up : Way],
           slave'.sync.t <= ptime, slave'.follow.t <= ptime, slave'.request.t <= ptime
    PROVE  /\ PTPForms'
           /\ TimeMessages' \subseteq TimeMessages /\ DelayMessages' \subseteq DelayMessages
<1>1. SyncInterval' = SyncInterval /\ AnnounceInterval' = AnnounceInterval
  BY DEF SyncInterval, AnnounceInterval, ptpConfig
<1> QED BY <1>1 DEF PTPInv, PTPForms, TimeMessages, DelayMessages, ptpConfig

LEMMA ReceiveFollowUpStep ==
    ASSUME PTPInv, NEW m \in air, m.kind = "Follow_Up", air' = air \ {m},
           slave' = Pair([slave EXCEPT !.follow = [seq |-> m.seq, t |-> m.t]], [seq |-> m.seq, t |-> m.t]),
           UNCHANGED <<ptpConfig, port, sequenceID, ticks, sync, ptime>>
    PROVE  PTPInv'
<1> USE DEF PTPInv
<1> DEFINE f == [seq |-> m.seq, t |-> m.t]
<1>0. slave \in [sync : Kept, follow : Kept, request : Kept, down : Way, up : Way]
  BY DEF PTPForms
<1>1. f \in Kept /\ f.t <= ptime /\ ptime <= f.t + MaxLag + MaxDelay /\ f \in Stamps /\ f # None
  <2>1. m \in TimeMessages
    BY DEF TimeMessages
  <2>2. /\ m.seq \in 0 .. Modulus - 1 /\ m.t \in Nat /\ m.t <= ptime /\ ptime <= m.until
        /\ m.until \in Nat /\ m.until <= m.t + MaxLag + MaxDelay
        /\ ptime \in Nat /\ MaxLag \in Nat /\ MaxDelay \in Nat
    BY <2>1, StampForms DEF InTime
  <2>3. f \in Stamps
    BY <2>1 DEF Stamps
  <2> QED BY <2>2, <2>3 DEF Kept, None
<1> HIDE DEF f
<1>2. PICK d \in Way : /\ slave' = [slave EXCEPT !.follow = f, !.down = d]
                       /\ d = slave.down \/ d.diff \in 0 .. MaxLag + MaxDelay
  <2>1. CASE slave.sync # None /\ slave.sync.seq = f.seq
    <3>1. slave' = [slave EXCEPT !.follow = f, !.down = [known |-> TRUE, diff |-> slave.sync.t - f.t]]
      BY <1>0, <1>1, <2>1 DEF Pair, f
    <3>2. slave.sync.t - f.t \in 0 .. MaxLag + MaxDelay /\ slave.sync.t - f.t \in Int
      BY <1>1, <2>1, StampForms DEF NumberOfOne
    <3> QED BY <3>1, <3>2 DEF Way
  <2>2. CASE ~(slave.sync # None /\ slave.sync.seq = f.seq)
    <3>1. slave' = [slave EXCEPT !.follow = f, !.down = slave.down]
      BY <1>0, <1>1, <2>2 DEF Pair, f
    <3> QED BY <1>0, <3>1
  <2> QED BY <2>1, <2>2
<1>3. /\ slave' \in [sync : Kept, follow : Kept, request : Kept, down : Way, up : Way]
      /\ slave'.sync = slave.sync /\ slave'.request = slave.request /\ slave'.follow = f
      /\ slave'.up = slave.up /\ slave'.down = d
  BY <1>0, <1>1, <1>2
<1>4. PTPForms' /\ TimeMessages' \subseteq TimeMessages /\ DelayMessages' \subseteq DelayMessages
  BY <1>1, <1>3, TakeOut DEF PTPForms
<1>5. Stamps' \subseteq Stamps
  BY <1>1, <1>3, <1>4 DEF Stamps
<1>6. NumberOfOne'
  BY <1>3, <1>5, SameNumbers
<1>7. InTime'
  BY <1>1, <1>3, <1>4 DEF InTime
<1>8. WaysInRange'
  BY <1>2, <1>3 DEF WaysInRange
<1> QED BY <1>3, <1>4, <1>6, <1>7, <1>8, SameRequests
LEMMA ReceiveSyncStep ==
    ASSUME PTPInv, NEW m \in air, m.kind = "Sync", air' = air \ {m},
           slave' = Pair([slave EXCEPT !.sync = [seq |-> m.seq, t |-> ptime]],
                         IF twoStep THEN slave.follow ELSE [seq |-> m.seq, t |-> m.t]),
           UNCHANGED <<ptpConfig, port, sequenceID, ticks, sync, ptime>>
    PROVE  PTPInv'
<1> USE DEF PTPInv
<1> DEFINE s == [seq |-> m.seq, t |-> ptime]
<1> DEFINE f == IF twoStep THEN slave.follow ELSE [seq |-> m.seq, t |-> m.t]
<1>0. slave \in [sync : Kept, follow : Kept, request : Kept, down : Way, up : Way]
  BY DEF PTPForms
<1>1. /\ m.seq \in 0 .. Modulus - 1 /\ m.t \in Nat /\ m.t <= ptime /\ ptime <= m.until
      /\ m.until \in Nat /\ m.until <= m.t + MaxLag + MaxDelay
      /\ ptime \in Nat /\ MaxLag \in Nat /\ MaxDelay \in Nat
      /\ [seq |-> m.seq, t |-> m.t] \in Stamps
  <2>1. m \in TimeMessages
    BY DEF TimeMessages
  <2> QED BY <2>1, StampForms DEF InTime, Stamps
<1>2. s \in Kept /\ s.seq = m.seq /\ s.t = ptime /\ s # None
  BY <1>1 DEF Kept, None
<1>3. \A o \in Stamps : o.seq = m.seq => ptime - o.t \in 0 .. MaxLag + MaxDelay
  <2> SUFFICES ASSUME NEW o \in Stamps, o.seq = m.seq PROVE ptime - o.t \in 0 .. MaxLag + MaxDelay
    OBVIOUS
  <2>1. o.t = m.t
    BY <1>1 DEF NumberOfOne
  <2> QED BY <1>1, <2>1
<1>4. f # None => f \in Stamps
  BY <1>1 DEF Stamps
<1> HIDE DEF s, f
<1>5. PICK d \in Way : /\ slave' = [slave EXCEPT !.sync = s, !.down = d]
                       /\ d = slave.down \/ d.diff \in 0 .. MaxLag + MaxDelay
  <2>1. CASE f # None /\ m.seq = f.seq
    <3>1. slave' = [slave EXCEPT !.sync = s, !.down = [known |-> TRUE, diff |-> ptime - f.t]]
      BY <1>0, <1>2, <2>1 DEF Pair, s, f
    <3>2. ptime - f.t \in 0 .. MaxLag + MaxDelay /\ ptime - f.t \in Int
      BY <1>1, <1>3, <1>4, <2>1
    <3> QED BY <3>1, <3>2 DEF Way
  <2>2. CASE ~(f # None /\ m.seq = f.seq)
    <3>1. slave' = [slave EXCEPT !.sync = s, !.down = slave.down]
      BY <1>0, <1>2, <2>2 DEF Pair, s, f
    <3> QED BY <1>0, <3>1
  <2> QED BY <2>1, <2>2
<1>6. /\ slave' \in [sync : Kept, follow : Kept, request : Kept, down : Way, up : Way]
      /\ slave'.sync = s /\ slave'.request = slave.request /\ slave'.follow = slave.follow
      /\ slave'.up = slave.up /\ slave'.down = d
  BY <1>0, <1>2, <1>5
<1>7. PTPForms' /\ TimeMessages' \subseteq TimeMessages /\ DelayMessages' \subseteq DelayMessages
  BY <1>1, <1>2, <1>6, TakeOut DEF PTPForms
<1>8. Stamps' \subseteq Stamps
  BY <1>6, <1>7 DEF Stamps
<1>9. TakenSince(m.seq, ptime - MaxLag - MaxDelay)
  <2>1. TakenSince(m.seq, m.t)
    <3>1. PICK o \in Stamps : o.seq = m.seq /\ o.t = m.t
      BY <1>1
    <3> QED BY <3>1 DEF NumberOfOne
  <2>2. ptime - MaxLag - MaxDelay \in Int /\ ptime - MaxLag - MaxDelay <= m.t /\ m.t \in Int
    BY <1>1
  <2> QED BY <1>1, <2>1, <2>2, TakenEarlier
<1>10. NumberOfOne'
  <2>1. \A o \in Stamps' : o.seq # -1 /\ TakenSince(o.seq, o.t)'
    BY <1>8, TakenSame DEF NumberOfOne
  <2>2. \A o, p \in Stamps' : o.seq = p.seq => o.t = p.t
    BY <1>8 DEF NumberOfOne
  <2>3. TakenSince(slave.sync.seq, slave.sync.t - MaxLag - MaxDelay)'
    BY <1>2, <1>6, <1>9
      DEF TakenSince, Distance, Waiting, Fired, SyncInterval, AnnounceInterval, ptpConfig
  <2>4. \A o \in Stamps' : o.seq = slave'.sync.seq => slave'.sync.t - o.t \in 0 .. MaxLag + MaxDelay
    BY <1>2, <1>3, <1>6, <1>8
  <2>5. slave'.sync.seq # -1
    BY <1>1, <1>2, <1>6
  <2> QED BY <2>1, <2>2, <2>3, <2>4, <2>5 DEF NumberOfOne
<1>11. InTime'
  BY <1>1, <1>2, <1>6, <1>7 DEF InTime
<1>12. WaysInRange'
  BY <1>5, <1>6 DEF WaysInRange
<1> QED BY <1>6, <1>7, <1>10, <1>11, <1>12, SameRequests

LEMMA ReceiveAnswerStep ==
    ASSUME PTPInv, NEW m \in air, m.kind = "Delay_Resp", m.seq = slave.request.seq, air' = air \ {m},
           slave' = [slave EXCEPT !.up = [known |-> TRUE, diff |-> m.t - slave.request.t]],
           UNCHANGED <<ptpConfig, port, sequenceID, ticks, sync, ptime>>
    PROVE  PTPInv'
<1> USE DEF PTPInv
<1>0. slave \in [sync : Kept, follow : Kept, request : Kept, down : Way, up : Way]
  BY DEF PTPForms
<1>1. m.t - slave.request.t \in 0 .. MaxLag + MaxDelay /\ m.t - slave.request.t \in Int
  <2>1. m \in DelayMessages
    BY DEF DelayMessages
  <2> QED BY <2>1, StampForms DEF RequestOfOne
<1>2. /\ slave' \in [sync : Kept, follow : Kept, request : Kept, down : Way, up : Way]
      /\ slave'.sync = slave.sync /\ slave'.request = slave.request /\ slave'.follow = slave.follow
      /\ slave'.down = slave.down /\ slave'.up.diff = m.t - slave.request.t
  BY <1>0, <1>1 DEF Way
<1>3. PTPForms' /\ TimeMessages' \subseteq TimeMessages /\ DelayMessages' \subseteq DelayMessages
  BY <1>2, TakeOut DEF PTPForms
<1>4. Stamps' \subseteq Stamps
  BY <1>2, <1>3 DEF Stamps
<1>5. NumberOfOne'
  BY <1>2, <1>4, SameNumbers
<1>6. WaysInRange'
  BY <1>1, <1>2 DEF WaysInRange
<1> QED BY <1>2, <1>3, <1>5, <1>6, SameRequests, SameTimes
\* Nothing about a Sync changes, neither with the slave nor on its way.
LEMMA SyncsApart ==
    ASSUME PTPInv, TimeMessages' = TimeMessages, slave'.sync = slave.sync, slave'.follow = slave.follow,
           UNCHANGED <<ptpConfig, port, sequenceID, ticks, sync, ptime>>
    PROVE  NumberOfOne' /\ InTime'
<1>1. Stamps' = Stamps
  BY DEF Stamps
<1> QED BY <1>1, SameNumbers, SameTimes DEF PTPInv

\* A request is answered with its number, and no later than it lives.
LEMMA AnswerStep == ASSUME PTPInv, HandleDelayReq PROVE PTPInv'
<1> USE DEF PTPInv
<1>1. PICK m \in air : /\ m.kind = "Delay_Req"
                       /\ air' = (air \ {m}) \cup {Message("Delay_Resp", m.seq, ptime, ptime + MaxDelay)}
  BY DEF HandleDelayReq
<1>2. UNCHANGED <<ptpConfig, port, sequenceID, ticks, sync, slave, ptime>>
  BY DEF HandleDelayReq
<1>3. /\ m.seq \in 0 .. Modulus - 1 /\ m.t \in Nat /\ m.until \in Nat /\ m.t <= ptime /\ ptime <= m.until
      /\ ptime \in Nat /\ MaxLag \in Nat /\ MaxDelay \in Nat
      /\ slave.request.seq \in -1 .. Modulus - 1 /\ slave.request.t \in Nat
  BY StampForms
<1>4. /\ m \in DelayMessages /\ slave.request # None /\ m.t <= slave.request.t
      /\ AskedAt(m) = m.t /\ m.until <= m.t + MaxLag + MaxDelay
      /\ Distance(slave.request.seq, m.seq) <= (slave.request.t - m.t) \div Second
      /\ m.seq = slave.request.seq => m.t = slave.request.t
  BY <1>1, <1>3 DEF RequestOfOne, DelayMessages, AskedAt
<1> DEFINE own == Message("Delay_Resp", m.seq, ptime, ptime + MaxDelay)
<1>5. /\ own.kind = "Delay_Resp" /\ own.seq = m.seq /\ own.t = ptime /\ own.until = ptime + MaxDelay
      /\ own \in [kind : Kinds, seq : 0 .. Modulus - 1, t : Nat, until : Nat]
  BY <1>3 DEF Message, Kinds
<1> HIDE DEF own
<1>6. TimeMessages' = TimeMessages /\ DelayMessages' \subseteq DelayMessages \cup {own}
  BY <1>1, <1>5 DEF TimeMessages, DelayMessages, own
<1>7. PTPForms'
  <2>1. SyncInterval' = SyncInterval /\ AnnounceInterval' = AnnounceInterval
    BY <1>2 DEF SyncInterval, AnnounceInterval, ptpConfig
  <2>2. /\ air' \subseteq [kind : Kinds, seq : 0 .. Modulus - 1, t : Nat, until : Nat]
        /\ \A x \in air' : x.t <= ptime /\ ptime <= x.until
    BY <1>1, <1>3, <1>5 DEF PTPForms, own
  <2> QED BY <1>2, <2>1, <2>2 DEF PTPForms, ptpConfig
<1>8. RequestOfOne'
  <2>1. AskedAt(own) = ptime - MaxLag - MaxDelay
    BY <1>5 DEF AskedAt
  <2>2. Distance(slave.request.seq, own.seq) <= (slave.request.t - AskedAt(own)) \div Second
    <3>1. slave.request.t - m.t \in Int /\ slave.request.t - AskedAt(own) \in Int
          /\ slave.request.t - m.t <= slave.request.t - AskedAt(own)
      BY <1>3, <1>4, <2>1
    <3>2. Second \in Nat \ {0}
      BY Intervals
    <3>3. (slave.request.t - m.t) \div Second <= (slave.request.t - AskedAt(own)) \div Second
      BY <3>1, <3>2, DivMono
    <3>4. /\ (slave.request.t - m.t) \div Second \in Int
          /\ (slave.request.t - AskedAt(own)) \div Second \in Int
      BY <3>1, <3>2, DivParts
    <3>5. Distance(slave.request.seq, m.seq) \in Int
      BY <1>3, NumbersAssumption DEF Distance
    <3> QED BY <1>4, <1>5, <3>3, <3>4, <3>5
  <2>3. own.until <= AskedAt(own) + Life
    BY <1>3, <1>5, <2>1 DEF Life
  <2>4. own.seq = slave.request.seq => own.t - slave.request.t \in 0 .. MaxLag + MaxDelay
    BY <1>3, <1>4, <1>5
  <2>5. own.kind # "Delay_Req"
    BY <1>5
  <2>6. slave' = slave
    BY <1>2
  <2>7. ASSUME NEW x \in DelayMessages'
        PROVE  /\ slave.request # None
               /\ x.until <= AskedAt(x) + Life
               /\ x.kind = "Delay_Req" => x.t <= slave.request.t /\ x.until <= x.t + MaxLag + MaxDelay
               /\ Distance(slave.request.seq, x.seq) <= (slave.request.t - AskedAt(x)) \div Second
               /\ x.seq = slave.request.seq =>
                    x.t - slave.request.t \in 0 .. (IF x.kind = "Delay_Req" THEN 0 ELSE MaxLag + MaxDelay)
    <3>1. CASE x \in DelayMessages
      BY <3>1 DEF RequestOfOne
    <3>2. CASE x = own
      BY <1>4, <2>2, <2>3, <2>4, <2>5, <3>2
    <3> QED BY <1>6, <3>1, <3>2
  <2>8. slave.request.seq = -1 => slave.request = None
    BY DEF RequestOfOne
  <2> QED BY <2>6, <2>7, <2>8 DEF RequestOfOne, AskedAt, Distance
<1> QED BY <1>2, <1>6, <1>7, <1>8, SyncsApart, SameWays
\* A request takes the slave's next number: no other request that is still on its way,
\* and no answer to one, has it.
LEMMA AskStep == ASSUME PTPInv, SlaveAsks PROVE PTPInv'
<1> USE DEF PTPInv
<1> DEFINE n == (slave.request.seq + 1) % Modulus
<1> DEFINE r == [seq |-> n, t |-> ptime]
<1> DEFINE own == Message("Delay_Req", n, ptime, ptime + MaxDelay + MaxLag)
<1>1. /\ slave.request = None \/ ptime >= slave.request.t + Second
      /\ slave' = [slave EXCEPT !.request = r]
      /\ air' = air \cup {own}
      /\ UNCHANGED <<ptpConfig, port, sequenceID, ticks, sync, ptime>>
  BY DEF SlaveAsks
<1>2. /\ ptime \in Nat /\ MaxLag \in Nat /\ MaxDelay \in Nat /\ Second \in Nat \ {0} /\ LeastSync \in Nat \ {0}
      /\ slave.request.seq \in -1 .. Modulus - 1 /\ slave.request.t \in Nat
      /\ Modulus \in Nat \ {0}
  BY StampForms, Intervals
<1>3. n \in 0 .. Modulus - 1
  <2>1. slave.request.seq + 1 \in Nat
    BY <1>2
  <2> QED BY <1>2, <2>1, ModNext
<1> HIDE DEF n
<1>4. /\ own.kind = "Delay_Req" /\ own.seq = n /\ own.t = ptime /\ own.until = ptime + MaxDelay + MaxLag
      /\ own \in [kind : Kinds, seq : 0 .. Modulus - 1, t : Nat, until : Nat]
  BY <1>2, <1>3 DEF Message, Kinds
<1>5. r.seq = n /\ r.t = ptime /\ r \in Kept /\ r # None
  BY <1>2, <1>3 DEF Kept, None
<1> HIDE DEF own, r
<1>6. /\ slave' \in [sync : Kept, follow : Kept, request : Kept, down : Way, up : Way]
      /\ slave'.sync = slave.sync /\ slave'.follow = slave.follow /\ slave'.request = r
      /\ slave'.up = slave.up /\ slave'.down = slave.down
  BY <1>1, <1>5 DEF PTPForms
<1>7. TimeMessages' = TimeMessages /\ DelayMessages' = DelayMessages \cup {own}
  BY <1>1, <1>4 DEF TimeMessages, DelayMessages
<1>8. PTPForms'
  <2>1. SyncInterval' = SyncInterval /\ AnnounceInterval' = AnnounceInterval
    BY <1>1 DEF SyncInterval, AnnounceInterval, ptpConfig
  <2>2. /\ air' \subseteq [kind : Kinds, seq : 0 .. Modulus - 1, t : Nat, until : Nat]
        /\ \A x \in air' : x.t <= ptime /\ ptime <= x.until
    BY <1>1, <1>2, <1>4 DEF PTPForms
  <2> QED BY <1>1, <1>2, <1>5, <1>6, <2>1, <2>2 DEF PTPForms, ptpConfig
<1>9. ASSUME NEW x \in DelayMessages
      PROVE  /\ Distance(n, x.seq) <= (ptime - AskedAt(x)) \div Second
             /\ x.seq # n
             /\ x.t <= ptime
  <2> DEFINE q == slave.request.seq
  <2> DEFINE u == slave.request.t - AskedAt(x)
  <2>1. /\ slave.request # None /\ q # -1
        /\ x.until <= AskedAt(x) + Life
        /\ Distance(q, x.seq) <= u \div Second
    BY DEF RequestOfOne
  <2>2. /\ x.seq \in 0 .. Modulus - 1 /\ x.t \in Nat /\ x.until \in Nat /\ x.t <= ptime /\ ptime <= x.until
        /\ AskedAt(x) \in Int
    BY StampForms DEF DelayMessages, AskedAt
  <2>3. q \in 0 .. Modulus - 1 /\ u \in Int /\ ptime - AskedAt(x) \in Int
    BY <1>2, <2>1, <2>2
  <2>4. u + Second <= ptime - AskedAt(x)
    BY <1>1, <1>2, <2>1, <2>2
  <2>5. ptime - AskedAt(x) <= Life /\ Life \in Nat
    BY <1>2, <2>1, <2>2, Numbers
  <2> HIDE DEF u
  <2>6. (u \div Second) + 1 <= (ptime - AskedAt(x)) \div Second
    <3>1. (u + Second) \div Second = (u \div Second) + 1
      BY <1>2, <2>3, DivNext
    <3>2. (u + Second) \div Second <= (ptime - AskedAt(x)) \div Second
      BY <1>2, <2>3, <2>4, DivMono
    <3> QED BY <3>1, <3>2
  <2>7. (ptime - AskedAt(x)) \div Second <= Life \div LeastSync
    <3>1. (ptime - AskedAt(x)) \div Second <= Life \div Second
      BY <1>2, <2>3, <2>5, DivMono
    <3>2. Life \div Second <= Life \div LeastSync
      BY <1>2, <2>5, DivLess, IntervalAssumption
    <3>3. (ptime - AskedAt(x)) \div Second \in Int /\ Life \div Second \in Int /\ Life \div LeastSync \in Int
      BY <1>2, <2>3, <2>5, DivParts
    <3> QED BY <3>1, <3>2, <3>3
  <2>8. /\ u \div Second \in Int /\ (ptime - AskedAt(x)) \div Second \in Int
        /\ Life \div LeastSync \in Nat /\ Modulus > 2 * (Life \div LeastSync) + 1
    BY <1>2, <2>3, DivParts, Numbers
  <2>9. Distance(q, x.seq) \in Int /\ Distance(q, x.seq) >= 0
    <3>1. Distance(q, x.seq) \in 0 .. Modulus - 1
      BY <2>2, <2>3, DistanceNext
    <3> QED BY <3>1, NumbersAssumption
  <2>10. Distance(q, x.seq) + 1 < Modulus /\ Distance(q, x.seq) + 1 <= (ptime - AskedAt(x)) \div Second
    BY <1>2, <2>1, <2>6, <2>7, <2>8, <2>9
  <2>11. Distance(n, x.seq) = Distance(q, x.seq) + 1
    BY <2>2, <2>3, <2>10, DistanceNext DEF n
  <2>12. Distance(n, x.seq) = 0 <=> n = x.seq
    BY <1>3, <2>2, DistanceNext
  <2> QED BY <2>2, <2>9, <2>10, <2>11, <2>12
<1>10. RequestOfOne'
  <2>1. AskedAt(own) = ptime /\ Distance(n, own.seq) = 0 /\ (ptime - AskedAt(own)) \div Second = 0
    <3>1. AskedAt(own) = ptime
      BY <1>4 DEF AskedAt
    <3>2. Distance(n, own.seq) = 0
      BY <1>3, <1>4, DistanceNext
    <3>3. 0 \div Second = 0
      BY <1>2, Quotient
    <3> QED BY <1>2, <3>1, <3>2, <3>3
  <2>2. own.until <= AskedAt(own) + Life
    BY <1>2, <1>4, <2>1 DEF Life
  <2>3. ASSUME NEW x \in DelayMessages'
        PROVE  /\ x.until <= AskedAt(x) + Life
               /\ x.kind = "Delay_Req" => x.t <= ptime /\ x.until <= x.t + MaxLag + MaxDelay
               /\ Distance(n, x.seq) <= (ptime - AskedAt(x)) \div Second
               /\ x.seq = n =>
                    x.t - ptime \in 0 .. (IF x.kind = "Delay_Req" THEN 0 ELSE MaxLag + MaxDelay)
    <3>1. CASE x \in DelayMessages
      BY <1>9, <3>1 DEF RequestOfOne
    <3>2. CASE x = own
      <4>1. own.t - ptime = 0 /\ own.until <= own.t + MaxLag + MaxDelay /\ own.t <= ptime
        BY <1>2, <1>4
      <4> QED BY <1>2, <1>4, <2>1, <2>2, <3>2, <4>1
    <3> QED BY <1>7, <3>1, <3>2
  <2>4. r.seq # -1 /\ slave.request' = r
    BY <1>3, <1>5, <1>6
  <2> QED BY <1>1, <1>5, <1>6, <2>3, <2>4 DEF RequestOfOne, AskedAt, Distance
<1> QED BY <1>1, <1>6, <1>7, <1>8, <1>10, SyncsApart, SameWays
\* Time goes on: what is too old is lost or forgotten, and the rest is not too old.
LEMMA ElapseStep == ASSUME PTPInv, ElapsePTP PROVE PTPInv'
<1> USE DEF PTPInv
<1>1. /\ ptime < PTPTime /\ ticks = {} /\ ptime' = ptime + 1
      /\ sync.at = "wait" \/ ptime < sync.until
      /\ ticks' = {k \in {"announce", "sync"} :
                     (ptime + 1) % (IF k = "sync" THEN SyncInterval ELSE AnnounceInterval) = 0}
      /\ air' = {m \in air : ptime + 1 <= m.until}
      /\ UNCHANGED <<ptpConfig, port, sequenceID, sync>>
  BY DEF ElapsePTP
<1>2. /\ ptime \in Nat /\ MaxLag \in Nat /\ MaxDelay \in Nat /\ PTPTime \in Nat
      /\ \A m \in air : m.t \in Nat /\ m.until \in Nat /\ m.t <= ptime
  BY StampForms, NumbersAssumption
<1>3. slave \in [sync : Kept, follow : Kept, request : Kept, down : Way, up : Way]
  BY DEF PTPForms
<1>4. /\ slave' \in [sync : Kept, follow : Kept, request : Kept, down : Way, up : Way]
      /\ slave'.request = slave.request /\ slave'.down = slave.down /\ slave'.up = slave.up
      /\ slave'.sync = None \/ (slave'.sync = slave.sync /\ ptime + 1 <= slave.sync.t + MaxDelay)
      /\ slave'.follow = None \/ (slave'.follow = slave.follow /\ ptime + 1 <= slave.follow.t + MaxLag + MaxDelay)
  <2>1. None \in Kept
    BY <1>2, Numbers DEF None, Kept
  <2>2. \A k \in Kept : k.t \in Nat
    BY DEF Kept
  <2>3. slave.sync \in Kept /\ slave.follow \in Kept
    BY <1>3
  <2>a. slave' = [slave EXCEPT
                   !.sync = IF ptime' - slave.sync.t > MaxDelay THEN None ELSE slave.sync,
                   !.follow = IF ptime' - slave.follow.t > MaxDelay + MaxLag THEN None ELSE slave.follow]
    BY <1>3 DEF ElapsePTP
  <2>4. PICK s \in Kept, f \in Kept :
          /\ slave' = [slave EXCEPT !.sync = s, !.follow = f]
          /\ s = IF ptime + 1 - slave.sync.t > MaxDelay THEN None ELSE slave.sync
          /\ f = IF ptime + 1 - slave.follow.t > MaxDelay + MaxLag THEN None ELSE slave.follow
    <3> DEFINE s == IF ptime + 1 - slave.sync.t > MaxDelay THEN None ELSE slave.sync
    <3> DEFINE f == IF ptime + 1 - slave.follow.t > MaxDelay + MaxLag THEN None ELSE slave.follow
    <3>1. s \in Kept /\ f \in Kept
      BY <2>1, <2>3
    <3>a. /\ s = IF ptime' - slave.sync.t > MaxDelay THEN None ELSE slave.sync
          /\ f = IF ptime' - slave.follow.t > MaxDelay + MaxLag THEN None ELSE slave.follow
      <4>1. ptime' = ptime + 1
        BY <1>1
      <4>2. slave.sync.t \in Nat /\ slave.follow.t \in Nat
        BY <2>2, <2>3
      <4>3. ptime' - slave.sync.t = ptime + 1 - slave.sync.t /\ ptime' - slave.follow.t = ptime + 1 - slave.follow.t
        BY <1>2, <4>1, <4>2
      <4> QED BY <4>3
    <3> HIDE DEF s, f
    <3>2. slave' = [slave EXCEPT !.sync = s, !.follow = f]
      BY <2>a, <3>a
    <3> SUFFICES \E x \in Kept, y \in Kept :
                   slave' = [slave EXCEPT !.sync = x, !.follow = y] /\ x = s /\ y = f
      BY DEF s, f
    <3> QED BY <3>1, <3>2
  <2>5. s = None \/ (s = slave.sync /\ ptime + 1 <= slave.sync.t + MaxDelay)
    BY <1>2, <2>2, <2>3, <2>4
  <2>6. f = None \/ (f = slave.follow /\ ptime + 1 <= slave.follow.t + MaxLag + MaxDelay)
    BY <1>2, <2>2, <2>3, <2>4
  <2> QED BY <1>3, <2>4, <2>5, <2>6
<1>5. /\ TimeMessages' \subseteq TimeMessages /\ DelayMessages' \subseteq DelayMessages
  BY <1>1 DEF TimeMessages, DelayMessages
<1>6. Stamps' \subseteq Stamps
  BY <1>1, <1>4, <1>5 DEF Stamps
<1>7. SyncInterval' = SyncInterval /\ AnnounceInterval' = AnnounceInterval
  BY <1>1 DEF SyncInterval, AnnounceInterval, ptpConfig
<1>8. PTPForms'
  <2>1. ptime' \in 0 .. PTPTime
    BY <1>1, <1>2
  <2>2. /\ air' \subseteq [kind : Kinds, seq : 0 .. Modulus - 1, t : Nat, until : Nat]
        /\ \A m \in air' : m.t <= ptime' /\ ptime' <= m.until
    BY <1>1, <1>2 DEF PTPForms
  <2>3. /\ ticks' \subseteq {"announce", "sync"}
        /\ "sync" \in ticks' => ptime' % SyncInterval = 0
        /\ "announce" \in ticks' => ptime' % AnnounceInterval = 0
    BY <1>1
  <2>4. slave'.sync.t <= ptime' /\ slave'.follow.t <= ptime' /\ slave'.request.t <= ptime'
    <3>1. slave.sync.t \in Nat /\ slave.follow.t \in Nat /\ slave.request.t \in Nat
      BY <1>3 DEF Kept
    <3>2. slave.sync.t <= ptime /\ slave.follow.t <= ptime /\ slave.request.t <= ptime
      BY DEF PTPForms
    <3>3. None.t = 0
      BY DEF None
    <3> QED BY <1>1, <1>2, <1>4, <3>1, <3>2, <3>3
  <2> QED BY <1>1, <1>4, <1>7, <2>1, <2>2, <2>3, <2>4 DEF PTPForms, ptpConfig
<1>9. InTime'
  <2>1. sync.at # "wait" => sync.t <= ptime' /\ ptime' <= sync.t + MaxLag /\ sync.until = sync.t + MaxLag
    <3> SUFFICES ASSUME sync.at # "wait"
                 PROVE  sync.t <= ptime' /\ ptime' <= sync.t + MaxLag /\ sync.until = sync.t + MaxLag
      OBVIOUS
    <3>1. sync.t \in Nat /\ sync.t <= ptime /\ sync.until = sync.t + MaxLag /\ ptime < sync.until
      BY <1>1 DEF PTPForms, InTime
    <3> QED BY <1>1, <1>2, <3>1
  <2>2. \A m \in TimeMessages' : m.until <= m.t + MaxLag + MaxDelay
    BY <1>5 DEF InTime
  <2> QED BY <1>1, <1>4, <2>1, <2>2 DEF InTime
<1>10. ASSUME NEW q \in 0 .. Modulus - 1, NEW u \in Int, TakenSince(q, u)
       PROVE  TakenSince(q, u)'
  BY <1>10, TakenLater
<1>11. ASSUME NEW o \in Stamps PROVE o.seq # -1 /\ TakenSince(o.seq, o.t)'
  <2>1. o.seq \in 0 .. Modulus - 1 /\ o.t \in Int /\ TakenSince(o.seq, o.t)
    BY StampForms DEF NumberOfOne
  <2> QED BY <1>10, <2>1
<1>12. ASSUME slave'.sync # None
       PROVE  /\ slave'.sync = slave.sync
              /\ TakenSince(slave.sync.seq, slave.sync.t - MaxLag - MaxDelay)'
  <2>1. slave'.sync = slave.sync /\ slave.sync # None
    BY <1>4, <1>12
  <2>2. PICK q \in 0 .. Modulus - 1, u \in Int :
          /\ q = slave.sync.seq /\ u = slave.sync.t - MaxLag - MaxDelay
          /\ u <= ptime /\ ptime - u <= Life /\ TakenSince(q, u)
    BY <2>1, KeptSync
  <2>3. TakenSince(q, u)'
    BY <1>10, <2>2
  <2>4. slave'.sync.seq = q /\ slave'.sync.t - MaxLag - MaxDelay = u
    BY <2>1, <2>2
  <2> QED BY <2>1, <2>3, <2>4 DEF TakenSince, Distance, Waiting, Fired
<1>13. NumberOfOne'
  <2>1. \A o \in Stamps' : o.seq # -1 /\ TakenSince(o.seq, o.t)'
    BY <1>6, <1>11
  <2> QED BY <1>6, <1>12, <2>1 DEF NumberOfOne
<1> QED BY <1>4, <1>5, <1>8, <1>9, <1>13, SameRequests, SameWays

LEMMA PTPInit == InitPTP => PTPInv
<1> SUFFICES ASSUME InitPTP PROVE PTPInv
  OBVIOUS
<1>1. /\ ticks = {} /\ sync = [at |-> "wait", seq |-> 0, t |-> 0, until |-> 0] /\ air = {}
      /\ slave = [sync |-> None, follow |-> None, request |-> None, down |-> Unknown, up |-> Unknown]
      /\ ptime = 0 /\ sequenceID = 0
  BY DEF InitPTP
<1>2. TimeMessages = {} /\ DelayMessages = {} /\ Stamps = {}
  BY <1>1 DEF TimeMessages, DelayMessages, Stamps
<1>3. /\ None \in Kept /\ None.t = 0 /\ Unknown \in Way /\ Unknown.known = FALSE
      /\ 0 \in 0 .. Modulus - 1 /\ 0 \in 0 .. PTPTime
  BY Numbers, NumbersAssumption DEF None, Kept, Unknown, Way
<1>4. PTPForms
  <2>1. slave \in [sync : Kept, follow : Kept, request : Kept, down : Way, up : Way]
    BY <1>1, <1>3
  <2>2. sync \in [at : {"wait", "write", "follow"}, seq : 0 .. Modulus - 1, t : Nat, until : Nat]
    BY <1>1, <1>3
  <2>3. slave.sync.t <= ptime /\ slave.follow.t <= ptime /\ slave.request.t <= ptime
    BY <1>1, <1>3
  <2> QED BY <1>1, <1>3, <2>1, <2>2, <2>3 DEF PTPForms, InitPTP
<1>5. InTime /\ NumberOfOne /\ RequestOfOne /\ WaysInRange
  BY <1>1, <1>2, <1>3 DEF InTime, NumberOfOne, RequestOfOne, WaysInRange
<1> QED BY <1>4, <1>5 DEF PTPInv

LEMMA PTPStep == PTPInv /\ [Next]_vars => PTPInv'
<1> SUFFICES ASSUME PTPInv, [Next]_vars PROVE PTPInv'
  OBVIOUS
<1>1. CASE UNCHANGED <<ptpConfig, sequenceID, ticks, sync, air, slave, ptime>>
           /\ gmStart' \in {"new", "listening", "started"} /\ sockets' \in {"new", "open", "closed"}
           /\ portState' \in {"INITIALIZING", "MASTER", "DISABLED"}
  <2>1. SyncInterval' = SyncInterval /\ AnnounceInterval' = AnnounceInterval
    BY <1>1 DEF SyncInterval, AnnounceInterval, ptpConfig
  <2>2. PTPForms'
    BY <1>1, <2>1 DEF PTPInv, PTPForms, ptpConfig
  <2>3. TimeMessages' = TimeMessages /\ DelayMessages' = DelayMessages
    BY <1>1 DEF TimeMessages, DelayMessages
  <2>4. NumberOfOne' /\ InTime'
    <3>1. Stamps' = Stamps
      BY <1>1, <2>3 DEF Stamps
    <3> QED BY <1>1, <2>3, <3>1, SameNumbers, SameTimes DEF PTPInv
  <2> QED BY <1>1, <2>2, <2>3, <2>4, SameRequests, SameWays DEF PTPInv
<1>2. CASE UNCHANGED ptp
  BY <1>1, <1>2 DEF ptp, ptpConfig, PTPInv, PTPForms
<1>3. CASE ListenPTP \/ StartPTP \/ StopPTP
  <2>1. UNCHANGED <<ptpConfig, sequenceID, ticks, sync, air, slave, ptime>>
    BY <1>3 DEF ListenPTP, StartPTP, StopPTP
  <2>2. /\ gmStart' \in {"new", "listening", "started"} /\ sockets' \in {"new", "open", "closed"}
        /\ portState' \in {"INITIALIZING", "MASTER", "DISABLED"}
    BY <1>3 DEF ListenPTP, StartPTP, StopPTP, PTPInv, PTPForms
  <2> QED BY <1>1, <2>1, <2>2
<1>4. CASE SlaveReceives
  <2>1. PICK m \in air :
          /\ \/ /\ m.kind = "Sync"
                /\ slave' = Pair([slave EXCEPT !.sync = [seq |-> m.seq, t |-> ptime]],
                                 IF twoStep THEN slave.follow ELSE [seq |-> m.seq, t |-> m.t])
             \/ /\ m.kind = "Follow_Up"
                /\ slave' = Pair([slave EXCEPT !.follow = [seq |-> m.seq, t |-> m.t]],
                                 [seq |-> m.seq, t |-> m.t])
             \/ /\ m.kind = "Delay_Resp" /\ m.seq = slave.request.seq
                /\ slave' = [slave EXCEPT !.up = [known |-> TRUE, diff |-> m.t - slave.request.t]]
          /\ air' = air \ {m}
    BY <1>4 DEF SlaveReceives, PTPInv, PTPForms
  <2>2. UNCHANGED <<ptpConfig, port, sequenceID, ticks, sync, ptime>>
    BY <1>4 DEF SlaveReceives
  <2> QED BY <2>1, <2>2, ReceiveSyncStep, ReceiveFollowUpStep, ReceiveAnswerStep
<1>5. CASE PTPNext
  BY <1>3, <1>4, <1>5, AnnounceStep, BeginStep, WriteStep, AnswerStep, AskStep DEF PTPNext
<1> QED BY <1>2, <1>3, <1>5, ElapseStep DEF Next, Run, Elapse, Cancel, Stop, vars
\* A slave whose clock is right is wrong about it by half of MaxDelay + MaxLag at
\* most: no Sync is paired with the time of another, and no request with the answer
\* to another.
THEOREM OffsetStaysWithinDelay == Spec => []OffsetWithinDelay
<1>1. Init => PTPInv
  BY PTPInit DEF Init
<1>2. PTPInv => OffsetWithinDelay
  <2> SUFFICES ASSUME PTPInv, slave.down.known, slave.up.known
               PROVE  slave.down.diff - slave.up.diff \in -(MaxDelay + MaxLag) .. MaxDelay + MaxLag
    BY DEF OffsetWithinDelay
  <2>1. slave.down.diff \in 0 .. MaxLag + MaxDelay /\ slave.up.diff \in 0 .. MaxLag + MaxDelay
    BY DEF PTPInv, WaysInRange
  <2>2. MaxLag \in Nat /\ MaxDelay \in Nat
    BY Numbers
  <2> QED BY <2>1, <2>2
<1> QED BY <1>1, <1>2, PTPStep, PTL DEF Spec

\* Every number is one of 16 bits, every time one of the run, and no message is older
\* than the network makes it; the gauge and the requests count connections.
THEOREM ServicesTypeCorrect == Spec => []TypeOK
<1> DEFINE Main == enabled \in {"nts", "ptp"} /\ cancelled \in BOOLEAN
<1>1. Init => Main /\ NTSInv /\ StoredInv /\ PTPInv
  BY NTSInit, StoredInit, PTPInit DEF Init
<1>2. Main /\ [Next]_vars => Main'
  BY DEF Next, Run, Elapse, Cancel, Stop, vars
<1>3. Main /\ NTSInv /\ StoredInv /\ PTPInv => TypeOK
  <2> SUFFICES ASSUME Main, NTSInv, StoredInv, PTPInv PROVE TypeOK
    OBVIOUS
  <2>1. NTSTypeOK
    <3>1. gauge \in 0 .. Cardinality(Conn)
      <4>1. DOMAIN lastUsed \subseteq Conn /\ gauge = Cardinality(DOMAIN lastUsed)
        BY DEF NTSInv
      <4>2. IsFiniteSet(DOMAIN lastUsed) /\ Cardinality(DOMAIN lastUsed) <= Cardinality(Conn)
        BY <4>1, ConnAssumption, FS_Subset
      <4>3. Cardinality(DOMAIN lastUsed) \in Nat
        BY <4>2, FS_CardinalityType
      <4> QED BY <4>1, <4>2, <4>3, FiniteParts
    <3>2. requests \in 0 .. Cardinality(Conn)
      <4>1. requests = Cardinality(Begun) /\ requests \in Nat
        BY DEF NTSInv
      <4> QED BY <4>1, FiniteParts
    <3>3. madeAt \in [Conn -> 0 .. ntime]
      BY DEF NTSInv, StoredInv
    <3> QED BY <3>1, <3>2, <3>3 DEF NTSInv, NTSTypeOK
  <2>2. PTPTypeOK
    <3>1. PTPTime \in Nat /\ ptime \in 0 .. PTPTime
      BY NumbersAssumption DEF PTPInv, PTPForms
    <3>2. ASSUME NEW k \in Kept, k.t <= ptime PROVE k \in Stamp
      BY <3>1, <3>2 DEF Kept, Stamp
    <3>3. slave.sync \in Stamp /\ slave.follow \in Stamp /\ slave.request \in Stamp
      BY <3>2 DEF PTPInv, PTPForms
    <3> QED BY <3>1, <3>3 DEF PTPInv, PTPForms, PTPTypeOK
  <2> QED BY <2>1, <2>2 DEF TypeOK
<1> HIDE DEF Main
<1> QED BY <1>1, <1>2, <1>3, NTSStep, StoredStep, PTPStep, PTL DEF Spec
=============================================================================
