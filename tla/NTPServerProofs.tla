-------------------------- MODULE NTPServerProofs --------------------------
(***************************************************************************)
(* What the server learns from its peers and what its handlers answer, for *)
(* any number of peers, packets and handlers at work at the same time.     *)
(***************************************************************************)
EXTENDS NTPServer, FiniteSetTheorems, TLAPS

UpstreamTypeOK ==
    /\ status \in [Peers -> Status]
    /\ upc \in [Peers -> {"polling", "updating", "scanning"}]
    /\ writer \in Peers \cup {0}
    /\ cursor \in 1 .. N + 1 /\ best \in Peers \cup {0} /\ bestStratum \in 0 .. 16
    /\ stratum \in {ConfigStratum} \cup 2 .. 16 /\ rootDelay \in Nat
    /\ settled \in BOOLEAN /\ reported \subseteq Strata

ServiceTypeOK ==
    /\ received \in 0 .. MaxPackets
    /\ buf \in Buffer
    /\ handlers \subseteq Handler /\ replies \subseteq Reply
    /\ counts \in [requests : Nat, responses : Nat, errors : Nat]
    /\ dropped \in Nat

-----------------------------------------------------------------------------
(* The peers and the scan. *)

\* Whoever wants s.mu or holds it has just been answered; nobody else holds it.
Locking ==
    /\ \A p \in Peers : upc[p] = "scanning" <=> writer = p
    /\ \A p \in Peers : upc[p] # "polling" => status[p].reachable

\* A reachable peer has reported its stratum, and so has the best one so far.
Reported ==
    /\ \A p \in Peers : status[p].reachable => status[p].stratum \in reported
    /\ best # 0 => bestStratum \in reported
    /\ best = 0 => bestStratum = 16

\* In a scan that no change has disturbed, best is the best of the peers before
\* the cursor, and none is missed.
ScanSoFar ==
    settled /\ writer # 0 =>
        /\ best # 0 => /\ best < cursor /\ status[best].reachable
                       /\ bestStratum = status[best].stratum
        /\ \A q \in Peers : q < cursor /\ status[q].reachable =>
             /\ best # 0
             /\ \/ bestStratum < status[q].stratum
                \/ bestStratum = status[q].stratum /\ best <= q

UpstreamInv ==
    UpstreamTypeOK /\ Locking /\ Reported /\ ScanSoFar /\ StratumIsEarned /\ FollowsBestPeer

LEMMA StatusTypes ==
    ASSUME UpstreamTypeOK, NEW q \in Peers
    PROVE  /\ status[q] \in Status
           /\ status[q].reachable \in BOOLEAN
           /\ status[q].stratum \in 0 .. 15
           /\ status[q].delay \in Nat
<1>1. status[q] \in Status
  BY DEF UpstreamTypeOK
<1>2. status[q].reachable \in BOOLEAN
  BY <1>1 DEF Status
<1>3. status[q].stratum \in 0 .. 15
  <2>1. status[q].stratum \in Strata \cup {0}
    BY <1>1 DEF Status
  <2>2. Strata \cup {0} \subseteq 0 .. 15
    BY StrataAssumption
  <2> QED BY <2>1, <2>2
<1>4. status[q].delay \in Nat
  <2>1. status[q].delay \in Delays \cup {0}
    BY <1>1 DEF Status
  <2>2. Delays \cup {0} \subseteq Nat
    BY ConfigAssumption
  <2> QED BY <2>1, <2>2
<1> QED BY <1>1, <1>2, <1>3, <1>4

LEMMA UpstreamInit == Init => UpstreamInv
<1> SUFFICES ASSUME Init PROVE UpstreamInv
  OBVIOUS
<1> USE PeersAssumption, ConfigAssumption DEF Init, Peers
<1>1. [reachable |-> FALSE, stratum |-> 0, delay |-> 0] \in Status
  BY DEF Status
<1>2. status \in [Peers -> Status]
  BY <1>1
<1>3. upc \in [Peers -> {"polling", "updating", "scanning"}]
  OBVIOUS
<1>4. cursor \in 1 .. N + 1 /\ bestStratum \in 0 .. 16 /\ rootDelay \in Nat
  OBVIOUS
<1>5. UpstreamTypeOK
  BY <1>2, <1>3, <1>4 DEF UpstreamTypeOK
<1> QED BY <1>5 DEF UpstreamInv, Locking, Reported, ScanSoFar, StratumIsEarned, FollowsBestPeer

\* The new status of a peer: the others' stay.
LEMMA PollUpstream ==
    ASSUME UpstreamInv, NEW p \in Peers, PollSucceeds(p)
    PROVE  UpstreamInv'
<1>1. PICK s \in Strata, d \in Delays :
        /\ status' = [status EXCEPT ![p] = [reachable |-> TRUE, stratum |-> s, delay |-> d]]
        /\ reported' = reported \cup {s}
  BY DEF PollSucceeds
<1>2. [reachable |-> TRUE, stratum |-> s, delay |-> d] \in Status
  BY DEF Status
<1>3. /\ upc[p] = "polling" /\ upc' = [upc EXCEPT ![p] = "updating"] /\ settled' = FALSE
      /\ UNCHANGED <<writer, cursor, best, bestStratum, stratum, rootDelay>>
  BY DEF PollSucceeds, scan
<1>4. UpstreamTypeOK'
  BY <1>1, <1>2, <1>3 DEF UpstreamInv, UpstreamTypeOK
<1>5. Locking'
  BY <1>1, <1>3 DEF UpstreamInv, UpstreamTypeOK, Locking
<1>6. Reported'
  BY <1>1, <1>3 DEF UpstreamInv, UpstreamTypeOK, Reported
<1>7. StratumIsEarned'
  BY <1>1, <1>3 DEF UpstreamInv, StratumIsEarned
<1> QED BY <1>3, <1>4, <1>5, <1>6, <1>7 DEF UpstreamInv, ScanSoFar, FollowsBestPeer

LEMMA UnreachableUpstream ==
    ASSUME UpstreamInv, NEW p \in Peers, BecomesUnreachable(p)
    PROVE  UpstreamInv'
<1>1. /\ upc[p] = "polling" /\ settled' = FALSE
      /\ status' = [status EXCEPT ![p].reachable = FALSE]
      /\ UNCHANGED <<upc, writer, cursor, best, bestStratum, stratum, rootDelay, reported>>
  BY DEF BecomesUnreachable, scan
<1>2. UpstreamTypeOK'
  <2>1. status[p] \in Status
    BY DEF UpstreamInv, UpstreamTypeOK
  <2>2. [status[p] EXCEPT !.reachable = FALSE] \in Status
    BY <2>1 DEF Status
  <2> QED BY <1>1, <2>2 DEF UpstreamInv, UpstreamTypeOK
<1>3. \A q \in Peers : status'[q].reachable => q # p /\ status'[q] = status[q]
  BY <1>1 DEF UpstreamInv, UpstreamTypeOK, Status
<1>4. \A q \in Peers : q # p => status'[q] = status[q]
  BY <1>1 DEF UpstreamInv, UpstreamTypeOK, Status
<1>5. Locking'
  BY <1>1, <1>4 DEF UpstreamInv, Locking
<1>6. Reported' /\ StratumIsEarned'
  BY <1>1, <1>3 DEF UpstreamInv, Reported, StratumIsEarned
<1> QED BY <1>1, <1>2, <1>5, <1>6 DEF UpstreamInv, ScanSoFar, FollowsBestPeer

LEMMA BeginUpstream ==
    ASSUME UpstreamInv, NEW p \in Peers, BeginUpdate(p)
    PROVE  UpstreamInv'
<1> USE PeersAssumption DEF UpstreamInv, UpstreamTypeOK, BeginUpdate, Peers
<1>1. UpstreamTypeOK'
  OBVIOUS
<1>2. Locking'
  BY DEF Locking
<1>3. Reported' /\ ScanSoFar' /\ StratumIsEarned' /\ FollowsBestPeer'
  BY DEF Reported, ScanSoFar, StratumIsEarned, FollowsBestPeer
<1> QED BY <1>1, <1>2, <1>3

\* One step of the loop: the cursor's peer is taken if it improves on the best.
LEMMA ScanUpstream ==
    ASSUME UpstreamInv, ScanPeer
    PROVE  UpstreamInv'
<1>1. /\ writer # 0 /\ cursor \in Peers /\ cursor' = cursor + 1
      /\ UNCHANGED <<status, upc, writer, stratum, rootDelay, settled, reported>>
  BY PeersAssumption DEF ScanPeer, UpstreamInv, UpstreamTypeOK, Peers
<1>2. status[cursor] \in Status /\ Strata \subseteq 1 .. 15
  BY <1>1, StrataAssumption DEF UpstreamInv, UpstreamTypeOK
<1>3. \/ /\ Improves(cursor) /\ best' = cursor /\ bestStratum' = status[cursor].stratum
      \/ ~Improves(cursor) /\ best' = best /\ bestStratum' = bestStratum
  BY DEF ScanPeer
<1>4. \A q \in Peers : status[q].stratum \in 0 .. 15
  BY StatusTypes DEF UpstreamInv
<1>5. UpstreamTypeOK'
  BY <1>1, <1>3, <1>4, PeersAssumption DEF UpstreamInv, UpstreamTypeOK, Peers
<1>6. Locking' /\ StratumIsEarned'
  BY <1>1 DEF UpstreamInv, Locking, StratumIsEarned
<1>7. Reported'
  BY <1>1, <1>3 DEF UpstreamInv, Reported, Improves, Peers
<1>8. ScanSoFar'
  <2> SUFFICES ASSUME settled, writer # 0 PROVE ScanSoFar'
    BY <1>1 DEF ScanSoFar
  <2>1. /\ best # 0 => /\ best < cursor /\ status[best].reachable
                       /\ bestStratum = status[best].stratum
        /\ \A q \in Peers : q < cursor /\ status[q].reachable =>
             /\ best # 0
             /\ \/ bestStratum < status[q].stratum
                \/ bestStratum = status[q].stratum /\ best <= q
    BY DEF UpstreamInv, ScanSoFar
  <2>2. best \in Peers \cup {0} /\ bestStratum \in 0 .. 16 /\ (best = 0 => bestStratum = 16)
    BY DEF UpstreamInv, UpstreamTypeOK, Reported
  <2>3. ASSUME NEW q \in Peers, q < cursor + 1, status[q].reachable
        PROVE  /\ best' # 0
               /\ \/ bestStratum' < status[q].stratum
                  \/ bestStratum' = status[q].stratum /\ best' <= q
    <3>1. CASE q = cursor
      <4>1. cursor # 0 /\ cursor <= cursor /\ status[cursor].stratum \in 0 .. 15
        BY <1>1, <1>4 DEF Peers
      <4>2. CASE Improves(cursor)
        BY <1>3, <3>1, <4>1, <4>2
      <4>3. CASE ~Improves(cursor)
        <5>1. bestStratum <= status[cursor].stratum /\ best' = best /\ bestStratum' = bestStratum
          BY <1>3, <2>2, <2>3, <3>1, <4>1, <4>3 DEF Improves
        <5>2. best # 0 /\ best <= cursor
          BY <1>1, <2>1, <2>2, <4>1, <5>1 DEF Peers
        <5> QED BY <2>2, <3>1, <4>1, <5>1, <5>2
      <4> QED BY <4>2, <4>3
    <3>2. CASE q # cursor
      <4>1. q < cursor
        BY <1>1, <2>3, <3>2 DEF Peers
      <4>2. best # 0 /\ status[q].stratum \in 0 .. 15 /\ status[cursor].stratum \in 0 .. 15
            /\ (bestStratum < status[q].stratum \/ (bestStratum = status[q].stratum /\ best <= q))
        BY <1>1, <1>4, <2>1, <2>3, <4>1
      <4>3. CASE Improves(cursor)
        BY <1>1, <1>3, <2>2, <4>2, <4>3 DEF Improves, Peers
      <4>4. CASE ~Improves(cursor)
        BY <1>3, <4>2, <4>4
      <4> QED BY <4>3, <4>4
    <3> QED BY <3>1, <3>2
  <2>4. best' # 0 => /\ best' < cursor' /\ status[best'].reachable
                     /\ bestStratum' = status[best'].stratum
    <3>1. CASE Improves(cursor)
      BY <1>1, <1>3, <3>1 DEF Improves, Peers
    <3>2. CASE ~Improves(cursor)
      BY <1>1, <1>3, <2>1, <2>2, <3>2 DEF Peers
    <3> QED BY <3>1, <3>2
  <2> QED BY <1>1, <2>3, <2>4 DEF ScanSoFar
<1>9. FollowsBestPeer'
  BY <1>1 DEF FollowsBestPeer
<1> QED BY <1>5, <1>6, <1>7, <1>8, <1>9 DEF UpstreamInv

\* The end of the scan: its writer is reachable, so some peer was found.
LEMMA EndUpstream ==
    ASSUME UpstreamInv, EndUpdate
    PROVE  UpstreamInv'
<1>1. /\ writer # 0 /\ cursor > N /\ writer' = 0
      /\ upc' = [upc EXCEPT ![writer] = "polling"]
      /\ cursor' = 1 /\ best' = 0 /\ bestStratum' = 16
      /\ UNCHANGED <<status, settled, reported>>
      /\ IF best # 0 THEN stratum' = bestStratum + 1 /\ rootDelay' = status[best].delay
                     ELSE UNCHANGED <<stratum, rootDelay>>
  BY DEF EndUpdate, ReleaseMutex
<1>2. writer \in Peers /\ best \in Peers \cup {0} /\ reported \subseteq 1 .. 15
  BY <1>1, StrataAssumption DEF UpstreamInv, UpstreamTypeOK
<1>3. \A q \in Peers : status[q] \in Status /\ status[q].delay \in Nat
  BY StatusTypes DEF UpstreamInv
<1>4. best # 0 => bestStratum \in reported
  BY DEF UpstreamInv, Reported
<1>5. UpstreamTypeOK'
  BY <1>1, <1>2, <1>3, <1>4, PeersAssumption DEF UpstreamInv, UpstreamTypeOK
<1>6. Locking'
  BY <1>1, <1>2 DEF UpstreamInv, UpstreamTypeOK, Locking, Peers
<1>7. Reported' /\ ScanSoFar'
  BY <1>1 DEF UpstreamInv, Reported, ScanSoFar
<1>8. StratumIsEarned'
  <2>1. CASE best # 0
    <3>1. bestStratum \in 1 .. 15 /\ bestStratum \in reported'
      BY <1>1, <1>2, <1>4, <2>1
    <3>2. stratum' - 1 = bestStratum
      BY <1>1, <2>1, <3>1
    <3> QED BY <3>1, <3>2 DEF StratumIsEarned
  <2>2. CASE best = 0
    BY <1>1, <2>2 DEF UpstreamInv, StratumIsEarned
  <2> QED BY <2>1, <2>2
<1>9. FollowsBestPeer'
  <2> SUFFICES ASSUME settled PROVE FollowsBestPeer'
    BY <1>1 DEF FollowsBestPeer
  <2>1. status[writer].reachable /\ \A q \in Peers : q < cursor
    BY <1>1, <1>2, PeersAssumption DEF UpstreamInv, UpstreamTypeOK, Locking, Peers
  <2>2. /\ best # 0 /\ status[best].reachable /\ bestStratum = status[best].stratum
        /\ \A q \in Peers : status[q].reachable =>
             \/ status[best].stratum < status[q].stratum
             \/ status[best].stratum = status[q].stratum /\ best <= q
    BY <1>1, <1>2, <2>1 DEF UpstreamInv, ScanSoFar
  <2>3. PICK b \in Peers : b = best /\ IsBest(b)
    BY <1>2, <2>2 DEF IsBest, Reachable
  <2>4. IsBest(b)'
    BY <1>1, <2>3 DEF IsBest, Reachable
  <2> QED BY <1>1, <2>2, <2>3, <2>4 DEF FollowsBestPeer
<1> QED BY <1>5, <1>6, <1>7, <1>8, <1>9 DEF UpstreamInv

LEMMA UpstreamStep == UpstreamInv /\ [Next]_vars => UpstreamInv'
<1> SUFFICES ASSUME UpstreamInv, [Next]_vars PROVE UpstreamInv'
  OBVIOUS
<1>1. CASE \E p \in Peers : PollSucceeds(p) \/ BecomesUnreachable(p) \/ BeginUpdate(p)
  BY <1>1, PollUpstream, UnreachableUpstream, BeginUpstream
<1>2. CASE ScanPeer \/ EndUpdate
  BY <1>2, ScanUpstream, EndUpstream
<1>3. CASE UNCHANGED upstream
  BY <1>3 DEF upstream, scan, UpstreamInv, UpstreamTypeOK, Locking, Reported, ScanSoFar,
              StratumIsEarned, FollowsBestPeer, IsBest, Reachable
<1>4. Receive \/ ReceiveShort \/ (\E h \in handlers : Handle(h)) \/ UNCHANGED vars
        => UNCHANGED upstream
  BY DEF Receive, ReceiveShort, Handle, ParseMode, ParseOrigin, Drop, Respond, vars
<1> QED BY <1>1, <1>2, <1>3, <1>4 DEF Next

-----------------------------------------------------------------------------
(* The packets and their handlers. *)

\* Every handler has a packet of its own; the bytes in the buffer are not older
\* than any packet whose handler has still to read them, and what a handler has
\* read is not older than its packet.
ServiceInv ==
    /\ ServiceTypeOK
    /\ IsFiniteSet(handlers)
    /\ \A h \in handlers : h.packet <= received
    /\ \A g, h \in handlers : g.packet = h.packet => g = h
    /\ \A h \in handlers : h.pc # "parsed" => \A n \in buf.origin : h.packet <= n
    /\ \A h \in handlers : \A n \in h.origin : h.packet <= n
    /\ OriginNotOlder
    /\ RequestsAccounted

LEMMA ServiceInit == Init => ServiceInv
BY FS_EmptySet, BoundAssumption
   DEF Init, ServiceInv, ServiceTypeOK, Buffer, Mode, Timestamp, OriginNotOlder, RequestsAccounted

\* A counter that goes up leaves the others alone.
LEMMA CountsUp ==
    ASSUME NEW c \in [requests : Nat, responses : Nat, errors : Nat]
    PROVE  /\ LET d == [c EXCEPT !.requests = @ + 1]
              IN  /\ d \in [requests : Nat, responses : Nat, errors : Nat]
                  /\ d.requests = c.requests + 1
                  /\ d.responses = c.responses /\ d.errors = c.errors
           /\ LET d == [c EXCEPT !.responses = @ + 1]
              IN  /\ d \in [requests : Nat, responses : Nat, errors : Nat]
                  /\ d.responses = c.responses + 1
                  /\ d.requests = c.requests /\ d.errors = c.errors
           /\ LET d == [c EXCEPT !.errors = @ + 1]
              IN  /\ d \in [requests : Nat, responses : Nat, errors : Nat]
                  /\ d.errors = c.errors + 1
                  /\ d.requests = c.requests /\ d.responses = c.responses
           /\ c.requests \in Nat /\ c.responses \in Nat /\ c.errors \in Nat
OBVIOUS

LEMMA PacketModes == \A p \in Packets : p.mode \in Mode
BY PacketsAssumption

LEMMA ReceiveService ==
    ASSUME ServiceInv, Receive
    PROVE  ServiceInv'
<1> DEFINE n == received + 1
           h == [packet |-> n, pc |-> "start", mode |-> "other", origin |-> {}]
<1>0. n \in 1 .. MaxPackets /\ received' = n
  BY BoundAssumption DEF Receive, ServiceInv, ServiceTypeOK
<1>1. PICK m \in Mode :
        /\ n \in 1 .. MaxPackets /\ received' = n
        /\ buf' = [mode |-> m, origin |-> {n}]
        /\ handlers' = handlers \cup {h}
        /\ counts' = [counts EXCEPT !.requests = @ + 1]
        /\ UNCHANGED <<replies, dropped>>
  BY <1>0, PacketModes DEF Receive, BufferAfter
<1>2. h \in Handler /\ h \notin handlers /\ h.packet = n /\ h.origin = {}
  BY <1>1 DEF Handler, Timestamp, Mode, ServiceInv, ServiceTypeOK
<1>3. ServiceTypeOK'
  <2>1. buf' \in Buffer
    BY <1>1 DEF Buffer, Timestamp
  <2>2. counts' \in [requests : Nat, responses : Nat, errors : Nat]
    BY <1>1, CountsUp DEF ServiceInv, ServiceTypeOK
  <2> HIDE DEF h
  <2>3. handlers' \subseteq Handler
    BY <1>1, <1>2 DEF ServiceInv, ServiceTypeOK
  <2>4. received' \in 0 .. MaxPackets
    BY <1>1
  <2> QED BY <1>1, <2>1, <2>2, <2>3, <2>4 DEF ServiceInv, ServiceTypeOK
<1>4. IsFiniteSet(handlers') /\ Cardinality(handlers') = Cardinality(handlers) + 1
  BY <1>1, <1>2, FS_AddElement DEF ServiceInv
<1>5. RequestsAccounted'
  <2>1. counts'.requests = counts.requests + 1 /\ counts'.responses = counts.responses
        /\ counts'.errors = counts.errors
    BY <1>1, CountsUp DEF ServiceInv, ServiceTypeOK
  <2> QED BY <1>1, <1>4, <2>1, FS_CardinalityType
          DEF ServiceInv, ServiceTypeOK, RequestsAccounted
<1>6. \A g \in handlers : g \in Handler /\ g.packet \in Nat /\ g.packet <= received
  BY DEF ServiceInv, ServiceTypeOK, Handler
<1> HIDE DEF h
<1>7. /\ \A g \in handlers' : g.packet <= received'
      /\ \A f, g \in handlers' : f.packet = g.packet => f = g
      /\ \A g \in handlers' : g.pc # "parsed" => \A k \in buf'.origin : g.packet <= k
      /\ \A g \in handlers' : \A k \in g.origin : g.packet <= k
  BY <1>1, <1>2, <1>6 DEF ServiceInv, ServiceTypeOK
<1> QED BY <1>1, <1>3, <1>4, <1>5, <1>7 DEF ServiceInv, OriginNotOlder

LEMMA ReceiveShortService ==
    ASSUME ServiceInv, ReceiveShort
    PROVE  ServiceInv'
<1>0. received + 1 \in 1 .. MaxPackets /\ received' = received + 1
  BY BoundAssumption DEF ReceiveShort, ServiceInv, ServiceTypeOK
<1>1. PICK m \in Mode, part \in {{}, {received + 1}} :
        /\ received + 1 \in 1 .. MaxPackets /\ received' = received + 1
        /\ buf' = [mode |-> m, origin |-> buf.origin \cup part]
        /\ UNCHANGED <<handlers, replies, counts, dropped>>
  BY <1>0, PacketModes DEF ReceiveShort
<1>2. buf.origin \subseteq 1 .. MaxPackets
  BY DEF ServiceInv, ServiceTypeOK, Buffer, Timestamp
<1>3. ServiceTypeOK'
  <2>1. buf' \in Buffer
    BY <1>1, <1>2 DEF Buffer, Timestamp
  <2>2. received' \in 0 .. MaxPackets
    BY <1>1
  <2> QED BY <1>1, <2>1, <2>2 DEF ServiceInv, ServiceTypeOK
<1>4. \A g \in handlers : g.packet \in Nat /\ g.packet <= received
  BY DEF ServiceInv, ServiceTypeOK, Handler
<1>5. buf'.origin \subseteq buf.origin \cup {received + 1}
  BY <1>1
<1>6. \A g \in handlers' : g.pc # "parsed" => \A k \in buf'.origin : g.packet <= k
  BY <1>1, <1>4, <1>5 DEF ServiceInv, ServiceTypeOK
<1>7. \A g \in handlers' : g.packet <= received'
  BY <1>1, <1>4 DEF ServiceInv, ServiceTypeOK
<1> QED BY <1>1, <1>3, <1>6, <1>7 DEF ServiceInv, OriginNotOlder, RequestsAccounted

\* A handler that has read something is still the one of its packet.
LEMMA BecomesService ==
    ASSUME ServiceInv, NEW h \in handlers, NEW g \in Handler, g.packet = h.packet,
           Becomes(h, g), UNCHANGED <<received, buf, replies, counts, dropped>>,
           h.pc # "parsed",
           \A k \in g.origin : g.packet <= k
    PROVE  ServiceInv'
<1>1. handlers' = (handlers \ {h}) \cup {g}
  BY DEF Becomes
<1>2. g \notin handlers \ {h}
  BY DEF ServiceInv
<1>3. IsFiniteSet(handlers') /\ Cardinality(handlers') = Cardinality(handlers)
  <2>1. IsFiniteSet(handlers \ {h}) /\ Cardinality(handlers \ {h}) = Cardinality(handlers) - 1
    BY FS_RemoveElement DEF ServiceInv
  <2>2. Cardinality(handlers) \in Nat
    BY FS_CardinalityType DEF ServiceInv
  <2> QED BY <1>1, <1>2, <2>1, <2>2, FS_AddElement
<1>4. ServiceTypeOK'
  BY <1>1 DEF ServiceInv, ServiceTypeOK
<1>5. /\ \A f \in handlers' : f.packet <= received'
      /\ \A e, f \in handlers' : e.packet = f.packet => e = f
      /\ \A f \in handlers' : f.pc # "parsed" => \A k \in buf'.origin : f.packet <= k
      /\ \A f \in handlers' : \A k \in f.origin : f.packet <= k
  BY <1>1 DEF ServiceInv
<1> QED BY <1>3, <1>4, <1>5 DEF ServiceInv, OriginNotOlder, RequestsAccounted

\* A handler ends: it is counted once, as what it was.
LEMMA EndsService ==
    ASSUME ServiceInv, NEW h \in handlers, handlers' = handlers \ {h},
           UNCHANGED <<received, buf>>,
           ServiceTypeOK', OriginNotOlder',
           counts'.requests = counts.requests,
           counts'.responses + counts'.errors + dropped'
             = counts.responses + counts.errors + dropped + 1
    PROVE  ServiceInv'
<1>1. IsFiniteSet(handlers') /\ Cardinality(handlers') = Cardinality(handlers) - 1
      /\ Cardinality(handlers) \in Nat
  BY FS_RemoveElement, FS_CardinalityType DEF ServiceInv
<1>2. RequestsAccounted'
  BY <1>1 DEF ServiceInv, ServiceTypeOK, RequestsAccounted
<1> QED BY <1>1, <1>2 DEF ServiceInv

LEMMA HandleService ==
    ASSUME ServiceInv, NEW h \in handlers, Handle(h)
    PROVE  ServiceInv'
<1>1. h \in Handler /\ buf.mode \in Mode /\ buf.origin \in Timestamp
  BY DEF ServiceInv, ServiceTypeOK, Buffer
<1>2. CASE ParseMode(h)
  <2> DEFINE g == [h EXCEPT !.pc = "mode", !.mode = buf.mode]
  <2>1. g \in Handler /\ g.packet = h.packet /\ g.origin = h.origin
    BY <1>1 DEF Handler
  <2> HIDE DEF g
  <2>2. h.pc # "parsed" /\ \A k \in g.origin : g.packet <= k
    BY <1>2, <2>1 DEF ParseMode, ServiceInv
  <2>3. Becomes(h, g) /\ UNCHANGED <<received, buf, replies, counts, dropped>>
    BY <1>2 DEF ParseMode, g
  <2> QED BY <2>1, <2>2, <2>3, BecomesService
<1>3. CASE ParseOrigin(h)
  <2> DEFINE g == [h EXCEPT !.pc = "parsed", !.origin = buf.origin]
  <2>1. g \in Handler /\ g.packet = h.packet /\ g.origin = buf.origin
    BY <1>1 DEF Handler
  <2> HIDE DEF g
  <2>2. h.pc # "parsed" /\ \A k \in g.origin : g.packet <= k
    BY <1>3, <2>1 DEF ParseOrigin, ServiceInv
  <2>3. Becomes(h, g) /\ UNCHANGED <<received, buf, replies, counts, dropped>>
    BY <1>3 DEF ParseOrigin, g
  <2> QED BY <2>1, <2>2, <2>3, BecomesService
<1>4. CASE Drop(h)
  <2>1. /\ handlers' = handlers \ {h} /\ dropped' = dropped + 1
        /\ UNCHANGED <<received, buf, replies, counts>>
    BY <1>4 DEF Drop
  <2>2. /\ dropped \in Nat
        /\ counts.requests \in Nat /\ counts.responses \in Nat /\ counts.errors \in Nat
    BY CountsUp DEF ServiceInv, ServiceTypeOK
  <2>3. ServiceTypeOK' /\ OriginNotOlder'
    BY <2>1, <2>2 DEF ServiceInv, ServiceTypeOK, OriginNotOlder
  <2> QED BY <2>1, <2>2, <2>3, EndsService
<1>5. CASE Respond(h)
  <2> DEFINE r == [to |-> h.packet, origin |-> h.origin]
  <2>1. r \in Reply /\ \A n \in r.origin : r.to <= n
    BY <1>1 DEF Reply, Handler, ServiceInv
  <2>2. /\ handlers' = handlers \ {h} /\ UNCHANGED <<received, buf, dropped>>
        /\ \/ replies' = replies \cup {r} /\ counts' = [counts EXCEPT !.responses = @ + 1]
           \/ replies' = replies /\ counts' = [counts EXCEPT !.errors = @ + 1]
    BY <1>5 DEF Respond, CountWriteError
  <2> HIDE DEF r
  <2>3. /\ dropped \in Nat
        /\ counts.requests \in Nat /\ counts.responses \in Nat /\ counts.errors \in Nat
    BY CountsUp DEF ServiceInv, ServiceTypeOK
  <2>4. /\ counts' \in [requests : Nat, responses : Nat, errors : Nat]
        /\ counts'.requests = counts.requests
        /\ \/ counts'.responses = counts.responses + 1 /\ counts'.errors = counts.errors
           \/ counts'.responses = counts.responses /\ counts'.errors = counts.errors + 1
    BY <2>2, CountsUp DEF ServiceInv, ServiceTypeOK
  <2>5. ServiceTypeOK' /\ OriginNotOlder'
    BY <2>1, <2>2, <2>4 DEF ServiceInv, ServiceTypeOK, OriginNotOlder
  <2> QED BY <2>2, <2>3, <2>4, <2>5, EndsService
<1> QED BY <1>2, <1>3, <1>4, <1>5 DEF Handle

LEMMA ServiceStep == ServiceInv /\ [Next]_vars => ServiceInv'
<1> SUFFICES ASSUME ServiceInv, [Next]_vars PROVE ServiceInv'
  OBVIOUS
<1>1. CASE Receive \/ ReceiveShort
  BY <1>1, ReceiveService, ReceiveShortService
<1>2. CASE \E h \in handlers : Handle(h)
  BY <1>2, HandleService
<1>3. CASE UNCHANGED service
  BY <1>3 DEF service, ServiceInv, ServiceTypeOK, OriginNotOlder, RequestsAccounted
<1>4. (\E p \in Peers : PollSucceeds(p) \/ BecomesUnreachable(p) \/ BeginUpdate(p))
        \/ ScanPeer \/ EndUpdate \/ UNCHANGED vars => UNCHANGED service
  BY DEF PollSucceeds, BecomesUnreachable, BeginUpdate, ScanPeer, EndUpdate, vars
<1> QED BY <1>1, <1>2, <1>3, <1>4 DEF Next

-----------------------------------------------------------------------------
LEMMA ServerInv == Spec => [](UpstreamInv /\ ServiceInv)
BY UpstreamInit, UpstreamStep, ServiceInit, ServiceStep, PTL DEF Spec

\* Every variable of the server keeps its type; in particular the stratum stays
\* within the range of a packet's field.
THEOREM ServerTypeCorrect == Spec => []TypeOK
<1>1. UpstreamInv /\ ServiceInv => TypeOK
  BY DEF UpstreamInv, ServiceInv, UpstreamTypeOK, ServiceTypeOK, TypeOK
<1> QED BY <1>1, ServerInv, PTL

\* A scan that no change disturbed leaves the server one below its best peer.
THEOREM BestPeerIsFollowed == Spec => []FollowsBestPeer
<1>1. UpstreamInv => FollowsBestPeer
  BY DEF UpstreamInv
<1> QED BY <1>1, ServerInv, PTL

\* The server claims no stratum that is neither configured nor earned.
THEOREM StratumIsAlwaysEarned == Spec => []StratumIsEarned
<1>1. UpstreamInv => StratumIsEarned
  BY DEF UpstreamInv
<1> QED BY <1>1, ServerInv, PTL

\* Whatever is echoed is no older than the request that is answered.
THEOREM OriginIsNeverOlder == Spec => []OriginNotOlder
<1>1. ServiceInv => OriginNotOlder
  BY DEF ServiceInv
<1> QED BY <1>1, ServerInv, PTL

\* Every request counted is answered, an error, dropped, or still with its handler.
THEOREM RequestsAreAccounted == Spec => []RequestsAccounted
<1>1. ServiceInv => RequestsAccounted
  BY DEF ServiceInv
<1> QED BY <1>1, ServerInv, PTL
=============================================================================
