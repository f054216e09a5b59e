----------------------------- MODULE NTPServer -----------------------------
(***************************************************************************)
(* internal/ntp/server.go: the UDP server and what it learns from its      *)
(* upstream peers.                                                         *)
(*                                                                         *)
(* Three kinds of goroutines share the server: serve() reads every packet  *)
(* into one buffer and starts a handler for it, the handlers parse that    *)
(* same buffer and answer, and each peer's polling goroutine (module       *)
(* NTPPeer has its details) calls UpdateFromPeers after a successful poll. *)
(* UpdateFromPeers holds s.mu, but reads the status of each peer under     *)
(* that peer's lock: the other peers may change in between.                *)
(***************************************************************************)
EXTENDS Integers, FiniteSets

CONSTANTS
    N,              \* s.peers has the peers 1 .. N, in this order
    Strata,         \* strata a usable answer may carry
    Delays,         \* round-trip delays a peer may measure
    ConfigStratum,  \* cfg.Stratum
    Packets,        \* what clients send: the mode of a packet and its size
    MaxPackets      \* bound: packets received

ASSUME PeersAssumption == N \in Nat
ASSUME StrataAssumption == Strata \subseteq 1 .. 15
ASSUME ConfigAssumption == ConfigStratum \in 0 .. 255 /\ Delays \subseteq Nat
ASSUME BoundAssumption == MaxPackets \in Nat

\* A packet is "short" below 48 bytes, or "full".
Mode == {"client", "other"}
ASSUME PacketsAssumption == Packets \subseteq [mode : Mode, size : {"full", "short"}]

VARIABLES
    status,       \* status[p]: what peer p's GetStatus returns
    upc,          \* upc[p]: "polling", "updating" (wants s.mu) or "scanning"
    writer,       \* the peer whose goroutine holds s.mu, or 0
    cursor, best, bestStratum,    \* locals of UpdateFromPeers
    stratum,      \* Server.stratum
    rootDelay,    \* Server.rootDelay
    received,     \* packets received: their numbers are their identities
    buf,          \* serve()'s buffer: the mode and the transmit timestamp in it
    handlers,     \* handlers at work: the packet each was started for, and
                  \* what it has parsed so far
    replies,      \* replies sent
    counts,       \* the counters of requests, responses and errors
    dropped,      \* history: packets that were not client requests
    settled,      \* history: no peer has changed since the last scan began
    reported      \* history: strata the peers have reported

scan == <<cursor, best, bestStratum>>
upstream == <<status, upc, writer, scan, stratum, rootDelay, settled, reported>>
service == <<received, buf, handlers, replies, counts, dropped>>
vars == <<upstream, service>>

Peers == 1 .. N
Status == [reachable : BOOLEAN, stratum : Strata \cup {0}, delay : Delays \cup {0}]
\* A transmit timestamp is the set of packets its bytes are from.
Timestamp == SUBSET (1 .. MaxPackets)
Buffer == [mode : Mode, origin : Timestamp]
Handler == [packet : Nat, pc : {"start", "mode", "parsed"}, mode : Mode, origin : Timestamp]
Reply == [to : Nat, origin : Timestamp]

TypeOK ==
    /\ status \in [Peers -> Status]
    /\ upc \in [Peers -> {"polling", "updating", "scanning"}]
    /\ writer \in Peers \cup {0}
    /\ cursor \in 1 .. N + 1 /\ best \in Peers \cup {0} /\ bestStratum \in 0 .. 16
    /\ stratum \in {ConfigStratum} \cup 2 .. 16 /\ rootDelay \in Nat
    /\ received \in 0 .. MaxPackets
    /\ buf \in Buffer
    /\ handlers \subseteq Handler /\ replies \subseteq Reply
    /\ counts \in [requests : Nat, responses : Nat, errors : Nat]
    /\ dropped \in Nat
    /\ settled \in BOOLEAN /\ reported \subseteq Strata

Init ==
    /\ status = [p \in Peers |-> [reachable |-> FALSE, stratum |-> 0, delay |-> 0]]
    /\ upc = [p \in Peers |-> "polling"]
    /\ writer = 0 /\ cursor = 1 /\ best = 0 /\ bestStratum = 16
    /\ stratum = ConfigStratum /\ rootDelay = 0
    /\ received = 0 /\ buf = [mode |-> "other", origin |-> {}]
    /\ handlers = {} /\ replies = {}
    /\ counts = [requests |-> 0, responses |-> 0, errors |-> 0] /\ dropped = 0
    /\ settled = FALSE /\ reported = {}

-----------------------------------------------------------------------------
(* The peers' goroutines. *)

\* A poll was answered: the peer is reachable and its figures are new.
PollSucceeds(p) ==
    /\ upc[p] = "polling"
    /\ \E s \in Strata, d \in Delays :
         /\ status' = [status EXCEPT ![p] =
                         [reachable |-> TRUE, stratum |-> s, delay |-> d]]
         /\ reported' = reported \cup {s}
    /\ upc' = [upc EXCEPT ![p] = "updating"]
    /\ settled' = FALSE
    /\ UNCHANGED <<writer, scan, stratum, rootDelay, service>>

\* Polls failed until the last one of the register was shifted out.  Nobody
\* tells the server.
BecomesUnreachable(p) ==
    /\ upc[p] = "polling" /\ status[p].reachable
    /\ status' = [status EXCEPT ![p].reachable = FALSE]
    /\ settled' = FALSE
    /\ UNCHANGED <<upc, writer, scan, stratum, rootDelay, reported, service>>

\* UpdateFromPeers takes s.mu ...
BeginUpdate(p) ==
    /\ upc[p] = "updating" /\ writer = 0
    /\ writer' = p
    /\ upc' = [upc EXCEPT ![p] = "scanning"]
    /\ cursor' = 1 /\ best' = 0 /\ bestStratum' = 16
    /\ settled' = TRUE
    /\ UNCHANGED <<status, stratum, rootDelay, reported, service>>

NeverPolledToo(p) == status[p].stratum < bestStratum

UnreachableToo(p) == status[p].stratum > 0 /\ status[p].stratum < bestStratum

Improves(p) == status[p].reachable /\ status[p].stratum < bestStratum

\* ... reads the peers' statuses one by one ...
ScanPeer ==
    /\ writer # 0 /\ cursor <= N
    /\ IF Improves(cursor)
         THEN best' = cursor /\ bestStratum' = status[cursor].stratum
         ELSE UNCHANGED <<best, bestStratum>>
    /\ cursor' = cursor + 1
    /\ UNCHANGED <<status, upc, writer, stratum, rootDelay, settled, reported, service>>

KeepsMutex == writer

ReleaseMutex == 0

\* ... reads the best peer's once more for the root delay, and releases s.mu.
EndUpdate ==
    /\ writer # 0 /\ cursor > N
    /\ IF best # 0
         THEN stratum' = bestStratum + 1 /\ rootDelay' = status[best].delay
         ELSE UNCHANGED <<stratum, rootDelay>>
    /\ writer' = ReleaseMutex
    /\ upc' = [upc EXCEPT ![writer] = "polling"]
    /\ cursor' = 1 /\ best' = 0 /\ bestStratum' = 16
    /\ UNCHANGED <<status, settled, reported, service>>

-----------------------------------------------------------------------------
(* serve() and the handlers. *)

StaleBuffer(packet) == buf

\* ReadFromUDP overwrites the buffer, whoever still reads it.
BufferAfter(packet) == packet

\* A packet of full size arrives; its handler is started on the shared buffer.
Receive ==
    /\ received < MaxPackets
    /\ received' = received + 1
    /\ \E p \in Packets :
         p.size = "full" /\ buf' = BufferAfter([mode |-> p.mode, origin |-> {received'}])
    /\ handlers' = handlers \cup
         {[packet |-> received', pc |-> "start", mode |-> "other", origin |-> {}]}
    /\ counts' = [counts EXCEPT !.requests = @ + 1]
    /\ UNCHANGED <<upstream, replies, dropped>>

\* A packet below 48 bytes starts no handler, but its bytes are in the buffer:
\* the mode is overwritten, of the transmit timestamp at the end a part or nothing.
ReceiveShort ==
    /\ received < MaxPackets
    /\ received' = received + 1
    /\ \E p \in Packets, part \in {{}, {received'}} :
         p.size = "short" /\ buf' = [mode |-> p.mode, origin |-> buf.origin \cup part]
    /\ UNCHANGED <<upstream, handlers, replies, counts, dropped>>

Becomes(h, g) == handlers' = (handlers \ {h}) \cup {g}

\* parsePacket reads the first byte, with the mode ...
ParseMode(h) ==
    /\ h.pc = "start"
    /\ Becomes(h, [h EXCEPT !.pc = "mode", !.mode = buf.mode])
    /\ UNCHANGED <<upstream, received, buf, replies, counts, dropped>>

\* ... and, last, the transmit timestamp: whatever is in the buffer by now (its
\* eight bytes are aligned and loaded at once).
ParseOrigin(h) ==
    /\ h.pc = "mode"
    /\ Becomes(h, [h EXCEPT !.pc = "parsed", !.origin = buf.origin])
    /\ UNCHANGED <<upstream, received, buf, replies, counts, dropped>>

\* A packet that is no client request is dropped without a count.
Drop(h) ==
    /\ h.pc = "parsed" /\ h.mode # "client"
    /\ handlers' = handlers \ {h}
    /\ dropped' = dropped + 1
    /\ UNCHANGED <<upstream, received, buf, replies, counts>>

CountNoWriteError == counts

CountWriteError == [counts EXCEPT !.errors = @ + 1]

\* buildResponse (a reader of s.mu) and the write of the answer, or its failure.
\* The leap indicator, unknown unless the clock is LOCKED, plays no part here.
Respond(h) ==
    /\ h.pc = "parsed" /\ h.mode = "client"
    /\ writer = 0
    /\ handlers' = handlers \ {h}
    /\ \/ /\ replies' = replies \cup
               {[to |-> h.packet, origin |-> h.origin]}
          /\ counts' = [counts EXCEPT !.responses = @ + 1]
       \/ counts' = CountWriteError /\ UNCHANGED replies
    /\ UNCHANGED <<upstream, received, buf, dropped>>

Handle(h) == ParseMode(h) \/ ParseOrigin(h) \/ Drop(h) \/ Respond(h)

-----------------------------------------------------------------------------
Next ==
    \/ \E p \in Peers : PollSucceeds(p) \/ BecomesUnreachable(p) \/ BeginUpdate(p)
    \/ ScanPeer \/ EndUpdate
    \/ Receive \/ ReceiveShort
    \/ \E h \in handlers : Handle(h)

\* Goroutines run, and Go's RWMutex does not starve a waiting writer.
Fairness ==
    /\ WF_vars(ScanPeer \/ EndUpdate)
    /\ \A p \in Peers : SF_vars(BeginUpdate(p))

Spec == Init /\ [][Next]_vars /\ Fairness

-----------------------------------------------------------------------------
(* Properties. *)

\* What a reply echoes comes from the packet it answers or from later ones: the
\* shared buffer only moves forward, no handler sees bytes older than its own.
OriginNotOlder == \A r \in replies : \A n \in r.origin : r.to <= n

\* Every packet counted as a request ends as one response, one error or one
\* silent drop, unless its handler is still at work.
RequestsAccounted ==
    counts.requests = counts.responses + counts.errors + dropped + Cardinality(handlers)

Reachable == {p \in Peers : status[p].reachable}

\* The peers a scan of these statuses should end with.
IsBest(p) ==
    /\ p \in Reachable
    /\ \A q \in Reachable :
         \/ status[p].stratum < status[q].stratum
         \/ status[p].stratum = status[q].stratum /\ p <= q

\* Once a scan is over that no peer's change disturbed, the server is one
\* stratum below its best reachable peer, with the root delay of that peer.
FollowsBestPeer ==
    settled /\ writer = 0 =>
        \E p \in Peers : IsBest(p) /\ stratum = status[p].stratum + 1
                                   /\ rootDelay = status[p].delay

\* However scans and polls interleave, the server never claims a stratum that
\* is neither configured nor one below a stratum some peer has reported.
StratumIsEarned == stratum = ConfigStratum \/ stratum - 1 \in reported

\* A poll's update of the server is completed: no goroutine keeps s.mu.
UpdateCompletes == \A p \in Peers : upc[p] = "updating" ~> upc[p] = "polling"

\* What an NTP server owes its client ("Origin timestamp (client's transmit
\* time)"): a reply carries the transmit timestamp of the request it answers.
OriginEchoed == \A r \in replies : r.origin = {r.to}
=============================================================================
