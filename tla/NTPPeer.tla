------------------------------ MODULE NTPPeer ------------------------------
(***************************************************************************)
(* internal/ntp/peer.go: one upstream peer, polled over one UDP socket.    *)
(*                                                                         *)
(* The goroutine of Run sends a request and reads the socket until a       *)
(* deadline.  The network may lose, delay, duplicate and reorder packets,  *)
(* the peer's server may take its time, refuse, or answer with a stratum   *)
(* that is not usable.                                                     *)
(* poll does not compare an answer with the request it is waiting for, so  *)
(* whatever the socket holds is taken as the answer.                       *)
(*                                                                         *)
(* Time is counted in ticks of the true time `now'; this host's clock      *)
(* shows now and the peer's clock shows now + Theta.                       *)
(***************************************************************************)
EXTENDS Integers, Sequences, FiniteSets

CONSTANTS
    Theta,          \* the peer's clock minus this host's clock
    Strata,         \* the strata the peer may answer with
    FilterSize,     \* 8 slots of the clock filter
    ReachBits,      \* 8 bits of the reachability register
    Timeout,        \* 2 s read deadline
    BurstPolls,     \* 4 polls of iburst, or 0
    BurstGap,       \* 2 s between them
    PollInterval,   \* 16 s at least between polls of the main loop
    MaxDuplicates,  \* bound: packets the network duplicates
    MaxPolls,       \* bound: polls made
    MaxTime         \* bound: ticks of time

ASSUME ThetaAssumption == Theta \in Int
ASSUME StrataAssumption == Strata \subseteq Nat
ASSUME FilterAssumption == FilterSize \in Nat \ {0}
ASSUME ReachAssumption == ReachBits \in Nat \ {0}

\* Arithmetic that the provers do not know of a power with a variable exponent.
ASSUME PowerAssumption ==
    \A j, k \in 0 .. ReachBits :
        2^j \in Nat \ {0} /\ (j + k <= ReachBits => 2^(j + k) = 2^j * 2^k)
ASSUME TimeAssumption ==
    /\ Timeout \in Nat /\ BurstGap \in Nat /\ PollInterval \in Nat
    /\ BurstPolls \in Nat /\ MaxDuplicates \in Nat
    /\ MaxPolls \in Nat /\ MaxTime \in Nat

VARIABLES
    now,          \* true time
    pc,           \* "idle", "waiting" in Read, or "stopped"
    open,         \* the socket is open
    cancelled,    \* the context is cancelled
    nextPoll,     \* when the burst's sleep or the ticker ends
    t1,           \* txTime of the poll in progress, or of the last one
    unanswered,   \* when the requests were sent whose answers have not arrived
    queue,        \* answers received by the socket and not read yet
    duplicates,   \* packets the network has duplicated
    stratum,      \* Peer.stratum
    reach,        \* Peer.reach
    pollCount, errorCount,    \* Peer.pollCount, Peer.errorCount
    offsets, delays,          \* Peer.offsets, Peer.delays: the filter
    filterIdx, filterCount,   \* Peer.filterIdx, Peer.filterCount
    outcomes,     \* history: TRUE or FALSE for every finished poll
    samples       \* history: every sample the filter was given

filter == <<offsets, delays, filterIdx, filterCount, samples>>
counters == <<reach, pollCount, errorCount, outcomes>>
loop == <<pc, nextPoll, t1, cancelled, open>>
network == <<unanswered, queue, duplicates>>
vars == <<now, loop, network, stratum, counters, filter>>

\* An answer carries the times (true times) at which its request was sent, and
\* at which the peer received and answered it.
Answer == [sent : Nat, received : Nat, answered : Nat, stratum : Nat]
Sample == [offset : Int, delay : Int, lag : Int]
Slots == 0 .. FilterSize - 1

TypeOK ==
    /\ now \in Nat /\ nextPoll \in Nat /\ t1 \in Nat
    /\ pc \in {"idle", "waiting", "stopped"}
    /\ open \in BOOLEAN /\ cancelled \in BOOLEAN
    /\ unanswered \subseteq Nat
    /\ queue \in Seq(Answer) /\ duplicates \in 0 .. MaxDuplicates
    /\ stratum \in Nat
    /\ reach \in 0 .. 2^ReachBits - 1
    /\ pollCount \in Nat /\ errorCount \in Nat
    /\ offsets \in [Slots -> Int] /\ delays \in [Slots -> Int]
    /\ filterIdx \in Slots /\ filterCount \in 0 .. FilterSize
    /\ outcomes \in Seq(BOOLEAN)
    /\ samples \in Seq(Sample)

\* Run has dialled, or could not and has returned.
Init ==
    /\ now = 0 /\ t1 = 0
    /\ nextPoll = IF BurstPolls > 0 THEN 0 ELSE PollInterval
    /\ \/ pc = "idle" /\ open = TRUE
       \/ pc = "stopped" /\ open = FALSE
    /\ cancelled = FALSE
    /\ unanswered = {} /\ queue = <<>> /\ duplicates = 0
    /\ stratum = 0 /\ reach = 0
    /\ pollCount = 0 /\ errorCount = 0
    /\ offsets = [i \in Slots |-> 0] /\ delays = [i \in Slots |-> 0]
    /\ filterIdx = 0 /\ filterCount = 0
    /\ outcomes = <<>> /\ samples = <<>>

-----------------------------------------------------------------------------
(* Time, the network and the peer's server.  A request or an answer that   *)
(* is lost is one whose answer never arrives.                              *)

\* A read does not outlive its deadline.
Elapse ==
    /\ now < MaxTime
    /\ pc = "waiting" => now < t1 + Timeout
    /\ now' = now + 1
    /\ UNCHANGED <<loop, network, stratum, counters, filter>>

\* An answer reaches the socket, whether or not somebody still waits for it:
\* the peer received the request and sent the answer at times of its choice.  If
\* a packet was duplicated, the request is answered again.
Arrive ==
    /\ open
    /\ \E s \in unanswered, str \in Strata :
         \E received \in s .. now : \E answered \in received .. now :
            /\ \/ unanswered' = unanswered \ {s} /\ UNCHANGED duplicates
               \/ duplicates < MaxDuplicates /\ duplicates' = duplicates + 1 /\ UNCHANGED unanswered
            /\ queue' = Append(queue, [sent |-> s, received |-> received,
                                       answered |-> answered, stratum |-> str])
    /\ UNCHANGED <<now, loop, stratum, counters, filter>>

-----------------------------------------------------------------------------
(* The polling goroutine. *)

KeptOnFailure(ok) == IF ok THEN (2 * reach + 1) % 2^ReachBits ELSE reach

\* The register is shifted by every finished poll.
ReachAfter(ok) == (2 * reach + IF ok THEN 1 ELSE 0) % 2^ReachBits

\* The sleep after a poll of the burst, the first tick of the main loop's
\* ticker (started when the burst is over), and its later ticks.
NextPollAfter(n) ==
    IF n < BurstPolls THEN now + BurstGap
    ELSE IF n = BurstPolls THEN now + BurstGap + PollInterval
    ELSE nextPoll + PollInterval

FailUncounted ==
    /\ reach' = ReachAfter(FALSE)
    /\ outcomes' = Append(outcomes, FALSE)
    /\ UNCHANGED <<errorCount, stratum, filter>>

\* recordError.
Fail ==
    /\ reach' = ReachAfter(FALSE)
    /\ errorCount' = errorCount + 1
    /\ outcomes' = Append(outcomes, FALSE)
    /\ UNCHANGED <<stratum, filter>>

\* The burst looks at the context before each poll.  The select of the main loop
\* may take the ticker's channel even when the context is cancelled.
MayPoll ==
    /\ pc = "idle" /\ now >= nextPoll
    /\ cancelled => pollCount >= BurstPolls
    /\ pollCount < MaxPolls /\ now + Timeout <= MaxTime    \* the bounds

\* poll up to conn.Write: the request is sent ...
SendRequest ==
    /\ MayPoll /\ open
    /\ pollCount' = pollCount + 1
    /\ t1' = now
    /\ unanswered' = unanswered \cup {now}
    /\ pc' = "waiting"
    /\ UNCHANGED <<now, nextPoll, cancelled, open, queue, duplicates, stratum, reach,
                   errorCount, outcomes, filter>>

\* ... or Write fails: the socket was closed, or the network is unreachable.
WriteFails ==
    /\ MayPoll
    /\ pollCount' = pollCount + 1
    /\ t1' = now
    /\ Fail
    /\ nextPoll' = NextPollAfter(pollCount + 1)
    /\ UNCHANGED <<now, pc, cancelled, open, network>>

\* Read fails: the deadline passed with nothing in the socket, Stop closed the
\* socket, or one of the requests was refused by the peer's host, which is told
\* before what else is in the socket.
ReadFails ==
    /\ pc = "waiting"
    /\ \/ now >= t1 + Timeout /\ queue = <<>> /\ UNCHANGED unanswered
       \/ ~open /\ UNCHANGED unanswered
       \/ open /\ \E s \in unanswered : unanswered' = unanswered \ {s}
    /\ Fail
    /\ nextPoll' = NextPollAfter(pollCount)
    /\ pc' = "idle"
    /\ UNCHANGED <<now, pollCount, t1, cancelled, open, queue, duplicates>>

Usable(p) == p.stratum # 0 /\ p.stratum <= 15

\* Go's integer division truncates toward zero.
Halve(x) == IF x >= 0 THEN x \div 2 ELSE -((-x) \div 2)

SwappedTimes(p) ==
    LET t2 == p.received + Theta
        t3 == p.answered + Theta
        t4 == now
    IN  [offset |-> Halve((t2 - t1) + (t4 - t3)),
         delay  |-> (t4 - t1) - (t3 - t2),
         lag    |-> t1 - p.sent]

\* Offset and delay of the answer p read now; lag is how much earlier than the
\* request being waited for the answered request was sent.
SampleOf(p) ==
    LET t2 == p.received + Theta
        t3 == p.answered + Theta
        t4 == now
    IN  [offset |-> Halve((t2 - t1) + (t3 - t4)),
         delay  |-> (t4 - t1) - (t3 - t2),
         lag    |-> t1 - p.sent]

UnwrappedSlot == filterIdx + 1
LastSlotUnused == IF filterIdx + 2 < FilterSize THEN filterIdx + 1 ELSE 0

NextSlot == (filterIdx + 1) % FilterSize

\* A usable answer enters the filter and sets the peer's stratum.
Accept(p) ==
    /\ stratum' = p.stratum
    /\ reach' = ReachAfter(TRUE)
    /\ offsets' = [offsets EXCEPT ![filterIdx] = SampleOf(p).offset]
    /\ delays' = [delays EXCEPT ![filterIdx] = SampleOf(p).delay]
    /\ filterIdx' = NextSlot
    /\ filterCount' = IF filterCount < FilterSize THEN filterCount + 1 ELSE filterCount
    /\ samples' = Append(samples, SampleOf(p))
    /\ outcomes' = Append(outcomes, TRUE)
    /\ UNCHANGED errorCount

\* poll after conn.Read: the first response in the socket is the answer.
ReadAnswer ==
    /\ pc = "waiting" /\ open /\ queue # <<>>
    /\ queue' = Tail(queue)
    /\ IF Usable(Head(queue)) THEN Accept(Head(queue)) ELSE Fail
    /\ nextPoll' = NextPollAfter(pollCount)
    /\ pc' = "idle"
    /\ UNCHANGED <<now, pollCount, t1, cancelled, open, unanswered, duplicates>>

-----------------------------------------------------------------------------
(* Shutdown: the context is cancelled, then Server.Stop closes the socket. *)

Cancel ==
    /\ ~cancelled
    /\ cancelled' = TRUE
    /\ UNCHANGED <<now, pc, nextPoll, t1, open, network, stratum, counters, filter>>

Stop ==
    /\ cancelled /\ open
    /\ open' = FALSE
    /\ queue' = <<>>
    /\ UNCHANGED <<now, pc, nextPoll, t1, cancelled, unanswered, duplicates, stratum,
                   counters, filter>>

ReturnOnlyFromBurst ==
    /\ pc = "idle" /\ cancelled /\ pollCount < BurstPolls
    /\ pc' = "stopped" /\ open' = FALSE /\ queue' = <<>>
    /\ UNCHANGED <<now, nextPoll, t1, cancelled, unanswered, duplicates, stratum,
                   counters, filter>>

\* Run's select sees ctx.Done and the deferred Close runs.
Return ==
    /\ pc = "idle" /\ cancelled
    /\ pc' = "stopped" /\ open' = FALSE /\ queue' = <<>>
    /\ UNCHANGED <<now, nextPoll, t1, cancelled, unanswered, duplicates, stratum,
                   counters, filter>>

Poll == SendRequest \/ WriteFails \/ ReadFails \/ ReadAnswer \/ Return

Environment == Elapse \/ Arrive

Next == Poll \/ Environment \/ Cancel \/ Stop

\* Time passes, a read returns by its deadline, and a select that finds the context cancelled
\* again and again takes that branch (Go chooses at random).  The network owes
\* nothing.
Fairness == WF_vars(Elapse) /\ WF_vars(ReadFails \/ ReadAnswer) /\ SF_vars(Return)

Spec == Init /\ [][Next]_vars /\ Fairness

-----------------------------------------------------------------------------
(* Properties. *)

Abs(x) == IF x < 0 THEN -x ELSE x

\* The reachability register is the record of the last polls: bit k tells
\* whether the k-th poll before the last one succeeded, whichever way it failed.
ReachIsHistory ==
    \A k \in 0 .. ReachBits - 1 :
        (reach \div 2^k) % 2 = 1 <=>
            k < Len(outcomes) /\ outcomes[Len(outcomes) - k]

\* The filter holds the latest samples: going back from filterIdx one meets
\* them from the newest on, across the wrap of the ring.
RingHoldsLatest ==
    /\ filterCount = IF Len(samples) < FilterSize THEN Len(samples) ELSE FilterSize
    /\ \A k \in 0 .. filterCount - 1 :
         LET i == (filterIdx - 1 - k) % FilterSize
             s == samples[Len(samples) - k]
         IN  offsets[i] = s.offset /\ delays[i] = s.delay

\* Every poll is counted once, as a sample or as an error, unless it waits.
PollsAccounted ==
    pollCount = Len(samples) + errorCount + IF pc = "waiting" THEN 1 ELSE 0

\* The error of a sample is bounded by half of its delay, plus the lag by which
\* its answer belongs to an earlier request: this is all the code guarantees.
ErrorWithinLag ==
    \A i \in DOMAIN samples :
        Abs(2 * samples[i].offset - 2 * Theta) <= samples[i].delay + 2 * samples[i].lag + 1

\* Answers are attributed to the wrong request only after a poll has failed or a
\* packet was duplicated: as long as every poll got one answer, in time, offsets
\* are sound.
LagNeedsFailure ==
    (\E i \in DOMAIN samples : samples[i].lag > 0) => errorCount + duplicates > 0

\* A cancelled peer stops polling.
StopsAfterCancel == cancelled ~> pc = "stopped"

\* What the four timestamps of poll are for ("t1 := txTime // Client transmit",
\* "Delay = (t4 - t1) - (t3 - t2)"): a sample is within half its round-trip
\* delay of the peer's true offset.
HalfDelayBound ==
    \A i \in DOMAIN samples :
        Abs(2 * samples[i].offset - 2 * Theta) <= samples[i].delay + 1
=============================================================================
