--------------------------- MODULE PTPGrandmaster ---------------------------
(***************************************************************************)
(* internal/ptp/grandmaster.go, with one slave and the network between     *)
(* them.  Two loops send Announce and Sync messages and take their numbers *)
(* from one counter; a Sync may be followed by a Follow_Up with its time.  *)
(* A Delay_Req is answered with the time it was read.                      *)
(*                                                                         *)
(* The clock data in Announce messages are constants of the configuration  *)
(* and left out, and so are the statistics and peer delay requests, whose  *)
(* answer changes no state.  The slave is the standard's: it pairs a Sync  *)
(* with the Follow_Up of the same number, and a Delay_Resp with its last   *)
(* Delay_Req.                                                              *)
(***************************************************************************)
EXTENDS Integers, FiniteSets

CONSTANTS
    Modulus,        \* 2^16: message numbers
    Second,         \* a second
    LeastSync,      \* an eighth of a second, the least interval of Sync messages
    MaxDuration,    \* 2^63 nanoseconds: durations are below it, and not below its negative
    LogSyncInts, LogAnnounceInts,   \* logarithms that may be configured
    MaxDelay,       \* the longest time in the network
    MaxLag,         \* the longest time the grandmaster takes for a step
    PTPTime         \* bound: time

ASSUME IntervalAssumption ==
    /\ LeastSync \in Nat \ {0} /\ Second \in Nat /\ LeastSync <= Second
    /\ MaxDuration \in Nat \ {0}
    /\ \A log \in LogSyncInts \cup LogAnnounceInts : log \in Int /\ (log >= 0 => 2^log \in Nat \ {0})

\* While a Sync, the time for it, or what the slave has kept of them is alive, the two
\* loops do not take all the numbers there are: 65536, eight times a second at most.
ASSUME NumbersAssumption ==
    /\ Modulus \in Nat /\ MaxDelay \in Nat /\ MaxLag \in Nat /\ PTPTime \in Nat
    /\ Modulus > 2 * ((MaxLag + 2 * MaxDelay) \div LeastSync) + 1

VARIABLES
    twoStep, logSync, logAnnounce,  \* the configuration
    gmStart,        \* where Start is
    sockets,        \* "new", "open" or "closed": the two sockets are looked at as one
    portState,      \* "INITIALIZING", "MASTER" or "DISABLED"
    sequenceID,
    ticks,          \* loops ("announce", "sync") whose timer has fired
    sync,           \* the Sync being sent: where syncLoop is, its number and time
    air,            \* messages on their way
    slave,          \* what the slave knows
    ptime

ptpConfig == <<twoStep, logSync, logAnnounce>>
port == <<gmStart, sockets, portState>>
ptp == <<ptpConfig, port, sequenceID, ticks, sync, air, slave, ptime>>

None == [seq |-> -1, t |-> 0]
Unknown == [known |-> FALSE, diff |-> 0]

Stamp == [seq : -1 .. Modulus - 1, t : 0 .. PTPTime]
Kinds == {"Sync", "Follow_Up", "Delay_Req", "Delay_Resp"}

PTPTypeOK ==
    /\ twoStep \in BOOLEAN /\ logSync \in LogSyncInts /\ logAnnounce \in LogAnnounceInts
    /\ gmStart \in {"new", "listening", "started"} /\ sockets \in {"new", "open", "closed"}
    /\ portState \in {"INITIALIZING", "MASTER", "DISABLED"}
    /\ sequenceID \in 0 .. Modulus - 1
    /\ ticks \subseteq {"announce", "sync"}
    /\ sync.at \in {"wait", "write", "follow"} /\ sync.seq \in 0 .. Modulus - 1
    /\ \A m \in air : m.kind \in Kinds /\ m.seq \in 0 .. Modulus - 1 /\ ptime <= m.until
    /\ slave.sync \in Stamp /\ slave.follow \in Stamp /\ slave.request \in Stamp
    /\ ptime \in 0 .. PTPTime

InitPTP ==
    /\ twoStep \in BOOLEAN /\ logSync \in LogSyncInts /\ logAnnounce \in LogAnnounceInts
    /\ gmStart = "new" /\ sockets = "new" /\ portState = "INITIALIZING" /\ sequenceID = 0
    /\ ticks = {} /\ sync = [at |-> "wait", seq |-> 0, t |-> 0, until |-> 0]
    /\ air = {}
    /\ slave = [sync |-> None, follow |-> None, request |-> None,
                down |-> Unknown, up |-> Unknown]
    /\ ptime = 0

-----------------------------------------------------------------------------
\* A product in 64 bits.
Wrapped(n) == ((n + MaxDuration) % (2 * MaxDuration)) - MaxDuration

\* 1 << uint(log) is 0 when log is negative; when it is large the duration wraps.
Duration(log) == IF log < 0 THEN 0 ELSE Wrapped(2^log * Second)

Interval(log, least) == IF Duration(log) < least THEN least ELSE Duration(log)

AnnounceInterval == Interval(logAnnounce, Second)
SyncInterval == Interval(logSync, LeastSync)

\* Start: the sockets, then the state under the mutex, although Stop may have come
\* before either.
ListenPTP ==
    /\ gmStart = "new" /\ gmStart' = "listening" /\ sockets' = "open"
    /\ UNCHANGED <<ptpConfig, portState, sequenceID, ticks, sync, air, slave, ptime>>

StartPTP ==
    /\ gmStart = "listening" /\ gmStart' = "started" /\ portState' = "MASTER"
    /\ UNCHANGED <<ptpConfig, sockets, sequenceID, ticks, sync, air, slave, ptime>>

\* A message of the grandmaster or the slave, and how long it may be on its way.
Message(kind, seq, t, until) == [kind |-> kind, seq |-> seq, t |-> t, until |-> until]

WideNumber == sequenceID + 1

\* gm.sequenceID++ in 16 bits.
NextNumber == (sequenceID + 1) % Modulus

\* announceLoop: the message itself reaches no one the model looks at.
SendAnnounce ==
    /\ "announce" \in ticks
    /\ ticks' = ticks \ {"announce"}
    /\ sequenceID' = NextNumber
    /\ UNCHANGED <<ptpConfig, port, sync, air, slave, ptime>>

\* sendSync takes a number, and the time, before it has built the message.
BeginSync ==
    /\ sync.at = "wait" /\ "sync" \in ticks
    /\ ticks' = ticks \ {"sync"}
    /\ sequenceID' = NextNumber
    /\ sync' = [at |-> "write", seq |-> NextNumber, t |-> ptime, until |-> ptime + MaxLag]
    /\ UNCHANGED <<ptpConfig, port, air, slave, ptime>>

\* The message is written to the event socket, with the time if there is no
\* Follow_Up.  After Stop a write fails, and nobody notices.
WriteSync ==
    /\ sync.at = "write"
    /\ sync' = [sync EXCEPT !.at = IF twoStep THEN "follow" ELSE "wait"]
    /\ air' = IF sockets = "open"
                THEN air \cup {Message("Sync", sync.seq, sync.t, ptime + MaxDelay)}
                ELSE air
    /\ UNCHANGED <<ptpConfig, port, sequenceID, ticks, slave, ptime>>

TimeAfterWrite == ptime

\* The time that Follow_Up carries: preciseTime.
PreciseTime == sync.t

\* The Follow_Up is written to the general socket.
WriteFollowUp ==
    /\ sync.at = "follow"
    /\ sync' = [sync EXCEPT !.at = "wait"]
    /\ air' = IF sockets = "open"
                THEN air \cup {Message("Follow_Up", sync.seq, PreciseTime, ptime + MaxDelay)}
                ELSE air
    /\ UNCHANGED <<ptpConfig, port, sequenceID, ticks, slave, ptime>>

\* handleDelayReq: the answer goes to the requester, with the request's number and
\* the time it was read from the socket.  The one slave is in the grandmaster's
\* domain: requests from another are dropped before they get here.
HandleDelayReq ==
    /\ sockets = "open"
    /\ \E m \in air :
         /\ m.kind = "Delay_Req"
         /\ air' = (air \ {m}) \cup {Message("Delay_Resp", m.seq, ptime, ptime + MaxDelay)}
    /\ UNCHANGED <<ptpConfig, port, sequenceID, ticks, sync, slave, ptime>>

StopPTP ==
    /\ portState' = "DISABLED"
    /\ sockets' = IF sockets = "open" THEN "closed" ELSE sockets
    /\ UNCHANGED <<ptpConfig, gmStart, sequenceID, ticks, sync, air, slave, ptime>>

-----------------------------------------------------------------------------
(* Time, the network and the slave, whose clock is right *)

\* Messages arrive in time or are lost; a loop begins when its timer fires, and a
\* Sync is sent no later than MaxLag after.
ElapsePTP ==
    /\ portState = "MASTER" /\ ptime < PTPTime /\ ticks = {}
    /\ sync.at = "wait" \/ ptime < sync.until
    /\ ptime' = ptime + 1
    /\ ticks' = ticks \cup {k \in {"announce", "sync"} :
                    ptime' % (IF k = "sync" THEN SyncInterval ELSE AnnounceInterval) = 0}
    /\ air' = {m \in air : ptime' <= m.until}
    /\ slave' = [slave EXCEPT
                   !.sync = IF ptime' - @.t > MaxDelay THEN None ELSE @,
                   !.follow = IF ptime' - @.t > MaxDelay + MaxLag THEN None ELSE @]
    /\ UNCHANGED <<ptpConfig, port, sequenceID, sync>>

\* A Sync and a time for it: how long it seems to have travelled.
Pair(s, f) ==
    [s EXCEPT !.down = IF s.sync # None /\ f # None /\ s.sync.seq = f.seq
                         THEN [known |-> TRUE, diff |-> s.sync.t - f.t] ELSE @]

SlaveReceives ==
    \E m \in air :
      /\ \/ /\ m.kind = "Sync"
            /\ LET s == [slave EXCEPT !.sync = [seq |-> m.seq, t |-> ptime]]
               IN slave' = Pair(s, IF twoStep THEN s.follow ELSE [seq |-> m.seq, t |-> m.t])
         \/ /\ m.kind = "Follow_Up"
            /\ LET f == [seq |-> m.seq, t |-> m.t]
               IN slave' = Pair([slave EXCEPT !.follow = f], f)
         \/ /\ m.kind = "Delay_Resp" /\ m.seq = slave.request.seq
            /\ slave' = [slave EXCEPT !.up = [known |-> TRUE, diff |-> m.t - slave.request.t]]
      /\ air' = air \ {m}
      /\ UNCHANGED <<ptpConfig, port, sequenceID, ticks, sync, ptime>>

\* A Delay_Req once a second at most; a new one gives up the last one.
SlaveAsks ==
    /\ portState = "MASTER" /\ slave.down.known
    /\ slave.request = None \/ ptime >= slave.request.t + Second
    /\ LET n == (slave.request.seq + 1) % Modulus
       IN /\ slave' = [slave EXCEPT !.request = [seq |-> n, t |-> ptime]]
          /\ air' = air \cup {Message("Delay_Req", n, ptime, ptime + MaxDelay + MaxLag)}
    /\ UNCHANGED <<ptpConfig, port, sequenceID, ticks, sync, ptime>>

PTPNext ==
    ListenPTP \/ StartPTP \/ SendAnnounce \/ BeginSync \/ WriteSync \/ WriteFollowUp \/ HandleDelayReq
      \/ SlaveReceives \/ SlaveAsks

-----------------------------------------------------------------------------
\* A slave whose clock is right, and which knows the way in both directions, is
\* wrong about it by no more than half of what the slower direction and the
\* grandmaster may take: whatever is lost or reordered, and although numbers
\* repeat and are shared with Announce messages.
OffsetWithinDelay ==
    slave.down.known /\ slave.up.known =>
        slave.down.diff - slave.up.diff \in -(MaxDelay + MaxLag) .. MaxDelay + MaxLag
=============================================================================
