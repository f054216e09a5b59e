----------------------------- MODULE NTSSessions -----------------------------
(***************************************************************************)
(* internal/nts/server.go: the key exchange.  Each connection has a        *)
(* handler, which may fail at four places; sessions are kept in a map that *)
(* is swept every five minutes.                                            *)
(*                                                                         *)
(* A request is told apart by whether it names NTPv4 and by the AEAD       *)
(* records it has.  Keys and cookies are left out: nothing in the program  *)
(* decrypts a cookie.                                                      *)
(***************************************************************************)
EXTENDS Integers, FiniteSets, Sequences, SequencesExt

CONSTANTS
    Conn,           \* connections of clients
    MaxAge,         \* 24 hours
    SweepInterval,  \* 5 minutes, in the same units
    NTSTime         \* bound: time

ASSUME SweepAssumption == MaxAge \in Nat /\ SweepInterval \in Nat \ {0} /\ NTSTime \in Nat
ASSUME ConnAssumption == IsFiniteSet(Conn)

VARIABLES
    start,          \* where Start is
    listener,       \* "new", "open" or "closed"
    running,        \* s.running
    exchange,       \* exchange[c]: where handleConnection is
    answer,         \* answer[c]: the response, "none" before there is one
    lastUsed,       \* s.sessions: a function from connections to times
    gauge,          \* the metric NTSActiveSessions
    requests, success, failures,    \* the metrics of key exchanges
    madeAt,         \* history: madeAt[c]: when the session of c was made
    ntime,
    sweepDue        \* a tick of the sweeper's timer waits

service == <<start, listener, running>>
exchanges == <<exchange, answer, requests, success, failures>>
sessions == <<lastUsed, gauge, madeAt>>
nts == <<service, exchanges, sessions, ntime, sweepDue>>

Supported == "AES-GCM-128"
OtherAEAD == "another AEAD"

NTSTypeOK ==
    /\ start \in {"new", "listening", "started"}
    /\ listener \in {"new", "open", "closed"} /\ running \in BOOLEAN
    /\ exchange \in [Conn -> {"none", "handshake", "read", "process", "cookies", "write", "done"}]
    /\ answer \in [Conn -> {"none", "error", "plain", Supported, OtherAEAD}]
    /\ DOMAIN lastUsed \subseteq Conn /\ \A c \in DOMAIN lastUsed : lastUsed[c] \in 0 .. ntime
    /\ gauge \in 0 .. Cardinality(Conn) /\ madeAt \in [Conn -> 0 .. ntime]
    /\ requests \in 0 .. Cardinality(Conn) /\ success \in Nat /\ failures \in Nat
    /\ ntime \in 0 .. NTSTime /\ sweepDue \in BOOLEAN

InitNTS ==
    /\ start = "new" /\ listener = "new" /\ running = FALSE
    /\ exchange = [c \in Conn |-> "none"] /\ answer = [c \in Conn |-> "none"]
    /\ lastUsed = << >> /\ gauge = 0 /\ madeAt = [c \in Conn |-> 0]
    /\ requests = 0 /\ success = 0 /\ failures = 0
    /\ ntime = 0 /\ sweepDue = FALSE

-----------------------------------------------------------------------------
\* Start: the listener, then the flag under the mutex.
ListenNTS ==
    /\ start = "new" /\ start' = "listening" /\ listener' = "open"
    /\ UNCHANGED <<running, exchanges, sessions, ntime, sweepDue>>

\* Stop may have closed the listener in between: the flag stays set then.
SetRunning ==
    /\ start = "listening" /\ start' = "started" /\ running' = TRUE
    /\ UNCHANGED <<listener, exchanges, sessions, ntime, sweepDue>>

Accept(c) ==
    /\ start = "started" /\ listener = "open" /\ exchange[c] = "none"
    /\ exchange' = [exchange EXCEPT ![c] = "handshake"]
    /\ requests' = requests + 1
    /\ UNCHANGED <<service, answer, success, failures, sessions, ntime, sweepDue>>

\* The handshake, the read, the making of keys or cookies, or the write fails: the
\* client is slow, gone or wrong, or the deadline has passed.
FailExchange(c) ==
    /\ exchange[c] \in {"handshake", "read", "process", "cookies", "write"}
    /\ exchange' = [exchange EXCEPT ![c] = "done"]
    /\ failures' = failures + 1
    /\ UNCHANGED <<service, answer, requests, success, sessions, ntime, sweepDue>>

Proceed(c, from, to) ==
    /\ exchange[c] = from
    /\ exchange' = [exchange EXCEPT ![c] = to]
    /\ UNCHANGED <<service, answer, requests, success, failures, sessions, ntime, sweepDue>>

\* The answer to a request with these AEAD records: it names the last one if the
\* supported one is among them.
AnswerTo(named, aeads) ==
    IF ~named THEN "error"
    ELSE IF Supported \in Range(aeads) THEN Last(aeads)
    ELSE "plain"

\* A request that does not name NTPv4 is answered with an error and makes no session.
Refuse(c) ==
    /\ exchange[c] = "process"
    /\ answer' = [answer EXCEPT ![c] = AnswerTo(FALSE, <<>>)]
    /\ exchange' = [exchange EXCEPT ![c] = "write"]
    /\ UNCHANGED <<service, requests, success, failures, sessions, ntime, sweepDue>>

\* The metric is set in the same critical section as the map.
GaugeAfter(t) == Cardinality(DOMAIN t)

NothingStored(c) == lastUsed

\* The map with the session of c.
SessionStored(c) == [d \in DOMAIN lastUsed \cup {c} |-> IF d = c THEN ntime ELSE lastUsed[d]]

MakeSession(c) ==
    /\ exchange[c] = "process"
    /\ \E aeads \in BoundedSeq({Supported, OtherAEAD}, 2) :
         answer' = [answer EXCEPT ![c] = AnswerTo(TRUE, aeads)]
    /\ lastUsed' = SessionStored(c)
    /\ gauge' = GaugeAfter(lastUsed')
    /\ madeAt' = [madeAt EXCEPT ![c] = ntime]
    /\ exchange' = [exchange EXCEPT ![c] = "cookies"]
    /\ UNCHANGED <<service, requests, success, failures, ntime, sweepDue>>

\* The response is written: an error counts as a success, too.
WriteResponse(c) ==
    /\ exchange[c] = "write"
    /\ exchange' = [exchange EXCEPT ![c] = "done"]
    /\ success' = success + 1
    /\ UNCHANGED <<service, answer, requests, failures, sessions, ntime, sweepDue>>

HandleConnection(c) ==
    \/ FailExchange(c) \/ Refuse(c) \/ MakeSession(c) \/ WriteResponse(c)
    \/ Proceed(c, "handshake", "read") \/ Proceed(c, "read", "process")
    \/ Proceed(c, "cookies", "write")

-----------------------------------------------------------------------------
\* The timer of the sweeper.  Bound: the sweeper is never a whole tick late.
ElapseNTS ==
    /\ running /\ ntime < NTSTime /\ ~sweepDue
    /\ ntime' = ntime + 1
    /\ sweepDue' = (ntime' % SweepInterval = 0)
    /\ UNCHANGED <<service, exchanges, sessions>>

FreshLater(c) == ntime - lastUsed[c] <= MaxAge + SweepInterval

\* Sessions that stay.  Nothing uses a session after it was made.
Fresh(c) == ntime - lastUsed[c] <= MaxAge

CleanupSessions ==
    /\ sweepDue /\ sweepDue' = FALSE
    /\ lastUsed' = [c \in {d \in DOMAIN lastUsed : Fresh(d)} |-> lastUsed[c]]
    /\ gauge' = GaugeAfter(lastUsed')
    /\ UNCHANGED <<service, exchanges, madeAt, ntime>>

\* Stop: handlers that are busy go on.
StopNTS ==
    /\ listener # "closed"
    /\ running' = FALSE
    /\ listener' = IF listener = "open" THEN "closed" ELSE listener
    /\ UNCHANGED <<start, exchanges, sessions, ntime, sweepDue>>

NTSNext ==
    ListenNTS \/ SetRunning \/ CleanupSessions
      \/ \E c \in Conn : Accept(c) \/ HandleConnection(c)

-----------------------------------------------------------------------------
Busy == {c \in Conn : exchange[c] \notin {"none", "done"}}

\* What the metrics say adds up, at every moment and with every failure: each
\* request is in progress, a success or a failure; the gauge is the size of the
\* map; and every exchange that was not answered with an error has left a session in
\* it, which stays until it is too old, whether the response was written or not.
ExchangesAccounted ==
    /\ requests = success + failures + Cardinality(Busy)
    /\ gauge = Cardinality(DOMAIN lastUsed)
    /\ \A c \in Conn : answer[c] \notin {"none", "error"} /\ ntime - madeAt[c] <= MaxAge
                         => c \in DOMAIN lastUsed

\* A session is forgotten one sweep after its time at the latest.
SessionsExpire ==
    running => \A c \in DOMAIN lastUsed : ntime - lastUsed[c] <= MaxAge + SweepInterval
=============================================================================
