---------------------------- MODULE GPSDONetwork ----------------------------
(***************************************************************************)
(* internal/gpsdo/network.go: the client of a gpsd that is reached over    *)
(* TCP.  Start dials, reads until the connection is lost, and dials again; *)
(* Stop, which main calls after it has cancelled the context, closes the   *)
(* connection under the reader.                                            *)
(*                                                                         *)
(* A TPV message is told apart by whether it has a fix and a time.  What   *)
(* is only reported (satellites, SKY messages, the age of the lock, the    *)
(* last error) is left out, and so is `running', which nothing reads.      *)
(***************************************************************************)
EXTENDS Integers, Sequences, FiniteSets

CONSTANTS
    MaxConns,       \* bound: connections dialled
    MaxQueue        \* bound: messages on their way

ASSUME ConnectionAssumption == MaxConns \in Nat /\ MaxQueue \in Nat

VARIABLES
    cancelled,      \* the context of main is done
    stopped,        \* Stop has been called
    npc,            \* where Start is
    dialled,        \* connections so far; the last one is the loop's local conn
    conn,           \* n.conn: a connection, or 0 for nil
    connected, locked,      \* n.connected, n.locked
    open,           \* connections whose file descriptor is open
    alive,          \* gpsd has not hung up on the last connection
    queue,          \* messages of the last connection not read yet
    lastTimed       \* history: the last message with a time and its connection

network == <<npc, dialled, conn, connected, locked, open, alive, queue, lastTimed>>

Message == [fix : BOOLEAN, timed : BOOLEAN]

NetworkTypeOK ==
    /\ npc \in {"loop", "dial", "assign", "watch", "failed", "retry", "take", "scan",
                "got", "lost", "returned"}
    /\ dialled \in 0 .. MaxConns
    /\ conn \in 0 .. dialled /\ open \subseteq 1 .. dialled
    /\ connected \in BOOLEAN /\ locked \in BOOLEAN /\ alive \in BOOLEAN
    /\ queue \in Seq(Message) /\ Len(queue) <= MaxQueue
    /\ lastTimed \in [fix : BOOLEAN, conn : 0 .. dialled]

InitNetwork ==
    /\ npc = "loop" /\ dialled = 0 /\ conn = 0
    /\ connected = FALSE /\ locked = FALSE
    /\ open = {} /\ alive = FALSE /\ queue = <<>>
    /\ lastTimed = [fix |-> FALSE, conn |-> 0]

-----------------------------------------------------------------------------
(* Start *)

\* The head of the loop, and the wait before a retry: they see the context.
LoopNetwork ==
    /\ npc \in {"loop", "retry"}
    /\ \/ cancelled /\ npc' = "returned"
       \/ ~cancelled /\ npc' = "dial"
       \/ cancelled /\ npc = "retry" /\ npc' = "loop"   \* both cases of the select are ready
    /\ UNCHANGED <<dialled, conn, connected, locked, open, alive, queue, lastTimed>>

\* connect: the dial succeeds, or fails by its timeout.
Dial ==
    /\ npc = "dial"
    /\ \/ /\ dialled < MaxConns
          /\ dialled' = dialled + 1
          /\ open' = open \cup {dialled'}
          /\ alive' = TRUE /\ queue' = <<>>
          /\ npc' = "assign"
       \/ npc' = "failed" /\ UNCHANGED <<dialled, open, alive, queue>>
    /\ UNCHANGED <<conn, connected, locked, lastTimed>>

AssignConn ==
    /\ npc = "assign"
    /\ conn' = dialled /\ connected' = TRUE
    /\ npc' = "watch"
    /\ UNCHANGED <<dialled, locked, open, alive, queue, lastTimed>>

\* The WATCH command is written; if that fails the connection is closed, but
\* stays in n.conn.
Watch ==
    /\ npc = "watch"
    /\ \/ dialled \in open /\ npc' = "take" /\ UNCHANGED open
       \/ npc' = "failed" /\ open' = open \ {dialled}
    /\ UNCHANGED <<dialled, conn, connected, locked, alive, queue, lastTimed>>

FailedConnect ==
    /\ npc = "failed"
    /\ connected' = FALSE /\ locked' = FALSE
    /\ npc' = "retry"
    /\ UNCHANGED <<dialled, conn, open, alive, queue, lastTimed>>

\* readLoop takes the connection from n.conn, where Stop may have cleared it.
TakeConn ==
    /\ npc = "take"
    /\ npc' = IF conn = 0 THEN "loop" ELSE "scan"
    /\ UNCHANGED <<dialled, conn, connected, locked, open, alive, queue, lastTimed>>

ScanEndsOnError == queue # <<>> \/ dialled \notin open

\* Scan may return without a line: it is longer than 4096 bytes, gpsd has hung up,
\* or Stop has closed the connection.
ScanEnds == queue # <<>> \/ ~alive \/ dialled \notin open

\* Scan returns with a line, which it may have buffered before the connection was
\* closed, or without one.
Scan ==
    /\ npc = "scan"
    /\ \/ queue # <<>> /\ npc' = "got"
       \/ ScanEnds /\ npc' = "lost"
    /\ UNCHANGED <<dialled, conn, connected, locked, open, alive, queue, lastTimed>>

\* n.locked after a TPV message: only one with a time changes it.
LockAfter(m) == IF m.timed THEN m.fix ELSE locked

\* A line was read.  After cancellation the reader returns and leaves everything
\* as it is; otherwise the message is handled.
Process ==
    /\ npc = "got"
    /\ IF cancelled
         THEN npc' = "loop" /\ UNCHANGED <<locked, queue, lastTimed>>
         ELSE /\ locked' = LockAfter(Head(queue))
              /\ lastTimed' = IF Head(queue).timed
                                THEN [fix |-> Head(queue).fix, conn |-> dialled]
                                ELSE lastTimed
              /\ queue' = Tail(queue)
              /\ npc' = "scan"
    /\ UNCHANGED <<dialled, conn, connected, open, alive>>

LockKept == locked

\* n.locked once the connection is lost.
LockAfterLoss == FALSE

Lost ==
    /\ npc = "lost"
    /\ connected' = FALSE /\ locked' = LockAfterLoss
    /\ conn' = 0 /\ open' = open \ {conn}
    /\ npc' = "loop"
    /\ UNCHANGED <<dialled, alive, queue, lastTimed>>

StartNetwork ==
    LoopNetwork \/ Dial \/ AssignConn \/ Watch \/ FailedConnect \/ TakeConn
      \/ Scan \/ Process \/ Lost

-----------------------------------------------------------------------------
\* Stop closes the connection it finds.
StopNetwork ==
    /\ connected' = FALSE
    /\ conn' = 0 /\ open' = open \ {conn}
    /\ UNCHANGED <<npc, dialled, locked, alive, queue, lastTimed>>

(* gpsd *)

Send ==
    /\ alive /\ Len(queue) < MaxQueue
    /\ \E m \in Message : queue' = Append(queue, m)
    /\ UNCHANGED <<npc, dialled, conn, connected, locked, open, alive, lastTimed>>

HangUp ==
    /\ alive
    /\ alive' = FALSE
    /\ UNCHANGED <<npc, dialled, conn, connected, locked, open, queue, lastTimed>>

NetworkNext == StartNetwork \/ Send \/ HangUp

-----------------------------------------------------------------------------
NetworkIsLocked == locked /\ connected

\* A client that says it is locked was told of a fix over the connection it has, in
\* the last message with a time: no lock survives a reconnection.  How old that
\* message is, and what messages without a time have said since, is left open.
LockIsOfThisConnection ==
    NetworkIsLocked => lastTimed = [fix |-> TRUE, conn |-> dialled]

\* When gpsd hangs up, the lock is given up: by the reader, or at the latest when
\* the program ends.
LossIsNoticed == ~alive /\ NetworkIsLocked ~> ~NetworkIsLocked \/ cancelled
=============================================================================
