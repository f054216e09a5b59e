----------------------------- MODULE LogStream -----------------------------
(***************************************************************************)
(* The log buffer with its readers: the web API's WebSocket handlers of    *)
(* /api/ws/logs (internal/webapi/server.go), each with a loop of its own   *)
(* that looks at the latest entries twice a second.                        *)
(***************************************************************************)
EXTENDS LogBuffer, Functions

CONSTANTS
    Client,         \* WebSocket clients
    StreamLimit,    \* 50: entries a stream looks at
    MaxEntries      \* bound: entries logged

ASSUME LimitAssumption == StreamLimit \in Nat /\ MaxEntries \in Nat

VARIABLES
    conn,       \* conn[c]: "new", "open" or "closed"
    lastSent,   \* lastSent[c]: the number of entries of the last message
    delivered   \* history: delivered[c], the entries c was sent

vars == <<bvars, conn, lastSent, delivered>>
stream == <<conn, lastSent, delivered>>

Init ==
    /\ InitBuffer
    /\ conn = [c \in Client |-> "new"]
    /\ lastSent = [c \in Client |-> 0]
    /\ delivered = [c \in Client |-> {}]

Log == added < MaxEntries /\ Add /\ UNCHANGED stream

\* handleWebSocketLogs up to its loop.
Connect(c) ==
    /\ conn[c] = "new"
    /\ conn' = [conn EXCEPT ![c] = "open"]
    /\ UNCHANGED <<bvars, lastSent, delivered>>

Recent == GetRecent(StreamLimit)

\* The stream's test for news.
HasNews(c) == Len(Recent) # lastSent[c]

\* One tick of a stream: the latest entries are written, or the write fails and
\* the handler closes the connection.
Tick(c) ==
    /\ conn[c] = "open"
    /\ HasNews(c)
    /\ \/ /\ delivered' = [delivered EXCEPT ![c] = @ \cup Range(Recent)]
          /\ lastSent' = [lastSent EXCEPT ![c] = Len(Recent)]
          /\ UNCHANGED conn
       \/ /\ conn' = [conn EXCEPT ![c] = "closed"]
          /\ UNCHANGED <<lastSent, delivered>>
    /\ UNCHANGED bvars

Next == Log \/ \E c \in Client : Connect(c) \/ Tick(c)

\* Each stream's ticker keeps firing.
Spec == Init /\ [][Next]_vars /\ \A c \in Client : WF_vars(Tick(c))

-----------------------------------------------------------------------------
\* The buffer implements the abstract log of the latest entries.
Abstract == INSTANCE RecentLog WITH recent <- GetRecent(count)
ImplementsRecentLog == Abstract!Spec

\* "Real-time log streaming": an open stream catches up with the log again and
\* again.
StreamKeepsUp ==
    \A c \in Client : []<>(conn[c] = "open" => added = 0 \/ added \in delivered[c])
=============================================================================
