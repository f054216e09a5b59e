------------------------------ MODULE StatusHub ------------------------------
(***************************************************************************)
(* The status hub of the web API (internal/webapi/server.go) and the main  *)
(* goroutine that shuts it down (cmd/server/main.go).                      *)
(*                                                                         *)
(* Every client of /api/ws/status has a handler, which puts the connection *)
(* into the map `clients' and reads until it fails.  Once a second the     *)
(* broadcast writes to all connections in the map.  The map is guarded by  *)
(* clientsMu.  Writes have no deadline: a client that reads nothing blocks *)
(* the writer as soon as its buffers are full.                             *)
(*                                                                         *)
(* The contents of a status message are left out, and so are the services  *)
(* but for the errors they report when they end.                           *)
(***************************************************************************)
EXTENDS FiniteSets, Integers

CONSTANTS
    Client,     \* WebSocket connections; a client that comes back is another one
    Service     \* the other services of the process, which may fail

VARIABLES
    peer,       \* peer[c]: "away", "reading", "stuck" or "gone", the far end
    handler,    \* handler[c]: where handleWebSocketStatus is
    open,       \* connections whose server side is open
    clients,    \* the map of the hub
    lock,       \* clientsMu: "free", or "read" while the broadcast has it
    todo,       \* clients of this round that have not been written to
    dead,       \* deadClients
    broadcast,  \* where broadcastStatusUpdates is
    api,        \* "new", "assigned" (s.server is set), "serving" or "ended"
    errChan,    \* services whose errors wait in errChan
    failed,     \* services that have ended with an error
    main        \* where the main goroutine is

handlers == <<handler, open>>
sender == <<lock, todo, dead, broadcast>>
process == <<api, errChan, failed, main>>
vars == <<peer, handlers, clients, sender, process>>

TypeOK ==
    /\ peer \in [Client -> {"away", "reading", "stuck", "gone"}]
    /\ handler \in [Client -> {"none", "register", "read", "unregister", "close", "done"}]
    /\ open \subseteq Client /\ clients \subseteq Client
    /\ lock \in {"free", "read"} /\ (lock = "read" <=> broadcast = "round")
    /\ todo \subseteq clients /\ dead \subseteq Client
    /\ broadcast \in {"off", "wait", "round", "bury"}
    /\ api \in {"new", "assigned", "serving", "ended"}
    /\ errChan \subseteq failed /\ failed \subseteq Service \cup {"api"}
    /\ main \in {"select", "close", "shutdown", "returned", "panicked"}

Init ==
    /\ peer = [c \in Client |-> "away"]
    /\ handler = [c \in Client |-> "none"]
    /\ open = {} /\ clients = {}
    /\ lock = "free" /\ todo = {} /\ dead = {} /\ broadcast = "off"
    /\ api = "new" /\ errChan = {} /\ failed = {} /\ main = "select"

Running == main \notin {"returned", "panicked"}

-----------------------------------------------------------------------------
(* clientsMu *)

NeverWaits == TRUE

\* Lock waits for the reader; nobody keeps the write lock across a step.
MayLock == lock = "free"

-----------------------------------------------------------------------------
(* handleWebSocketStatus *)

\* A request with a valid token, or in read-only mode, is upgraded; after that the
\* HTTP server no longer knows the connection.
Upgrade(c) ==
    /\ api = "serving" /\ peer[c] = "away"
    /\ peer' = [peer EXCEPT ![c] = "reading"]
    /\ handler' = [handler EXCEPT ![c] = "register"]
    /\ open' = open \cup {c}
    /\ UNCHANGED <<clients, sender, process>>

Register(c) ==
    /\ handler[c] = "register" /\ MayLock
    /\ clients' = clients \cup {c}
    /\ handler' = [handler EXCEPT ![c] = "read"]
    /\ UNCHANGED <<peer, open, sender, process>>

\* ReadMessage fails when either side has closed the connection.
ReadFails(c) ==
    /\ handler[c] = "read" /\ (peer[c] = "gone" \/ c \notin open)
    /\ handler' = [handler EXCEPT ![c] = "unregister"]
    /\ UNCHANGED <<peer, open, clients, sender, process>>

Unregister(c) ==
    /\ handler[c] = "unregister" /\ MayLock
    /\ clients' = clients \ {c}
    /\ handler' = [handler EXCEPT ![c] = "close"]
    /\ UNCHANGED <<peer, open, sender, process>>

CloseConn(c) ==
    /\ handler[c] = "close"
    /\ open' = open \ {c}
    /\ handler' = [handler EXCEPT ![c] = "done"]
    /\ UNCHANGED <<peer, clients, sender, process>>

-----------------------------------------------------------------------------
(* broadcastStatusUpdates *)

\* A tick: nothing without clients; otherwise RLock, for the whole round.
BeginRound ==
    /\ broadcast = "wait" /\ MayLock /\ clients # {}
    /\ lock' = "read" /\ todo' = clients /\ dead' = {} /\ broadcast' = "round"
    /\ UNCHANGED <<peer, handlers, clients, process>>

\* WriteJSON.  A write to a client that has just gone may still succeed; one to a
\* client that is stuck does not return.
Write(c) ==
    /\ broadcast = "round" /\ c \in todo
    /\ \/ c \in open /\ peer[c] \in {"reading", "gone"} /\ UNCHANGED dead
       \/ (c \notin open \/ peer[c] = "gone") /\ dead' = dead \cup {c}
    /\ todo' = todo \ {c}
    /\ UNCHANGED <<peer, handlers, clients, lock, broadcast, process>>

KeptForDead == IF dead = {} THEN "free" ELSE "read"

\* RUnlock follows the loop whatever the writes have returned.
LockAfterRound == "free"

EndRound ==
    /\ broadcast = "round" /\ todo = {}
    /\ lock' = LockAfterRound
    /\ broadcast' = IF dead = {} THEN "wait" ELSE "bury"
    /\ UNCHANGED <<peer, handlers, clients, todo, dead, process>>

\* The dead clients are closed and removed under the write lock.
Bury ==
    /\ broadcast = "bury" /\ MayLock
    /\ open' = open \ dead /\ clients' = clients \ dead
    /\ dead' = {} /\ broadcast' = "wait"
    /\ UNCHANGED <<peer, handler, lock, todo, process>>

Broadcast == Running /\ (BeginRound \/ EndRound \/ Bury \/ \E c \in Client : Write(c))

-----------------------------------------------------------------------------
(* Start and Stop of the web API, and the main goroutine *)

\* Start sets s.server and starts the broadcast ...
Assign ==
    /\ api = "new"
    /\ api' = "assigned" /\ broadcast' = "wait"
    /\ UNCHANGED <<peer, handlers, clients, lock, todo, dead, errChan, failed, main>>

\* ... and ListenAndServe serves, or returns an error: the address is in use, or
\* Shutdown was called before.
Listen ==
    /\ api = "assigned"
    /\ \/ api' = "serving" /\ UNCHANGED <<errChan, failed>>
       \/ api' = "ended" /\ errChan' = errChan \cup {"api"} /\ failed' = failed \cup {"api"}
    /\ UNCHANGED <<peer, handlers, clients, sender, main>>

\* Another service ends with an error, which fits into errChan.
ServiceFails(v) ==
    /\ v \notin failed
    /\ failed' = failed \cup {v} /\ errChan' = errChan \cup {v}
    /\ UNCHANGED <<peer, handlers, clients, sender, api, main>>

\* The select of main: a signal or an error; cancel follows, and apiServer.Stop.
Select ==
    /\ main = "select"
    /\ \/ UNCHANGED errChan
       \/ \E v \in errChan : errChan' = errChan \ {v}
    /\ main' = "close"
    /\ UNCHANGED <<peer, handlers, clients, sender, api, failed>>

\* Stop closes the connections in the map, whatever they are doing.
CloseClients ==
    /\ main = "close" /\ MayLock
    /\ open' = open \ clients
    /\ main' = "shutdown"
    /\ UNCHANGED <<peer, handler, clients, sender, api, errChan, failed>>

NilServer == api = "new"

\* Shutdown of the HTTP server: it returns within five seconds, since upgraded
\* connections are none of its business.  There is no server yet if Start has
\* not run.
Shutdown ==
    /\ main = "shutdown"
    /\ IF NilServer
         THEN main' = "panicked" /\ UNCHANGED <<api, errChan, failed>>
         ELSE /\ main' = "returned" /\ api' = "ended"
              /\ IF api = "ended"
                   THEN UNCHANGED <<errChan, failed>>
                   ELSE /\ errChan' = errChan \cup {"api"}
                        /\ failed' = failed \cup {"api"}
    /\ UNCHANGED <<peer, handlers, clients, sender>>

\* After the select main stops the web API.  The Stop calls that follow, of PTP, NTS,
\* NTP and the receiver, do not block and share nothing with the hub.
Main == CloseClients \/ Shutdown

-----------------------------------------------------------------------------
(* The far ends *)

Far(c) ==
    /\ \/ peer[c] = "reading" /\ peer' = [peer EXCEPT ![c] = "stuck"]
       \/ peer[c] = "stuck" /\ peer' = [peer EXCEPT ![c] = "reading"]
       \/ peer[c] \in {"reading", "stuck"} /\ peer' = [peer EXCEPT ![c] = "gone"]
    /\ UNCHANGED <<handlers, clients, sender, process>>

Next ==
    \/ Running /\ (Assign \/ Listen \/ Select \/ Main \/ \E v \in Service : ServiceFails(v))
    \/ Broadcast
    \/ Running /\ \E c \in Client : Upgrade(c) \/ Register(c) \/ ReadFails(c)
                                     \/ Unregister(c) \/ CloseConn(c) \/ Far(c)

\* Goroutines are scheduled; a Go mutex lets nobody wait for ever who could have it
\* again and again, and a blocked write goes on when its buffer drains.  Clients owe
\* nothing.
Fairness ==
    /\ WF_vars(Assign /\ Running) /\ SF_vars(Main)
    /\ \A c \in Client :
         /\ WF_vars(Running /\ (ReadFails(c) \/ CloseConn(c)))
         /\ SF_vars(Running /\ (Register(c) \/ Unregister(c)))
         /\ SF_vars(Running /\ Write(c))
    /\ WF_vars(Running /\ EndRound) /\ SF_vars(Running /\ (BeginRound \/ Bury))

Spec == Init /\ [][Next]_vars /\ Fairness

-----------------------------------------------------------------------------
\* While the broadcast goes through the map nobody changes it: Go ends a program
\* that does both.
MapIsStable == [][broadcast = "round" => clients' = clients]_vars

\* No client is stuck for ever: what the hub has no deadline for.
NobodyStaysStuck == \A c \in Client : []<>(peer[c] # "stuck")

\* If clients that are stuck recover or go away, then every client that is gone
\* leaves the map and has its connection closed, or the program ends.
GoneAreForgotten ==
    NobodyStaysStuck =>
        \A c \in Client :
            peer[c] = "gone" ~> (c \notin clients /\ c \notin open) \/ ~Running

\* If clients that are stuck recover or go away, a shutdown that has begun ends.
ShutdownEnds ==
    NobodyStaysStuck => (main # "select" ~> ~Running)
=============================================================================
