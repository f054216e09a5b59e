--------------------------- MODULE StatusHubProofs ---------------------------
(***************************************************************************)
(* The map of status clients is never changed while the broadcast goes     *)
(* through it, for any number of clients and services.                     *)
(***************************************************************************)
EXTENDS StatusHub, TLAPS

\* Between two rounds nothing is left to write to: what is still to be written to
\* is in the map because the map does not change in a round.
HubInv ==
    /\ TypeOK
    /\ broadcast # "round" => todo = {}
    /\ api = "new" => broadcast = "off"

LEMMA HubInit == Init => HubInv
BY DEF Init, HubInv, TypeOK

\* The handlers change the map only under the write lock.
LEMMA HandlerSteps ==
    ASSUME HubInv, NEW c \in Client,
           Upgrade(c) \/ Register(c) \/ ReadFails(c) \/ Unregister(c) \/ CloseConn(c) \/ Far(c)
    PROVE  HubInv' /\ (broadcast = "round" => clients' = clients)
<1> USE DEF HubInv, TypeOK, handlers, sender, process
<1>1. CASE Upgrade(c)
  BY <1>1 DEF Upgrade
<1>2. CASE Register(c)
  BY <1>2 DEF Register, MayLock
<1>3. CASE ReadFails(c)
  BY <1>3 DEF ReadFails
<1>4. CASE Unregister(c)
  BY <1>4 DEF Unregister, MayLock
<1>5. CASE CloseConn(c)
  BY <1>5 DEF CloseConn
<1>6. CASE Far(c)
  BY <1>6 DEF Far
<1> QED BY <1>1, <1>2, <1>3, <1>4, <1>5, <1>6

\* The broadcast changes it only after its round.
LEMMA BroadcastSteps ==
    ASSUME HubInv, Broadcast
    PROVE  HubInv' /\ (broadcast = "round" => clients' = clients)
<1> USE DEF HubInv, TypeOK, handlers, process
<1>1. CASE BeginRound
  BY <1>1 DEF BeginRound, MayLock
<1>2. CASE EndRound
  BY <1>2 DEF EndRound, LockAfterRound
<1>3. CASE Bury
  BY <1>3 DEF Bury, MayLock
<1>4. ASSUME NEW c \in Client, Write(c)
      PROVE  HubInv' /\ (broadcast = "round" => clients' = clients)
  BY <1>4 DEF Write
<1> QED BY <1>1, <1>2, <1>3, <1>4 DEF Broadcast

\* Start, Stop and the main goroutine leave it alone.
LEMMA ProcessSteps ==
    ASSUME HubInv,
           Assign \/ Listen \/ Select \/ Main \/ \E v \in Service : ServiceFails(v)
    PROVE  HubInv' /\ (broadcast = "round" => clients' = clients)
<1> USE DEF HubInv, TypeOK, handlers, sender
<1>1. CASE Assign
  BY <1>1 DEF Assign
<1>2. CASE Listen
  BY <1>2 DEF Listen
<1>3. CASE Select
  BY <1>3 DEF Select
<1>4. CASE CloseClients
  BY <1>4 DEF CloseClients
<1>5. CASE Shutdown
  BY <1>5 DEF Shutdown
<1>6. ASSUME NEW v \in Service, ServiceFails(v)
      PROVE  HubInv' /\ (broadcast = "round" => clients' = clients)
  BY <1>6 DEF ServiceFails
<1> QED BY <1>1, <1>2, <1>3, <1>4, <1>5, <1>6 DEF Main

LEMMA HubStep ==
    ASSUME HubInv, [Next]_vars
    PROVE  HubInv' /\ (broadcast = "round" => clients' = clients)
<1>1. CASE Next
  BY <1>1, HandlerSteps, BroadcastSteps, ProcessSteps DEF Next
<1>2. CASE UNCHANGED vars
  BY <1>2 DEF vars, handlers, sender, process, HubInv, TypeOK
<1> QED BY <1>1, <1>2

\* Every variable of the hub and of the main goroutine keeps its type, and the
\* read lock is held exactly during a round of the broadcast.
THEOREM HubTypeCorrect == Spec => []TypeOK
<1>1. HubInv => TypeOK
  BY DEF HubInv
<1> QED BY HubInit, HubStep, <1>1, PTL DEF Spec

\* While the broadcast goes through the map nobody changes it.
THEOREM MapStaysStable == Spec => MapIsStable
<1>1. HubInv /\ [Next]_vars => [broadcast = "round" => clients' = clients]_vars
  BY HubStep
<1> QED BY HubInit, HubStep, <1>1, PTL DEF Spec, MapIsStable
=============================================================================
