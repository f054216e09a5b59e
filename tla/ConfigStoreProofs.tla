-------------------------- MODULE ConfigStoreProofs --------------------------
(***************************************************************************)
(* For any number of clients, requests and crashes: the file is a whole    *)
(* configuration whenever the machine stops, an acknowledged change is in  *)
(* it, memory and file agree when no request is under way, and no request  *)
(* gets a value out of range into it.  Requests on the list of peers that  *)
(* do not meet leave the list they promise.                                *)
(***************************************************************************)
EXTENDS ConfigStore, PeerList, SequenceTheorems, TLAPS

Places == {"idle", "edit", "assign", "save", "reply"} \cup SavePC

Whole(f) ==
    f = [val |-> f.val, ver |-> f.ver, state |-> "synced"]

\* The file and all that power loss may bring back were synced before they were
\* renamed; what is about to be renamed is synced already.
FileInv ==
    /\ Whole(file)
    /\ \A f \in older : Whole(f)
    /\ pc \in [Client -> Places]
    /\ temp \in [Client -> {None, "empty", "written", "synced"}]
    /\ \A c \in Client : pc[c] \in {"chmod", "rename"} => temp[c] = "synced"

LEMMA FileInit == Init => FileInv
BY DEF Init, FileInv, Whole, Places, Idle

\* A step that moves one handler to a place before or after its save, and leaves
\* the files alone.
LEMMA Moves ==
    ASSUME FileInv, UNCHANGED <<disk, temp>>, NEW c \in Client,
           NEW l \in Places \ {"chmod", "rename"},
           pc' = pc \/ pc' = [pc EXCEPT ![c] = l]
    PROVE  FileInv'
BY DEF FileInv, disk, Whole

LEMMA RequestSteps ==
    ASSUME FileInv, NEW c \in Client, Receive(c) \/ Edit(c) \/ Lock(c)
    PROVE  FileInv'
<1> USE DEF Goto, Places, EndFailed, saving
<1>1. CASE Receive(c)
  BY <1>1, Moves DEF Receive
<1>2. CASE RefuseField(c)
  BY <1>2, Moves DEF RefuseField
<1>3. CASE WriteField(c)
  BY <1>3, Moves DEF WriteField, Wrote
<1>4. CASE FieldsDone(c)
  BY <1>4, Moves DEF FieldsDone
<1>5. CASE PeersFail(c)
  BY <1>5, Moves DEF PeersFail
<1>6. CASE StorePeers(c)
  BY <1>6, Moves DEF StorePeers, Wrote
<1>7. CASE PeersDone(c)
  BY <1>7, Moves DEF PeersDone
<1>10. CASE BeginReload(c)
  BY <1>10, Moves DEF BeginReload
<1>11. CASE EndReload(c)
  BY <1>11, Moves DEF EndReload
<1>12. CASE Lock(c)
  BY <1>12, Moves DEF Lock, SavePC
<1> QED BY <1>1, <1>2, <1>3, <1>4, <1>5, <1>6, <1>7, <1>10, <1>11, <1>12 DEF Edit

\* saveConfig syncs before it renames, and removes its temporary file when it fails.
LEMMA SaveSteps ==
    ASSUME FileInv, NEW c \in Client, Save(c) \/ SaveFails(c)
    PROVE  FileInv'
<1> USE DEF FileInv, Goto, Places, SavePC, disk, SaveStep
<1>1. CASE CreateTemp(c)
  BY <1>1 DEF CreateTemp, Whole
<1>2. CASE BeginMarshal(c)
  BY <1>2 DEF BeginMarshal, Whole
<1>3. CASE WriteTemp(c)
  BY <1>3 DEF WriteTemp, Whole
<1>4. CASE SyncTemp(c)
  BY <1>4 DEF SyncTemp, SyncedTemp, Whole
<1>5. CASE Chmod(c)
  BY <1>5 DEF Chmod, Whole
<1>6. CASE Rename(c)
  <2>1. Whole(file')
    BY <1>6 DEF Rename, Whole
  <2>2. older' = older \cup {file}
    BY <1>6 DEF Rename
  <2>3. \A f \in older' : Whole(f)
    BY <2>2
  <2>4. /\ pc' \in [Client -> Places] /\ temp' \in [Client -> {None, "empty", "written", "synced"}]
        /\ \A d \in Client : pc'[d] \in {"chmod", "rename"} => temp'[d] = "synced"
    BY <1>6 DEF Rename
  <2> QED BY <2>1, <2>3, <2>4 DEF Whole
<1>7. CASE Reply(c)
  BY <1>7 DEF Reply, saving, Whole
<1>8. CASE SaveFails(c)
  BY <1>8 DEF SaveFails, EndFailed, Whole
<1> QED BY <1>1, <1>2, <1>3, <1>4, <1>5, <1>6, <1>7, <1>8 DEF Save

\* A crash leaves the file alone; power loss brings back an older one or keeps it.
LEMMA CrashSteps ==
    ASSUME FileInv, Crash \/ PowerLoss \/ Start
    PROVE  FileInv'
<1>1. CASE Crash
  BY <1>1 DEF Crash, Down, Idle, FileInv, Whole, disk, Places
<1>2. CASE PowerLoss
  <2>1. PICK f \in older \cup {file} :
          file' = [f EXCEPT !.state = IF @ = "synced" THEN @ ELSE "torn"]
    BY <1>2 DEF PowerLoss
  <2>2. Whole(f)
    BY DEF FileInv
  <2>3. Whole(file')
    BY <2>1, <2>2 DEF Whole
  <2>4. /\ older' = {} /\ pc' = [c \in Client |-> "idle"] /\ temp' = [c \in Client |-> None]
    BY <1>2 DEF PowerLoss, Down, Idle
  <2> QED BY <2>3, <2>4 DEF FileInv, Whole, Places
<1>3. CASE Start
  BY <1>3 DEF Start, disk, saving, handler, FileInv, Whole
<1> QED BY <1>1, <1>2, <1>3

LEMMA FileStep == FileInv /\ [Next]_vars => FileInv'
<1> SUFFICES ASSUME FileInv, [Next]_vars PROVE FileInv'
  OBVIOUS
<1>1. CASE Next
  BY <1>1, RequestSteps, SaveSteps, CrashSteps DEF Next
<1>2. CASE UNCHANGED vars
  BY <1>2 DEF vars, disk, saving, handler, FileInv, Whole
<1> QED BY <1>1, <1>2

\* Whenever the machine stops, the file is a whole configuration.
THEOREM FileIsWhole == Spec => []FileWhole
<1>1. FileInv => FileWhole
  BY DEF FileInv, FileWhole, Whole
<1> QED BY FileInit, FileStep, <1>1, PTL DEF Spec
-----------------------------------------------------------------------------
(* Where the handlers are. *)

\* Places of a request that is not over and has not been marshalled.
Before == {"edit", "assign", "save", "create", "marshal"}

\* At most one handler saves; a handler that has a request knows it.
ControlInv ==
    /\ up \in BOOLEAN
    /\ pc \in [Client -> Places]
    /\ savers \subseteq Client
    /\ \A c \in Client : pc[c] \in SavePC <=> c \in savers
    /\ \A c, d \in savers : c = d
    /\ DOMAIN req = Client
    /\ \A c \in Client : pc[c] \in {"edit", "assign"} => req[c] \in Requests
    /\ at \in [Client -> Nat \ {0}]
    /\ ~up => \A c \in Client : pc[c] = "idle"
    /\ requests \in 0 .. MaxRequests /\ crashes \in 0 .. MaxCrashes

LEMMA ControlInit == Init => ControlInv
BY ConfigBoundAssumption DEF Init, ControlInv, Idle, Places, SavePC

\* A step of one handler that neither takes nor releases the mutex.
LEMMA ControlMoves ==
    ASSUME ControlInv, NEW c \in Client, up \/ pc[c] # "idle", UNCHANGED <<up, savers, crashes>>,
           requests' \in 0 .. MaxRequests,
           NEW l \in Places, pc' = [pc EXCEPT ![c] = l],
           l \in SavePC <=> pc[c] \in SavePC,
           DOMAIN req' = Client,
           \A d \in Client \ {c} : req'[d] = req[d],
           l \in {"edit", "assign"} => req'[c] \in Requests,
           at' \in [Client -> Nat \ {0}]
    PROVE  ControlInv'
BY DEF ControlInv

LEMMA ControlRequests ==
    ASSUME ControlInv, NEW c \in Client, Receive(c) \/ Edit(c)
    PROVE  ControlInv'
<1> USE DEF Goto, Places, EndFailed, saving, SavePC, bounds, ControlInv
<1>1. CASE Receive(c)
  <2>1. PICK r \in Requests : req' = [req EXCEPT ![c] = r]
    BY <1>1 DEF Receive
  <2>2. requests' \in 0 .. MaxRequests
    BY <1>1, ConfigBoundAssumption DEF Receive
  <2>3. /\ up /\ pc[c] = "idle" /\ pc' = [pc EXCEPT ![c] = "edit"] /\ UNCHANGED <<up, savers, crashes>>
        /\ at' \in [Client -> Nat \ {0}]
    BY <1>1 DEF Receive
  <2>4. /\ DOMAIN req' = Client /\ \A d \in Client \ {c} : req'[d] = req[d]
        /\ req'[c] \in Requests
    BY <2>1
  <2> HIDE DEF ControlInv
  <2> QED BY <2>2, <2>3, <2>4, ControlMoves
<1>2. CASE RefuseField(c)
  BY <1>2, ControlMoves DEF RefuseField
<1>3. CASE WriteField(c)
  <2>1. PICK i \in Asked(c) : at' = [at EXCEPT ![c] = i + 1]
    BY <1>3 DEF WriteField
  <2>2. i \in Nat
    BY DEF Asked
  <2>3. at' \in [Client -> Nat \ {0}]
    BY <2>1, <2>2
  <2>4. UNCHANGED <<up, pc, savers, req, requests, crashes>>
    BY <1>3 DEF WriteField, Wrote
  <2> QED BY <2>3, <2>4
<1>4. CASE FieldsDone(c)
  BY <1>4, ControlMoves DEF FieldsDone
<1>5. CASE PeersFail(c)
  BY <1>5, ControlMoves DEF PeersFail
<1>6. CASE StorePeers(c)
  <2>1. UNCHANGED <<up, pc, savers, req, requests, crashes>>
    BY <1>6 DEF StorePeers, Wrote
  <2>2. at' \in [Client -> Nat \ {0}]
    BY <1>6 DEF StorePeers
  <2> QED BY <2>1, <2>2
<1>7. CASE PeersDone(c)
  BY <1>7, ControlMoves DEF PeersDone
<1>10. CASE BeginReload(c)
  BY <1>10, ControlMoves DEF BeginReload
<1>11. CASE EndReload(c)
  BY <1>11, ControlMoves DEF EndReload
<1> QED BY <1>1, <1>2, <1>3, <1>4, <1>5, <1>6, <1>7, <1>10, <1>11 DEF Edit

LEMMA ControlSaves ==
    ASSUME ControlInv, NEW c \in Client, Lock(c) \/ Save(c) \/ SaveFails(c)
    PROVE  ControlInv'
<1> USE DEF Goto, Places, EndFailed, saving, SavePC, bounds, ControlInv
<1>1. CASE Lock(c)
  BY <1>1 DEF Lock, MayLock
<1>2. CASE CreateTemp(c) \/ BeginMarshal(c) \/ WriteTemp(c) \/ SyncTemp(c) \/ Chmod(c)
  BY <1>2, ControlMoves DEF CreateTemp, BeginMarshal, WriteTemp, SyncTemp, Chmod, SaveStep
<1>3. CASE Rename(c)
  BY <1>3 DEF Rename
<1>4. CASE Reply(c)
  BY <1>4, ControlMoves DEF Reply
<1>5. CASE SaveFails(c)
  BY <1>5 DEF SaveFails, MutexAfterFailure
<1> QED BY <1>1, <1>2, <1>3, <1>4, <1>5 DEF Save

LEMMA ControlStep == ControlInv /\ [Next]_vars => ControlInv'
<1> SUFFICES ASSUME ControlInv, [Next]_vars PROVE ControlInv'
  OBVIOUS
<1>1. CASE \E c \in Client : Receive(c) \/ Edit(c) \/ Lock(c) \/ Save(c) \/ SaveFails(c)
  BY <1>1, ControlRequests, ControlSaves
<1>2. CASE Crash \/ PowerLoss
  <2>1. Down
    BY <1>2 DEF Crash, PowerLoss
  <2>2. /\ up' = FALSE /\ savers' = {} /\ UNCHANGED <<at, requests>>
        /\ DOMAIN req' = Client /\ DOMAIN data' = Client
        /\ pc' \in [Client -> Places] /\ \A c \in Client : pc'[c] = "idle"
    BY <2>1 DEF Down, Idle, Places
  <2>3. crashes' \in 0 .. MaxCrashes
    BY <2>1, ConfigBoundAssumption DEF Down, ControlInv
  <2> QED BY <2>2, <2>3 DEF ControlInv, SavePC, Marshalled
<1>3. CASE Start
  BY <1>3 DEF Start, saving, handler, bounds, ControlInv
<1>4. CASE UNCHANGED vars
  BY <1>4 DEF vars, saving, handler, bounds, ControlInv
<1> QED BY <1>1, <1>2, <1>3, <1>4 DEF Next
-----------------------------------------------------------------------------
(* The kinds of steps, told apart by what they do to the writes of the     *)
(* fields: the histories, the file and the serialised data.                *)

\* What a handler has serialised.
IsSnapshot(x) == x = [val |-> x.val, ver |-> x.ver]

Snapshots == DOMAIN data = Client /\ \A c \in Client : pc[c] \in Marshalled => IsSnapshot(data[c])

\* A handler goes on: it begins, or stays before its save, or stays within it.
Moved(c) ==
    /\ \E l \in Places :
         /\ pc' = [pc EXCEPT ![c] = l]
         /\ \/ pc[c] = "idle" /\ l \in Before /\ mine' = [mine EXCEPT ![c] = {}]
            \/ pc[c] \in Before /\ l \in Before /\ UNCHANGED mine
            \/ pc[c] \in Marshalled /\ l \in Marshalled /\ UNCHANGED mine
    /\ UNCHANGED <<ver, written, disk, data, history>>

\* A request ends without success.
Failed(c) ==
    /\ pc[c] \in Before \cup Marshalled /\ pc' = [pc EXCEPT ![c] = "idle"]
    /\ apart' = apart \cup {w[1] : w \in mine[c]}
    /\ data' = data \/ data' = [data EXCEPT ![c] = None]
    /\ UNCHANGED <<ver, written, disk, mine, acked, undone>>

\* Values v, with field k read again.
Patched(v, k) == [f \in Field |-> IF f = k THEN mem'[f] ELSE v[f]]

\* A field is written; data that is being serialised may get the write or not.
WrotePart(c, k) ==
    /\ pc[c] \in Before /\ pc' = pc
    /\ written' = [written EXCEPT ![k] = @ + 1]
    /\ ver' = [ver EXCEPT ![k] = written'[k]]
    /\ mine' = [mine EXCEPT ![c] = @ \cup {<<k, written'[k]>>}]
    /\ DOMAIN data' = Client
    /\ \A d \in Client : pc[d] \in Marshalled =>
         /\ IsSnapshot(data'[d])
         /\ data'[d].ver \in {data[d].ver, [data[d].ver EXCEPT ![k] = written'[k]]}
         /\ data'[d].val \in {data[d].val, Patched(data[d].val, k)}
    /\ UNCHANGED <<disk, history>>

WroteSome(c) == \E k \in Key : WrotePart(c, k)

LEMMA WroteStep ==
    ASSUME Snapshots, NEW c \in Client, pc[c] \in Before, NEW k, Wrote(c, k), pc' = pc,
           UNCHANGED disk
    PROVE  WrotePart(c, k)
<1>1. PICK reread \in SUBSET {d \in savers : pc[d] = "write"} :
         data' = [d \in Client |->
                    IF d \in reread
                      THEN [val |-> Patched(data[d].val, k),
                            ver |-> [data[d].ver EXCEPT ![k] = written'[k]]]
                      ELSE data[d]]
  BY DEF Wrote, Patched
<1>2. ASSUME NEW d \in Client, pc[d] \in Marshalled
      PROVE  /\ IsSnapshot(data'[d])
             /\ data'[d].ver \in {data[d].ver, [data[d].ver EXCEPT ![k] = written'[k]]}
             /\ data'[d].val \in {data[d].val, Patched(data[d].val, k)}
  <2>1. IsSnapshot(data[d])
    BY <1>2 DEF Snapshots
  <2>2. CASE d \in reread
    <3>1. data'[d] = [val |-> Patched(data[d].val, k),
                      ver |-> [data[d].ver EXCEPT ![k] = written'[k]]]
      BY <1>1, <2>2
    <3> QED BY <3>1 DEF IsSnapshot
  <2>3. CASE d \notin reread
    BY <1>1, <2>1, <2>3
  <2> QED BY <2>2, <2>3
<1>3. DOMAIN data' = Client
  BY <1>1
<1> QED BY <1>2, <1>3 DEF Wrote, WrotePart, disk

\* The fields that the handlers look at.
LEMMA SectionFields ==
    ASSUME NEW s \in Sections, NEW i \in 1 .. Len(s.fields)
    PROVE  s.fields[i] \in Field \ WebFields /\ s.fields[i] \in Key \ {PeersKey}
<1>1. DOMAIN s.fields = 1 .. Len(s.fields)
  <2>1. CASE s = NTPSection
    BY <2>1 DEF NTPSection
  <2>2. CASE s = NTSSection
    BY <2>2 DEF NTSSection
  <2>3. CASE s = PTPSection
    BY <2>3 DEF PTPSection
  <2>4. CASE s = GPSDOSection
    BY <2>4 DEF GPSDOSection
  <2> QED BY <2>1, <2>2, <2>3, <2>4 DEF Sections
<1>2. s.fields[i] \in Field
  BY <1>1 DEF Field
<1>3. s.fields[i] \notin WebFields \cup {PeersKey}
  <2>1. CASE s = NTPSection
    BY <2>1 DEF NTPSection, WebFields, PeersKey
  <2>2. CASE s = NTSSection
    BY <2>2 DEF NTSSection, WebFields, PeersKey
  <2>3. CASE s = PTPSection
    BY <2>3 DEF PTPSection, WebFields, PeersKey
  <2>4. CASE s = GPSDOSection
    BY <2>4 DEF GPSDOSection, WebFields, PeersKey
  <2> QED BY <2>1, <2>2, <2>3, <2>4 DEF Sections
<1> QED BY <1>2, <1>3 DEF Key

\* Every step of a request.
LEMMA RequestKinds ==
    ASSUME ControlInv, Snapshots, NEW c \in Client,
           Receive(c) \/ Edit(c) \/ Lock(c) \/ Save(c) \/ SaveFails(c)
    PROVE  /\ UNCHANGED up
           /\ \/ Moved(c) \/ Failed(c) \/ WroteSome(c)
              \/ EndReload(c) \/ BeginMarshal(c) \/ Rename(c) \/ Reply(c)
<1>0. pc \in [Client -> Places] /\ DOMAIN data = Client
  BY DEF ControlInv, Snapshots
<1> USE DEF Goto, Places, saving, SavePC, memory, Before, Marshalled
<1>1. CASE Receive(c)
  BY <1>0, <1>1 DEF Receive, Moved
<1>2. CASE RefuseField(c)
  BY <1>0, <1>2 DEF RefuseField, EndFailed, Failed
<1>3. CASE WriteField(c)
  <2>1. PICK i \in Asked(c) : Wrote(c, req[c].section.fields[i])
    BY <1>3 DEF WriteField
  <2>2. req[c].kind = "section" /\ req[c] \in Requests /\ at[c] \in Nat \ {0}
    BY <1>3 DEF WriteField, ControlInv
  <2>3. req[c].section \in Sections
    BY <2>2, RequestsAssumption DEF IsRequest
  <2>4. Len(req[c].section.fields) \in Nat
    BY <2>3 DEF Sections, NTPSection, NTSSection, PTPSection, GPSDOSection
  <2>5. i \in 1 .. Len(req[c].section.fields)
    BY <2>2, <2>4 DEF Asked
  <2>6. req[c].section.fields[i] \in Key \ {PeersKey}
    BY <2>3, <2>5, SectionFields
  <2> QED BY <1>0, <1>3, <2>1, <2>6, WroteStep DEF WriteField, WroteSome
<1>4. CASE FieldsDone(c)
  BY <1>0, <1>4 DEF FieldsDone, Moved
<1>5. CASE PeersFail(c)
  BY <1>0, <1>5 DEF PeersFail, EndFailed, Failed
<1>6. CASE StorePeers(c)
  <2>1. WrotePart(c, PeersKey)
    BY <1>6, WroteStep DEF StorePeers
  <2> QED BY <1>6, <2>1 DEF StorePeers, WroteSome, Key, PeersKey
<1>7. CASE PeersDone(c)
  BY <1>0, <1>7 DEF PeersDone, Moved
<1>10. CASE BeginReload(c)
  BY <1>0, <1>10 DEF BeginReload, EndFailed, Failed, Moved
<1>11. CASE EndReload(c)
  BY <1>11 DEF EndReload
<1>12. CASE Lock(c)
  BY <1>0, <1>12 DEF Lock, Moved
<1>13. CASE CreateTemp(c) \/ WriteTemp(c) \/ SyncTemp(c) \/ Chmod(c)
  BY <1>0, <1>13 DEF CreateTemp, WriteTemp, SyncTemp, Chmod, SaveStep, Moved
<1>14. CASE BeginMarshal(c)
  BY <1>14 DEF BeginMarshal, SaveStep
<1>15. CASE Rename(c)
  BY <1>15 DEF Rename
<1>16. CASE Reply(c)
  BY <1>16 DEF Reply
<1>17. CASE SaveFails(c)
  BY <1>0, <1>17 DEF SaveFails, EndFailed, Failed
<1> QED BY <1>1, <1>2, <1>3, <1>4, <1>5, <1>6, <1>7, <1>10, <1>11, <1>12, <1>13, <1>14, <1>15,
           <1>16, <1>17 DEF Edit, Save

\* A step as a whole.
LEMMA StepKinds ==
    ASSUME ControlInv, Snapshots, [Next]_vars
    PROVE  \/ /\ UNCHANGED up
              /\ \E c \in Client : \/ Moved(c) \/ Failed(c) \/ WroteSome(c)
                                   \/ EndReload(c) \/ BeginMarshal(c) \/ Rename(c) \/ Reply(c)
           \/ Crash \/ PowerLoss \/ Start \/ UNCHANGED vars
BY RequestKinds DEF Next

LEMMA SnapshotsInit == Init => Snapshots
BY DEF Init, Snapshots, Idle, Marshalled

LEMMA SnapshotsStep ==
    ASSUME ControlInv, Snapshots, [Next]_vars
    PROVE  Snapshots'
<1>0. pc \in [Client -> Places] /\ DOMAIN data = Client
  BY DEF ControlInv, Snapshots
<1>1. ASSUME NEW c \in Client, Moved(c) \/ Failed(c) \/ WroteSome(c)
      PROVE  Snapshots'
  <2>1. CASE Moved(c)
    BY <1>0, <2>1 DEF Moved, Snapshots, Marshalled, Before
  <2>2. CASE Failed(c)
    BY <1>0, <2>2 DEF Failed, Snapshots, Marshalled
  <2>3. CASE WroteSome(c)
    BY <1>0, <2>3 DEF WroteSome, WrotePart, Snapshots, Marshalled
  <2> QED BY <1>1, <2>1, <2>2, <2>3
<1>2. ASSUME NEW c \in Client, EndReload(c) \/ BeginMarshal(c) \/ Rename(c) \/ Reply(c)
      PROVE  Snapshots'
  <2>1. CASE EndReload(c)
    BY <1>0, <2>1 DEF EndReload, saving, Goto, Snapshots, Marshalled
  <2>2. CASE BeginMarshal(c)
    BY <1>0, <2>2 DEF BeginMarshal, SaveStep, Goto, Snapshots, Snapshot, IsSnapshot, Marshalled
  <2>3. CASE Rename(c)
    BY <1>0, <2>3 DEF Rename, Goto, Snapshots, Marshalled
  <2>4. CASE Reply(c)
    BY <1>0, <2>4 DEF Reply, saving, Goto, Snapshots, Marshalled
  <2> QED BY <1>2, <2>1, <2>2, <2>3, <2>4
<1>3. CASE Crash \/ PowerLoss
  BY <1>3 DEF Crash, PowerLoss, Down, Idle, Snapshots, Marshalled
<1>4. CASE Start \/ UNCHANGED vars
  BY <1>4 DEF Start, vars, saving, handler, Snapshots
<1> QED BY <1>1, <1>2, <1>3, <1>4, StepKinds

\* Where the file that a reload assigns comes from.
LEMMA SeenStep ==
    ASSUME ControlInv, DOMAIN seen = Client, [Next]_vars
    PROVE  /\ DOMAIN seen' = Client
           /\ \A d \in Client : pc'[d] = "assign" =>
                \/ pc[d] = "assign" /\ seen'[d] = seen[d]
                \/ seen'[d] = file /\ UNCHANGED disk
<1>0. pc \in [Client -> Places]
  BY DEF ControlInv
<1> USE DEF Goto, SavePC
<1>1. ASSUME NEW c \in Client, Receive(c) \/ Edit(c)
      PROVE  /\ DOMAIN seen' = Client
             /\ \A d \in Client : pc'[d] = "assign" =>
                  \/ pc[d] = "assign" /\ seen'[d] = seen[d]
                  \/ seen'[d] = file /\ UNCHANGED disk
  <2>1. CASE Receive(c) \/ FieldsDone(c)
    BY <1>0, <2>1 DEF Receive, FieldsDone
  <2>2. CASE RefuseField(c)
    BY <1>0, <2>2 DEF RefuseField, EndFailed
  <2>3. CASE WriteField(c)
    BY <1>0, <2>3 DEF WriteField, Wrote
  <2>4. CASE PeersFail(c)
    BY <1>0, <2>4 DEF PeersFail, EndFailed
  <2>5. CASE StorePeers(c)
    BY <1>0, <2>5 DEF StorePeers, Wrote
  <2>6. CASE PeersDone(c)
    BY <1>0, <2>6 DEF PeersDone
  <2>8. CASE BeginReload(c)
    BY <1>0, <2>8 DEF BeginReload, EndFailed
  <2>9. CASE EndReload(c)
    BY <1>0, <2>9 DEF EndReload
  <2> QED BY <1>1, <2>1, <2>2, <2>3, <2>4, <2>5, <2>6, <2>8, <2>9 DEF Edit
<1>2. ASSUME NEW c \in Client, Lock(c) \/ Save(c) \/ SaveFails(c)
      PROVE  /\ DOMAIN seen' = Client
             /\ \A d \in Client : pc'[d] = "assign" => pc[d] = "assign" /\ seen'[d] = seen[d]
  <2>1. CASE Lock(c) \/ Rename(c) \/ Reply(c)
    BY <1>0, <2>1 DEF Lock, Rename, Reply
  <2>2. CASE CreateTemp(c) \/ BeginMarshal(c) \/ WriteTemp(c) \/ SyncTemp(c) \/ Chmod(c)
    BY <1>0, <2>2 DEF CreateTemp, BeginMarshal, WriteTemp, SyncTemp, Chmod, SaveStep
  <2>3. CASE SaveFails(c)
    BY <1>0, <2>3 DEF SaveFails, EndFailed
  <2> QED BY <1>2, <2>1, <2>2, <2>3 DEF Save
<1>3. CASE Crash \/ PowerLoss
  BY <1>3 DEF Crash, PowerLoss, Down, Idle
<1>4. CASE Start \/ UNCHANGED vars
  BY <1>4 DEF Start, vars, handler
<1> QED BY <1>1, <1>2, <1>3, <1>4 DEF Next
-----------------------------------------------------------------------------
(* The numbers of the writes. *)

\* The fields of a configuration carry the numbers of writes that were made.
Numbered(v, all) == v \in [Key -> Nat] /\ \A k \in Key : v[k] <= all[k]

Made(w, all) == w \in Write /\ w[2] <= all[w[1]]

NumberInv ==
    /\ DOMAIN seen = Client
    /\ Numbered(ver, written) /\ Numbered(file.ver, written) /\ \A f \in older : Numbered(f.ver, written)
    /\ written \in [Key -> Nat]
    /\ \A c \in Client : pc[c] \in Marshalled => Numbered(data[c].ver, written)
    /\ \A c \in Client : pc[c] = "assign" => Numbered(seen[c].ver, written)
    /\ mine \in [Client -> SUBSET Write]
    /\ \A c \in Client : \A w \in mine[c] : Made(w, written)
    /\ \A w \in acked : Made(w, written)
    /\ undone \subseteq Write /\ apart \subseteq Key
    /\ ~up => \A c \in Client : mine[c] = {}

LEMMA NumberInit == Init => NumberInv
BY DEF Init, NumberInv, Numbered, Idle, Marshalled

\* A write takes the next number of its field.
LEMMA NumberWrote ==
    ASSUME ControlInv, Snapshots, NumberInv, NEW c \in Client, WroteSome(c), UNCHANGED up,
           DOMAIN seen' = Client,
           \A d \in Client : pc'[d] = "assign" =>
                \/ pc[d] = "assign" /\ seen'[d] = seen[d]
                \/ seen'[d] = file /\ UNCHANGED disk
    PROVE  NumberInv'
<1>1. PICK k \in Key : WrotePart(c, k)
  BY DEF WroteSome
<1>2. /\ written' = [written EXCEPT ![k] = @ + 1]
      /\ ver' = [ver EXCEPT ![k] = written'[k]]
      /\ mine' = [mine EXCEPT ![c] = @ \cup {<<k, written'[k]>>}]
      /\ pc[c] \in Before
      /\ pc' = pc
      /\ UNCHANGED <<file, older, acked, undone, apart>>
  BY <1>1 DEF WrotePart, disk, history
<1>3. /\ written \in [Key -> Nat] /\ mine \in [Client -> SUBSET Write] /\ pc \in [Client -> Places]
  BY DEF NumberInv, ControlInv
<1>4. /\ written' \in [Key -> Nat] /\ written'[k] = written[k] + 1
      /\ \A j \in Key : written[j] <= written'[j]
  BY <1>2, <1>3
<1>5. ASSUME NEW v, Numbered(v, written)
      PROVE  Numbered(v, written') /\ Numbered([v EXCEPT ![k] = written'[k]], written')
  <2>1. v \in [Key -> Nat] /\ \A j \in Key : v[j] <= written[j]
    BY <1>5 DEF Numbered
  <2>2. \A j \in Key : v[j] <= written'[j]
    BY <2>1, <1>3, <1>4
  <2> QED BY <2>1, <2>2, <1>4 DEF Numbered
<1>6. ASSUME NEW w, Made(w, written)
      PROVE  Made(w, written')
  BY <1>6, <1>3, <1>4 DEF Made, Write
<1>7. <<k, written'[k]>> \in Write /\ Made(<<k, written'[k]>>, written')
  BY <1>4 DEF Made, Write
<1>8. mine' \in [Client -> SUBSET Write]
  BY <1>2, <1>3, <1>7
<1>9. ASSUME NEW d \in Client, NEW w \in mine'[d]
      PROVE  Made(w, written')
  <2>1. CASE w \in mine[d]
    BY <2>1, <1>6 DEF NumberInv
  <2>2. CASE w \notin mine[d]
    BY <2>2, <1>2, <1>3, <1>7
  <2> QED BY <2>1, <2>2
<1>10. Numbered(ver', written') /\ Numbered(file'.ver, written') /\ \A f \in older' : Numbered(f.ver, written')
  BY <1>2, <1>5 DEF NumberInv
<1>11. ASSUME NEW d \in Client, pc'[d] \in Marshalled
       PROVE  Numbered(data'[d].ver, written')
  <2>1. pc[d] \in Marshalled
    BY <1>2, <1>3, <1>11 DEF Marshalled
  <2>2. data'[d].ver \in {data[d].ver, [data[d].ver EXCEPT ![k] = written'[k]]}
    BY <1>1, <2>1 DEF WrotePart
  <2> QED BY <2>1, <2>2, <1>5 DEF NumberInv
<1>12. ASSUME NEW d \in Client, pc'[d] = "assign"
       PROVE  Numbered(seen'[d].ver, written')
  BY <1>5, <1>12 DEF NumberInv
<1>13. \A w \in acked' : Made(w, written')
  BY <1>2, <1>6 DEF NumberInv
<1>14. undone' \subseteq Write /\ apart' \subseteq Key
  BY <1>2 DEF NumberInv
<1>15. up'
  BY <1>2, <1>3 DEF ControlInv, Before
<1> QED BY <1>4, <1>8, <1>9, <1>10, <1>11, <1>12, <1>13, <1>14, <1>15 DEF NumberInv, Numbered, Made

LEMMA ThrownAway ==
    ASSUME NEW v \in [Key -> Nat], NEW u \in [Key -> Nat]
    PROVE  UNION {{k} \X (v[k] + 1 .. u[k]) : k \in Key} \subseteq Write
<1> SUFFICES ASSUME NEW k \in Key, NEW n \in v[k] + 1 .. u[k]
             PROVE  <<k, n>> \in Write
  OBVIOUS
<1>1. v[k] \in Nat /\ u[k] \in Nat
  OBVIOUS
<1> QED BY <1>1 DEF Write

\* The other steps of a request.
LEMMA NumberRequests ==
    ASSUME ControlInv, Snapshots, NumberInv, NEW c \in Client,
           UNCHANGED up,
           Moved(c) \/ Failed(c) \/ EndReload(c) \/ BeginMarshal(c) \/ Rename(c) \/ Reply(c),
           DOMAIN seen' = Client,
           \A d \in Client : pc'[d] = "assign" =>
                \/ pc[d] = "assign" /\ seen'[d] = seen[d]
                \/ seen'[d] = file /\ UNCHANGED disk
    PROVE  NumberInv'
<1>0. /\ pc \in [Client -> Places] /\ DOMAIN data = Client
      /\ mine \in [Client -> SUBSET Write] /\ written \in [Key -> Nat]
      /\ \A d \in Client : \A w \in mine[d] : Made(w, written)
      /\ ~up => \A d \in Client : pc[d] = "idle"
  BY DEF ControlInv, Snapshots, NumberInv
<1>1. ASSUME NEW d \in Client, pc'[d] = "assign", written' = written
      PROVE  Numbered(seen'[d].ver, written')
  BY <1>1 DEF NumberInv
<1>2. CASE Moved(c)
  <2>1. UNCHANGED <<ver, written, file, older, data, acked, undone, apart>>
    BY <1>2 DEF Moved, disk, history
  <2>2. \A d \in Client : pc'[d] \in Marshalled => pc[d] \in Marshalled
    BY <1>0, <1>2 DEF Moved, Marshalled, Before
  <2>3. /\ mine' \in [Client -> SUBSET Write]
        /\ \A d \in Client : mine'[d] \in {mine[d], {}}
    BY <1>0, <1>2 DEF Moved
  <2>4. \A d \in Client : \A w \in mine'[d] : Made(w, written)
    BY <1>0, <2>3
  <2>5. \A d \in Client : mine[d] = {} => mine'[d] = {}
    BY <2>3
  <2> QED BY <1>1, <2>1, <2>2, <2>3, <2>4, <2>5 DEF NumberInv
<1>3. CASE Failed(c)
  <2>1. UNCHANGED <<ver, written, file, older, mine, acked, undone>>
    BY <1>3 DEF Failed, disk
  <2>2. \A d \in Client : pc'[d] \in Marshalled => pc[d] \in Marshalled /\ data'[d] = data[d]
    BY <1>0, <1>3 DEF Failed, Marshalled
  <2>3. {w[1] : w \in mine[c]} \subseteq Key
    BY <1>0 DEF Write
  <2>4. apart' \subseteq Key
    BY <1>3, <2>3 DEF Failed, NumberInv
  <2> QED BY <1>1, <2>1, <2>2, <2>4 DEF NumberInv
<1>4. CASE EndReload(c)
  <2>1. pc[c] = "assign" /\ Numbered(seen[c].ver, written)
    BY <1>4 DEF EndReload, NumberInv
  <2>2. /\ UNCHANGED <<written, file, older, data, mine, acked>> /\ ver' = seen[c].ver
        /\ undone' = undone \cup UNION {{k} \X (seen[c].ver[k] + 1 .. ver[k]) : k \in Key}
        /\ apart' \subseteq Key
    BY <1>4 DEF EndReload, disk, saving, Assigned, MemoryFrom, Crossed
  <2>3. seen[c].ver \in [Key -> Nat] /\ ver \in [Key -> Nat]
    BY <2>1 DEF NumberInv, Numbered
  <2>4. undone' \subseteq Write
    BY <2>2, <2>3, ThrownAway DEF NumberInv
  <2>5. \A d \in Client : pc'[d] \in Marshalled => pc[d] \in Marshalled
    BY <1>0, <1>4 DEF EndReload, Goto, Marshalled
  <2> QED BY <1>1, <2>1, <2>2, <2>4, <2>5 DEF NumberInv
<1>5. CASE BeginMarshal(c)
  <2>1. UNCHANGED <<ver, written, file, older, mine, acked, undone, apart>>
    BY <1>5 DEF BeginMarshal, SaveStep, memory, disk, history
  <2>2. \A d \in Client : pc'[d] \in Marshalled =>
           data'[d] = Snapshot \/ (pc[d] \in Marshalled /\ data'[d] = data[d])
    BY <1>0, <1>5 DEF BeginMarshal, SaveStep, Goto, Marshalled
  <2>3. Numbered(Snapshot.ver, written)
    BY DEF Snapshot, NumberInv
  <2>4. \A d \in Client : pc'[d] \in Marshalled => Numbered(data'[d].ver, written)
    BY <2>2, <2>3 DEF NumberInv
  <2> QED BY <1>1, <2>1, <2>4 DEF NumberInv
<1>6. CASE Rename(c)
  <2>1. UNCHANGED <<ver, written, mine, acked, undone>>
    BY <1>6 DEF Rename, memory
  <2>2. Numbered(data[c].ver, written)
    BY <1>6 DEF Rename, NumberInv, Marshalled
  <2>3. file'.ver = data[c].ver /\ older' = older \cup {file} /\ apart' \subseteq apart
    BY <1>6 DEF Rename
  <2>4. \A d \in Client : pc'[d] \in Marshalled => pc[d] \in Marshalled /\ data'[d] = data[d]
    BY <1>0, <1>6 DEF Rename, Goto, Marshalled
  <2> QED BY <1>1, <2>1, <2>2, <2>3, <2>4 DEF NumberInv
<1>7. CASE Reply(c)
  <2>1. UNCHANGED <<ver, written, file, older, data, mine, undone, apart>> /\ acked' = acked \cup mine[c]
    BY <1>7 DEF Reply, memory, disk, saving
  <2>2. \A d \in Client : pc'[d] \in Marshalled => pc[d] \in Marshalled
    BY <1>0, <1>7 DEF Reply, Goto, Marshalled
  <2> QED BY <1>1, <2>1, <2>2 DEF NumberInv
<1> QED BY <1>2, <1>3, <1>4, <1>5, <1>6, <1>7

LEMMA NumberStep ==
    ASSUME ControlInv, Snapshots, NumberInv, [Next]_vars
    PROVE  NumberInv'
<1>1. /\ DOMAIN seen' = Client
      /\ \A d \in Client : pc'[d] = "assign" =>
                \/ pc[d] = "assign" /\ seen'[d] = seen[d]
                \/ seen'[d] = file /\ UNCHANGED disk
  BY SeenStep DEF NumberInv
<1>2. ASSUME NEW c \in Client, UNCHANGED up,
             \/ Moved(c) \/ Failed(c) \/ WroteSome(c)
             \/ EndReload(c) \/ BeginMarshal(c) \/ Rename(c) \/ Reply(c)
      PROVE  NumberInv'
  BY <1>1, <1>2, NumberWrote, NumberRequests
<1>3. CASE Crash \/ PowerLoss
  <2>1. Down
    BY <1>3 DEF Crash, PowerLoss
  <2>2. UNCHANGED <<ver, written, acked>> /\ DOMAIN seen' = Client /\ apart' = {}
    BY <2>1 DEF Down, memory, Idle
  <2>3. /\ mine' \in [Client -> SUBSET Write] /\ \A c \in Client : mine'[c] = {}
        /\ \A c \in Client : pc'[c] = "idle"
    BY <2>1 DEF Down
  <2>4. /\ undone' \subseteq Write
        /\ Numbered(file'.ver, written) /\ \A f \in older' : Numbered(f.ver, written)
    <3>1. CASE Crash
      BY <3>1 DEF Crash, disk, NumberInv
    <3>2. CASE PowerLoss
      <4>1. PICK f \in older \cup {file} :
              /\ file' = [f EXCEPT !.state = IF @ = "synced" THEN @ ELSE "torn"]
              /\ undone' = undone \cup UNION {{k} \X (f.ver[k] + 1 .. written[k]) : k \in Key}
        BY <3>2 DEF PowerLoss
      <4>2. file'.ver = f.ver
        BY <4>1
      <4>3. Numbered(f.ver, written) /\ f.ver \in [Key -> Nat] /\ written \in [Key -> Nat]
        BY DEF NumberInv, Numbered
      <4>4. undone' \subseteq Write
        BY <4>1, <4>3, ThrownAway DEF NumberInv
      <4> QED BY <3>2, <4>2, <4>3, <4>4 DEF PowerLoss
    <3> QED BY <1>3, <3>1, <3>2
  <2> QED BY <2>2, <2>3, <2>4 DEF NumberInv, Marshalled
<1>4. CASE Start
  <2>1. /\ UNCHANGED <<written, file, older, data, pc, seen, mine, acked, undone, apart>>
        /\ ver' = file.ver /\ ~up
    BY <1>4 DEF Start, MemoryFrom, disk, saving, handler, history
  <2> QED BY <2>1 DEF NumberInv
<1>5. CASE UNCHANGED vars
  BY <1>5 DEF vars, memory, disk, saving, handler, history, NumberInv
<1> QED BY <1>2, <1>3, <1>4, <1>5, StepKinds
-----------------------------------------------------------------------------
(* A change that was acknowledged is in the file, in memory, and in what   *)
(* is about to be saved: a save that began before the change and ends      *)
(* after it cannot take it out of the file again.                          *)

\* v has write w, or a later one of its field, or w was thrown away.
Has(v, w, gone) == w \in gone \/ w[2] <= v[w[1]]

SavedInv ==
    /\ \A w \in acked :
         /\ Has(ver, w, undone) /\ Has(file.ver, w, undone)
         /\ \A d \in Client : pc[d] \in Marshalled => Has(data[d].ver, w, undone)
    /\ \A c \in Client : \A w \in mine[c] :
         /\ Has(ver, w, undone)
         /\ pc[c] \in Marshalled => Has(data[c].ver, w, undone)
         /\ pc[c] = "reply" =>
              /\ Has(file.ver, w, undone)
              /\ \A d \in Client : pc[d] \in Marshalled => Has(data[d].ver, w, undone)

LEMMA SavedInit == Init => SavedInv
BY DEF Init, SavedInv

\* Writes that go out of sight are thrown away.
LEMMA HasLess ==
    ASSUME NEW v \in [Key -> Nat], NEW u \in [Key -> Nat], NEW gone, NEW w \in Write,
           Has(u, w, gone)
    PROVE  Has(v, w, gone \cup UNION {{k} \X (v[k] + 1 .. u[k]) : k \in Key})
<1> DEFINE more == UNION {{k} \X (v[k] + 1 .. u[k]) : k \in Key}
<1>1. PICK k \in Key, n \in Nat : w = <<k, n>>
  BY DEF Write
<1>2. CASE w \in gone \/ n <= v[k]
  BY <1>1, <1>2 DEF Has
<1>3. CASE ~(w \in gone \/ n <= v[k])
  <2>1. n <= u[k] /\ v[k] \in Nat /\ u[k] \in Nat
    BY <1>1, <1>3 DEF Has
  <2>2. n \in v[k] + 1 .. u[k]
    BY <1>1, <1>3, <2>1
  <2>3. w \in {k} \X (v[k] + 1 .. u[k])
    BY <1>1, <2>2
  <2>4. w \in more
    BY <2>3
  <2> QED BY <2>4 DEF Has
<1> QED BY <1>2, <1>3

LEMMA SavedWrote ==
    ASSUME ControlInv, Snapshots, NumberInv, SavedInv, NEW c \in Client, WroteSome(c)
    PROVE  SavedInv'
<1>1. PICK k \in Key : WrotePart(c, k)
  BY DEF WroteSome
<1>2. /\ written' = [written EXCEPT ![k] = @ + 1]
      /\ ver' = [ver EXCEPT ![k] = written'[k]]
      /\ mine' = [mine EXCEPT ![c] = @ \cup {<<k, written'[k]>>}]
      /\ pc[c] \in Before
      /\ pc' = pc
      /\ UNCHANGED <<file, acked, undone>>
  BY <1>1 DEF WrotePart, disk, history
<1>3. /\ written \in [Key -> Nat] /\ mine \in [Client -> SUBSET Write] /\ pc \in [Client -> Places]
      /\ written'[k] = written[k] + 1 /\ ver \in [Key -> Nat]
  BY <1>2 DEF NumberInv, ControlInv, Numbered
<1>4. ASSUME NEW v \in [Key -> Nat], NEW w \in Write, Made(w, written), Has(v, w, undone)
      PROVE  Has(v, w, undone') /\ Has([v EXCEPT ![k] = written'[k]], w, undone')
  <2>1. w[1] \in Key /\ w[2] \in Nat
    BY DEF Write
  <2>2. CASE w[1] = k
    BY <1>2, <1>3, <1>4, <2>1, <2>2 DEF Has, Made
  <2>3. CASE w[1] # k
    BY <1>2, <1>4, <2>1, <2>3 DEF Has
  <2> QED BY <2>2, <2>3
<1>5. ASSUME NEW w \in Write, Made(w, written), Has(ver, w, undone)
      PROVE  Has(ver', w, undone')
  BY <1>2, <1>3, <1>4, <1>5
<1>6. ASSUME NEW w \in Write, Made(w, written), NEW d \in Client, pc'[d] \in Marshalled,
             Has(data[d].ver, w, undone)
      PROVE  Has(data'[d].ver, w, undone')
  <2>1. pc[d] \in Marshalled
    BY <1>2, <1>3, <1>6 DEF Marshalled
  <2>2. data'[d].ver \in {data[d].ver, [data[d].ver EXCEPT ![k] = written'[k]]}
    BY <1>1, <2>1 DEF WrotePart
  <2>3. data[d].ver \in [Key -> Nat]
    BY <2>1 DEF NumberInv, Numbered
  <2> QED BY <2>2, <2>3, <1>4, <1>6
<1>7. ASSUME NEW w \in acked'
      PROVE  /\ Has(ver', w, undone') /\ Has(file'.ver, w, undone')
             /\ \A d \in Client : pc'[d] \in Marshalled => Has(data'[d].ver, w, undone')
  <2>1. w \in acked /\ w \in Write /\ Made(w, written)
    BY <1>2, <1>7 DEF NumberInv, Made
  <2>2. \A d \in Client : pc'[d] \in Marshalled => pc[d] \in Marshalled
    BY <1>2, <1>3 DEF Marshalled
  <2> QED BY <2>1, <2>2, <1>2, <1>5, <1>6 DEF SavedInv
<1>8. ASSUME NEW d \in Client, NEW w \in mine'[d]
      PROVE  /\ Has(ver', w, undone')
             /\ pc'[d] \in Marshalled => Has(data'[d].ver, w, undone')
             /\ pc'[d] = "reply" =>
                  /\ Has(file'.ver, w, undone')
                  /\ \A e \in Client : pc'[e] \in Marshalled => Has(data'[e].ver, w, undone')
  <2>1. \A e \in Client : pc'[e] \in Marshalled => pc[e] \in Marshalled
    BY <1>2, <1>3 DEF Marshalled
  <2>2. CASE w \in mine[d]
    <3>1. w \in Write /\ Made(w, written)
      BY <2>2 DEF NumberInv, Made
    <3>2. pc'[d] = "reply" => pc[d] = "reply"
      BY <1>2, <1>3
    <3> QED BY <2>1, <2>2, <3>1, <3>2, <1>2, <1>5, <1>6 DEF SavedInv
  <2>3. CASE w \notin mine[d]
    <3>1. d = c /\ w = <<k, written'[k]>>
      BY <1>2, <1>3, <2>3
    <3>2. pc'[d] \notin Marshalled \cup {"reply"}
      BY <3>1, <1>2, <1>3 DEF Before, Marshalled
    <3>3. Has(ver', w, undone')
      BY <3>1, <1>2, <1>3 DEF Has
    <3> QED BY <3>2, <3>3
  <2> QED BY <2>2, <2>3
<1> QED BY <1>7, <1>8 DEF SavedInv

LEMMA SavedRequests ==
    ASSUME ControlInv, Snapshots, NumberInv, SavedInv, NEW c \in Client,
           Moved(c) \/ Failed(c) \/ EndReload(c) \/ BeginMarshal(c) \/ Rename(c) \/ Reply(c)
    PROVE  SavedInv'
<1>0. /\ pc \in [Client -> Places] /\ DOMAIN data = Client
      /\ mine \in [Client -> SUBSET Write] /\ acked \subseteq Write
  BY DEF ControlInv, Snapshots, NumberInv, Made
<1>1. CASE Moved(c)
  <2>1. UNCHANGED <<ver, file, data, acked, undone>>
    BY <1>1 DEF Moved, disk, history
  <2>2. /\ \A d \in Client : pc'[d] \in Marshalled => pc[d] \in Marshalled
        /\ \A d \in Client : pc'[d] = "reply" => pc[d] = "reply"
        /\ \A d \in Client : mine'[d] \subseteq mine[d]
    BY <1>0, <1>1 DEF Moved, Marshalled, Before
  <2> QED BY <2>1, <2>2 DEF SavedInv
<1>2. CASE Failed(c)
  <2>1. UNCHANGED <<ver, file, mine, acked, undone>>
    BY <1>2 DEF Failed, disk
  <2>2. /\ \A d \in Client : pc'[d] \in Marshalled => pc[d] \in Marshalled /\ data'[d] = data[d]
        /\ \A d \in Client : pc'[d] = "reply" => pc[d] = "reply"
    BY <1>0, <1>2 DEF Failed, Marshalled
  <2> QED BY <2>1, <2>2 DEF SavedInv
<1>3. CASE EndReload(c)
  <2>1. pc[c] = "assign" /\ Numbered(seen[c].ver, written)
    BY <1>3 DEF EndReload, NumberInv
  <2>2. /\ UNCHANGED <<file, data, mine, acked>> /\ ver' = seen[c].ver
        /\ undone' = undone \cup UNION {{k} \X (seen[c].ver[k] + 1 .. ver[k]) : k \in Key}
    BY <1>3 DEF EndReload, disk, saving, Assigned, MemoryFrom
  <2>3. /\ \A d \in Client : pc'[d] \in Marshalled => pc[d] \in Marshalled
        /\ \A d \in Client : pc'[d] = "reply" => pc[d] = "reply"
    BY <1>0, <1>3 DEF EndReload, Goto, Marshalled
  <2>4. seen[c].ver \in [Key -> Nat] /\ ver \in [Key -> Nat]
    BY <2>1 DEF NumberInv, Numbered
  <2>5. \A w \in Write : Has(ver, w, undone) => Has(ver', w, undone')
    BY <2>2, <2>4, HasLess
  <2>6. \A v, w : Has(v, w, undone) => Has(v, w, undone')
    BY <2>2 DEF Has
  <2> QED BY <1>0, <2>2, <2>3, <2>5, <2>6 DEF SavedInv
<1>4. CASE BeginMarshal(c)
  <2>1. UNCHANGED <<ver, file, mine, acked, undone>>
    BY <1>4 DEF BeginMarshal, SaveStep, memory, disk, history
  <2>2. /\ \A d \in Client : pc'[d] \in Marshalled =>
             data'[d].ver = ver \/ (pc[d] \in Marshalled /\ data'[d] = data[d])
        /\ \A d \in Client : pc'[d] = "reply" => pc[d] = "reply"
    BY <1>0, <1>4 DEF BeginMarshal, SaveStep, Goto, Marshalled, Snapshot
  <2> QED BY <2>1, <2>2 DEF SavedInv
<1>5. CASE Rename(c)
  <2>1. UNCHANGED <<ver, mine, acked, undone>> /\ file'.ver = data[c].ver /\ pc[c] \in Marshalled
    BY <1>5 DEF Rename, memory, Marshalled
  <2>2. \A d \in Client : pc'[d] \in Marshalled => pc[d] \in Marshalled /\ data'[d] = data[d]
    BY <1>0, <1>5 DEF Rename, Goto, Marshalled
  <2>3. \A d \in Client : pc[d] \in Marshalled => d = c
    BY <2>1 DEF ControlInv, Marshalled, SavePC
  <2>4. pc'[c] = "reply" /\ \A d \in Client : pc'[d] = "reply" => d = c \/ pc[d] = "reply"
    BY <1>0, <1>5 DEF Rename, Goto
  <2>5. \A d \in Client : pc'[d] \notin Marshalled
    BY <2>2, <2>3, <2>4 DEF Marshalled
  <2> QED BY <2>1, <2>4, <2>5 DEF SavedInv
<1>6. CASE Reply(c)
  <2>1. UNCHANGED <<ver, file, data, mine, undone>> /\ acked' = acked \cup mine[c] /\ pc[c] = "reply"
    BY <1>6 DEF Reply, memory, disk, saving
  <2>2. /\ \A d \in Client : pc'[d] \in Marshalled => pc[d] \in Marshalled
        /\ \A d \in Client : pc'[d] = "reply" => pc[d] = "reply"
    BY <1>0, <1>6 DEF Reply, Goto, Marshalled
  <2> QED BY <2>1, <2>2 DEF SavedInv
<1> QED BY <1>1, <1>2, <1>3, <1>4, <1>5, <1>6

LEMMA SavedStep ==
    ASSUME ControlInv, Snapshots, NumberInv, SavedInv, [Next]_vars
    PROVE  SavedInv'
<1>1. CASE Crash \/ PowerLoss
  <2>1. Down
    BY <1>1 DEF Crash, PowerLoss
  <2>2. UNCHANGED <<ver, acked>>
    BY <2>1 DEF Down, memory
  <2>3. /\ \A c \in Client : mine'[c] = {}
        /\ \A c \in Client : pc'[c] = "idle"
    BY <2>1 DEF Down
  <2>4. \A w \in acked : Has(ver, w, undone') /\ Has(file'.ver, w, undone')
    <3>1. CASE Crash
      BY <3>1 DEF Crash, disk, SavedInv
    <3>2. CASE PowerLoss
      <4>1. PICK f \in older \cup {file} :
              /\ file' = [f EXCEPT !.state = IF @ = "synced" THEN @ ELSE "torn"]
              /\ undone' = undone \cup UNION {{k} \X (f.ver[k] + 1 .. written[k]) : k \in Key}
        BY <3>2 DEF PowerLoss
      <4>2. file'.ver = f.ver
        BY <4>1
      <4>3. f.ver \in [Key -> Nat] /\ written \in [Key -> Nat]
        BY DEF NumberInv, Numbered
      <4>4. \A w \in acked : w \in Write /\ Has(written, w, undone)
        BY DEF NumberInv, Made, Has
      <4>5. \A w \in acked : Has(file'.ver, w, undone')
        BY <4>1, <4>2, <4>3, <4>4, HasLess
      <4>6. \A w \in acked : Has(ver, w, undone')
        BY <4>1 DEF SavedInv, Has
      <4> QED BY <4>5, <4>6
    <3> QED BY <1>1, <3>1, <3>2
  <2> QED BY <2>2, <2>3, <2>4 DEF SavedInv, Marshalled
<1>2. CASE Start
  <2>1. UNCHANGED <<file, data, pc, mine, acked, undone>> /\ ver' = file.ver /\ ~up
    BY <1>2 DEF Start, MemoryFrom, disk, saving, handler, history
  <2>2. \A c \in Client : mine[c] = {}
    BY <2>1 DEF NumberInv
  <2> QED BY <2>1, <2>2 DEF SavedInv
<1>3. CASE UNCHANGED vars
  BY <1>3 DEF vars, memory, disk, saving, handler, history, SavedInv
<1> QED BY <1>1, <1>2, <1>3, StepKinds, SavedWrote, SavedRequests

\* What all steps are told apart by, for any number of requests and crashes.
StoreInv == ControlInv /\ Snapshots /\ NumberInv /\ SavedInv

\* A client that was told its change is made finds it in the file, or a later
\* change of the field, unless a reload or a power loss threw it away.
THEOREM AcknowledgedIsSaved == Spec => []AckedIsSaved
<1>1. Init => StoreInv
  BY ControlInit, SnapshotsInit, NumberInit, SavedInit DEF StoreInv
<1>2. StoreInv /\ [Next]_vars => StoreInv'
  BY ControlStep, SnapshotsStep, NumberStep, SavedStep DEF StoreInv
<1>3. StoreInv => AckedIsSaved
  <2> SUFFICES ASSUME StoreInv, NEW w \in acked \ undone PROVE file.ver[w[1]] >= w[2]
    BY DEF AckedIsSaved
  <2>1. Has(file.ver, w, undone) /\ Made(w, written) /\ file.ver \in [Key -> Nat]
    BY DEF StoreInv, SavedInv, NumberInv, Numbered
  <2> QED BY <2>1 DEF Has, Made, Write
<1> QED BY <1>1, <1>2, <1>3, PTL DEF Spec
-----------------------------------------------------------------------------
(* Memory and file agree in every field that no request is about to save   *)
(* and no failure or reload has set apart.                                 *)

Same(k) ==
    /\ ver[k] = file.ver[k]
    /\ \A d \in Client : pc[d] \in Marshalled => data[d].ver[k] = ver[k]

\* A request has written the field, and its save will take what memory has.
Pending(k) ==
    \E c \in Client :
        /\ \E w \in mine[c] : w[1] = k
        /\ \/ pc[c] \in Before
           \/ pc[c] \in Marshalled /\ data[c].ver[k] = ver[k]

QuietInv == up => \A k \in Key : k \in apart \/ Pending(k) \/ Same(k)

LEMMA QuietInit == Init => QuietInv
BY DEF Init, QuietInv, Same, Marshalled

LEMMA QuietWrote ==
    ASSUME ControlInv, Snapshots, NumberInv, QuietInv, NEW c \in Client, WroteSome(c), UNCHANGED up
    PROVE  QuietInv'
<1>1. PICK k \in Key : WrotePart(c, k)
  BY DEF WroteSome
<1>2. /\ ver' = [ver EXCEPT ![k] = written'[k]]
      /\ mine' = [mine EXCEPT ![c] = @ \cup {<<k, written'[k]>>}]
      /\ pc[c] \in Before
      /\ pc' = pc
      /\ UNCHANGED <<file, apart>>
  BY <1>1 DEF WrotePart, disk, history
<1>3. mine \in [Client -> SUBSET Write] /\ pc \in [Client -> Places] /\ ver \in [Key -> Nat]
  BY DEF NumberInv, ControlInv, Numbered
<1>4. /\ \A d \in Client : pc[d] \in Before => pc'[d] \in Before
      /\ \A d \in Client : pc[d] \in Marshalled => pc'[d] \in Marshalled
      /\ \A d \in Client : pc'[d] \in Marshalled => pc[d] \in Marshalled
  BY <1>2, <1>3 DEF Before, Marshalled
<1>5. ASSUME NEW j \in Key \ {k}, NEW d \in Client, pc[d] \in Marshalled
      PROVE  data'[d].ver[j] = data[d].ver[j]
  <2>1. data'[d].ver \in {data[d].ver, [data[d].ver EXCEPT ![k] = written'[k]]}
    BY <1>1, <1>5 DEF WrotePart
  <2>2. data[d].ver \in [Key -> Nat]
    BY <1>5 DEF NumberInv, Numbered
  <2> QED BY <2>1, <2>2
<1>6. ASSUME NEW j \in Key, up
      PROVE  j \in apart' \/ Pending(j)' \/ Same(j)'
  <2>1. CASE j = k
    <3>1. <<k, written'[k]>> \in mine'[c] /\ pc'[c] \in Before
      BY <1>2, <1>3, <1>4
    <3> QED BY <2>1, <3>1 DEF Pending
  <2>2. CASE j # k
    <3>1. ver'[j] = ver[j] /\ \A d \in Client : mine[d] \subseteq mine'[d]
      BY <2>2, <1>2, <1>3
    <3>2. CASE j \in apart
      BY <3>2, <1>2
    <3>3. CASE Pending(j)
      <4>1. PICK d \in Client : /\ \E w \in mine[d] : w[1] = j
                                /\ \/ pc[d] \in Before
                                   \/ pc[d] \in Marshalled /\ data[d].ver[j] = ver[j]
        BY <3>3 DEF Pending
      <4> QED BY <4>1, <3>1, <2>2, <1>4, <1>5 DEF Pending
    <3>4. CASE Same(j)
      BY <3>4, <3>1, <2>2, <1>2, <1>4, <1>5 DEF Same
    <3> QED BY <1>6, <3>2, <3>3, <3>4 DEF QuietInv
  <2> QED BY <2>1, <2>2
<1> QED BY <1>6 DEF QuietInv

LEMMA QuietRequests ==
    ASSUME ControlInv, Snapshots, NumberInv, QuietInv, NEW c \in Client, UNCHANGED up,
           Moved(c) \/ Failed(c) \/ EndReload(c) \/ BeginMarshal(c) \/ Rename(c) \/ Reply(c)
    PROVE  QuietInv'
<1>0. /\ pc \in [Client -> Places] /\ DOMAIN data = Client
      /\ mine \in [Client -> SUBSET Write]
  BY DEF ControlInv, Snapshots, NumberInv
<1> SUFFICES ASSUME up, NEW k \in Key
             PROVE  k \in apart' \/ Pending(k)' \/ Same(k)'
  BY DEF QuietInv
<1>a. k \in apart \/ Pending(k) \/ Same(k)
  BY DEF QuietInv
<1>b. ASSUME Pending(k)
      PROVE  \E d \in Client :
               /\ \E w \in mine[d] : w[1] = k
               /\ \/ pc[d] \in Before
                  \/ pc[d] \in Marshalled /\ data[d].ver[k] = ver[k]
  BY <1>b DEF Pending
<1>1. CASE Moved(c)
  <2>1. UNCHANGED <<ver, file, data, apart>>
    BY <1>1 DEF Moved, disk, history
  <2>2. /\ \A d \in Client : pc'[d] \in Marshalled => pc[d] \in Marshalled
        /\ \A d \in Client : pc[d] \in Marshalled => pc'[d] \in Marshalled /\ mine'[d] = mine[d]
        /\ \A d \in Client : pc[d] \in Before => pc'[d] \in Before /\ mine'[d] = mine[d]
    BY <1>0, <1>1 DEF Moved, Marshalled, Before
  <2> QED BY <1>a, <1>b, <2>1, <2>2 DEF Same, Pending
<1>2. CASE Failed(c)
  <2>1. UNCHANGED <<ver, file, mine>> /\ apart' = apart \cup {w[1] : w \in mine[c]}
    BY <1>2 DEF Failed, disk
  <2>2. /\ \A d \in Client : pc'[d] \in Marshalled => pc[d] \in Marshalled /\ data'[d] = data[d]
        /\ \A d \in Client \ {c} : pc'[d] = pc[d] /\ data'[d] = data[d]
    BY <1>0, <1>2 DEF Failed, Marshalled
  <2>3. CASE Pending(k)
    <3>1. PICK d \in Client : /\ \E w \in mine[d] : w[1] = k
                              /\ \/ pc[d] \in Before
                                 \/ pc[d] \in Marshalled /\ data[d].ver[k] = ver[k]
      BY <1>b, <2>3
    <3>2. CASE d = c
      BY <2>1, <3>1, <3>2
    <3>3. CASE d # c
      BY <2>1, <2>2, <3>1, <3>3 DEF Pending
    <3> QED BY <3>2, <3>3
  <2>4. CASE Same(k)
    BY <2>1, <2>2, <2>4 DEF Same
  <2> QED BY <1>a, <2>1, <2>3, <2>4
<1>3. CASE EndReload(c)
  <2>1. /\ UNCHANGED <<file, data>> /\ ver' = seen[c].ver /\ apart' = Crossed(seen[c])
    BY <1>3 DEF EndReload, disk, saving, Assigned, MemoryFrom
  <2>2. \A d \in Client : pc'[d] \in Marshalled => pc[d] \in Marshalled
    BY <1>0, <1>3 DEF EndReload, Goto, Marshalled
  <2> QED BY <2>1, <2>2 DEF Same, Crossed
<1>4. CASE BeginMarshal(c)
  <2>1. UNCHANGED <<ver, file, mine, apart>> /\ pc[c] = "marshal"
    BY <1>4 DEF BeginMarshal, SaveStep, memory, disk, history
  <2>2. /\ pc'[c] \in Marshalled /\ data'[c].ver = ver
        /\ \A d \in Client \ {c} : pc'[d] = pc[d] /\ data'[d] = data[d]
    BY <1>0, <1>4 DEF BeginMarshal, SaveStep, Goto, Marshalled, Snapshot
  <2> QED BY <1>a, <1>b, <2>1, <2>2 DEF Same, Pending
<1>5. CASE Rename(c)
  <2>1. /\ UNCHANGED <<ver, mine>> /\ file'.ver = data[c].ver /\ pc[c] \in Marshalled
        /\ apart' = {j \in apart : data[c].ver[j] # ver[j]}
    BY <1>5 DEF Rename, memory, Marshalled
  <2>2. \A d \in Client : pc[d] \in Marshalled => d = c
    BY <2>1 DEF ControlInv, Marshalled, SavePC
  <2>3. \A d \in Client : pc'[d] \notin Marshalled
    BY <1>0, <1>5, <2>2 DEF Rename, Goto, Marshalled
  <2>4. CASE data[c].ver[k] = ver[k]
    BY <2>1, <2>3, <2>4 DEF Same
  <2>5. CASE data[c].ver[k] # ver[k]
    <3>1. ~Same(k)
      BY <2>1, <2>5 DEF Same
    <3>2. CASE Pending(k)
      <4>1. PICK d \in Client : /\ \E w \in mine[d] : w[1] = k
                                /\ \/ pc[d] \in Before
                                   \/ pc[d] \in Marshalled /\ data[d].ver[k] = ver[k]
        BY <1>b, <3>2
      <4>2. pc[d] \in Before
        BY <4>1, <2>2, <2>5
      <4>3. pc'[d] = pc[d]
        BY <1>0, <1>5, <4>2 DEF Rename, Goto, Before
      <4> QED BY <2>1, <4>1, <4>2, <4>3 DEF Pending
    <3> QED BY <1>a, <2>1, <2>5, <3>1, <3>2
  <2> QED BY <2>4, <2>5
<1>6. CASE Reply(c)
  <2>1. UNCHANGED <<ver, file, data, mine, apart>> /\ pc[c] = "reply"
    BY <1>6 DEF Reply, memory, disk, saving
  <2>2. /\ \A d \in Client : pc'[d] \in Marshalled => pc[d] \in Marshalled
        /\ \A d \in Client : pc[d] \in Marshalled \cup Before => pc'[d] = pc[d]
    BY <1>0, <1>6 DEF Reply, Goto, Marshalled, Before
  <2> QED BY <1>a, <1>b, <2>1, <2>2 DEF Same, Pending
<1> QED BY <1>1, <1>2, <1>3, <1>4, <1>5, <1>6

LEMMA QuietStep ==
    ASSUME ControlInv, Snapshots, NumberInv, QuietInv, [Next]_vars
    PROVE  QuietInv'
<1>1. CASE Crash \/ PowerLoss
  <2>1. up' = FALSE
    BY <1>1 DEF Crash, PowerLoss, Down
  <2> QED BY <2>1 DEF QuietInv
<1>2. CASE Start
  <2>1. UNCHANGED <<file, pc>> /\ ver' = file.ver /\ ~up
    BY <1>2 DEF Start, MemoryFrom, disk, handler
  <2>2. \A c \in Client : pc'[c] \notin Marshalled
    BY <2>1 DEF ControlInv, Marshalled
  <2> QED BY <2>1, <2>2 DEF QuietInv, Same
<1>3. CASE UNCHANGED vars
  BY <1>3 DEF vars, memory, disk, saving, handler, history, QuietInv, Same, Pending
<1> QED BY <1>1, <1>2, <1>3, StepKinds, QuietWrote, QuietRequests

\* When no request is under way, memory and file hold the same write of each field
\* that no failed request and no reload that crossed a save has set apart.
THEOREM QuietStoreAgrees == Spec => []QuietAgrees
<1> DEFINE Inv == StoreInv /\ QuietInv
<1>1. Init => Inv
  BY ControlInit, SnapshotsInit, NumberInit, SavedInit, QuietInit DEF StoreInv
<1>2. Inv /\ [Next]_vars => Inv'
  BY ControlStep, SnapshotsStep, NumberStep, SavedStep, QuietStep DEF StoreInv
<1>3. Inv => QuietAgrees
  BY DEF QuietInv, QuietAgrees, Pending, Same, Before, Marshalled
<1> QED BY <1>1, <1>2, <1>3, PTL DEF Spec
-----------------------------------------------------------------------------
(* What the configuration holds. *)

\* What a step puts into memory, the data and the files.
LEMMA DataStep ==
    ASSUME ControlInv, Snapshots, [Next]_vars
    PROVE  \A d \in Client : pc'[d] \in Marshalled =>
             \/ data'[d].val = mem'
             \/ /\ pc[d] \in Marshalled
                /\ data'[d].val = data[d].val \/ \E k : data'[d].val = Patched(data[d].val, k)
<1>0. pc \in [Client -> Places] /\ DOMAIN data = Client
  BY DEF ControlInv, Snapshots
<1>1. ASSUME NEW c \in Client, Moved(c) \/ Failed(c) \/ EndReload(c) \/ Reply(c) \/ Rename(c),
             NEW d \in Client, pc'[d] \in Marshalled
      PROVE  pc[d] \in Marshalled /\ data'[d] = data[d]
  <2>1. CASE Moved(c)
    BY <1>0, <1>1, <2>1 DEF Moved, Marshalled, Before
  <2>2. CASE Failed(c)
    BY <1>0, <1>1, <2>2 DEF Failed, Marshalled
  <2>3. CASE EndReload(c) \/ Reply(c)
    BY <1>0, <1>1, <2>3 DEF EndReload, Reply, saving, Goto, Marshalled
  <2>4. CASE Rename(c)
    BY <1>0, <1>1, <2>4 DEF Rename, Goto, Marshalled
  <2> QED BY <1>1, <2>1, <2>2, <2>3, <2>4
<1>2. ASSUME NEW c \in Client, WroteSome(c), NEW d \in Client, pc'[d] \in Marshalled
      PROVE  /\ pc[d] \in Marshalled
             /\ data'[d].val = data[d].val \/ \E k : data'[d].val = Patched(data[d].val, k)
  BY <1>0, <1>2 DEF WroteSome, WrotePart, Marshalled
<1>3. ASSUME NEW c \in Client, BeginMarshal(c), NEW d \in Client, pc'[d] \in Marshalled
      PROVE  \/ data'[d].val = mem'
             \/ pc[d] \in Marshalled /\ data'[d] = data[d]
  <2>1. UNCHANGED mem
    BY <1>3 DEF BeginMarshal, SaveStep, memory
  <2>2. data'[d] = Snapshot \/ (pc[d] \in Marshalled /\ data'[d] = data[d])
    BY <1>0, <1>3 DEF BeginMarshal, SaveStep, Goto, Marshalled
  <2> QED BY <2>1, <2>2 DEF Snapshot
<1>4. CASE Crash \/ PowerLoss
  BY <1>4 DEF Crash, PowerLoss, Down, Marshalled
<1>5. CASE Start \/ UNCHANGED vars
  BY <1>5 DEF Start, vars, saving, handler
<1> QED BY <1>1, <1>2, <1>3, <1>4, <1>5, StepKinds

LEMMA DiskStep ==
    ASSUME ControlInv, Snapshots, [Next]_vars
    PROVE  /\ older' \subseteq older \cup {file}
           /\ \/ \E f \in older \cup {file} : file'.val = f.val
              \/ \E c \in Client : /\ pc[c] \in Marshalled /\ file'.val = data[c].val
<1>1. ASSUME UNCHANGED <<file, older>>
      PROVE  /\ older' \subseteq older \cup {file}
             /\ \E f \in older \cup {file} : file'.val = f.val
  BY <1>1
<1>2. ASSUME NEW c \in Client,
             \/ Moved(c) \/ Failed(c) \/ WroteSome(c) \/ EndReload(c) \/ BeginMarshal(c) \/ Reply(c)
      PROVE  UNCHANGED <<file, older>>
  BY <1>2 DEF Moved, Failed, WroteSome, WrotePart, EndReload, BeginMarshal, SaveStep, Reply, disk
<1>3. ASSUME NEW c \in Client, Rename(c)
      PROVE  /\ older' = older \cup {file} /\ pc[c] \in Marshalled
             /\ file'.val = data[c].val
  BY <1>3 DEF Rename, Marshalled
<1>4. CASE Crash \/ Start \/ UNCHANGED vars
  BY <1>1, <1>4 DEF Crash, Start, vars, disk
<1>5. CASE PowerLoss
  <2>1. PICK f \in older \cup {file} : file' = [f EXCEPT !.state = IF @ = "synced" THEN @ ELSE "torn"]
    BY <1>5 DEF PowerLoss
  <2>2. file'.val = f.val
    BY <2>1
  <2> QED BY <1>5, <2>2 DEF PowerLoss
<1> QED BY <1>1, <1>2, <1>3, <1>4, <1>5, StepKinds

\* A field of a section, and a value for it that its handler does not refuse.
Accepted(r, f) ==
    /\ r.kind = "section" /\ f \in DOMAIN r.set
    /\ \E i \in 1 .. Len(r.section.fields) : f = r.section.fields[i]
    /\ <<f, r.set[f]>> \notin r.section.refused

LEMMA MemoryStep ==
    ASSUME ControlInv, [Next]_vars
    PROVE  \/ mem' = mem
           \/ \E r \in Requests, f \in Field : Accepted(r, f) /\ mem' = [mem EXCEPT ![f] = r.set[f]]
           \/ \E c \in Client : pc[c] = "assign" /\ mem' = Loaded(seen[c].val)
           \/ mem' = Loaded(file.val)
<1>1. ASSUME NEW c \in Client, WriteField(c)
      PROVE  \E r \in Requests, f \in Field : Accepted(r, f) /\ mem' = [mem EXCEPT ![f] = r.set[f]]
  <2>1. PICK i \in Asked(c) : /\ ~Refused(c, req[c].section.fields[i])
                              /\ mem' = [mem EXCEPT ![req[c].section.fields[i]] = req[c].set[req[c].section.fields[i]]]
    BY <1>1 DEF WriteField
  <2>2. req[c].kind = "section" /\ req[c] \in Requests /\ at[c] \in Nat \ {0}
    BY <1>1 DEF WriteField, ControlInv
  <2>3. req[c].section \in Sections
    BY <2>2, RequestsAssumption DEF IsRequest
  <2>4. Len(req[c].section.fields) \in Nat
    BY <2>3 DEF Sections, NTPSection, NTSSection, PTPSection, GPSDOSection
  <2>5. i \in 1 .. Len(req[c].section.fields) /\ req[c].section.fields[i] \in DOMAIN req[c].set
    BY <2>2, <2>4 DEF Asked
  <2>6. req[c].section.fields[i] \in Field
    BY <2>3, <2>5, SectionFields
  <2>7. Accepted(req[c], req[c].section.fields[i])
    BY <2>1, <2>2, <2>5 DEF Accepted, Refused
  <2> QED BY <2>1, <2>2, <2>6, <2>7
<1>2. ASSUME NEW c \in Client, EndReload(c)
      PROVE  pc[c] = "assign" /\ mem' = Loaded(seen[c].val)
  BY <1>2 DEF EndReload, Assigned, MemoryFrom
<1>3. ASSUME NEW c \in Client, Receive(c) \/ (Edit(c) /\ ~WriteField(c) /\ ~EndReload(c))
      PROVE  mem' = mem
  BY <1>3 DEF Edit, Receive, RefuseField, FieldsDone, PeersFail, StorePeers, PeersDone,
              BeginReload, memory
<1>4. ASSUME NEW c \in Client, Lock(c) \/ Save(c) \/ SaveFails(c)
      PROVE  mem' = mem
  BY <1>4 DEF Lock, Save, CreateTemp, BeginMarshal, WriteTemp, SyncTemp, Chmod, SaveStep, Rename,
              Reply, SaveFails, memory
<1>5. CASE Crash \/ PowerLoss
  BY <1>5 DEF Crash, PowerLoss, Down, memory
<1>6. CASE Start
  BY <1>6 DEF Start, MemoryFrom
<1>7. CASE UNCHANGED vars
  BY <1>7 DEF vars, memory
<1> QED BY <1>1, <1>2, <1>3, <1>4, <1>5, <1>6, <1>7 DEF Next

\* If the first file is in range, also where it is not enabled, then so is this
\* configuration; the domain number is a number.
Sound(cfg) ==
    /\ cfg \in Config
    /\ InRangeThroughout(Loaded(FirstFile)) =>
         InRangeThroughout(cfg) /\ cfg["ptp.domain"] # "var"

\* What a file is before it is loaded.
SoundFile(v) == v \in Config /\ Sound(Loaded(v))

SoundInv ==
    /\ Sound(mem)
    /\ SoundFile(file.val) /\ \A f \in older : SoundFile(f.val)
    /\ \A c \in Client : pc[c] \in Marshalled => Sound(data[c].val)
    /\ \A c \in Client : pc[c] = "assign" => SoundFile(seen[c].val)

RangeFields == {"ntp.port", "ntp.stratum", "ptp.domain", "gpsdo.type", "web.port"}

LEMMA FieldNames ==
    RangeFields \cup {"ntp.enabled", "ptp.enabled", "gpsdo.enabled"} \subseteq Field
<1> DEFINE F(s) == {s.fields[i] : i \in DOMAIN s.fields}
<1>1. {"ntp.enabled", "ntp.port", "ntp.stratum"} \subseteq F(NTPSection)
  BY DEF NTPSection
<1>2. {"ptp.enabled", "ptp.domain"} \subseteq F(PTPSection)
  BY DEF PTPSection
<1>3. {"gpsdo.enabled", "gpsdo.type"} \subseteq F(GPSDOSection)
  BY DEF GPSDOSection
<1>4. \A s \in Sections : F(s) \subseteq Field
  BY DEF Field
<1>5. NTPSection \in Sections /\ PTPSection \in Sections /\ GPSDOSection \in Sections
  BY DEF Sections
<1>6. "web.port" \in Field
  BY DEF Field, WebFields
<1> HIDE DEF F
<1> QED BY <1>1, <1>2, <1>3, <1>4, <1>5, <1>6 DEF RangeFields

\* Load keeps a configuration that is in range in range.
LEMMA LoadedConfig ==
    ASSUME NEW cfg \in Config
    PROVE  Loaded(cfg) \in Config /\ \A f \in Field : Loaded(cfg)[f] # "var"
BY EnvAssumption DEF Config, Loaded, WithDefaults, Expanded, DefaultOf, Value

LEMMA SoundLoaded ==
    ASSUME NEW cfg, Sound(cfg)
    PROVE  SoundFile(cfg)
<1>1. cfg \in Config
  BY DEF Sound
<1>2. Loaded(cfg) \in Config /\ Loaded(cfg)["ptp.domain"] # "var"
  BY <1>1, LoadedConfig, FieldNames DEF RangeFields
<1>3. ASSUME InRangeThroughout(cfg), cfg["ptp.domain"] # "var"
      PROVE  InRangeThroughout(Loaded(cfg))
  <2>1. /\ cfg["ntp.port"] = "good" /\ cfg["ntp.stratum"] = "good" /\ cfg["web.port"] = "good"
        /\ cfg["ptp.domain"] \notin {"bad", "var"}
        /\ cfg["gpsdo.type"] \in {"dummy", "serialpps", "network"}
    BY <1>3 DEF InRangeThroughout
  <2>2. \A f \in Field : Loaded(cfg)[f] =
           LET x == IF cfg[f] = "var" THEN Env ELSE cfg[f]
           IN  IF x = "zero" /\ f \notin NoDefault THEN DefaultOf(f) ELSE x
    BY DEF Loaded, WithDefaults, Expanded
  <2>3. "ptp.domain" \in NoDefault
    BY DEF NoDefault
  <2>4. /\ Loaded(cfg)["ntp.port"] = "good" /\ Loaded(cfg)["ntp.stratum"] = "good"
        /\ Loaded(cfg)["web.port"] = "good"
    BY <2>1, <2>2, FieldNames DEF RangeFields
  <2>5. Loaded(cfg)["gpsdo.type"] = cfg["gpsdo.type"]
    BY <2>1, <2>2, FieldNames DEF RangeFields
  <2>6. Loaded(cfg)["ptp.domain"] = cfg["ptp.domain"]
    BY <2>1, <2>2, <2>3, FieldNames DEF RangeFields
  <2> QED BY <2>1, <2>4, <2>5, <2>6 DEF InRangeThroughout
<1> QED BY <1>1, <1>2, <1>3 DEF Sound, SoundFile

\* The handlers refuse what Validate would reject for its range.
LEMMA AcceptedInRange ==
    ASSUME NEW r \in Requests, NEW f \in Field, Accepted(r, f)
    PROVE  /\ r.set[f] \in Value
           /\ f \in {"ntp.port", "ntp.stratum"} => r.set[f] = "good"
           /\ f = "ptp.domain" => r.set[f] \in {"zero", "good"}
           /\ f = "gpsdo.type" => r.set[f] \in {"dummy", "serialpps", "network"}
           /\ f # "web.port"
<1>1. r.section \in Sections /\ r.set[f] \in Settable(f)
  BY RequestsAssumption DEF Accepted, IsRequest
<1>2. r.set[f] \in Value
  BY <1>1 DEF Settable, Value
<1>3. PICK i \in 1 .. Len(r.section.fields) : f = r.section.fields[i]
  BY DEF Accepted
<1>4. f \notin WebFields
  BY <1>1, <1>3, SectionFields
<1>5. <<f, r.set[f]>> \notin r.section.refused
  BY DEF Accepted
<1>6. CASE r.section = NTPSection
  <2>1. f \in {"ntp.enabled", "ntp.port", "ntp.stratum", "ntp.ref_id", "ntp.poll_interval"}
    BY <1>3, <1>6 DEF NTPSection
  <2>2. f \in {"ntp.port", "ntp.stratum"} => r.set[f] \notin {"zero", "bad"}
    BY <1>5, <1>6 DEF NTPSection
  <2> QED BY <1>1, <1>2, <2>1, <2>2 DEF Settable, Flags, Numbers
<1>7. CASE r.section = NTSSection
  <2>1. f \in {"nts.enabled", "nts.ke_port", "nts.cert_path", "nts.key_path", "nts.min_tls_version"}
    BY <1>3, <1>7 DEF NTSSection
  <2> QED BY <1>2, <2>1
<1>8. CASE r.section = PTPSection
  <2>1. f \in {"ptp.enabled", "ptp.interface", "ptp.domain", "ptp.priority1",
               "ptp.priority2", "ptp.clock_class", "ptp.transport_mode",
               "ptp.delay_mechanism", "ptp.profile", "ptp.two_step_flag",
               "ptp.log_announce_interval", "ptp.log_sync_interval"}
    BY <1>3, <1>8 DEF PTPSection
  <2>2. f = "ptp.domain" => r.set[f] # "bad"
    BY <1>5, <1>8 DEF PTPSection
  <2> QED BY <1>1, <1>2, <2>1, <2>2 DEF Settable, Flags, Numbers
<1>9. CASE r.section = GPSDOSection
  <2>1. f \in {"gpsdo.enabled", "gpsdo.type", "gpsdo.serial_device",
               "gpsdo.serial_baud", "gpsdo.pps_device", "gpsdo.network_address"}
    BY <1>3, <1>9 DEF GPSDOSection
  <2>2. f = "gpsdo.type" => r.set[f] \notin {"zero", "bad"}
    BY <1>5, <1>9 DEF GPSDOSection
  <2> QED BY <1>1, <1>2, <2>1, <2>2 DEF Settable, Flags, Numbers
<1> QED BY <1>1, <1>6, <1>7, <1>8, <1>9 DEF Sections

\* A field that is read again changes no more than itself.
LEMMA SoundPatched ==
    ASSUME NEW v, NEW k, Sound(v), Sound(mem')
    PROVE  Sound(Patched(v, k))
<1>1. v \in Config /\ mem' \in Config
  BY DEF Sound
<1>2. Patched(v, k) \in Config
  BY <1>1 DEF Patched, Config
<1>3. \A f \in Field : Patched(v, k)[f] = IF f = k THEN mem'[f] ELSE v[f]
  BY DEF Patched
<1>4. ASSUME InRangeThroughout(v), v["ptp.domain"] # "var",
             InRangeThroughout(mem'), mem'["ptp.domain"] # "var"
      PROVE  InRangeThroughout(Patched(v, k)) /\ Patched(v, k)["ptp.domain"] # "var"
  BY <1>3, <1>4, FieldNames DEF InRangeThroughout, RangeFields
<1> QED BY <1>2, <1>4 DEF Sound

LEMMA SoundInit == Init => SoundInv
<1> SUFFICES ASSUME Init PROVE SoundInv
  OBVIOUS
<1>1. FirstFile \in Config /\ Loaded(FirstFile) \in Config /\ Loaded(FirstFile)["ptp.domain"] # "var"
  BY FirstFileAssumption, LoadedConfig, FieldNames DEF RangeFields
<1>2. Sound(Loaded(FirstFile))
  BY <1>1 DEF Sound
<1>3. mem = Loaded(FirstFile) /\ file.val = FirstFile /\ older = {} /\ \A c \in Client : pc[c] = "idle"
  BY DEF Init
<1> QED BY <1>1, <1>2, <1>3 DEF SoundInv, SoundFile, Marshalled

LEMMA SoundStep ==
    ASSUME ControlInv, Snapshots, DOMAIN seen = Client, SoundInv, [Next]_vars
    PROVE  SoundInv'
<1>1. Sound(mem')
  <2>1. ASSUME NEW r \in Requests, NEW f \in Field, Accepted(r, f), mem' = [mem EXCEPT ![f] = r.set[f]]
        PROVE  Sound(mem')
    <3>1. mem \in Config /\ r.set[f] \in Value
      BY <2>1, AcceptedInRange DEF SoundInv, Sound
    <3>2. mem' \in Config
      BY <2>1, <3>1 DEF Config
    <3>3. \A g \in Field : mem'[g] = IF g = f THEN r.set[f] ELSE mem[g]
      BY <2>1, <3>1 DEF Config
    <3>4. ASSUME InRangeThroughout(mem), mem["ptp.domain"] # "var"
          PROVE  InRangeThroughout(mem') /\ mem'["ptp.domain"] # "var"
      BY <2>1, <3>3, <3>4, AcceptedInRange, FieldNames DEF InRangeThroughout, RangeFields
    <3> QED BY <3>2, <3>4 DEF SoundInv, Sound
  <2>2. CASE mem' = mem
    BY <2>2 DEF SoundInv
  <2>3. CASE \E c \in Client : pc[c] = "assign" /\ mem' = Loaded(seen[c].val)
    BY <2>3 DEF SoundInv, SoundFile
  <2>4. CASE mem' = Loaded(file.val)
    BY <2>4 DEF SoundInv, SoundFile
  <2> QED BY <2>1, <2>2, <2>3, <2>4, MemoryStep
<1>2. SoundFile(file'.val) /\ \A f \in older' : SoundFile(f.val)
  BY DiskStep, SoundLoaded DEF SoundInv
<1>3. \A c \in Client : pc'[c] \in Marshalled => Sound(data'[c].val)
  BY <1>1, DataStep, SoundPatched DEF SoundInv
<1>4. \A c \in Client : pc'[c] = "assign" => SoundFile(seen'[c].val)
  BY SeenStep DEF SoundInv
<1> QED BY <1>1, <1>2, <1>3, <1>4 DEF SoundInv, SoundFile, Sound

\* No sequence of requests gets a value into the file that Validate rejects for its
\* range, if the first file has none, also where it is not enabled.
THEOREM SavedStaysInRange == Spec => []SavedInRange
<1> DEFINE Inv == StoreInv /\ SoundInv
<1>1. Init => Inv
  BY ControlInit, SnapshotsInit, NumberInit, SavedInit, SoundInit DEF StoreInv
<1>2. Inv /\ [Next]_vars => Inv'
  BY ControlStep, SnapshotsStep, NumberStep, SavedStep, SoundStep DEF StoreInv, NumberInv
<1>3. Inv => SavedInRange
  BY DEF SoundInv, SoundFile, Sound, SavedInRange, InRange, InRangeThroughout
<1> QED BY <1>1, <1>2, <1>3, PTL DEF Spec
\* Everything the store's invariants say together.
AllInv == FileInv /\ StoreInv /\ SoundInv

LEMMA AllInvType == AllInv => TypeOK
<1> SUFFICES ASSUME AllInv PROVE TypeOK
  OBVIOUS
<1> USE DEF AllInv, StoreInv
<1>1. ASSUME NEW f, Whole(f), f.val \in Config, Numbered(f.ver, written)
      PROVE  f \in File
  <2>1. f.ver \in [Key -> Nat]
    BY <1>1 DEF Numbered
  <2> QED BY <1>1, <2>1 DEF Whole, File
<1>2. file \in File /\ older \subseteq File
  BY <1>1 DEF FileInv, SoundInv, SoundFile, NumberInv
<1>4. mem \in Config
  BY DEF SoundInv, Sound
<1>5. ver \in [Key -> Nat] /\ written \in [Key -> Nat] /\ \A k \in Key : ver[k] <= written[k]
  BY DEF NumberInv, Numbered
<1>6. /\ \A c \in Client : mine[c] \subseteq Write
      /\ acked \subseteq Write /\ undone \subseteq Write /\ apart \subseteq Key
  BY DEF NumberInv, Made
<1>7. /\ up \in BOOLEAN /\ savers \subseteq Client
      /\ pc \in [Client -> {"idle", "edit", "assign", "save", "reply"} \cup SavePC]
      /\ \A c \in Client : pc[c] \in SavePC <=> c \in savers
      /\ requests \in 0 .. MaxRequests /\ crashes \in 0 .. MaxCrashes
  BY DEF ControlInv, Places
<1>8. temp \in [Client -> {None, "empty", "written", "synced"}]
  BY DEF FileInv
<1> QED BY <1>2, <1>4, <1>5, <1>6, <1>7, <1>8 DEF TypeOK

\* Every variable keeps its type: no field is ahead of its writes, and the handlers
\* that save are those that hold the mutex.
THEOREM StoreTypeCorrect == Spec => []TypeOK
<1>1. Init => AllInv
  BY FileInit, ControlInit, SnapshotsInit, NumberInit, SavedInit, SoundInit
     DEF StoreInv, AllInv
<1>2. AllInv /\ [Next]_vars => AllInv'
  <2> SUFFICES ASSUME AllInv, [Next]_vars PROVE AllInv'
    OBVIOUS
  <2>1. ControlInv /\ Snapshots /\ NumberInv /\ SavedInv /\ SoundInv /\ FileInv
        /\ DOMAIN seen = Client
    BY DEF AllInv, StoreInv, NumberInv
  <2> QED BY <2>1, FileStep, ControlStep, SnapshotsStep, NumberStep, SavedStep, SoundStep
          DEF AllInv, StoreInv
<1> QED BY <1>1, <1>2, AllInvType, PTL DEF Spec
-----------------------------------------------------------------------------
(* PeerList: the slices of the requests. *)

LEMMA FunctionIsSeq ==
    ASSUME NEW S, NEW n \in Nat, NEW s \in [1 .. n -> S]
    PROVE  s \in Seq(S) /\ Len(s) = n
<1>1. s \in Seq(S)
  BY SeqDef
<1>2. DOMAIN s = 1 .. n /\ DOMAIN s = 1 .. Len(s) /\ Len(s) \in Nat
  BY <1>1, LenProperties
<1> QED BY <1>1, <1>2

\* Whatever a slice shows is a peer, or not known.
LEMMA ElementPeer ==
    ASSUME arrays \in Seq(Seq(Peer)), NEW s \in Slice, NEW i \in Nat \ {0}
    PROVE  Element(s, i) \in Peer
<1>1. arrays[s.at] \in Seq(Peer)
  BY ElementOfSeq, LenProperties DEF Slice
<1>2. i <= Len(arrays[s.at]) => arrays[s.at][i] \in Peer
  BY <1>1, ElementOfSeq, LenProperties
<1> QED BY <1>2 DEF Element, Peer

\* Arrays are added and written, never dropped or resized: a slice stays one.
LEMMA ArrayAdded ==
    ASSUME arrays \in Seq(Seq(Peer)), NEW s \in Seq(Peer), arrays' = Append(arrays, s)
    PROVE  /\ arrays' \in Seq(Seq(Peer)) /\ DOMAIN arrays' = 1 .. Len(arrays) + 1
           /\ Slice \subseteq Slice'
           /\ Len(arrays) + 1 \notin DOMAIN arrays
           /\ arrays'[Len(arrays) + 1] = s /\ \A i \in DOMAIN arrays : arrays'[i] = arrays[i]
<1>1. /\ arrays' \in Seq(Seq(Peer)) /\ Len(arrays') = Len(arrays) + 1
      /\ arrays'[Len(arrays) + 1] = s /\ \A i \in 1 .. Len(arrays) : arrays'[i] = arrays[i]
  BY AppendProperties
<1>2. DOMAIN arrays = 1 .. Len(arrays) /\ DOMAIN arrays' = 1 .. Len(arrays') /\ Len(arrays) \in Nat
  BY <1>1, LenProperties
<1>3. Slice \subseteq Slice'
  BY <1>1, <1>2 DEF Slice
<1> QED BY <1>1, <1>2, <1>3

LEMMA ArrayWritten ==
    ASSUME arrays \in Seq(Seq(Peer)), NEW n \in DOMAIN arrays, NEW s \in [DOMAIN arrays[n] -> Peer],
           arrays' = [arrays EXCEPT ![n] = s]
    PROVE  /\ arrays' \in Seq(Seq(Peer)) /\ Slice' = Slice
           /\ arrays'[n] = s /\ Len(arrays'[n]) = Len(arrays[n])
           /\ \A i \in DOMAIN arrays \ {n} : arrays'[i] = arrays[i]
<1>1. arrays[n] \in Seq(Peer) /\ DOMAIN arrays[n] = 1 .. Len(arrays[n]) /\ Len(arrays[n]) \in Nat
  BY ElementOfSeq, LenProperties
<1>2. s \in Seq(Peer) /\ Len(s) = Len(arrays[n])
  BY <1>1, FunctionIsSeq
<1>3. arrays' \in Seq(Seq(Peer)) /\ DOMAIN arrays' = DOMAIN arrays
  BY <1>2, ExceptSeq, LenProperties
<1> QED BY <1>2, <1>3 DEF Slice

LEMMA CopyIsSlice ==
    ASSUME NEW w, NEW s \in Slice, NEW t \in Slice
    PROVE  CopyWord(w, s, t) \in Slice
BY DEF CopyWord, Slice

LEMMA ListInit == InitList => ListTypeOK
<1> SUFFICES ASSUME InitList PROVE ListTypeOK
  OBVIOUS
<1>1. promised \in Seq(Peer) /\ arrays = <<promised>> /\ Len(promised) \in Nat
  BY FilesAssumption, LenProperties DEF InitList
<1>2. arrays \in Seq(Seq(Peer)) /\ 1 \in DOMAIN arrays
  BY <1>1
<1>3. list \in Slice
  BY <1>1, <1>2 DEF InitList, LoadedSlice, Slice
<1> QED BY <1>1, <1>2, <1>3 DEF InitList, ListTypeOK

\* What a slice grows to, and the array that append makes for it.
LEMMA GrownIsSlice ==
    ASSUME arrays \in Seq(Seq(Peer)), NEW s \in Slice, NEW n \in Nat, ~Fits(s, n),
           NEW f, \A i \in 1 .. GrownCap(s, n) : f[i] \in Peer,
           arrays' = Append(arrays, [i \in 1 .. GrownCap(s, n) |-> f[i]])
    PROVE  /\ arrays' \in Seq(Seq(Peer)) /\ Slice \subseteq Slice' /\ GrownSlice(s, n) \in Slice'
           /\ \A i \in DOMAIN arrays : arrays'[i] = arrays[i]
           /\ Len(arrays'[Len(arrays) + 1]) = GrownCap(s, n) /\ n <= GrownCap(s, n)
           /\ \A i \in 1 .. GrownCap(s, n) : arrays'[Len(arrays) + 1][i] = f[i]
<1>1. GrownCap(s, n) \in Nat /\ n <= GrownCap(s, n)
  BY DEF GrownCap, Slice, Fits
<1> DEFINE g == [i \in 1 .. GrownCap(s, n) |-> f[i]]
<1>2. g \in Seq(Peer) /\ Len(g) = GrownCap(s, n)
  <2>1. g \in [1 .. GrownCap(s, n) -> Peer]
    OBVIOUS
  <2> HIDE DEF g
  <2> QED BY <1>1, <2>1, FunctionIsSeq
<1>3. \A i \in 1 .. GrownCap(s, n) : g[i] = f[i]
  OBVIOUS
<1>4. arrays' = Append(arrays, g)
  OBVIOUS
<1> HIDE DEF g
<1>5. /\ arrays' \in Seq(Seq(Peer)) /\ DOMAIN arrays' = 1 .. Len(arrays) + 1 /\ Slice \subseteq Slice'
      /\ arrays'[Len(arrays) + 1] = g /\ \A i \in DOMAIN arrays : arrays'[i] = arrays[i]
  BY <1>2, <1>4, ArrayAdded
<1>6. GrownSlice(s, n) \in Slice'
  <2>1. Len(arrays) + 1 \in DOMAIN arrays'
    BY <1>5, LenProperties
  <2> QED BY <1>1, <2>1 DEF GrownSlice, Slice
<1> QED BY <1>1, <1>2, <1>3, <1>5, <1>6

LEMMA GrownPeers ==
    ASSUME arrays \in Seq(Seq(Peer)), NEW s \in Slice, NEW n \in Nat \ {0}, ~Fits(s, n),
           arrays' = Append(arrays, Grown(s, n))
    PROVE  /\ arrays' \in Seq(Seq(Peer)) /\ Slice \subseteq Slice' /\ GrownSlice(s, n) \in Slice'
           /\ \A i \in DOMAIN arrays : arrays'[i] = arrays[i]
           /\ Len(arrays'[Len(arrays) + 1]) = GrownCap(s, n) /\ n <= GrownCap(s, n)
           /\ \A i \in 1 .. n - 1 : arrays'[Len(arrays) + 1][i] = Element(s, i)
<1>1. GrownCap(s, n) \in Nat /\ n <= GrownCap(s, n)
  BY DEF GrownCap, Slice, Fits
<1> DEFINE f == Grown(s, n)
<1>2. \A i \in 1 .. GrownCap(s, n) : f[i] = IF i < n THEN Element(s, i) ELSE Unknown
  BY DEF Grown
<1>3. \A i \in 1 .. GrownCap(s, n) : f[i] \in Peer
  BY <1>1, <1>2, ElementPeer DEF Peer
<1>4. arrays' = Append(arrays, [i \in 1 .. GrownCap(s, n) |-> f[i]])
  BY DEF Grown
<1> HIDE DEF f
<1>5. /\ arrays' \in Seq(Seq(Peer)) /\ Slice \subseteq Slice' /\ GrownSlice(s, n) \in Slice'
      /\ \A i \in DOMAIN arrays : arrays'[i] = arrays[i]
      /\ Len(arrays'[Len(arrays) + 1]) = GrownCap(s, n)
      /\ \A i \in 1 .. GrownCap(s, n) : arrays'[Len(arrays) + 1][i] = f[i]
  BY <1>3, <1>4, GrownIsSlice
<1>6. \A i \in 1 .. n - 1 : i \in 1 .. GrownCap(s, n) /\ f[i] = Element(s, i)
  BY <1>1, <1>2
<1> QED BY <1>1, <1>5, <1>6

\* The steps that only move a request, or that load or store a word.
LEMMA TypeMoves ==
    ASSUME ListTypeOK, NEW r \in Request,
           \/ Find(r) \/ FindNone(r) \/ Load(r) \/ AppendInPlace(r) \/ Update(r)
           \/ GiveUp(r) \/ StoreWord(r)
    PROVE  ListTypeOK'
<1>1. UNCHANGED arrays /\ Slice' = Slice
  BY DEF Find, FindNone, Load, AppendInPlace, Update, GiveUp, StoreWord, Slice
<1>2. UNCHANGED <<ask, promised>> /\ inOrder' \in BOOLEAN
  BY DEF Find, FindNone, Load, AppendInPlace, Update, GiveUp, StoreWord, Stored, ListTypeOK
<1>3. stage' \in [Request -> {"new", "load", "store", "done"}]
  BY DEF Find, FindNone, Load, AppendInPlace, Update, GiveUp, StoreWord, Stored, Begin, MoveTo, ListTypeOK
<1>4. todo' \in [Request -> SUBSET (Words \cup {"peer"})]
  BY DEF Find, FindNone, Load, AppendInPlace, Update, GiveUp, StoreWord, Stored, Begin, ListTypeOK, Words
<1>5. list' \in Slice /\ slice' \in [Request -> Slice]
  <2>1. CASE Load(r) \/ StoreWord(r)
    BY <2>1, CopyIsSlice DEF Load, StoreWord, Stored, ListTypeOK
  <2>2. CASE AppendInPlace(r)
    <3>0. slice[r] \in Slice
      BY DEF ListTypeOK
    <3>1. [slice[r] EXCEPT !.len = @ + 1] \in Slice
      BY <3>0 DEF Slice
    <3> QED BY <2>2, <3>1 DEF AppendInPlace, Begin, ListTypeOK
  <2>3. CASE Find(r) \/ FindNone(r) \/ Update(r) \/ GiveUp(r)
    BY <2>3 DEF Find, FindNone, Update, GiveUp, Begin, ListTypeOK
  <2> QED BY <2>1, <2>2, <2>3
<1> QED BY <1>1, <1>2, <1>3, <1>4, <1>5 DEF ListTypeOK

\* The steps that add an array.
LEMMA TypeAdds ==
    ASSUME ListTypeOK, NEW r \in Request, Reload(r) \/ AppendGrown(r) \/ ShiftGrown(r)
    PROVE  ListTypeOK'
<1> DEFINE s == slice[r]
<1>0. s \in Slice /\ arrays \in Seq(Seq(Peer))
  BY DEF ListTypeOK
<1>1. /\ UNCHANGED <<ask, list>> /\ inOrder' \in BOOLEAN
      /\ stage' \in [Request -> {"new", "load", "store", "done"}]
      /\ todo' \in [Request -> SUBSET (Words \cup {"peer"})]
  <2>1. /\ UNCHANGED <<ask, list>> /\ inOrder' \in BOOLEAN
        /\ stage' = [stage EXCEPT ![r] = "store"]
    BY DEF Reload, AppendGrown, ShiftGrown, Begin, MoveTo, ListTypeOK
  <2>2. \/ todo' = [todo EXCEPT ![r] = Words]
        \/ todo' = [todo EXCEPT ![r] = Words \cup {"peer"}]
    BY DEF Reload, AppendGrown, ShiftGrown, Begin
  <2> QED BY <2>1, <2>2 DEF ListTypeOK
<1>2. ASSUME arrays' \in Seq(Seq(Peer)), Slice \subseteq Slice', promised' \in Seq(Peer),
             NEW t \in Slice', slice' = [slice EXCEPT ![r] = t]
      PROVE  ListTypeOK'
  BY <1>1, <1>2 DEF ListTypeOK
<1>3. CASE Reload(r)
  <2>1. PICK f \in Files : /\ arrays' = Append(arrays, f)
                           /\ slice' = [slice EXCEPT ![r] = LoadedSlice(f, Len(arrays'))]
                           /\ promised' = f
    BY <1>3 DEF Reload
  <2>2. f \in Seq(Peer) /\ Len(f) \in Nat /\ Len(arrays) \in Nat
    BY <1>0, FilesAssumption, LenProperties
  <2>3. /\ arrays' \in Seq(Seq(Peer)) /\ DOMAIN arrays' = 1 .. Len(arrays) + 1 /\ Slice \subseteq Slice'
        /\ arrays' = Append(arrays, f)
    BY <1>0, <2>1, <2>2, ArrayAdded
  <2>4. Len(arrays') = Len(arrays) + 1
    BY <1>0, <2>2, <2>3, AppendProperties
  <2>5. LoadedSlice(f, Len(arrays')) \in Slice'
    BY <2>2, <2>3, <2>4 DEF LoadedSlice, Slice
  <2> QED BY <1>2, <2>1, <2>2, <2>3, <2>5
<1>4. CASE AppendGrown(r)
  <2>1. /\ ~Fits(s, s.len + 1) /\ arrays' = Append(arrays, Grown(s, s.len + 1)) /\ UNCHANGED promised
        /\ slice' = [slice EXCEPT ![r] = GrownSlice(s, s.len + 1)]
    BY <1>4 DEF AppendGrown, Begin
  <2>2. s.len + 1 \in Nat \ {0}
    BY <1>0 DEF Slice
  <2> HIDE DEF s
  <2>3. arrays' \in Seq(Seq(Peer)) /\ Slice \subseteq Slice' /\ GrownSlice(s, s.len + 1) \in Slice'
    BY <1>0, <2>1, <2>2, GrownPeers
  <2> QED BY <1>2, <2>1, <2>3 DEF ListTypeOK
<1>5. CASE ShiftGrown(r)
  <2> DEFINE n == s.len - 1
             f == [i \in 1 .. GrownCap(s, n) |->
                     IF i <= n THEN Without(Content(s), ask[r].index)[i] ELSE Unknown]
  <2>1. /\ ~Fits(s, n) /\ ask[r].index <= s.len /\ ask[r].kind = "delete" /\ UNCHANGED promised
        /\ arrays' = Append(arrays, f) /\ slice' = [slice EXCEPT ![r] = GrownSlice(s, n)]
    BY <1>5 DEF ShiftGrown, Begin, HasIndex
  <2>2. ask[r].index \in Nat \ {0} /\ s.len \in Nat /\ n \in Nat
    BY <1>0, <2>1, AsksAssumption DEF IsAsk, ListTypeOK, Slice
  <2>3. GrownCap(s, n) \in Nat
    BY <1>0, <2>2 DEF GrownCap, Slice
  <2>4. ASSUME NEW i \in 1 .. GrownCap(s, n)
        PROVE  f[i] \in Peer
    <3>1. CASE i <= n
      <4>1. Content(s) \in [1 .. s.len -> Peer]
        BY <1>0, <2>2, ElementPeer DEF Content
      <4>2. Content(s) \in Seq(Peer) /\ Len(Content(s)) = s.len
        BY <2>2, <4>1, FunctionIsSeq
      <4>3. i \in 1 .. Len(Content(s)) - 1
        BY <2>2, <2>3, <3>1, <4>2
      <4>4. Without(Content(s), ask[r].index)[i] =
              IF i < ask[r].index THEN Content(s)[i] ELSE Content(s)[i + 1]
        BY <4>3 DEF Without
      <4>5. i \in 1 .. s.len /\ i + 1 \in 1 .. s.len
        BY <2>2, <4>2, <4>3
      <4>6. Without(Content(s), ask[r].index)[i] \in Peer
        BY <4>1, <4>4, <4>5
      <4> QED BY <3>1, <4>6
    <3>2. CASE ~(i <= n)
      BY <3>2 DEF Peer
    <3> QED BY <3>1, <3>2
  <2>5. arrays' = Append(arrays, [i \in 1 .. GrownCap(s, n) |-> f[i]])
    BY <2>1
  <2> HIDE DEF f, s, n
  <2>6. arrays' \in Seq(Seq(Peer)) /\ Slice \subseteq Slice' /\ GrownSlice(s, n) \in Slice'
    BY <1>0, <2>1, <2>2, <2>4, <2>5, GrownIsSlice
  <2> QED BY <1>2, <2>1, <2>6 DEF ListTypeOK
<1> QED BY <1>3, <1>4, <1>5

\* The list without a peer, and with another one.
LEMMA ListChanged ==
    ASSUME NEW l \in Seq(Peer), NEW i \in 1 .. Len(l), NEW p \in Peer
    PROVE  /\ Without(l, i) \in Seq(Peer) /\ Len(Without(l, i)) = Len(l) - 1
           /\ \A j \in 1 .. Len(l) - 1 : Without(l, i)[j] = IF j < i THEN l[j] ELSE l[j + 1]
           /\ [l EXCEPT ![i] = p] \in Seq(Peer) /\ Len([l EXCEPT ![i] = p]) = Len(l)
           /\ \A j \in 1 .. Len(l) : [l EXCEPT ![i] = p][j] = IF j = i THEN p ELSE l[j]
<1>1. Len(l) \in Nat /\ \A j \in 1 .. Len(l) : l[j] \in Peer
  BY LenProperties, ElementOfSeq
<1>2. Len(l) - 1 \in Nat
  BY <1>1
<1>3. \A j \in 1 .. Len(l) - 1 : Without(l, i)[j] = IF j < i THEN l[j] ELSE l[j + 1]
  BY DEF Without
<1>4. Without(l, i) \in [1 .. Len(l) - 1 -> Peer]
  BY <1>1 DEF Without
<1>5. Without(l, i) \in Seq(Peer) /\ Len(Without(l, i)) = Len(l) - 1
  BY <1>2, <1>4, FunctionIsSeq
<1> QED BY <1>3, <1>5, ExceptSeq, LenProperties

\* The steps that write into an array.
LEMMA ShiftWrites ==
    ASSUME ListTypeOK, NEW r \in Request, Shift(r)
    PROVE  /\ arrays' \in Seq(Seq(Peer)) /\ Slice' = Slice
           /\ ask[r].index \in 1 .. slice[r].len /\ slice[r].len \in Nat
           /\ slice' = [slice EXCEPT ![r] = [slice[r] EXCEPT !.len = @ - 1]]
           /\ [slice[r] EXCEPT !.len = @ - 1] \in Slice
           /\ Len(arrays'[slice[r].at]) = Len(arrays[slice[r].at])
           /\ \A i \in 1 .. Len(arrays[slice[r].at]) : arrays'[slice[r].at][i] =
                 Element(slice[r], IF i \in ask[r].index .. slice[r].len - 1 THEN i + 1 ELSE i)
<1> DEFINE s == slice[r]
           k == ask[r].index
           f == [i \in DOMAIN arrays[s.at] |-> Element(s, IF i \in k .. s.len - 1 THEN i + 1 ELSE i)]
<1>1. s \in Slice /\ arrays \in Seq(Seq(Peer)) /\ s.at \in DOMAIN arrays /\ s.len \in Nat
  BY DEF ListTypeOK, Slice
<1>2. /\ arrays' = [arrays EXCEPT ![s.at] = f] /\ k <= s.len /\ ask[r].kind = "delete"
      /\ slice' = [slice EXCEPT ![r] = [s EXCEPT !.len = @ - 1]]
  BY DEF Shift, Begin, HasIndex
<1>3. k \in Nat \ {0}
  BY <1>2, AsksAssumption DEF IsAsk, ListTypeOK
<1>4. DOMAIN arrays[s.at] = 1 .. Len(arrays[s.at]) /\ Len(arrays[s.at]) \in Nat
  BY <1>1, ElementOfSeq, LenProperties
<1>5. f \in [DOMAIN arrays[s.at] -> Peer]
  BY <1>1, <1>4, ElementPeer
<1>6. \A i \in 1 .. Len(arrays[s.at]) : f[i] = Element(s, IF i \in k .. s.len - 1 THEN i + 1 ELSE i)
  BY <1>4
<1>7. [s EXCEPT !.len = @ - 1] \in Slice
  <2> HIDE DEF s, k, f
  <2>1. s.len - 1 \in Nat
    BY <1>1, <1>2, <1>3
  <2> QED BY <1>1, <2>1 DEF Slice
<1> HIDE DEF f
<1>8. /\ arrays' \in Seq(Seq(Peer)) /\ Slice' = Slice
      /\ arrays'[s.at] = f /\ Len(arrays'[s.at]) = Len(arrays[s.at])
  BY <1>1, <1>2, <1>5, ArrayWritten
<1>9. k \in 1 .. s.len
  BY <1>1, <1>2, <1>3
<1> QED BY <1>1, <1>2, <1>6, <1>7, <1>8, <1>9

LEMMA PeerWrites ==
    ASSUME ListTypeOK, NEW r \in Request, StorePeer(r)
    PROVE  /\ arrays' \in Seq(Seq(Peer)) /\ Slice' = Slice
           /\ Len(arrays'[slice[r].at]) = Len(arrays[slice[r].at])
           /\ \A i \in 1 .. Len(arrays[slice[r].at]) : arrays'[slice[r].at][i] =
                 IF i = Place(r) THEN r ELSE arrays[slice[r].at][i]
<1> DEFINE n == slice[r].at
           f == [i \in DOMAIN arrays[n] |-> IF i = Place(r) THEN r ELSE arrays[n][i]]
<1>1. arrays \in Seq(Seq(Peer)) /\ n \in DOMAIN arrays
  BY DEF ListTypeOK, Slice
<1>2. arrays' = [arrays EXCEPT ![n] = f]
  BY DEF StorePeer
<1>3. arrays[n] \in Seq(Peer) /\ DOMAIN arrays[n] = 1 .. Len(arrays[n])
  BY <1>1, ElementOfSeq, LenProperties
<1>4. f \in [DOMAIN arrays[n] -> Peer]
  BY <1>3, ElementOfSeq DEF Peer
<1>5. \A i \in 1 .. Len(arrays[n]) : f[i] = IF i = Place(r) THEN r ELSE arrays[n][i]
  BY <1>3
<1> HIDE DEF f
<1>6. /\ arrays' \in Seq(Seq(Peer)) /\ Slice' = Slice
      /\ arrays'[n] = f /\ Len(arrays'[n]) = Len(arrays[n])
  BY <1>1, <1>2, <1>4, ArrayWritten
<1> QED BY <1>5, <1>6
-----------------------------------------------------------------------------
(* PeerList: until two requests meet at the list, the words of the list,   *)
(* or of the slice which is about to replace it, belong together and show  *)
(* the list that was promised.                                             *)

\* s lies within an array whose size is its capacity.
Within(s) == s.len <= s.cap /\ s.cap = Len(arrays[s.at])

Shows(s) ==
    /\ Within(s) /\ Len(promised) = s.len
    /\ \A i \in 1 .. s.len : arrays[s.at][i] = promised[i]

\* The slice of r shows it but for the peer that has yet to be stored.
Waits(r) ==
    \/ /\ ask[r].kind = "add" /\ Within(slice[r]) /\ slice[r].len = Len(promised) + 1
       /\ \A i \in 1 .. Len(promised) : arrays[slice[r].at][i] = promised[i]
    \/ ask[r].kind = "update" /\ ask[r].index \in 1 .. slice[r].len /\ Shows(slice[r])

\* Slices s and t have words w in common.
Agree(s, t, w) ==
    ("at" \in w => s.at = t.at) /\ ("len" \in w => s.len = t.len) /\ ("cap" \in w => s.cap = t.cap)

Loading(r) == Shows(list) /\ Agree(slice[r], list, Words \ todo[r])

Storing(r) ==
    /\ Agree(list, slice[r], Words \ todo[r]) /\ todo[r] # {}
    /\ IF "peer" \in todo[r] THEN Waits(r) ELSE Shows(slice[r])

OrderInv ==
    /\ \A q, r \in AtList : q = r
    /\ AtList = {} => Shows(list)
    /\ \A r \in Request : /\ stage[r] = "load" => Loading(r)
                          /\ stage[r] = "store" => Storing(r)

\* A step of a request that is alone at the list, or comes to it when it is empty.
LEMMA Alone ==
    ASSUME ListTypeOK, OrderInv, NEW r \in Request, r \in AtList \/ AtList = {},
           NEW l, stage' = [stage EXCEPT ![r] = l],
           l = "load" => Loading(r)', l = "store" => Storing(r)',
           l \notin {"load", "store"} => Shows(list)'
    PROVE  OrderInv'
<1>1. \A q \in Request \ {r} : stage'[q] = stage[q] /\ stage[q] \notin {"load", "store"}
  BY DEF OrderInv, AtList, ListTypeOK
<1>2. stage'[r] = l
  BY DEF ListTypeOK
<1>3. AtList' \subseteq {r} /\ (AtList' = {} => l \notin {"load", "store"})
  BY <1>1, <1>2 DEF AtList
<1> QED BY <1>1, <1>2, <1>3 DEF OrderInv

\* Two slices that agree in every word are the same.
LEMMA AllWords ==
    ASSUME NEW s \in Slice, NEW t \in Slice, NEW w, Words \subseteq w, Agree(s, t, w)
    PROVE  s = t
BY DEF Slice, Agree, Words

LEMMA OrderLoads ==
    ASSUME ListTypeOK, OrderInv, NEW r \in Request, (Find(r) /\ AtList = {}) \/ Load(r)
    PROVE  OrderInv'
<1>1. CASE Find(r) /\ AtList = {}
  <2>1. /\ stage' = [stage EXCEPT ![r] = "load"] /\ todo'[r] = Words
        /\ UNCHANGED <<list, arrays, slice, promised>>
    BY <1>1 DEF Find, MoveTo, ListTypeOK
  <2>2. Loading(r)'
    BY <1>1, <2>1 DEF Loading, OrderInv, Shows, Within, Agree, Words
  <2> QED BY <1>1, <2>1, <2>2, Alone
<1>2. CASE Load(r)
  <2>1. PICK w \in todo[r] : /\ slice' = [slice EXCEPT ![r] = CopyWord(w, list, @)]
                             /\ todo' = [todo EXCEPT ![r] = @ \ {w}]
    BY <1>2 DEF Load
  <2>2. /\ stage[r] = "load" /\ stage' = [stage EXCEPT ![r] = "load"] /\ r \in AtList
        /\ UNCHANGED <<list, arrays, promised>>
    BY <1>2 DEF Load, ListTypeOK, AtList
  <2>3. slice'[r] = CopyWord(w, list, slice[r]) /\ todo'[r] = todo[r] \ {w}
    BY <2>1 DEF ListTypeOK
  <2>4. Agree(slice'[r], list, Words \ todo'[r])
    BY <2>2, <2>3 DEF OrderInv, Loading, Agree, CopyWord
  <2>5. Loading(r)'
    BY <2>2, <2>4 DEF OrderInv, Loading, Shows, Within, Agree
  <2> QED BY <2>2, <2>5, Alone
<1> QED BY <1>1, <1>2

\* What a request has loaded when it has loaded all words.
LEMMA HasLoaded ==
    ASSUME ListTypeOK, OrderInv, NEW r \in Request, stage[r] = "load", todo[r] = {}
    PROVE  /\ r \in AtList /\ slice[r] = list /\ Shows(slice[r])
           /\ slice[r] \in Slice /\ slice[r].at \in DOMAIN arrays
           /\ slice[r].len \in Nat /\ slice[r].cap \in Nat
<1>1. Loading(r) /\ slice[r] \in Slice /\ list \in Slice
  BY DEF OrderInv, ListTypeOK
<1>2. slice[r] = list
  BY <1>1, AllWords DEF Loading
<1> QED BY <1>1, <1>2 DEF Loading, AtList, Slice

LEMMA OrderBegins ==
    ASSUME ListTypeOK, OrderInv, NEW r \in Request, AppendInPlace(r) \/ Update(r) \/ GiveUp(r)
    PROVE  OrderInv'
<1>1. /\ stage[r] = "load" /\ todo[r] = {} /\ UNCHANGED <<list, arrays, ask, promised>>
  BY DEF AppendInPlace, Update, GiveUp
<1>2. /\ r \in AtList /\ slice[r] = list /\ Shows(slice[r])
      /\ slice[r].len \in Nat /\ slice[r].cap \in Nat
  BY <1>1, HasLoaded
<1>3. CASE AppendInPlace(r)
  <2>1. /\ slice'[r] = [slice[r] EXCEPT !.len = @ + 1] /\ todo'[r] = {"len", "peer"}
        /\ stage' = [stage EXCEPT ![r] = "store"] /\ slice[r].len + 1 <= slice[r].cap
        /\ ask[r].kind = "add"
    BY <1>3 DEF AppendInPlace, Begin, MoveTo, Fits, ListTypeOK
  <2>2. /\ slice'[r].at = list.at /\ slice'[r].cap = list.cap /\ slice'[r].len = list.len + 1
    BY <1>2, <2>1 DEF ListTypeOK, Slice
  <2>3. Agree(list', slice'[r], Words \ todo'[r])
    BY <1>1, <2>1, <2>2 DEF Agree
  <2>4. Waits(r)'
    BY <1>1, <1>2, <2>1, <2>2 DEF Waits, Shows, Within
  <2>5. Storing(r)'
    BY <2>1, <2>3, <2>4 DEF Storing, Agree
  <2> QED BY <1>2, <2>1, <2>5, Alone
<1>4. CASE Update(r)
  <2>1. /\ slice'[r] = slice[r] /\ todo'[r] = {"peer"}
        /\ stage' = [stage EXCEPT ![r] = "store"] /\ ask[r].index <= slice[r].len
        /\ ask[r].kind = "update"
    BY <1>4 DEF Update, Begin, HasIndex, MoveTo, ListTypeOK
  <2>2. ask[r].index \in 1 .. slice[r].len
    BY <1>2, <2>1, AsksAssumption DEF IsAsk, ListTypeOK
  <2>3. Waits(r)'
    BY <1>1, <1>2, <2>1, <2>2 DEF Waits, Shows, Within
  <2>4. Storing(r)'
    BY <1>1, <1>2, <2>1, <2>3 DEF Storing, Agree
  <2> QED BY <1>2, <2>1, <2>4, Alone
<1>5. CASE GiveUp(r)
  <2>1. stage' = [stage EXCEPT ![r] = "done"]
    BY <1>5 DEF GiveUp, MoveTo
  <2>2. Shows(list)'
    BY <1>1, <1>2 DEF Shows, Within
  <2> QED BY <1>2, <2>1, <2>2, Alone
<1> QED BY <1>3, <1>4, <1>5

LEMMA OrderAppends ==
    ASSUME ListTypeOK, OrderInv, NEW r \in Request, AppendGrown(r)
    PROVE  OrderInv'
<1> DEFINE s == slice[r]
<1>1. /\ stage[r] = "load" /\ todo[r] = {} /\ UNCHANGED <<list, ask, promised>>
      /\ ~Fits(s, s.len + 1) /\ arrays' = Append(arrays, Grown(s, s.len + 1))
      /\ ask[r].kind = "add"
      /\ slice'[r] = GrownSlice(s, s.len + 1) /\ todo'[r] = Words \cup {"peer"}
      /\ stage' = [stage EXCEPT ![r] = "store"]
  BY DEF AppendGrown, Begin, MoveTo, ListTypeOK
<1>2. r \in AtList /\ Shows(s) /\ s \in Slice /\ s.len \in Nat /\ s.len + 1 \in Nat \ {0}
  BY <1>1, HasLoaded
<1>3. arrays \in Seq(Seq(Peer))
  BY DEF ListTypeOK
<1> HIDE DEF s
<1>4. /\ Len(arrays'[Len(arrays) + 1]) = GrownCap(s, s.len + 1) /\ s.len + 1 <= GrownCap(s, s.len + 1)
      /\ \A i \in 1 .. s.len + 1 - 1 : arrays'[Len(arrays) + 1][i] = Element(s, i)
  BY <1>1, <1>2, <1>3, GrownPeers
<1>5. \A i \in 1 .. s.len : Element(s, i) = promised[i]
  BY <1>2 DEF Shows, Within, Element
<1>6. slice'[r].at = Len(arrays) + 1 /\ slice'[r].len = s.len + 1
      /\ slice'[r].cap = GrownCap(s, s.len + 1)
  BY <1>1 DEF GrownSlice
<1>7. Within(slice[r])'
  BY <1>4, <1>6 DEF Within
<1>8. Waits(r)'
  BY <1>1, <1>2, <1>4, <1>5, <1>6, <1>7 DEF Waits, Shows
<1>9. Storing(r)'
  BY <1>1, <1>8 DEF Storing, Agree
<1> QED BY <1>1, <1>2, <1>9, Alone

\* A reload begins with an array that no other slice has.
LEMMA OrderReloads ==
    ASSUME ListTypeOK, NEW r \in Request, Reload(r), AtList = {}
    PROVE  OrderInv' /\ promised' \in Seq(Peer)
<1>1. PICK f \in Files : /\ arrays' = Append(arrays, f) /\ promised' = f
                         /\ slice' = [slice EXCEPT ![r] = LoadedSlice(f, Len(arrays'))]
  BY DEF Reload
<1>2. stage' = [stage EXCEPT ![r] = "store"] /\ todo'[r] = Words
  BY DEF Reload, MoveTo, ListTypeOK
<1>3. arrays \in Seq(Seq(Peer)) /\ f \in Seq(Peer) /\ Len(f) \in Nat
  BY FilesAssumption, LenProperties DEF ListTypeOK
<1>4. Len(arrays') = Len(arrays) + 1 /\ arrays'[Len(arrays) + 1] = f
  BY <1>1, <1>3, AppendProperties
<1>5. slice'[r] = [at |-> Len(arrays) + 1, len |-> Len(f), cap |-> Len(f)]
  BY <1>1, <1>4 DEF LoadedSlice, ListTypeOK
<1>6. Shows(slice[r])'
  BY <1>1, <1>3, <1>4, <1>5 DEF Shows, Within
<1>7. "peer" \notin todo'[r] /\ todo'[r] # {}
  BY <1>2 DEF Words
<1>8. Storing(r)'
  BY <1>2, <1>6, <1>7 DEF Storing, Agree
<1>9. /\ stage'[r] = "store" /\ \A q \in Request \ {r} : stage'[q] \notin {"load", "store"}
  BY <1>2 DEF AtList, ListTypeOK
<1> QED BY <1>1, <1>3, <1>8, <1>9 DEF OrderInv, AtList

LEMMA OrderShifts ==
    ASSUME ListTypeOK, OrderInv, inOrder, NEW r \in Request, Shift(r) \/ ShiftGrown(r)
    PROVE  OrderInv' /\ promised' \in Seq(Peer)
<1> DEFINE s == slice[r]
           k == ask[r].index
<1>1. stage[r] = "load" /\ todo[r] = {}
  BY DEF Shift, ShiftGrown
<1>2. /\ r \in AtList /\ s = list /\ Shows(s) /\ s \in Slice /\ s.at \in DOMAIN arrays
      /\ s.len \in Nat /\ s.cap \in Nat
  BY <1>1, HasLoaded
<1>3. Shift(r)
  <2>1. Fits(s, s.len - 1)
    BY <1>2 DEF Fits, Shows, Within
  <2> QED BY <2>1 DEF ShiftGrown
<1>4. /\ UNCHANGED list /\ todo'[r] = Words /\ stage' = [stage EXCEPT ![r] = "store"]
      /\ promised' = Without(promised, k)
  BY <1>3 DEF Shift, Begin, MoveTo, ListTypeOK
<1>5. /\ k \in 1 .. s.len /\ slice' = [slice EXCEPT ![r] = [s EXCEPT !.len = @ - 1]]
      /\ Len(arrays'[s.at]) = Len(arrays[s.at])
      /\ \A i \in 1 .. Len(arrays[s.at]) :
           arrays'[s.at][i] = Element(s, IF i \in k .. s.len - 1 THEN i + 1 ELSE i)
  BY <1>3, ShiftWrites
<1>6. slice'[r].at = s.at /\ slice'[r].len = s.len - 1 /\ slice'[r].cap = s.cap
  BY <1>2, <1>5 DEF ListTypeOK, Slice
<1>7. promised \in Seq(Peer) /\ Len(promised) = s.len /\ Within(s)
      /\ \A i \in 1 .. s.len : arrays[s.at][i] = promised[i]
  BY <1>2 DEF ListTypeOK, Shows
<1> HIDE DEF s, k
<1>8. \E p : p \in Peer
  BY DEF Peer
<1>9. /\ promised' \in Seq(Peer) /\ Len(promised') = s.len - 1
      /\ \A j \in 1 .. s.len - 1 : promised'[j] = IF j < k THEN promised[j] ELSE promised[j + 1]
  BY <1>4, <1>5, <1>7, <1>8, ListChanged
<1>10. ASSUME NEW i \in 1 .. s.len - 1
       PROVE  arrays'[s.at][i] = promised'[i]
  <2>1. i \in 1 .. Len(arrays[s.at]) /\ i + 1 \in 1 .. s.len /\ i \in 1 .. s.len /\ s.len <= Len(arrays[s.at])
    BY <1>2, <1>7, <1>10 DEF Within
  <2>2. CASE i < k
    <3>1. i \notin k .. s.len - 1
      BY <2>2, <1>5, <2>1, <1>2
    <3>2. arrays'[s.at][i] = Element(s, i)
      BY <1>5, <2>1, <3>1
    <3> QED BY <1>7, <1>9, <2>1, <2>2, <3>2, <1>10 DEF Element
  <2>3. CASE ~(i < k)
    <3>1. i \in k .. s.len - 1
      BY <2>3, <1>5, <1>2, <1>10
    <3>2. arrays'[s.at][i] = Element(s, i + 1)
      BY <1>5, <2>1, <3>1
    <3>3. i + 1 <= Len(arrays[s.at])
      BY <1>2, <2>1, <1>7 DEF Within
    <3> QED BY <1>7, <1>9, <2>1, <2>3, <3>2, <3>3, <1>10 DEF Element
  <2> QED BY <2>2, <2>3
<1>11. Shows(slice[r])'
  BY <1>2, <1>5, <1>6, <1>7, <1>9, <1>10 DEF Shows, Within
<1>12. Storing(r)'
  BY <1>4, <1>11 DEF Storing, Agree, Words
<1> QED BY <1>2, <1>4, <1>9, <1>12, Alone

\* The last word that is stored makes the list the slice.
LEMMA OrderStores ==
    ASSUME ListTypeOK, OrderInv, NEW r \in Request, NEW w \in todo[r], stage[r] = "store",
           Stored(r, w), list' \in Slice', slice[r] \in Slice',
           Agree(list', slice[r], Words \ (todo[r] \ {w})),
           IF "peer" \in todo[r] \ {w} THEN Waits(r)' ELSE Shows(slice[r])'
    PROVE  OrderInv'
<1>1. r \in AtList /\ todo'[r] = todo[r] \ {w} /\ UNCHANGED slice
  BY DEF AtList, Stored, ListTypeOK
<1>2. CASE todo[r] = {w}
  <2>1. stage' = [stage EXCEPT ![r] = "done"]
    BY <1>2 DEF Stored, MoveTo
  <2>2. list' = slice[r]
    BY <1>2, AllWords DEF Slice, Agree, Words
  <2>3. Shows(list)'
    BY <1>1, <1>2, <2>2 DEF Shows, Within
  <2> QED BY <1>1, <2>1, <2>3, Alone
<1>3. CASE todo[r] # {w}
  <2>1. stage' = [stage EXCEPT ![r] = "store"] /\ todo'[r] # {}
    BY <1>1, <1>3 DEF Stored, MoveTo
  <2>2. Storing(r)'
    BY <1>1, <2>1 DEF Storing, Agree
  <2> QED BY <1>1, <2>1, <2>2, Alone
<1> QED BY <1>2, <1>3

LEMMA OrderWords ==
    ASSUME ListTypeOK, OrderInv, NEW r \in Request, StoreWord(r)
    PROVE  OrderInv'
<1>1. PICK w \in todo[r] \cap Words : list' = CopyWord(w, slice[r], list) /\ Stored(r, w)
  BY DEF StoreWord
<1>2. stage[r] = "store" /\ UNCHANGED <<arrays, promised, slice, ask>> /\ Slice' = Slice
  BY <1>1 DEF StoreWord, Stored, Slice
<1>3. list' \in Slice /\ slice[r] \in Slice
  BY <1>1, CopyIsSlice DEF ListTypeOK
<1>4. Storing(r)
  BY <1>2 DEF OrderInv
<1>5. Agree(list', slice[r], Words \ (todo[r] \ {w}))
  BY <1>1, <1>4 DEF Storing, Agree, CopyWord, Words
<1>6. w # "peer"
  BY <1>1 DEF Words
<1>7. IF "peer" \in todo[r] \ {w} THEN Waits(r)' ELSE Shows(slice[r])'
  BY <1>2, <1>4, <1>6 DEF Storing, Waits, Shows, Within
<1> QED BY <1>1, <1>2, <1>3, <1>5, <1>7, OrderStores

LEMMA OrderPeers ==
    ASSUME ListTypeOK, OrderInv, inOrder, NEW r \in Request, StorePeer(r)
    PROVE  OrderInv' /\ promised' \in Seq(Peer)
<1> DEFINE s == slice[r]
<1>1. /\ stage[r] = "store" /\ "peer" \in todo[r] /\ Stored(r, "peer")
      /\ UNCHANGED <<list, slice, ask>>
  BY DEF StorePeer, Stored
<1>2. /\ arrays' \in Seq(Seq(Peer)) /\ Slice' = Slice /\ Len(arrays'[s.at]) = Len(arrays[s.at])
      /\ \A i \in 1 .. Len(arrays[s.at]) : arrays'[s.at][i] = IF i = Place(r) THEN r ELSE arrays[s.at][i]
  BY PeerWrites
<1>3. /\ s \in Slice /\ s.len \in Nat /\ s.cap \in Nat /\ promised \in Seq(Peer) /\ Len(promised) \in Nat
      /\ r \in Peer /\ list \in Slice
  BY LenProperties DEF ListTypeOK, Slice, Peer
<1>4. Agree(list, s, Words \ todo[r]) /\ Waits(r)
  BY <1>1 DEF OrderInv, Storing
<1>5. promised' \in Seq(Peer) /\ Shows(slice[r])'
  <2>1. CASE ask[r].kind = "add"
    <3>1. /\ Within(s) /\ s.len = Len(promised) + 1 /\ Place(r) = s.len
          /\ \A i \in 1 .. Len(promised) : arrays[s.at][i] = promised[i]
      BY <1>4, <2>1 DEF Waits, Place
    <3>2. promised' = Append(promised, r)
      BY <2>1 DEF StorePeer
    <3> HIDE DEF s
    <3>3. /\ promised' \in Seq(Peer) /\ Len(promised') = s.len /\ promised'[s.len] = r
          /\ \A i \in 1 .. s.len - 1 : promised'[i] = promised[i]
      BY <1>3, <3>1, <3>2, AppendProperties
    <3>4. ASSUME NEW i \in 1 .. s.len
          PROVE  arrays'[s.at][i] = promised'[i]
      <4>1. i \in 1 .. Len(arrays[s.at])
        BY <1>3, <3>1, <3>4 DEF Within
      <4>2. CASE i = s.len
        BY <1>2, <3>1, <3>3, <4>1, <4>2
      <4>3. CASE i # s.len
        <5>1. i \in 1 .. Len(promised) /\ i \in 1 .. s.len - 1
          BY <1>3, <3>1, <3>4, <4>3
        <5> QED BY <1>2, <3>1, <3>3, <4>1, <4>3, <5>1
      <4> QED BY <4>2, <4>3
    <3>5. Shows(s)'
      BY <1>1, <1>2, <3>1, <3>3, <3>4 DEF Shows, Within, s
    <3> QED BY <3>3, <3>5 DEF s
  <2>2. CASE ask[r].kind # "add"
    <3>1. ask[r].index \in 1 .. s.len /\ Shows(s) /\ Place(r) = ask[r].index
      BY <1>4, <2>2 DEF Waits, Place
    <3>2. promised' = [promised EXCEPT ![ask[r].index] = r]
      BY <2>2 DEF StorePeer
    <3> HIDE DEF s
    <3>3. Within(s) /\ Len(promised) = s.len /\ \A i \in 1 .. s.len : arrays[s.at][i] = promised[i]
      BY <3>1 DEF Shows
    <3>4. /\ promised' \in Seq(Peer) /\ Len(promised') = s.len
          /\ \A i \in 1 .. s.len : promised'[i] = IF i = ask[r].index THEN r ELSE promised[i]
      <4> DEFINE k == ask[r].index
      <4>1. k \in 1 .. Len(promised)
        BY <3>1, <3>3
      <4> HIDE DEF k
      <4>2. LET p == [promised EXCEPT ![k] = r]
            IN  /\ p \in Seq(Peer) /\ Len(p) = Len(promised)
                /\ \A i \in 1 .. Len(promised) : p[i] = IF i = k THEN r ELSE promised[i]
        BY <1>3, <4>1, ListChanged
      <4> QED BY <3>2, <3>3, <4>2 DEF k
    <3>5. \A i \in 1 .. s.len : i \in 1 .. Len(arrays[s.at])
      BY <1>3, <3>3 DEF Within
    <3>6. \A i \in 1 .. s.len : arrays'[s.at][i] = promised'[i]
      BY <1>2, <3>1, <3>3, <3>4, <3>5
    <3>7. Shows(s)'
      BY <1>1, <1>2, <3>3, <3>4, <3>6 DEF Shows, Within, s
    <3> QED BY <3>4, <3>7 DEF s
  <2> QED BY <2>1, <2>2
<1>6. Agree(list', slice[r], Words \ (todo[r] \ {"peer"}))
  BY <1>1, <1>4 DEF Agree, Words
<1> QED BY <1>1, <1>2, <1>3, <1>5, <1>6, OrderStores

ListInv == ListTypeOK /\ (inOrder => OrderInv)

LEMMA ListInvInit == InitList => ListInv
<1> SUFFICES ASSUME InitList PROVE ListInv
  OBVIOUS
<1>1. /\ promised \in Seq(Peer) /\ arrays = <<promised>>
      /\ list = [at |-> 1, len |-> Len(promised), cap |-> Len(promised)]
  BY FilesAssumption DEF InitList, LoadedSlice
<1>2. Shows(list)
  BY <1>1, LenProperties DEF Shows, Within
<1>3. \A r \in Request : stage[r] = "new"
  BY DEF InitList
<1> QED BY <1>2, <1>3, ListInit DEF ListInv, OrderInv, AtList

LEMMA ListInvStep == ListInv /\ [NextList]_lvars => ListInv'
<1> SUFFICES ASSUME ListInv, [NextList]_lvars PROVE ListInv'
  OBVIOUS
<1>0. ListTypeOK /\ (inOrder => OrderInv)
  BY DEF ListInv
<1>1. ASSUME NEW r \in Request, Find(r)
      PROVE  ListInv'
  BY <1>0, <1>1, TypeMoves, OrderLoads DEF ListInv, Find
<1>2. ASSUME NEW r \in Request, FindNone(r)
      PROVE  ListInv'
  <2>1. /\ UNCHANGED <<list, arrays, ask, slice, todo, inOrder, promised>>
        /\ stage[r] = "new" /\ stage' = [stage EXCEPT ![r] = "done"]
    BY <1>2 DEF FindNone, MoveTo
  <2>2. AtList' = AtList /\ \A q \in Request : stage'[q] \in {"load", "store"} => stage'[q] = stage[q]
    BY <1>0, <2>1 DEF AtList, ListTypeOK
  <2>3. OrderInv => OrderInv'
    BY <2>1, <2>2 DEF OrderInv, Loading, Storing, Waits, Shows, Within, Agree
  <2> QED BY <1>0, <1>2, <2>1, <2>3, TypeMoves DEF ListInv
<1>3. ASSUME NEW r \in Request, Load(r) \/ AppendInPlace(r) \/ Update(r) \/ GiveUp(r) \/ StoreWord(r)
      PROVE  ListInv'
  <2>1. UNCHANGED inOrder
    BY <1>3 DEF Load, AppendInPlace, Update, GiveUp, StoreWord, Stored
  <2> QED BY <1>0, <1>3, <2>1, TypeMoves, OrderLoads, OrderBegins, OrderWords DEF ListInv
<1>4. ASSUME NEW r \in Request, Reload(r)
      PROVE  ListInv'
  <2>1. inOrder' = (AtList = {})
    BY <1>4 DEF Reload
  <2> QED BY <1>0, <1>4, <2>1, TypeAdds, OrderReloads DEF ListInv
<1>5. ASSUME NEW r \in Request, AppendGrown(r)
      PROVE  ListInv'
  BY <1>0, <1>5, TypeAdds, OrderAppends DEF ListInv, AppendGrown
<1>6. ASSUME NEW r \in Request, ShiftGrown(r)
      PROVE  ListInv'
  BY <1>0, <1>6, TypeAdds, OrderShifts DEF ListInv, ShiftGrown
<1>7. ASSUME NEW r \in Request, Shift(r) \/ StorePeer(r)
      PROVE  ListInv'
  <2>1. UNCHANGED inOrder /\ (~inOrder => UNCHANGED promised)
    BY <1>7 DEF Shift, StorePeer, Stored
  <2>2. promised' \in Seq(Peer) /\ (inOrder' => OrderInv')
    BY <1>0, <1>7, <2>1, OrderShifts, OrderPeers DEF ListTypeOK
  <2>3. /\ arrays' \in Seq(Seq(Peer)) /\ Slice' = Slice /\ UNCHANGED <<list, ask>>
        /\ slice' \in [Request -> Slice]
    <3>1. CASE Shift(r)
      <4>1. /\ arrays' \in Seq(Seq(Peer)) /\ Slice' = Slice
            /\ slice' = [slice EXCEPT ![r] = [slice[r] EXCEPT !.len = @ - 1]]
            /\ [slice[r] EXCEPT !.len = @ - 1] \in Slice
        BY <1>0, <3>1, ShiftWrites
      <4>2. UNCHANGED <<list, ask>> /\ slice \in [Request -> Slice]
        BY <1>0, <3>1 DEF Shift, ListTypeOK
      <4> QED BY <4>1, <4>2
    <3>2. CASE StorePeer(r)
      <4>1. arrays' \in Seq(Seq(Peer)) /\ Slice' = Slice
        BY <1>0, <3>2, PeerWrites
      <4> QED BY <1>0, <3>2, <4>1 DEF StorePeer, Stored, ListTypeOK
    <3> QED BY <1>7, <3>1, <3>2
  <2>4. /\ stage' \in [Request -> {"new", "load", "store", "done"}]
        /\ todo' \in [Request -> SUBSET (Words \cup {"peer"})]
    BY <1>0, <1>7 DEF Shift, StorePeer, Stored, Begin, MoveTo, ListTypeOK
  <2>5. ListTypeOK'
    BY <1>0, <2>1, <2>2, <2>3, <2>4 DEF ListTypeOK
  <2> QED BY <2>2, <2>5 DEF ListInv
<1>8. CASE UNCHANGED lvars
  <2>1. UNCHANGED <<list, arrays, stage, ask, slice, todo, inOrder, promised>>
    BY <1>8 DEF lvars, request
  <2> QED BY <1>0, <2>1 DEF ListInv, ListTypeOK, Slice, OrderInv, AtList, Loading, Storing, Waits,
                            Shows, Within, Agree
<1> QED BY <1>1, <1>2, <1>3, <1>4, <1>5, <1>6, <1>7, <1>8 DEF NextList

\* However requests interleave at the list, every slice names an array there is and its
\* length and capacity are never negative, whichever words have met in it: indices are
\* checked against the words that are used.
THEOREM ListTypeCorrect == ListSpec => []ListTypeOK
<1>1. ListInv => ListTypeOK
  BY DEF ListInv
<1> QED BY <1>1, ListInvInit, ListInvStep, PTL DEF ListSpec

\* Until two requests meet at the list, and again from a reload on that nobody meets,
\* it holds what the requests make of it one after another, in a slice which append
\* can rely on: for any number of requests, any lists in the file and any indices.
THEOREM PeersStayInOrder == ListSpec => []PeersInOrder
<1>1. ListInv => PeersInOrder
  <2> SUFFICES ASSUME ListInv, inOrder, AtList = {}
               PROVE  Content(list) = promised /\ list.len <= list.cap /\ list.cap = Len(arrays[list.at])
    BY DEF PeersInOrder
  <2>1. Shows(list) /\ promised \in Seq(Peer) /\ list.len \in Nat
    BY DEF ListInv, OrderInv, ListTypeOK, Slice
  <2>2. DOMAIN promised = 1 .. list.len /\ \A i \in 1 .. list.len : Element(list, i) = promised[i]
    BY <2>1, LenProperties DEF Shows, Within, Element
  <2>3. Content(list) = promised
    <3>1. promised = [i \in 1 .. list.len |-> promised[i]]
      BY <2>1, <2>2
    <3> QED BY <2>2, <3>1 DEF Content
  <2> QED BY <2>1, <2>3 DEF Shows, Within
<1> QED BY <1>1, ListInvInit, ListInvStep, PTL DEF ListSpec
=============================================================================
