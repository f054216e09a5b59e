---------------------------- MODULE ConfigStore ----------------------------
(***************************************************************************)
(* The configuration in memory and on disk: the handlers of                *)
(* internal/webapi/server.go that edit, save and reload it, and what a     *)
(* crash of the process or of the machine leaves behind.                   *)
(*                                                                         *)
(* Every request has its goroutine.  Handlers write the shared             *)
(* configuration field by field without its mutex; saveConfig is           *)
(* serialised by Server.mu; Reload reads the file, then assigns under the  *)
(* configuration's own mutex, which only ToYAML takes besides.  A          *)
(* statement that touches the configuration is one step, but for those on  *)
(* the list of peers: its words and elements are stored one by one, and    *)
(* PeerList says what becomes of them.  Here each is a write of one field. *)
(***************************************************************************)
EXTENDS ConfigFields, Integers, FiniteSets

CONSTANTS
    None,           \* no request, no file, no data
    Client,         \* clients of the API; each has one request at a time
    Requests,       \* the requests they make
    FirstFile,      \* the fields of the file the program is first started with
    MaxRequests,    \* bound: requests
    MaxCrashes      \* bound: crashes and power losses

ASSUME FirstFileAssumption == FirstFile \in Config /\ Valid(Loaded(FirstFile))
ASSUME ConfigBoundAssumption == MaxRequests \in Nat /\ MaxCrashes \in Nat

\* A request that decodes: a section with values for some of its fields, or an
\* operation on the list of peers, which takes one store or more.
IsRequest(r) ==
    /\ r.kind \in {"section", "peers", "reload"}
    /\ r.kind = "section" =>
         r.section \in Sections /\ \A f \in Field \cap DOMAIN r.set : r.set[f] \in Settable(f)
    /\ r.kind = "peers" => r.stores \in Nat \ {0}

ASSUME RequestsAssumption == \A r \in Requests : IsRequest(r)

VARIABLES
    up,         \* the program runs
    mem,        \* services.Config, without its list of peers
    ver,        \* history: the number of the last write of each field in mem
    written,    \* history: the number of writes of each field so far
    file,       \* the configuration file
    older,      \* the files that power loss may bring back: the directory is not synced
    temp,       \* temp[c]: the temporary file of c's saveConfig
    data,       \* data[c]: what ToYAML has serialised for it
    savers,     \* clients whose requests hold Server.mu
    req, pc,    \* req[c], pc[c]: the request of c and where its handler is
    at,         \* at[c]: the next field to look at, or the next store of the list
    seen,       \* seen[c]: a local of the handler: the file it has loaded
    mine,       \* history: mine[c], the writes made for c's request
    acked,      \* history: writes whose clients were told of success
    undone,     \* history: writes that a reload or a power loss threw away
    apart,      \* history: fields that a request which failed has left in memory,
                \* or in which a reload crossed a save, and no save since has caught up
    requests, crashes

memory == <<mem, ver, written>>
disk == <<file, older>>
saving == <<temp, data, savers>>
handler == <<req, pc, at, seen, mine>>
history == <<acked, undone, apart>>
bounds == <<requests, crashes>>
vars == <<up, memory, disk, saving, handler, history, bounds>>

Key == Field \cup {"ntp.upstream_peers"}
PeersKey == "ntp.upstream_peers"
Write == Key \X Nat

\* Of the list of peers the number of its last write is all that is kept.
Snapshot == [val |-> mem, ver |-> ver]

File == [val : Config, ver : [Key -> Nat], state : {"synced", "unsynced", "torn"}]

\* Load succeeds.
Loads(f) == f.state # "torn" /\ Valid(Loaded(f.val))

\* Places in saveConfig, and those where ToYAML has been called.
SavePC == {"create", "marshal", "write", "sync", "chmod", "rename"}
Marshalled == {"write", "sync", "chmod", "rename"}

TypeOK ==
    /\ up \in BOOLEAN
    /\ mem \in Config
    /\ ver \in [Key -> Nat] /\ written \in [Key -> Nat]
    /\ \A k \in Key : ver[k] <= written[k]
    /\ file \in File /\ older \subseteq File
    /\ temp \in [Client -> {None, "empty", "written", "synced"}]
    /\ savers \subseteq Client
    /\ pc \in [Client -> {"idle", "edit", "assign", "save", "reply"} \cup SavePC]
    /\ \A c \in Client : pc[c] \in SavePC <=> c \in savers
    /\ \A c \in Client : mine[c] \subseteq Write
    /\ acked \subseteq Write /\ undone \subseteq Write /\ apart \subseteq Key
    /\ requests \in 0 .. MaxRequests /\ crashes \in 0 .. MaxCrashes

Idle == [c \in Client |-> None]

\* The state after Load of file f.
MemoryFrom(f) == mem' = Loaded(f.val) /\ ver' = f.ver

Init ==
    /\ up = TRUE
    /\ mem = Loaded(FirstFile)
    /\ ver = [k \in Key |-> 0] /\ written = ver
    /\ file = [val |-> FirstFile, ver |-> ver, state |-> "synced"]
    /\ older = {}
    /\ temp = Idle /\ data = Idle /\ savers = {}
    /\ req = Idle /\ pc = [c \in Client |-> "idle"] /\ at = [c \in Client |-> 1]
    /\ seen = Idle /\ mine = [c \in Client |-> {}]
    /\ acked = {} /\ undone = {} /\ apart = {}
    /\ requests = 0 /\ crashes = 0

-----------------------------------------------------------------------------
(* Requests *)

\* A request whose body decodes.  One that does not changes nothing.
Receive(c) ==
    /\ up /\ pc[c] = "idle" /\ requests < MaxRequests
    /\ requests' = requests + 1
    /\ \E r \in Requests : req' = [req EXCEPT ![c] = r]
    /\ pc' = [pc EXCEPT ![c] = "edit"]
    /\ at' = [at EXCEPT ![c] = 1]
    /\ mine' = [mine EXCEPT ![c] = {}]
    /\ UNCHANGED <<up, memory, disk, saving, seen, history, crashes>>

Goto(c, label) == pc' = [pc EXCEPT ![c] = label]

\* The request ends without success; what it has written stays written.
EndFailed(c) ==
    /\ Goto(c, "idle")
    /\ seen' = [seen EXCEPT ![c] = None]
    /\ apart' = apart \cup {w[1] : w \in mine[c]}
    /\ UNCHANGED <<req, at, mine, acked, undone>>

\* Bookkeeping of a write of field k for c.  ToYAML calls that are under way may
\* have passed the field already, or not: nothing keeps them apart.
Wrote(c, k) ==
    /\ written' = [written EXCEPT ![k] = @ + 1]
    /\ ver' = [ver EXCEPT ![k] = written'[k]]
    /\ mine' = [mine EXCEPT ![c] = @ \cup {<<k, written'[k]>>}]
    /\ \E reread \in SUBSET {d \in savers : pc[d] = "write"} :
         data' = [d \in Client |->
                    IF d \in reread
                      THEN [val |-> [f \in Field |-> IF f = k THEN mem'[f] ELSE data[d].val[f]],
                            ver |-> [data[d].ver EXCEPT ![k] = written'[k]]]
                      ELSE data[d]]
    /\ UNCHANGED <<req, seen, history, temp, savers>>

\* The fields a section request sets and the handler has not come to, by their
\* places in the handler's order.
Asked(c) == {i \in at[c] .. Len(req[c].section.fields) :
                req[c].section.fields[i] \in DOMAIN req[c].set}

IsNext(c, i) == \A j \in Asked(c) : i <= j

Refused(c, f) == <<f, req[c].set[f]>> \in req[c].section.refused

\* The next field has a value the handler refuses: status 400, but the fields
\* before it have been written.
RefuseField(c) ==
    /\ pc[c] = "edit" /\ req[c].kind = "section"
    /\ \E i \in Asked(c) : IsNext(c, i) /\ Refused(c, req[c].section.fields[i])
    /\ EndFailed(c)
    /\ UNCHANGED <<up, memory, disk, saving, bounds>>

WriteField(c) ==
    /\ pc[c] = "edit" /\ req[c].kind = "section"
    /\ \E i \in Asked(c) :
         LET f == req[c].section.fields[i] IN
         /\ IsNext(c, i) /\ ~Refused(c, f)
         /\ mem' = [mem EXCEPT ![f] = req[c].set[f]]
         /\ Wrote(c, f)
         /\ at' = [at EXCEPT ![c] = i + 1]
    /\ UNCHANGED <<up, disk, pc, bounds>>

FieldsDone(c) ==
    /\ pc[c] = "edit" /\ req[c].kind = "section" /\ Asked(c) = {}
    /\ Goto(c, "save")
    /\ UNCHANGED <<up, memory, disk, saving, req, at, seen, mine, history, bounds>>

\* A handler of the list of peers finds no such index, or panics, before it stores
\* anything.
PeersFail(c) ==
    /\ pc[c] = "edit" /\ req[c].kind = "peers" /\ at[c] = 1
    /\ EndFailed(c)
    /\ UNCHANGED <<up, memory, disk, saving, bounds>>

\* It stores an element or a word of the list.
StorePeers(c) ==
    /\ pc[c] = "edit" /\ req[c].kind = "peers" /\ at[c] <= req[c].stores
    /\ UNCHANGED mem
    /\ Wrote(c, PeersKey)
    /\ at' = [at EXCEPT ![c] = @ + 1]
    /\ UNCHANGED <<up, disk, pc, bounds>>

PeersDone(c) ==
    /\ pc[c] = "edit" /\ req[c].kind = "peers" /\ at[c] > req[c].stores
    /\ Goto(c, "save")
    /\ UNCHANGED <<up, memory, disk, saving, req, at, seen, mine, history, bounds>>

\* Reload: the file is read, and has defaults and is validated, or the request fails ...
BeginReload(c) ==
    /\ pc[c] = "edit" /\ req[c].kind = "reload"
    /\ \/ /\ Loads(file)
          /\ seen' = [seen EXCEPT ![c] = file]
          /\ Goto(c, "assign")
          /\ UNCHANGED <<req, at, mine, history>>
       \/ ~Loads(file) /\ EndFailed(c)
    /\ UNCHANGED <<up, memory, disk, saving, bounds>>

ReloadKeepsPeers(f) ==
    /\ mem' = Loaded(f.val)
    /\ ver' = [f.ver EXCEPT ![PeersKey] = ver[PeersKey]]

\* The sections Reload assigns.
Assigned(f) == MemoryFrom(f)

\* Fields in which file f, once loaded, is not what the file has by now, or what a
\* save under way is about to put there.
Crossed(f) ==
    {k \in Key : \/ f.ver[k] # file.ver[k]
                 \/ \E d \in Client : pc[d] \in Marshalled /\ data[d].ver[k] # f.ver[k]}

\* ... then all sections are assigned, whatever was written meanwhile.  The
\* configuration's mutex keeps this apart from ToYAML.
EndReload(c) ==
    /\ pc[c] = "assign"
    /\ \A d \in savers : pc[d] # "write"
    /\ Assigned(seen[c])
    /\ undone' = undone \cup UNION {{k} \X (seen[c].ver[k] + 1 .. ver[k]) : k \in Key}
    /\ apart' = Crossed(seen[c])
    /\ seen' = [seen EXCEPT ![c] = None]
    /\ Goto(c, "idle")
    /\ UNCHANGED <<up, written, disk, saving, req, at, mine, acked, bounds>>

Edit(c) ==
    \/ RefuseField(c) \/ WriteField(c) \/ FieldsDone(c)
    \/ PeersFail(c) \/ StorePeers(c) \/ PeersDone(c)
    \/ BeginReload(c) \/ EndReload(c)

-----------------------------------------------------------------------------
(* saveConfig *)

SharedLock == TRUE

\* Server.mu is free.
MayLock == savers = {}

Lock(c) ==
    /\ pc[c] = "save" /\ MayLock
    /\ savers' = savers \cup {c}
    /\ Goto(c, "create")
    /\ UNCHANGED <<up, memory, disk, temp, data, req, at, seen, mine, history, bounds>>

\* A step of saveConfig that succeeds, with its effect on the temporary file.
SaveStep(c, from, to, after) ==
    /\ pc[c] = from
    /\ temp' = [temp EXCEPT ![c] = after]
    /\ Goto(c, to)
    /\ UNCHANGED <<up, memory, disk, savers, req, at, seen, mine, history, bounds>>

CreateTemp(c) == SaveStep(c, "create", "marshal", "empty") /\ UNCHANGED data

\* ToYAML begins; it is over when the data is written.
BeginMarshal(c) ==
    /\ SaveStep(c, "marshal", "write", "empty")
    /\ data' = [data EXCEPT ![c] = Snapshot]

WriteTemp(c) == SaveStep(c, "write", "sync", "written") /\ UNCHANGED data

UnsyncedTemp == "written"

\* What Sync makes of the temporary file.
SyncedTemp == "synced"

SyncTemp(c) == SaveStep(c, "sync", "chmod", SyncedTemp) /\ UNCHANGED data

Chmod(c) == SaveStep(c, "chmod", "rename", temp[c]) /\ UNCHANGED data

Rename(c) ==
    /\ pc[c] = "rename"
    /\ file' = [val |-> data[c].val, ver |-> data[c].ver,
                state |-> IF temp[c] = "synced" THEN "synced" ELSE "unsynced"]
    /\ older' = older \cup {file}
    /\ temp' = [temp EXCEPT ![c] = None]
    /\ data' = [data EXCEPT ![c] = None]
    /\ savers' = savers \ {c}
    /\ Goto(c, "reply")
    /\ apart' = {k \in apart : data[c].ver[k] # ver[k]}
    /\ UNCHANGED <<up, memory, req, at, seen, mine, acked, undone, bounds>>

MutexKept(c) == savers

\* saveConfig's deferred unlock, on its error paths too.
MutexAfterFailure(c) == savers \ {c}

\* Any of these calls fails: the temporary file is removed, status 500.
SaveFails(c) ==
    /\ pc[c] \in SavePC
    /\ temp' = [temp EXCEPT ![c] = None]
    /\ data' = [data EXCEPT ![c] = None]
    /\ savers' = MutexAfterFailure(c)
    /\ EndFailed(c)
    /\ UNCHANGED <<up, memory, disk, bounds>>

\* The client is told that its change is made.
Reply(c) ==
    /\ pc[c] = "reply"
    /\ acked' = acked \cup mine[c]
    /\ Goto(c, "idle")
    /\ seen' = [seen EXCEPT ![c] = None]
    /\ UNCHANGED <<up, memory, disk, saving, req, at, mine, undone, apart, bounds>>

Save(c) == CreateTemp(c) \/ BeginMarshal(c) \/ WriteTemp(c) \/ SyncTemp(c) \/ Chmod(c)
             \/ Rename(c) \/ Reply(c)

-----------------------------------------------------------------------------
(* Crashes *)

\* Everything in memory is gone; temporary files stay where they are.
Down ==
    /\ up /\ crashes < MaxCrashes
    /\ up' = FALSE
    /\ crashes' = crashes + 1
    /\ temp' = Idle /\ data' = Idle /\ savers' = {}
    /\ req' = Idle /\ pc' = [c \in Client |-> "idle"] /\ seen' = Idle
    /\ mine' = [c \in Client |-> {}]
    /\ apart' = {}
    /\ UNCHANGED <<memory, at, acked, requests>>

\* The process ends: a crash, or an orderly stop, which saves nothing.
Crash == Down /\ UNCHANGED <<disk, undone>>

\* The machine loses power: a rename may be lost, and data that was not synced.
PowerLoss ==
    /\ Down
    /\ \E f \in older \cup {file} :
         /\ file' = [f EXCEPT !.state = IF @ = "synced" THEN @ ELSE "torn"]
         /\ undone' = undone \cup UNION {{k} \X (f.ver[k] + 1 .. written[k]) : k \in Key}
    /\ older' = {}

\* main loads the file; a file that is not valid ends the program again.
Start ==
    /\ ~up /\ Loads(file)
    /\ up' = TRUE
    /\ MemoryFrom(file)
    /\ UNCHANGED <<written, disk, saving, handler, history, bounds>>

-----------------------------------------------------------------------------
Next ==
    \/ \E c \in Client : Receive(c) \/ Edit(c) \/ Lock(c) \/ Save(c) \/ SaveFails(c)
    \/ Crash \/ PowerLoss \/ Start

\* Handlers run on, and Go's mutexes starve nobody.
Fairness == \A c \in Client : WF_vars(Edit(c) \/ Save(c)) /\ SF_vars(Lock(c))

Spec == Init /\ [][Next]_vars /\ Fairness

-----------------------------------------------------------------------------
(* Properties *)

\* Whenever the machine stops, the file is a whole configuration: the temporary
\* file is synced before it replaces the old one.
FileWhole == file.state # "torn"

\* A client that was told its change is made finds it in the file, or a later
\* change of the same field, whatever the other requests did: unless a reload
\* threw it away while its request was under way, or the power failed.
AckedIsSaved == \A w \in acked \ undone : file.ver[w[1]] >= w[2]

\* Once the requests are over, memory and file hold the same write of each field:
\* only a request that was refused or not saved after it had written the field, or
\* a reload that crossed a save of it, can keep them apart, until the next save.
QuietAgrees ==
    up /\ (\A c \in Client : pc[c] = "idle") =>
        \A k \in Key \ apart : ver[k] = file.ver[k]

\* The checks of the handlers cover the ranges that Validate has: if the first file
\* is in range, also where it is not enabled, no sequence of requests, refused
\* halfway or not, gets a value into the file that Validate rejects for its range.
SavedInRange == InRangeThroughout(Loaded(FirstFile)) => InRange(Loaded(file.val))

\* Every request is answered or cut off: no path of saveConfig keeps Server.mu.
RequestsEnd == \A c \in Client : pc[c] # "idle" ~> pc[c] = "idle"
=============================================================================
