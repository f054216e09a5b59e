------------------------------ MODULE PeerList ------------------------------
(***************************************************************************)
(* NTP.UpstreamPeers in memory, under the handlers of                      *)
(* internal/webapi/server.go that add, update and delete a peer, and under *)
(* Config.Reload.                                                          *)
(*                                                                         *)
(* The list is a Go slice: the words of an array, a length and a capacity. *)
(* No mutex guards it in the handlers, so a step loads or stores one word, *)
(* or one element of an array, in no order that Go promises.               *)
(***************************************************************************)
EXTENDS Integers, Sequences

CONSTANTS
    Request,    \* requests, each with a goroutine of its own
    Old,        \* peers of the configuration file
    Files,      \* the lists of peers that the file may hold when it is loaded
    Asks,       \* what the requests ask for
    Unknown     \* what lies behind an array, or nothing

\* A request that adds or updates a peer names it.
Peer == Request \cup Old \cup {Unknown}

ASSUME FilesAssumption == Files \subseteq Seq(Peer)

\* An index counts from 1 here.
IsAsk(a) ==
    /\ a.kind \in {"add", "update", "delete", "reload"}
    /\ a.kind \in {"update", "delete"} => a.index \in Nat \ {0}

ASSUME AsksAssumption == \A a \in Asks : IsAsk(a)

VARIABLES
    list,       \* NTP.UpstreamPeers: which of arrays, length and capacity
    arrays,     \* the backing arrays of all slices so far
    stage,      \* stage[r]: where the goroutine of r is
    ask,        \* ask[r]: what r asks for
    slice,      \* slice[r]: a local: the slice that r works on
    todo,       \* todo[r]: the words it has yet to load, or what it has yet to store
    inOrder,    \* history: no two requests have met at the list since it was loaded
    promised    \* history: the list they then make, one after another

request == <<stage, ask, slice, todo>>
lvars == <<list, arrays, request, inOrder, promised>>

Words == {"at", "len", "cap"}

Slice == [at : DOMAIN arrays, len : Nat, cap : Nat]

ListTypeOK ==
    /\ arrays \in Seq(Seq(Peer)) /\ list \in Slice
    /\ stage \in [Request -> {"new", "load", "store", "done"}]
    /\ ask \in [Request -> Asks]
    /\ slice \in [Request -> Slice]
    /\ todo \in [Request -> SUBSET (Words \cup {"peer"})]
    /\ inOrder \in BOOLEAN /\ promised \in Seq(Peer)

\* What slice s shows at place i: words that do not belong together may reach
\* behind the array, into other memory.
Element(s, i) == IF i <= Len(arrays[s.at]) THEN arrays[s.at][i] ELSE Unknown

Content(s) == [i \in 1 .. s.len |-> Element(s, i)]

\* The slice of a list that Load has decoded, in the array with that number.
LoadedSlice(f, n) == [at |-> n, len |-> Len(f), cap |-> Len(f)]

\* Which requests come is not known, but may as well be settled now.
InitList ==
    /\ promised \in Files /\ inOrder = TRUE
    /\ arrays = <<promised>> /\ list = LoadedSlice(promised, 1)
    /\ stage = [r \in Request |-> "new"]
    /\ ask \in [Request -> Asks]
    /\ slice = [r \in Request |-> list] /\ todo = [r \in Request |-> {}]

-----------------------------------------------------------------------------
(* Coming to the list *)

\* Requests that are at the list.
AtList == {r \in Request : stage[r] \in {"load", "store"}}

MoveTo(r, s) == stage' = [stage EXCEPT ![r] = s]

HasIndex(s, i) == i <= s.len

\* handleAddNTPPeer and handleDeleteNTPPeer when the request has been decoded, and
\* handleUpdateNTPPeer when it has found the index below the length, before it reads
\* the body from the client.
Find(r) ==
    /\ stage[r] = "new" /\ ask[r].kind # "reload"
    /\ ask[r].kind = "update" => HasIndex(list, ask[r].index)
    /\ MoveTo(r, "load")
    /\ todo' = [todo EXCEPT ![r] = Words]
    /\ inOrder' = (inOrder /\ AtList = {})
    /\ UNCHANGED <<list, arrays, ask, slice, promised>>

\* The update of a peer that is not there: status 404.
FindNone(r) ==
    /\ stage[r] = "new" /\ ask[r].kind = "update" /\ ~HasIndex(list, ask[r].index)
    /\ MoveTo(r, "done")
    /\ UNCHANGED <<list, arrays, ask, slice, todo, inOrder, promised>>

\* Reload has a file of its own, and its slice an array of its own, when it begins
\* to assign; the configuration's mutex lets one reload do so at a time.
Reload(r) ==
    /\ stage[r] = "new" /\ ask[r].kind = "reload"
    /\ \A q \in AtList : ask[q].kind # "reload"
    /\ \E f \in Files :
         /\ arrays' = Append(arrays, f)
         /\ slice' = [slice EXCEPT ![r] = LoadedSlice(f, Len(arrays'))]
         /\ promised' = f
    /\ todo' = [todo EXCEPT ![r] = Words]
    /\ MoveTo(r, "store")
    /\ inOrder' = (AtList = {})
    /\ UNCHANGED <<list, ask>>

\* Slice to, with word w of slice from.
CopyWord(w, from, to) ==
    [at |-> IF w = "at" THEN from.at ELSE to.at,
     len |-> IF w = "len" THEN from.len ELSE to.len,
     cap |-> IF w = "cap" THEN from.cap ELSE to.cap]

Load(r) ==
    /\ stage[r] = "load"
    /\ \E w \in todo[r] :
         /\ slice' = [slice EXCEPT ![r] = CopyWord(w, list, @)]
         /\ todo' = [todo EXCEPT ![r] = @ \ {w}]
    /\ UNCHANGED <<list, arrays, stage, ask, inOrder, promised>>

-----------------------------------------------------------------------------
(* What the requests make of it *)

FitsOneMore(s, n) == n <= s.cap + 1

\* append needs n elements, and slice s has room for them, or its elements move to an
\* array of twice the capacity, or more.
Fits(s, n) == n <= s.cap

GrownCap(s, n) == IF n > 2 * s.cap THEN n ELSE 2 * s.cap

Grown(s, n) == [i \in 1 .. GrownCap(s, n) |-> IF i < n THEN Element(s, i) ELSE Unknown]

GrownSlice(s, n) == [at |-> Len(arrays) + 1, len |-> n, cap |-> GrownCap(s, n)]

\* r begins to store its slice s, and what else there is to store.
Begin(r, s, parts) ==
    /\ slice' = [slice EXCEPT ![r] = s]
    /\ todo' = [todo EXCEPT ![r] = parts]
    /\ MoveTo(r, "store")

\* handleAddNTPPeer appends in the array: only the length changes.
AppendInPlace(r) ==
    LET s == slice[r] IN
    /\ stage[r] = "load" /\ todo[r] = {} /\ ask[r].kind = "add"
    /\ Fits(s, s.len + 1)
    /\ Begin(r, [s EXCEPT !.len = @ + 1], {"len", "peer"})
    /\ UNCHANGED <<list, arrays, ask, inOrder, promised>>

\* Or it appends to a copy in a larger array.
AppendGrown(r) ==
    LET s == slice[r] IN
    /\ stage[r] = "load" /\ todo[r] = {} /\ ask[r].kind = "add"
    /\ ~Fits(s, s.len + 1)
    /\ arrays' = Append(arrays, Grown(s, s.len + 1))
    /\ Begin(r, GrownSlice(s, s.len + 1), Words \cup {"peer"})
    /\ UNCHANGED <<list, ask, inOrder, promised>>

\* handleUpdateNTPPeer.
Update(r) ==
    /\ stage[r] = "load" /\ todo[r] = {} /\ ask[r].kind = "update"
    /\ HasIndex(slice[r], ask[r].index)
    /\ Begin(r, slice[r], {"peer"})
    /\ UNCHANGED <<list, arrays, ask, inOrder, promised>>

\* The list without the place: the elements behind it move down.
Without(l, i) == [j \in 1 .. Len(l) - 1 |-> IF j < i THEN l[j] ELSE l[j + 1]]

\* handleDeleteNTPPeer appends the elements behind the index to those before it: they
\* move within the array.
Shift(r) ==
    LET s == slice[r]
        moved == ask[r].index .. s.len - 1
    IN
    /\ stage[r] = "load" /\ todo[r] = {} /\ ask[r].kind = "delete"
    /\ HasIndex(s, ask[r].index) /\ Fits(s, s.len - 1)
    /\ arrays' = [arrays EXCEPT ![s.at] =
                    [i \in DOMAIN @ |-> Element(s, IF i \in moved THEN i + 1 ELSE i)]]
    /\ Begin(r, [s EXCEPT !.len = @ - 1], Words)
    /\ promised' = IF inOrder THEN Without(promised, ask[r].index) ELSE promised
    /\ UNCHANGED <<list, ask, inOrder>>

\* Words that do not belong together can tell append that there is no room, ...
ShiftGrown(r) ==
    LET s == slice[r]
        n == s.len - 1
    IN
    /\ stage[r] = "load" /\ todo[r] = {} /\ ask[r].kind = "delete"
    /\ HasIndex(s, ask[r].index) /\ ask[r].index - 1 <= s.cap /\ ~Fits(s, n)
    /\ arrays' = Append(arrays,
                    [i \in 1 .. GrownCap(s, n) |->
                       IF i <= n THEN Without(Content(s), ask[r].index)[i] ELSE Unknown])
    /\ Begin(r, GrownSlice(s, n), Words)
    /\ UNCHANGED <<list, ask, inOrder, promised>>

\* ... or that the index is out of range: the handler panics, and net/http ends the
\* connection without an answer.  So does an update whose list has become shorter.  A
\* deletion whose index is not below the length answers with status 404.
GiveUp(r) ==
    LET s == slice[r] IN
    /\ stage[r] = "load" /\ todo[r] = {} /\ ask[r].kind \in {"update", "delete"}
    /\ \/ ~HasIndex(s, ask[r].index)
       \/ ask[r].kind = "delete" /\ ask[r].index - 1 > s.cap
    /\ MoveTo(r, "done")
    /\ UNCHANGED <<list, arrays, ask, slice, todo, inOrder, promised>>

-----------------------------------------------------------------------------
(* Storing it *)

\* r has one thing less to store, and saves the configuration when it was the last.
Stored(r, part) ==
    /\ todo' = [todo EXCEPT ![r] = @ \ {part}]
    /\ MoveTo(r, IF todo[r] = {part} THEN "done" ELSE "store")
    /\ UNCHANGED <<ask, slice, inOrder>>

StoreWord(r) ==
    /\ stage[r] = "store"
    /\ \E w \in todo[r] \cap Words :
         /\ list' = CopyWord(w, slice[r], list)
         /\ Stored(r, w)
    /\ UNCHANGED <<arrays, promised>>

\* Where the new peer goes: for an addition, to the end.
Place(r) == IF ask[r].kind = "add" THEN slice[r].len ELSE ask[r].index

\* A peer that goes behind the array is lost.
StorePeer(r) ==
    /\ stage[r] = "store" /\ "peer" \in todo[r]
    /\ arrays' = [arrays EXCEPT ![slice[r].at] =
                    [i \in DOMAIN @ |-> IF i = Place(r) THEN r ELSE @[i]]]
    /\ promised' = CASE ~inOrder -> promised
                     [] inOrder /\ ask[r].kind = "add" -> Append(promised, r)
                     [] inOrder /\ ask[r].kind # "add" -> [promised EXCEPT ![ask[r].index] = r]
    /\ Stored(r, "peer")
    /\ UNCHANGED list

-----------------------------------------------------------------------------
NextList ==
    \E r \in Request :
        \/ Find(r) \/ FindNone(r) \/ Reload(r) \/ Load(r)
        \/ AppendInPlace(r) \/ AppendGrown(r) \/ Update(r)
        \/ Shift(r) \/ ShiftGrown(r) \/ GiveUp(r)
        \/ StoreWord(r) \/ StorePeer(r)

ListSpec == InitList /\ [][NextList]_lvars

\* Requests that come one after another leave the list that each of them promises,
\* however it shares its array with lists before it, and a slice that append can rely
\* on, until two of them meet at the list: nothing in the code keeps them apart, and
\* from then on a peer may be lost, the words of the list may not belong together and
\* lead behind its array, until the file is loaded again with nobody at the list.
PeersInOrder ==
    inOrder /\ AtList = {} =>
        /\ Content(list) = promised
        /\ list.len <= list.cap /\ list.cap = Len(arrays[list.at])
=============================================================================
