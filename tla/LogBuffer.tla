----------------------------- MODULE LogBuffer -----------------------------
(***************************************************************************)
(* internal/logging/logging.go: the circular buffer behind the log page    *)
(* and the log stream.  Every logger's hook adds its entries under b.mu;   *)
(* an entry is represented by its number in the order of the additions.    *)
(***************************************************************************)
EXTENDS Integers, Sequences

CONSTANT Size           \* 1000
ASSUME SizeAssumption == Size \in Nat \ {0}

VARIABLES
    entries,    \* circularBuffer.entries
    head,       \* circularBuffer.head, the slot of the next entry
    count,      \* circularBuffer.count, the slots in use
    added       \* history: entries added so far, the latest has this number

bvars == <<entries, head, count, added>>

Slots == 0 .. Size - 1

\* newCircularBuffer: the slots hold zero entries, never shown to a reader.
InitBuffer ==
    /\ entries = [i \in Slots |-> 0]
    /\ head = 0
    /\ count = 0
    /\ added = 0

HeadBeforeWrap == IF head + 2 < Size THEN head + 1 ELSE 0

NextHead == (head + 1) % Size

\* circularBuffer.Add, called by BufferHook.Fire.
Add ==
    /\ entries' = [entries EXCEPT ![head] = added + 1]
    /\ head' = NextHead
    /\ count' = IF count < Size THEN count + 1 ELSE count
    /\ added' = added + 1

\* circularBuffer.GetRecent(n).
GetRecent(n) ==
    LET m == IF n > count THEN count ELSE n
        start == (head - m + Size) % Size
    IN  [i \in 1 .. m |-> entries[(start + i - 1) % Size]]

BufferSpec == InitBuffer /\ [][Add]_bvars

BufferTypeOK ==
    /\ entries \in [Slots -> Nat]
    /\ head \in Slots
    /\ count \in 0 .. Size
    /\ added \in Nat

\* Whatever number of entries a reader asks for, it gets the latest ones it can
\* get, oldest first and none twice, however often the ring has wrapped.
RecentIsLatest ==
    \A n \in 0 .. Size + 1 :
        LET m == IF n > count THEN count ELSE n
        IN  GetRecent(n) = [i \in 1 .. m |-> added - m + i]
=============================================================================
