----------------------------- MODULE MCWebLists -----------------------------
\* Small instances of LogStream and PeerList, the two lists in memory that the
\* handlers of the web API share, one behind a mutex and one not.  The lists have
\* nothing in common: a behaviour moves one of them.
\*
\* The ring of three is overrun twice, and a stream looks at two entries.  The file
\* has two peers, which leaves room when one is deleted, or none, so that the same
\* index is within, at or behind the end.
EXTENDS LogStream, PeerList, TLC

CONSTANTS p1, p2

VARIABLE moving     \* the list that a behaviour moves

MCFiles == {<<p1, p2>>, <<>>}
MCAsks == {[kind |-> "add"], [kind |-> "update", index |-> 2],
           [kind |-> "delete", index |-> 1], [kind |-> "delete", index |-> 2],
           [kind |-> "reload"]}
MCOld == {p1, p2}
Symmetry == Permutations(Request)

EitherInit == Init /\ InitList /\ moving \in {"log", "peers"}

EitherNext ==
    /\ \/ moving = "log" /\ Next /\ UNCHANGED lvars
       \/ moving = "peers" /\ NextList /\ UNCHANGED vars
    /\ UNCHANGED moving

EitherSpec == EitherInit /\ [][EitherNext]_<<vars, lvars, moving>>
=============================================================================
