----------------------------- MODULE RecentLog -----------------------------
(***************************************************************************)
(* What the log buffer promises: the latest Size entries, in order.        *)
(* Entries are numbered from 1 in the order in which they are logged.      *)
(***************************************************************************)
EXTENDS Integers, Sequences

CONSTANT Size

VARIABLE recent     \* the entries a reader may still see, oldest first

Init == recent = <<>>

Newest == IF recent = <<>> THEN 0 ELSE recent[Len(recent)]

Log ==
    recent' = IF Len(recent) < Size THEN Append(recent, Newest + 1)
              ELSE Append(Tail(recent), Newest + 1)

Spec == Init /\ [][Log]_recent
=============================================================================
