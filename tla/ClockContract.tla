--------------------------- MODULE ClockContract ---------------------------
(***************************************************************************)
(* What the clock manager (internal/clock) promises to its readers: one of *)
(* five synchronisation states and the reference the clock follows.  This  *)
(* is the interface NTP, PTP and the web API are written against; how the  *)
(* manager measures offsets and filters them is left open.                 *)
(***************************************************************************)
CONSTANTS Ref,      \* time references
          NoRef     \* no reference is followed

VARIABLES state,    \* "INIT", "SYNCING", "LOCKED", "HOLDOVER" or "FAULT"
          source    \* the reference followed, or NoRef

cvars == <<state, source>>

States == {"INIT", "SYNCING", "LOCKED", "HOLDOVER", "FAULT"}

TypeOK == state \in States /\ source \in Ref \cup {NoRef}

Init == state = "INIT" /\ source = NoRef

\* A reference is there and the clock starts, or restarts, to follow it.
Acquire ==
    /\ state \in {"INIT", "HOLDOVER", "FAULT"}
    /\ source' \in Ref
    /\ state' = "SYNCING"

\* A syncing or locked clock changes to another reference and keeps its state.
Switch ==
    /\ state \in {"SYNCING", "LOCKED"}
    /\ source' \in Ref
    /\ UNCHANGED state

\* The measured offset is small enough.
Lock ==
    /\ state = "SYNCING"
    /\ source' \in Ref
    /\ state' = "LOCKED"

\* The measured offset of a locked clock left the tolerated range.
Reject ==
    /\ state = "LOCKED"
    /\ source' \in Ref
    /\ state' = "FAULT"

\* No reference is left: only a locked clock is worth holding over.
Lose ==
    /\ state \in {"SYNCING", "LOCKED", "FAULT"}
    /\ source' = NoRef
    /\ state' = IF state = "LOCKED" THEN "HOLDOVER" ELSE "FAULT"

\* Nothing came back in time.
Expire ==
    /\ state = "HOLDOVER"
    /\ source' = NoRef
    /\ state' = "FAULT"

Next == Acquire \/ Switch \/ Lock \/ Reject \/ Lose \/ Expire

\* A holdover ends, one way or the other.
LeaveHoldover == state = "HOLDOVER" /\ (Acquire \/ Expire)

Spec == Init /\ [][Next]_cvars /\ WF_cvars(LeaveHoldover)

\* The promise a reader can rely on: the clock follows a reference exactly
\* while it is SYNCING or LOCKED, never in INIT or HOLDOVER.
FollowsWhenSynced ==
    /\ state \in {"SYNCING", "LOCKED"} => source # NoRef
    /\ state \in {"INIT", "HOLDOVER"} => source = NoRef
=============================================================================
