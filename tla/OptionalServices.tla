-------------------------- MODULE OptionalServices --------------------------
(***************************************************************************)
(* The services that main starts only if they are enabled: the NTS key     *)
(* exchange and the PTP grandmaster.  They share nothing, and each is      *)
(* looked at on its own.                                                   *)
(***************************************************************************)
EXTENDS NTSSessions, PTPGrandmaster

VARIABLES
    enabled,    \* the service that is enabled
    cancelled   \* the context of main is done

vars == <<enabled, cancelled, nts, ptp>>

Init ==
    /\ enabled \in {"nts", "ptp"} /\ cancelled = FALSE
    /\ InitNTS /\ InitPTP

\* A loop that finds its timer and the context ready may still take the timer.
Run ==
    /\ \/ enabled = "nts" /\ NTSNext /\ UNCHANGED ptp
       \/ enabled = "ptp" /\ PTPNext /\ UNCHANGED nts
    /\ UNCHANGED <<enabled, cancelled>>

Elapse ==
    /\ ~cancelled
    /\ \/ enabled = "nts" /\ ElapseNTS /\ UNCHANGED ptp
       \/ enabled = "ptp" /\ ElapsePTP /\ UNCHANGED nts
    /\ UNCHANGED <<enabled, cancelled>>

Cancel ==
    /\ ~cancelled /\ cancelled' = TRUE
    /\ UNCHANGED <<enabled, nts, ptp>>

Stop ==
    /\ cancelled
    /\ \/ enabled = "nts" /\ StopNTS /\ UNCHANGED ptp
       \/ enabled = "ptp" /\ StopPTP /\ UNCHANGED nts
    /\ UNCHANGED <<enabled, cancelled>>

Next == Run \/ Elapse \/ Cancel \/ Stop

Spec == Init /\ [][Next]_vars

TypeOK ==
    /\ enabled \in {"nts", "ptp"} /\ cancelled \in BOOLEAN
    /\ NTSTypeOK /\ PTPTypeOK
=============================================================================
