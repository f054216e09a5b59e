------------------------------ MODULE Receiver ------------------------------
(***************************************************************************)
(* The primary time reference of the program: internal/gpsdo/interface.go  *)
(* makes one of three receivers from the configuration, and main starts,   *)
(* cancels and stops it.  The clock manager asks it for its lock.          *)
(***************************************************************************)
EXTENDS GPSDONetwork, GPSDOSerial

VARIABLES
    type,       \* cfg.Type
    dummy       \* the simulator of dummy.go: whether it has its lock, and the pulses it claims

vars == <<type, dummy, cancelled, stopped, network, serial>>

\* The simulator has its lock before it is started.
InitDummy == dummy = [locked |-> TRUE, pps |-> 0]

\* simulate: a pulse; now and then the lock is lost or regained.
Simulate ==
    /\ dummy.pps < MaxTime
    /\ \E l \in BOOLEAN : dummy' = [locked |-> l, pps |-> dummy.pps + 1]
    /\ UNCHANGED <<network, serial>>

-----------------------------------------------------------------------------
Init ==
    /\ type \in {"serialpps", "network", "dummy"}
    /\ cancelled = FALSE /\ stopped = FALSE
    /\ InitNetwork /\ InitSerial /\ InitDummy

\* The receiver's goroutines.  Those of the serial receiver look at the context
\* before each sentence and each look at the pulse; the model lets them go on after
\* cancellation, which adds behaviours and takes none away.
Run ==
    /\ \/ type = "network" /\ NetworkNext /\ UNCHANGED <<dummy, serial>>
       \/ type = "serialpps" /\ SerialNext /\ UNCHANGED <<dummy, network>>
       \/ type = "dummy" /\ ~cancelled /\ Simulate
    /\ UNCHANGED <<type, cancelled, stopped>>

Cancel ==
    /\ ~cancelled
    /\ cancelled' = TRUE
    /\ UNCHANGED <<type, dummy, stopped, network, serial>>

Stop ==
    /\ cancelled /\ ~stopped
    /\ stopped' = TRUE
    /\ IF type = "network" THEN StopNetwork ELSE UNCHANGED network
    /\ IF type = "serialpps" THEN StopSerial ELSE UNCHANGED serial
    /\ UNCHANGED <<type, dummy, cancelled>>

Next == Run \/ Cancel \/ Stop

\* The receiver's loop goes on; gpsd and the receivers themselves owe nothing.
Fairness == WF_vars(type = "network" /\ StartNetwork /\ UNCHANGED <<type, cancelled, stopped, dummy, serial>>)

Spec == Init /\ [][Next]_vars /\ Fairness

TypeOK ==
    /\ type \in {"serialpps", "network", "dummy"}
    /\ cancelled \in BOOLEAN /\ stopped \in BOOLEAN /\ (stopped => cancelled)
    /\ dummy \in [locked : BOOLEAN, pps : 0 .. MaxTime]
    /\ NetworkTypeOK /\ SerialTypeOK
=============================================================================
