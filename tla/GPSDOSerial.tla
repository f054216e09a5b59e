---------------------------- MODULE GPSDOSerial ----------------------------
(***************************************************************************)
(* internal/gpsdo/serialpps.go: a receiver with NMEA sentences over a      *)
(* serial line and a pulse per second.  One goroutine parses sentences,    *)
(* another looks ten times a second whether there was a pulse, and         *)
(* measures the system clock against it.                                   *)
(*                                                                         *)
(* Position, HDOP, signal strength and the time in RMC sentences are only  *)
(* reported and left out.  A sentence that is cut off by the read timeout, *)
(* has a wrong checksum or too few fields changes nothing.                 *)
(***************************************************************************)
EXTENDS Integers, Sequences

CONSTANTS
    PRN,            \* satellites that the receiver may report
    MaxSatellites,  \* 32: size of the table of satellites
    MinSatellites,  \* 4: satellites that a lock needs
    Second,         \* a second, in units of the pulse reader's clock
    Theta,          \* the system clock's true offset against the receiver, in the same units
    PollDelay,      \* bound: the time from one look at the pulse to the end of the next
    MaxTime         \* bound: time

ASSUME SecondAssumption ==
    Second \in Nat \ {0} /\ Theta \in 0 .. Second - 1 /\ PollDelay \in Nat

\* The reader looks ten times a second: two looks take less than a second.
ASSUME LookAssumption == 2 * PollDelay < Second
ASSUME TableAssumption ==
    MaxSatellites \in Nat /\ MinSatellites \in Nat \ {0} /\ MaxTime \in Nat

VARIABLES
    spc,            \* where Start is: "opening", "running", "failed", "stopped"
    fixed,          \* SerialPPS.locked
    lockStarted,    \* lockStart is not zero
    satellites,     \* satellites in use, from GGA
    table,          \* satInfo: a sequence of [prn, used]
    time,           \* the system clock
    edge,           \* the time of the latest pulse, 0 if there was none yet
    pulses,         \* history: pulses since Start
    stat,           \* checkPPS has seen this modification time, or -1 when it is not running
    due,            \* bound: checkPPS ends no later
    lastPPS,        \* SerialPPS.lastPPS, -1 for zero
    ppsCount, ppsOffset

sentences == <<fixed, lockStarted, satellites, table>>
pulse == <<time, edge, pulses, stat, due, lastPPS, ppsCount, ppsOffset>>
serial == <<spc, sentences, pulse>>

Entry == [prn : PRN, used : BOOLEAN]

SerialTypeOK ==
    /\ spc \in {"opening", "running", "failed", "stopped"}
    /\ fixed \in BOOLEAN /\ lockStarted = fixed
    /\ satellites \in Nat
    /\ table \in Seq(Entry) /\ Len(table) <= MaxSatellites
    /\ \A i, j \in DOMAIN table : table[i].prn = table[j].prn => i = j
    /\ time \in 0 .. MaxTime /\ edge \in 0 .. time /\ pulses \in Nat
    /\ stat \in -1 .. time /\ lastPPS \in -1 .. time
    /\ ppsCount \in Nat /\ 2 * ppsOffset \in 1 - Second .. Second

InitSerial ==
    /\ spc = "opening"
    /\ fixed = FALSE /\ lockStarted = FALSE /\ satellites = 0 /\ table = <<>>
    /\ time = 0 /\ edge = 0 /\ pulses = 0
    /\ stat = -1 /\ due = PollDelay /\ lastPPS = -1
    /\ ppsCount = 0 /\ ppsOffset = 0

-----------------------------------------------------------------------------
\* Start opens the line and the pulse device; if either fails so does the program.
OpenDevices ==
    /\ spc = "opening"
    /\ spc' \in {"running", "failed"}
    /\ due' = time + PollDelay
    /\ UNCHANGED <<sentences, time, edge, pulses, stat, lastPPS, ppsCount, ppsOffset>>

(* The sentences *)

\* RMC: active or void.
ParseRMC ==
    /\ \E active \in BOOLEAN : fixed' = active /\ lockStarted' = active
    /\ UNCHANGED <<satellites, table>>

\* GGA: the number of satellites in use.
ParseGGA ==
    /\ satellites' \in {MinSatellites - 1, MinSatellites}
    /\ UNCHANGED <<fixed, lockStarted, table>>

AppendAlways(sats, prn) == Append(sats, [prn |-> prn, used |-> FALSE])

\* One satellite of a GSV sentence: its entry is replaced, and with it the mark
\* of being used; a new one is added while there is room.
AddSatellite(sats, prn) ==
    IF \E i \in DOMAIN sats : sats[i].prn = prn
      THEN [i \in DOMAIN sats |-> IF sats[i].prn = prn THEN [prn |-> prn, used |-> FALSE]
                                                       ELSE sats[i]]
    ELSE IF Len(sats) < MaxSatellites THEN Append(sats, [prn |-> prn, used |-> FALSE])
    ELSE sats

\* GSV: satellites in view, up to four in a sentence.
ParseGSV ==
    /\ \E p, q \in PRN :
         table' = AddSatellite(AddSatellite(table, p), q)
    /\ UNCHANGED <<fixed, lockStarted, satellites>>

\* GSA: the satellites of the table that are used.
ParseGSA ==
    /\ \E used \in SUBSET PRN :
         table' = [i \in DOMAIN table |-> [table[i] EXCEPT !.used = table[i].prn \in used]]
    /\ UNCHANGED <<fixed, lockStarted, satellites>>

ParseNMEA ==
    /\ spc = "running"
    /\ ParseRMC \/ ParseGGA \/ ParseGSV \/ ParseGSA
    /\ UNCHANGED <<spc, pulse>>

-----------------------------------------------------------------------------
(* The pulse *)

\* Time passes; when the receiver's second begins the device file is touched.
Elapse ==
    /\ spc = "running" /\ time < due /\ time < MaxTime
    /\ time' = time + 1
    /\ IF (time' - Theta) % Second = 0
         THEN edge' = time' /\ pulses' = pulses + 1
         ELSE UNCHANGED <<edge, pulses>>
    /\ UNCHANGED <<spc, sentences, stat, due, lastPPS, ppsCount, ppsOffset>>

\* checkPPS looks at the file before it takes the mutex ...
StatPPS ==
    /\ spc = "running" /\ stat = -1
    /\ stat' = edge
    /\ UNCHANGED <<spc, sentences, time, edge, pulses, due, lastPPS, ppsCount, ppsOffset>>

\* The offset nearest to a second's beginning.
Centered(nsec) == IF 2 * nsec > Second THEN nsec - Second ELSE nsec

PulseUnseen == lastPPS

\* What lastPPS becomes: the time of the look, not of the pulse.
PulseSeen == time

\* ... and at the clock after.
CheckPPS ==
    /\ spc = "running" /\ stat # -1
    /\ IF stat > lastPPS
         THEN /\ lastPPS' = PulseSeen
              /\ ppsCount' = ppsCount + 1
              /\ ppsOffset' = Centered(time % Second)
         ELSE UNCHANGED <<lastPPS, ppsCount, ppsOffset>>
    /\ stat' = -1 /\ due' = time + PollDelay
    /\ UNCHANGED <<spc, sentences, time, edge, pulses>>

StopSerial ==
    /\ spc' = IF spc = "running" THEN "stopped" ELSE spc
    /\ UNCHANGED <<sentences, pulse>>

SerialNext == OpenDevices \/ ParseNMEA \/ Elapse \/ StatPPS \/ CheckPPS

-----------------------------------------------------------------------------
SerialIsLocked == fixed /\ satellites >= MinSatellites

\* The first look counts a pulse that was none: the file has a time from before.
\* From then on every pulse is counted once, and the offset is above the true one
\* by no more than the time the reader may take to see a pulse, whatever seconds
\* the pulse and the look fall in.
PulseMeasured ==
    /\ ppsCount > 0 => ppsCount \in pulses - 1 .. pulses + 1
    /\ ppsCount > 1 =>
         \E d \in 0 .. 2 * PollDelay : (ppsOffset - Theta - d) % Second = 0
=============================================================================
