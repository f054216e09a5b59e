---------------------------- MODULE ClockManager ----------------------------
(***************************************************************************)
(* internal/clock/manager.go: the discipline loop that chooses a time      *)
(* reference once a second, filters its offset and drives the              *)
(* synchronisation state.                                                  *)
(*                                                                         *)
(* tick() runs under the manager's mutex, but the references it reads are  *)
(* written by their own goroutines under their own locks.  A tick is       *)
(* therefore several steps, each call to a reference is one of its own,    *)
(* and RefChanges may come between any two of them.  Nobody reads the      *)
(* manager while pc is not "idle" (GetStatus waits for the mutex).         *)
(***************************************************************************)
EXTENDS Integers, Sequences, FiniteSets

CONSTANTS
    Ref,              \* the time references (GPSDO, NTP peers)
    NoRef,            \* Go's nil
    Offset,           \* the offsets a reference may report
    NoReading,        \* GetOffset returned an error
    Priorities,       \* the priorities a reference may report, low is better
    PriorityCeiling,  \* 256: a secondary reference must be below it
    SampleWindow,     \* 8 offset samples
    LockThreshold,    \* 100 us
    FaultThreshold,   \* 1 s
    HoldoverTimeout,  \* 4 h
    NotHolding        \* holdoverStart == nil

ASSUME RefAssumption == NoRef \notin Ref
ASSUME OffsetAssumption == Offset \subseteq Int /\ NoReading \notin Int
ASSUME PriorityAssumption == Priorities \subseteq Int /\ PriorityCeiling \in Int
ASSUME WindowAssumption == SampleWindow \in Nat /\ SampleWindow >= 2
ASSUME ThresholdAssumption ==
    /\ LockThreshold \in Nat /\ FaultThreshold \in Nat
    /\ LockThreshold <= FaultThreshold
ASSUME HoldoverAssumption ==
    HoldoverTimeout \in Nat /\ NotHolding \notin Nat

VARIABLES
    state,          \* Manager.state
    primaryRef,     \* Manager.primaryRef
    secondaryRefs,  \* Manager.secondaryRefs
    activeRef,      \* Manager.activeRef
    offset,         \* Manager.offset, the filtered offset
    offsetSamples,  \* Manager.offsetSamples
    holdover,       \* NotHolding, or the time since Manager.holdoverStart
    pc,             \* where tick() is: "idle", at a secondary ("select",
                    \* "compare", "record") or at "discipline"
    best,           \* selectBestReference's choice so far
    bestPriority,   \* and its priority
    cursor,         \* the secondary reference to look at next
    locked,         \* locked[r]: what r.IsLocked() answers now
    priority,       \* priority[r]: what r.Priority() answers now
    sinceFault,     \* history: readings taken since the last recovery from FAULT
    undisturbed     \* history: no reference changed since this tick began

manager == <<state, activeRef, offset, offsetSamples, sinceFault>>
config == <<primaryRef, secondaryRefs>>
scan == <<pc, best, bestPriority, cursor>>
refs == <<locked, priority>>
vars == <<manager, config, scan, refs, holdover, undisturbed>>

State == {"INIT", "SYNCING", "LOCKED", "HOLDOVER", "FAULT"}

Min2(a, b) == IF a < b THEN a ELSE b
Abs(x) == IF x < 0 THEN -x ELSE x

TypeOK ==
    /\ state \in State
    /\ primaryRef \in Ref \cup {NoRef}
    /\ secondaryRefs \in Seq(Ref)
    /\ activeRef \in Ref \cup {NoRef}
    /\ offset \in Int
    /\ offsetSamples \in Seq(Int) /\ Len(offsetSamples) <= SampleWindow
    /\ holdover \in (0 .. HoldoverTimeout + 1) \cup {NotHolding}
    /\ pc \in {"idle", "select", "compare", "record", "discipline"}
    /\ pc \in {"compare", "record"} => cursor \in DOMAIN secondaryRefs
    /\ best \in Ref \cup {NoRef}
    /\ bestPriority \in Int
    /\ cursor \in Nat \ {0}
    /\ locked \in [Ref -> BOOLEAN]
    /\ priority \in [Ref -> Priorities]
    /\ sinceFault \in 0 .. SampleWindow
    /\ undisturbed \in BOOLEAN

Init ==
    /\ state = "INIT"
    /\ primaryRef = NoRef /\ secondaryRefs = <<>> /\ activeRef = NoRef
    /\ offset = 0 /\ offsetSamples = <<>>
    /\ holdover = NotHolding
    /\ pc = "idle" /\ best = NoRef /\ bestPriority = PriorityCeiling /\ cursor = 1
    /\ locked \in [Ref -> BOOLEAN]
    /\ priority \in [Ref -> Priorities]
    /\ sinceFault = 0
    /\ undisturbed = TRUE

-----------------------------------------------------------------------------
(* The environment: the references' own goroutines, and time. *)

\* A reference loses or regains its lock, or its priority changes (an NTP
\* peer's priority follows its stratum).
RefChanges ==
    \E r \in Ref, l \in BOOLEAN, p \in Priorities :
        /\ <<l, p>> # <<locked[r], priority[r]>>
        /\ locked' = [locked EXCEPT ![r] = l]
        /\ priority' = [priority EXCEPT ![r] = p]
        /\ undisturbed' = (pc = "idle")
        /\ UNCHANGED <<manager, config, scan, holdover>>

\* What GetOffset() may return: a reference that is locked has an offset, one
\* that is not may still have its last one (a peer) or return an error (a GPSDO).
Readings(r) ==
    IF r = NoRef THEN {NoReading}
    ELSE IF locked[r] THEN Offset
    ELSE Offset \cup {NoReading}

\* Time passes for a holdover; beyond the timeout its age is of no consequence.
Elapse ==
    /\ holdover # NotHolding
    /\ holdover <= HoldoverTimeout
    /\ holdover' = holdover + 1
    /\ UNCHANGED <<manager, config, scan, refs, undisturbed>>

-----------------------------------------------------------------------------
(* Configuration, between ticks. *)

SetPrimaryReference(r) ==
    /\ pc = "idle"
    /\ primaryRef' = r
    /\ UNCHANGED <<manager, secondaryRefs, scan, refs, holdover, undisturbed>>

\* Bound: a reference is added once, which the code does not check; the program
\* never calls this function.
AddSecondaryReference(r) ==
    /\ pc = "idle"
    /\ \A i \in DOMAIN secondaryRefs : secondaryRefs[i] # r
    /\ secondaryRefs' = Append(secondaryRefs, r)
    /\ UNCHANGED <<manager, primaryRef, scan, refs, holdover, undisturbed>>

-----------------------------------------------------------------------------
(* tick(), first half: selectBestReference. *)

\* The ticker fires, the mutex is taken and the primary reference is asked.
BeginTick ==
    /\ pc = "idle"
    /\ IF primaryRef # NoRef /\ locked[primaryRef]
         THEN pc' = "discipline" /\ best' = primaryRef
         ELSE pc' = "select" /\ best' = NoRef
    /\ bestPriority' = PriorityCeiling
    /\ cursor' = 1
    /\ undisturbed' = TRUE
    /\ UNCHANGED <<manager, config, refs, holdover>>

LaterOfEqualsImproves(r) == priority[r] <= bestPriority

Improves(r) == priority[r] < bestPriority

\* The secondary reference the loop is at.
Current == secondaryRefs[cursor]

\* It is asked for its lock ...
AskLock ==
    /\ pc = "select"
    /\ cursor <= Len(secondaryRefs)
    /\ IF locked[Current]
         THEN pc' = "compare" /\ UNCHANGED cursor
         ELSE cursor' = cursor + 1 /\ UNCHANGED pc
    /\ UNCHANGED <<manager, config, best, bestPriority, refs, holdover, undisturbed>>

\* ... if it is locked, for its priority ...
Compare ==
    /\ pc = "compare"
    /\ IF Improves(Current)
         THEN pc' = "record" /\ best' = Current /\ UNCHANGED cursor
         ELSE pc' = "select" /\ cursor' = cursor + 1 /\ UNCHANGED best
    /\ UNCHANGED <<manager, config, bestPriority, refs, holdover, undisturbed>>

\* ... and if it is the best so far, for its priority once more.
Record ==
    /\ pc = "record"
    /\ bestPriority' = priority[Current]
    /\ cursor' = cursor + 1
    /\ pc' = "select"
    /\ UNCHANGED <<manager, config, best, refs, holdover, undisturbed>>

EndSelect ==
    /\ pc = "select"
    /\ cursor > Len(secondaryRefs)
    /\ pc' = "discipline"
    /\ UNCHANGED <<manager, config, best, bestPriority, cursor, refs, holdover, undisturbed>>

-----------------------------------------------------------------------------
(* tick(), second half: follow the choice, filter its offset, move the state. *)

HoldoverNeverCleared(r) ==
    IF r = NoRef /\ activeRef # NoRef /\ state = "LOCKED" THEN 0 ELSE holdover

HoldoverRestarted(r) ==
    IF r # NoRef THEN NotHolding
    ELSE IF state \in {"LOCKED", "HOLDOVER"} THEN 0
    ELSE holdover

\* handleReferenceLost and handleReferenceFound on holdoverStart.
HoldoverAfter(r) ==
    IF r = activeRef THEN holdover
    ELSE IF r # NoRef THEN NotHolding
    ELSE IF state = "LOCKED" THEN 0
    ELSE holdover

\* The sliding window after a reading.
Window(reading) ==
    IF reading = NoReading THEN offsetSamples
    ELSE LET s == Append(offsetSamples, reading)
         IN  IF Len(s) > SampleWindow THEN Tail(s) ELSE s

\* The samples that stand at place k of the sorted window.
RankedAt(s, k) ==
    {s[i] : i \in {j \in DOMAIN s :
        /\ Cardinality({l \in DOMAIN s : s[l] < s[j]}) < k
        /\ Cardinality({l \in DOMAIN s : s[l] <= s[j]}) >= k}}

\* Go's integer division truncates toward zero.
Halve(x) == IF x >= 0 THEN x \div 2 ELSE -((-x) \div 2)

\* The median of a window; of two middle samples, half of their sum.
Medians(s) ==
    LET n == Len(s) IN
    IF n % 2 = 1 THEN RankedAt(s, n \div 2 + 1)
    ELSE {Halve(lo + hi) : lo \in RankedAt(s, n \div 2), hi \in RankedAt(s, n \div 2 + 1)}

FilteredBeforeSlide(reading) ==
    IF reading = NoReading THEN {offset} ELSE Medians(Append(offsetSamples, reading))

\* The filtered offset after a reading; a failed one leaves it as it was.
Filtered(reading) ==
    IF reading = NoReading THEN {offset} ELSE Medians(Window(reading))

\* The arms of updateState's switch.  They look at activeRef', offset' and
\* holdover' as this tick has set them, and at the window of n samples.
FromInit ==
    /\ state = "INIT"
    /\ state' = IF activeRef' # NoRef THEN "SYNCING" ELSE "INIT"

LostWhileSyncingHolds(n) ==
    /\ state = "SYNCING"
    /\ state' = IF activeRef' = NoRef THEN "HOLDOVER"
                ELSE IF Abs(offset') < LockThreshold /\ n >= SampleWindow \div 2
                  THEN "LOCKED"
                ELSE "SYNCING"

LockBeyondWindow(n) ==
    /\ state = "SYNCING"
    /\ state' = IF activeRef' = NoRef THEN "FAULT"
                ELSE IF Abs(offset') < LockThreshold /\ n > SampleWindow
                  THEN "LOCKED"
                ELSE "SYNCING"

FromSyncing(n) ==
    /\ state = "SYNCING"
    /\ state' = IF activeRef' = NoRef THEN "FAULT"
                ELSE IF Abs(offset') < LockThreshold /\ n >= SampleWindow \div 2
                  THEN "LOCKED"
                ELSE "SYNCING"

SignedFaultCheck ==
    /\ state = "LOCKED"
    /\ state' = IF activeRef' = NoRef THEN "HOLDOVER"
                ELSE IF offset' > FaultThreshold THEN "FAULT"
                ELSE "LOCKED"

FromLocked ==
    /\ state = "LOCKED"
    /\ state' = IF activeRef' = NoRef THEN "HOLDOVER"
                ELSE IF Abs(offset') > FaultThreshold THEN "FAULT"
                ELSE "LOCKED"

FromHoldover ==
    /\ state = "HOLDOVER"
    /\ state' = IF activeRef' # NoRef THEN "SYNCING"
                ELSE IF holdover' # NotHolding /\ holdover' > HoldoverTimeout
                  THEN "FAULT"
                ELSE "HOLDOVER"

FromFault ==
    /\ state = "FAULT"
    /\ state' = IF activeRef' # NoRef THEN "SYNCING" ELSE "FAULT"

UpdateState(n) ==
    FromInit \/ FromSyncing(n) \/ FromLocked \/ FromHoldover \/ FromFault

Recovers == state = "FAULT" /\ state' = "SYNCING"

SamplesKept(samples) == samples

\* Recovery from FAULT forgets the samples.
SamplesAfter(samples) == IF Recovers THEN <<>> ELSE samples

Discipline ==
    /\ pc = "discipline"
    /\ activeRef' = best
    /\ holdover' = HoldoverAfter(best)
    /\ \E reading \in Readings(best) :
         /\ \E filtered \in Filtered(reading) : offset' = filtered
         /\ UpdateState(Len(Window(reading)))
         /\ offsetSamples' = SamplesAfter(Window(reading))
         /\ sinceFault' = IF Recovers THEN 0
                          ELSE IF reading = NoReading THEN sinceFault
                          ELSE Min2(sinceFault + 1, SampleWindow)
    /\ pc' = "idle" /\ best' = NoRef /\ bestPriority' = PriorityCeiling /\ cursor' = 1
    /\ undisturbed' = TRUE
    /\ UNCHANGED <<config, refs>>

-----------------------------------------------------------------------------
Tick == BeginTick \/ AskLock \/ Compare \/ Record \/ EndSelect \/ Discipline

Next ==
    \/ Tick
    \/ RefChanges
    \/ Elapse
    \/ \E r \in Ref : SetPrimaryReference(r) \/ AddSecondaryReference(r)

\* The ticker keeps firing and time keeps passing; the references owe nothing.
Fairness == WF_vars(Tick) /\ WF_vars(Elapse)

Spec == Init /\ [][Next]_vars /\ Fairness

-----------------------------------------------------------------------------
(* Properties. *)

\* The holdover timer, the reference and the state agree: a holdover is timed, a
\* timer runs only without a reference, and the clock is SYNCING or LOCKED only
\* while it follows one (FAULT may have either).  A tick that missed one of
\* holdoverStart's resets would break it several ticks later.
HoldoverConsistent ==
    /\ state = "HOLDOVER" => holdover # NotHolding
    /\ holdover # NotHolding => activeRef = NoRef /\ state \in {"HOLDOVER", "FAULT"}
    /\ state \in {"SYNCING", "LOCKED"} => activeRef # NoRef
    /\ state \in {"INIT", "HOLDOVER"} => activeRef = NoRef

\* While the clock claims to be LOCKED or to hold over a lock, the offset it
\* applies to the time it serves (GetTime) is within the fault threshold,
\* however its references misbehaved since.
TrustedOffsetBounded ==
    state \in {"LOCKED", "HOLDOVER"} => Abs(offset) <= FaultThreshold

\* A clock that was in FAULT is LOCKED again only on readings taken since, half
\* a window of them at least: nothing measured before the fault is trusted.
FreshLock ==
    state = "LOCKED" => sinceFault >= SampleWindow \div 2

\* The applied offset is the median of the window the status shows, through
\* failed readings, slides and resets (an empty window keeps the old offset).
OffsetIsMedian ==
    offsetSamples # <<>> => offset \in Medians(offsetSamples)

\* The reference selectBestReference should find: the primary if it is locked,
\* otherwise the locked secondary of least priority, the first of equals.
Candidates ==
    {i \in DOMAIN secondaryRefs :
        locked[secondaryRefs[i]] /\ priority[secondaryRefs[i]] < PriorityCeiling}

Preferred(i) ==
    \A j \in Candidates :
        LET pi == priority[secondaryRefs[i]]
            pj == priority[secondaryRefs[j]]
        IN  pi < pj \/ (pi = pj /\ i <= j)

\* A tick during which no reference changed chose the preferred reference.
SelectsPreferred ==
    pc = "discipline" /\ undisturbed =>
        IF primaryRef # NoRef /\ locked[primaryRef] THEN best = primaryRef
        ELSE IF Candidates = {} THEN best = NoRef
        ELSE \E i \in Candidates : Preferred(i) /\ best = secondaryRefs[i]

\* What holds while the secondaries are scanned, from which SelectsPreferred
\* follows when the scan ends: best is the preferred one among those seen.
BestOfSeen ==
    /\ best = NoRef =>
         /\ bestPriority = PriorityCeiling
         /\ \A j \in Candidates : j >= cursor
    /\ best # NoRef =>
         \E i \in Candidates :
           /\ i < cursor /\ best = secondaryRefs[i]
           /\ bestPriority = priority[secondaryRefs[i]]
           /\ \A j \in Candidates : j < cursor =>
                \/ bestPriority < priority[secondaryRefs[j]]
                \/ bestPriority = priority[secondaryRefs[j]] /\ i <= j

CurrentBeatsSeen ==
    /\ cursor \in Candidates /\ best = Current
    /\ \A j \in Candidates : j < cursor => priority[Current] < priority[secondaryRefs[j]]

ScanSoFar ==
    pc \in {"select", "compare", "record"} /\ undisturbed =>
        /\ ~(primaryRef # NoRef /\ locked[primaryRef])
        /\ cursor <= Len(secondaryRefs) + 1
        /\ pc \in {"select", "compare"} => BestOfSeen
        /\ pc = "compare" => locked[Current]
        /\ pc = "record" => CurrentBeatsSeen

\* No sample survives a recovery from FAULT, and none is lost otherwise but by
\* the slide of a full window.
SamplesCounted == Len(offsetSamples) = sinceFault

\* The manager implements what its readers rely on.
Contract == INSTANCE ClockContract WITH source <- activeRef
ImplementsContract == Contract!Spec

\* A primary reference that stays locked and accurate leads to a clock that is
\* LOCKED for good, from whatever state the manager was in.
Accurate == \A i \in DOMAIN offsetSamples : Abs(offsetSamples[i]) < LockThreshold

StaysLocked ==
    <>[](primaryRef # NoRef /\ locked[primaryRef] /\ Accurate) => <>[](state = "LOCKED")

\* Without any reference the clock does not claim synchronisation for ever.
LossEndsInFault ==
    <>[](\A r \in Ref : ~locked[r]) => <>[](state \in {"INIT", "FAULT"})
=============================================================================
