------------------------- MODULE ClockManagerProofs -------------------------
(***************************************************************************)
(* What TLC checks of ClockManager on two references and a window of four, *)
(* proved for any set of references, any window and any thresholds.        *)
(***************************************************************************)
EXTENDS ClockManager, SequenceTheorems, TLAPS

-----------------------------------------------------------------------------
(* Lemmas about the filter. *)

\* A ranked sample is one of the samples.
LEMMA RankedAtType ==
    ASSUME NEW s \in Seq(Int), NEW k \in Int
    PROVE  RankedAt(s, k) \subseteq Int
<1>1. \A i \in DOMAIN s : s[i] \in Int
  BY ElementOfSeq, LenProperties
<1> DEFINE Places == {j \in DOMAIN s :
             /\ Cardinality({l \in DOMAIN s : s[l] < s[j]}) < k
             /\ Cardinality({l \in DOMAIN s : s[l] <= s[j]}) >= k}
<1>2. RankedAt(s, k) = {s[i] : i \in Places}
  BY DEF RankedAt
<1>3. Places \subseteq DOMAIN s
  OBVIOUS
<1> HIDE DEF Places
<1> QED BY <1>1, <1>2, <1>3

\* Halving truncates and stays an integer.
LEMMA HalveType == ASSUME NEW x \in Int PROVE Halve(x) \in Int
<1>1. x \div 2 \in Int /\ (-x) \div 2 \in Int
  OBVIOUS
<1> QED BY <1>1 DEF Halve

\* A median of integers is an integer.
LEMMA MediansType == ASSUME NEW s \in Seq(Int) PROVE Medians(s) \subseteq Int
<1> DEFINE n == Len(s)
<1>1. n \in Nat /\ n \div 2 \in Int
  BY LenProperties
<1>2. RankedAt(s, n \div 2) \subseteq Int /\ RankedAt(s, n \div 2 + 1) \subseteq Int
  BY <1>1, RankedAtType
<1>3. \A lo \in RankedAt(s, n \div 2), hi \in RankedAt(s, n \div 2 + 1) : Halve(lo + hi) \in Int
  BY <1>2, HalveType
<1> QED BY <1>2, <1>3 DEF Medians

\* The sliding window: a reading is added at its end, it never exceeds
\* SampleWindow, and until it is full nothing is dropped.
LEMMA WindowProperties ==
    ASSUME offsetSamples \in Seq(Int), Len(offsetSamples) <= SampleWindow,
           NEW reading \in Int \cup {NoReading}
    PROVE  /\ Window(reading) \in Seq(Int)
           /\ Len(Window(reading)) <= SampleWindow
           /\ reading # NoReading =>
                Len(Window(reading)) = Min2(Len(offsetSamples) + 1, SampleWindow)
           /\ reading = NoReading => Window(reading) = offsetSamples
<1> USE OffsetAssumption, WindowAssumption
<1>1. CASE reading = NoReading
  BY <1>1 DEF Window
<1>2. CASE reading # NoReading
  <2> DEFINE s == Append(offsetSamples, reading)
  <2>1. reading \in Int
    BY <1>2
  <2>2. s \in Seq(Int) /\ Len(s) = Len(offsetSamples) + 1 /\ s # <<>>
    BY <2>1, AppendProperties
  <2>3. Tail(s) \in Seq(Int) /\ Len(Tail(s)) = Len(s) - 1
    BY <2>2, HeadTailProperties
  <2>4. Window(reading) = IF Len(s) > SampleWindow THEN Tail(s) ELSE s
    BY <1>2 DEF Window
  <2>5. Len(offsetSamples) \in Nat
    BY LenProperties
  <2>6. CASE Len(s) > SampleWindow
    BY <1>2, <2>2, <2>3, <2>4, <2>5, <2>6 DEF Min2
  <2>7. CASE ~(Len(s) > SampleWindow)
    BY <1>2, <2>2, <2>4, <2>5, <2>7 DEF Min2
  <2> QED BY <2>6, <2>7
<1> QED BY <1>1, <1>2

-----------------------------------------------------------------------------
(* Type correctness. *)

LEMMA InitType == Init => TypeOK
<1> SUFFICES ASSUME Init PROVE TypeOK
  OBVIOUS
<1> USE PriorityAssumption, WindowAssumption, HoldoverAssumption
<1>1. <<>> \in Seq(Int) /\ <<>> \in Seq(Ref) /\ Len(<<>>) = 0
  BY EmptySeq
<1> QED BY <1>1 DEF Init, TypeOK, State

\* A reading of the tick is an integer or NoReading.
LEMMA ReadingsType ==
    ASSUME NEW r \in Ref \cup {NoRef} PROVE Readings(r) \subseteq Int \cup {NoReading}
BY OffsetAssumption DEF Readings

LEMMA DisciplineType == TypeOK /\ Discipline => TypeOK'
<1> SUFFICES ASSUME TypeOK, Discipline PROVE TypeOK'
  OBVIOUS
<1> USE WindowAssumption, HoldoverAssumption, PriorityAssumption
<1>1. PICK reading \in Readings(best) :
        /\ \E filtered \in Filtered(reading) : offset' = filtered
        /\ UpdateState(Len(Window(reading)))
        /\ offsetSamples' = SamplesAfter(Window(reading))
        /\ sinceFault' = IF Recovers THEN 0
                         ELSE IF reading = NoReading THEN sinceFault
                         ELSE Min2(sinceFault + 1, SampleWindow)
  BY DEF Discipline
<1>2. reading \in Int \cup {NoReading}
  BY ReadingsType DEF TypeOK
<1>3. /\ Window(reading) \in Seq(Int)
      /\ Len(Window(reading)) <= SampleWindow
  BY <1>2, WindowProperties DEF TypeOK
<1>4. offset' \in Int
  BY <1>1, <1>3, MediansType DEF Filtered, TypeOK
<1>5. offsetSamples' \in Seq(Int) /\ Len(offsetSamples') <= SampleWindow
  <2>1. <<>> \in Seq(Int) /\ Len(<<>>) = 0
    BY EmptySeq
  <2> QED BY <1>1, <1>3, <2>1 DEF SamplesAfter
<1>6. state' \in State
  BY <1>1 DEF UpdateState, FromInit, FromSyncing, FromLocked, FromHoldover, FromFault, State
<1>7. holdover' \in (0 .. HoldoverTimeout + 1) \cup {NotHolding}
  BY DEF Discipline, HoldoverAfter, TypeOK
<1>8. sinceFault' \in 0 .. SampleWindow
  BY <1>1 DEF TypeOK, Min2
<1>9. /\ activeRef' \in Ref \cup {NoRef} /\ best' \in Ref \cup {NoRef}
      /\ bestPriority' \in Int /\ cursor' \in Nat \ {0}
      /\ pc' = "idle" /\ undisturbed' \in BOOLEAN
      /\ primaryRef' \in Ref \cup {NoRef} /\ secondaryRefs' \in Seq(Ref)
      /\ locked' \in [Ref -> BOOLEAN] /\ priority' \in [Ref -> Priorities]
  BY DEF Discipline, TypeOK, config, refs
<1> QED BY <1>4, <1>5, <1>6, <1>7, <1>8, <1>9 DEF TypeOK

LEMMA NextType == TypeOK /\ [Next]_vars => TypeOK'
<1> SUFFICES ASSUME TypeOK, [Next]_vars PROVE TypeOK'
  OBVIOUS
<1> USE WindowAssumption, HoldoverAssumption, PriorityAssumption
    DEF TypeOK, manager, config, scan, refs
<1>1. CASE BeginTick
  BY <1>1 DEF BeginTick
<1>2. CASE AskLock \/ Compare \/ Record
  <2>1. DOMAIN secondaryRefs = 1 .. Len(secondaryRefs) /\ Len(secondaryRefs) \in Nat
    BY LenProperties
  <2>2. cursor \in DOMAIN secondaryRefs /\ cursor + 1 \in Nat \ {0}
    BY <1>2, <2>1 DEF AskLock, Compare, Record
  <2>3. Current \in Ref
    BY <2>2, ElementOfSeq DEF Current
  <2>4. priority[Current] \in Int
    BY <2>3
  <2> QED BY <1>2, <2>2, <2>3, <2>4 DEF AskLock, Compare, Record
<1>3. CASE EndSelect
  BY <1>3 DEF EndSelect
<1>4. CASE Discipline
  BY <1>4, DisciplineType
<1>5. CASE RefChanges
  BY <1>5 DEF RefChanges
<1>6. CASE Elapse
  BY <1>6 DEF Elapse
<1>7. CASE \E r \in Ref : SetPrimaryReference(r)
  BY <1>7 DEF SetPrimaryReference
<1>8. CASE \E r \in Ref : AddSecondaryReference(r)
  <2>1. PICK r \in Ref : AddSecondaryReference(r)
    BY <1>8
  <2>2. Append(secondaryRefs, r) \in Seq(Ref)
    BY AppendProperties
  <2> QED BY <2>1, <2>2 DEF AddSecondaryReference
<1>9. CASE UNCHANGED vars
  BY <1>9 DEF vars
<1> QED BY <1>1, <1>2, <1>3, <1>4, <1>5, <1>6, <1>7, <1>8, <1>9 DEF Next, Tick

\* Every variable keeps its type, for every window, threshold and set of
\* references: the window never outgrows SampleWindow, the timer its cap.
THEOREM TypeCorrect == Spec => []TypeOK
BY InitType, NextType, PTL DEF Spec

-----------------------------------------------------------------------------
(* The discipline invariants: the timer, the offset and the samples. *)

DisciplineInv ==
    /\ HoldoverConsistent
    /\ TrustedOffsetBounded
    /\ SamplesCounted
    /\ FreshLock
    /\ OffsetIsMedian

LEMMA InitDiscipline == Init => DisciplineInv
<1> SUFFICES ASSUME Init PROVE DisciplineInv
  OBVIOUS
<1>1. Len(<<>>) = 0
  BY EmptySeq
<1> QED BY <1>1 DEF Init, DisciplineInv, HoldoverConsistent, TrustedOffsetBounded,
       SamplesCounted, FreshLock, OffsetIsMedian

\* The tick that moves the state is the only step that has anything to preserve.
LEMMA TickPreservesDiscipline == TypeOK /\ DisciplineInv /\ Discipline => DisciplineInv'
<1> SUFFICES ASSUME TypeOK, DisciplineInv, Discipline PROVE DisciplineInv'
  OBVIOUS
<1> USE WindowAssumption, HoldoverAssumption, ThresholdAssumption
<1>1. PICK reading \in Readings(best) :
        /\ \E filtered \in Filtered(reading) : offset' = filtered
        /\ UpdateState(Len(Window(reading)))
        /\ offsetSamples' = SamplesAfter(Window(reading))
        /\ sinceFault' = IF Recovers THEN 0
                         ELSE IF reading = NoReading THEN sinceFault
                         ELSE Min2(sinceFault + 1, SampleWindow)
  BY DEF Discipline
<1>2. activeRef' = best /\ holdover' = HoldoverAfter(best)
  BY DEF Discipline
<1>3. reading \in Int \cup {NoReading}
  BY ReadingsType DEF TypeOK
<1>4. /\ Window(reading) \in Seq(Int)
      /\ Len(Window(reading)) <= SampleWindow
      /\ reading # NoReading =>
           Len(Window(reading)) = Min2(Len(offsetSamples) + 1, SampleWindow)
      /\ reading = NoReading => Window(reading) = offsetSamples
  BY <1>3, WindowProperties DEF TypeOK
<1>5. best = NoRef => reading = NoReading /\ offset' = offset
  BY <1>1 DEF Readings, Filtered
<1>6. HoldoverConsistent'
  BY <1>1, <1>2 DEF HoldoverConsistent, DisciplineInv, HoldoverAfter, TypeOK, State,
     UpdateState, FromInit, FromSyncing, FromLocked, FromHoldover, FromFault
<1>7. TrustedOffsetBounded'
  <2>1. offset \in Int /\ offset' \in Int
    BY <1>1, <1>4, MediansType DEF Filtered, TypeOK
  <2>2. Abs(offset') \in Int
    BY <2>1 DEF Abs
  <2>3. CASE state' = "LOCKED"
    BY <1>1, <2>2, <2>3 DEF UpdateState, FromInit, FromSyncing, FromLocked, FromHoldover,
       FromFault, TrustedOffsetBounded
  <2>4. CASE state' = "HOLDOVER"
    <3>1. activeRef' = NoRef /\ state \in {"LOCKED", "HOLDOVER"}
      BY <1>1, <2>4 DEF UpdateState, FromInit, FromSyncing, FromLocked, FromHoldover,
         FromFault
    <3>2. offset' = offset
      BY <1>2, <1>5, <3>1
    <3> QED BY <3>1, <3>2 DEF DisciplineInv, TrustedOffsetBounded, Abs
  <2> QED BY <2>3, <2>4 DEF TrustedOffsetBounded
<1>8. SamplesCounted'
  <2>1. Len(<<>>) = 0
    BY EmptySeq
  <2> QED BY <1>1, <1>4, <2>1 DEF SamplesAfter, SamplesCounted, DisciplineInv
<1>9. FreshLock'
  <2>1. sinceFault \in 0 .. SampleWindow /\ SampleWindow \div 2 \in Nat
        /\ SampleWindow \div 2 <= SampleWindow
    BY DEF TypeOK
  <2>2. CASE state' = "LOCKED" /\ state = "LOCKED"
    BY <1>1, <2>1, <2>2 DEF Recovers, FreshLock, DisciplineInv, Min2
  <2>3. CASE state' = "LOCKED" /\ state # "LOCKED"
    <3>1. state = "SYNCING" /\ Len(Window(reading)) >= SampleWindow \div 2
      BY <1>1, <2>3 DEF UpdateState, FromInit, FromSyncing, FromLocked, FromHoldover,
         FromFault
    <3>2. Len(Window(reading)) = sinceFault'
      BY <1>1, <1>4, <3>1 DEF Recovers, SamplesCounted, DisciplineInv
    <3> QED BY <3>1, <3>2 DEF FreshLock
  <2> QED BY <2>2, <2>3 DEF FreshLock
<1>10. OffsetIsMedian'
  <2> SUFFICES ASSUME offsetSamples' # <<>> PROVE offset' \in Medians(offsetSamples')
    BY DEF OffsetIsMedian
  <2>1. offsetSamples' = Window(reading)
    BY <1>1 DEF SamplesAfter
  <2>2. CASE reading = NoReading
    BY <1>1, <1>4, <2>1, <2>2 DEF Filtered, OffsetIsMedian, DisciplineInv
  <2>3. CASE reading # NoReading
    BY <1>1, <2>1, <2>3 DEF Filtered
  <2> QED BY <2>2, <2>3
<1> QED BY <1>6, <1>7, <1>8, <1>9, <1>10 DEF DisciplineInv

LEMMA NextDiscipline == TypeOK /\ DisciplineInv /\ [Next]_vars => DisciplineInv'
<1> SUFFICES ASSUME TypeOK, DisciplineInv, [Next]_vars PROVE DisciplineInv'
  OBVIOUS
<1>1. CASE Discipline
  BY <1>1, TickPreservesDiscipline
<1>2. CASE UNCHANGED <<manager, holdover>>
  <2>1. UNCHANGED <<state, activeRef, offset, offsetSamples, sinceFault, holdover>>
    BY <1>2 DEF manager
  <2>2. OffsetIsMedian'
    BY <2>1 DEF DisciplineInv, OffsetIsMedian
  <2> QED BY <2>1, <2>2 DEF DisciplineInv, HoldoverConsistent, TrustedOffsetBounded,
         SamplesCounted, FreshLock, Abs
<1>3. CASE Elapse
  <2>1. UNCHANGED <<state, activeRef, offset, offsetSamples, sinceFault>>
        /\ holdover # NotHolding /\ holdover' # NotHolding
    BY <1>3, HoldoverAssumption DEF Elapse, manager, TypeOK
  <2>2. OffsetIsMedian'
    BY <2>1 DEF DisciplineInv, OffsetIsMedian
  <2> QED BY <2>1, <2>2 DEF DisciplineInv, HoldoverConsistent, TrustedOffsetBounded,
         SamplesCounted, FreshLock, Abs
<1>4. [Next]_vars => Discipline \/ Elapse \/ UNCHANGED <<manager, holdover>>
  BY DEF Next, Tick, BeginTick, AskLock, Compare, Record, EndSelect, RefChanges, SetPrimaryReference,
     AddSecondaryReference, vars
<1> QED BY <1>1, <1>2, <1>3, <1>4

LEMMA DisciplineInvariant == Spec => []DisciplineInv
BY InitDiscipline, NextDiscipline, TypeCorrect, PTL DEF Spec

\* The holdover timer, the reference followed and the state always agree.
THEOREM HoldoverIsConsistent == Spec => []HoldoverConsistent
<1>1. DisciplineInv => HoldoverConsistent
  BY DEF DisciplineInv
<1> QED BY <1>1, DisciplineInvariant, PTL

\* A LOCKED or HOLDOVER clock never serves an offset beyond the fault threshold.
THEOREM TrustedOffsetIsBounded == Spec => []TrustedOffsetBounded
<1>1. DisciplineInv => TrustedOffsetBounded
  BY DEF DisciplineInv
<1> QED BY <1>1, DisciplineInvariant, PTL

\* A lock after a fault rests on half a window of readings taken since.
THEOREM LockIsFresh == Spec => []FreshLock
<1>1. DisciplineInv => FreshLock
  BY DEF DisciplineInv
<1> QED BY <1>1, DisciplineInvariant, PTL

\* The applied offset is always the median of the samples held.
THEOREM OffsetIsAlwaysMedian == Spec => []OffsetIsMedian
<1>1. DisciplineInv => OffsetIsMedian
  BY DEF DisciplineInv
<1> QED BY <1>1, DisciplineInvariant, PTL

-----------------------------------------------------------------------------
(* Selection: the loop of selectBestReference finds the preferred reference. *)

SelectionInv == ScanSoFar /\ SelectsPreferred

LEMMA InitSelection == Init => SelectionInv
BY DEF Init, SelectionInv, ScanSoFar, SelectsPreferred

\* The scan starts with nothing seen, and a locked primary ends it at once.
LEMMA BeginSelection == TypeOK /\ BeginTick => SelectionInv'
<1> SUFFICES ASSUME TypeOK, BeginTick PROVE SelectionInv'
  OBVIOUS
<1>1. /\ UNCHANGED <<primaryRef, secondaryRefs, locked, priority>>
      /\ cursor' = 1 /\ bestPriority' = PriorityCeiling
  BY DEF BeginTick, config, refs
<1>2. Len(secondaryRefs) \in Nat /\ DOMAIN secondaryRefs = 1 .. Len(secondaryRefs)
  BY LenProperties DEF TypeOK
<1>3. CASE primaryRef # NoRef /\ locked[primaryRef]
  BY <1>1, <1>3 DEF BeginTick, SelectionInv, ScanSoFar, SelectsPreferred
<1>4. CASE ~(primaryRef # NoRef /\ locked[primaryRef])
  <2>1. pc' = "select" /\ best' = NoRef
    BY <1>4 DEF BeginTick
  <2>2. \A j \in Candidates' : j >= cursor'
    BY <1>1, <1>2 DEF Candidates
  <2> QED BY <1>1, <1>2, <1>4, <2>1, <2>2 DEF SelectionInv, ScanSoFar, BestOfSeen, SelectsPreferred
<1> QED BY <1>3, <1>4

\* What the steps of the loop's body have in common.
LEMMA LoopBody ==
    ASSUME TypeOK, cursor <= Len(secondaryRefs), UNCHANGED <<config, refs>>
    PROVE  /\ UNCHANGED <<primaryRef, secondaryRefs, locked, priority>>
           /\ Len(secondaryRefs) \in Nat /\ cursor \in Nat \ {0}
           /\ DOMAIN secondaryRefs = 1 .. Len(secondaryRefs)
           /\ cursor \in DOMAIN secondaryRefs
           /\ Current \in Ref /\ Current # NoRef /\ priority[Current] \in Int
           /\ Candidates' = Candidates /\ Candidates \subseteq DOMAIN secondaryRefs
           /\ \A j \in Candidates : /\ priority[secondaryRefs[j]] \in Int
                                   /\ priority[secondaryRefs[j]] < PriorityCeiling
           /\ bestPriority \in Int /\ PriorityCeiling \in Int
<1> USE PriorityAssumption, RefAssumption
<1>1. UNCHANGED <<primaryRef, secondaryRefs, locked, priority>>
  BY DEF config, refs
<1>2. /\ Len(secondaryRefs) \in Nat /\ cursor \in Nat \ {0}
      /\ DOMAIN secondaryRefs = 1 .. Len(secondaryRefs)
      /\ cursor \in DOMAIN secondaryRefs
  BY LenProperties DEF TypeOK
<1>3. \A j \in DOMAIN secondaryRefs : secondaryRefs[j] \in Ref
  BY <1>2, ElementOfSeq DEF TypeOK
<1>4. \A j \in DOMAIN secondaryRefs : priority[secondaryRefs[j]] \in Int
  BY <1>3 DEF TypeOK
<1>5. Candidates' = Candidates /\ Candidates \subseteq DOMAIN secondaryRefs
  BY <1>1 DEF Candidates
<1>6. \A j \in Candidates : priority[secondaryRefs[j]] < PriorityCeiling
  BY DEF Candidates
<1> QED BY <1>1, <1>2, <1>3, <1>4, <1>5, <1>6 DEF Current, TypeOK

\* A secondary that is not locked is no candidate and is passed over.
LEMMA AskLockSelection == TypeOK /\ SelectionInv /\ AskLock => SelectionInv'
<1> SUFFICES ASSUME TypeOK, SelectionInv, AskLock, undisturbed PROVE SelectionInv'
  BY DEF AskLock, SelectionInv, ScanSoFar, SelectsPreferred
<1>1. /\ pc = "select" /\ cursor <= Len(secondaryRefs)
      /\ UNCHANGED <<config, refs, best, bestPriority, undisturbed>>
  BY DEF AskLock
<1>2. BestOfSeen /\ ~(primaryRef # NoRef /\ locked[primaryRef])
  BY <1>1 DEF SelectionInv, ScanSoFar
<1> USE LoopBody, <1>1
<1>3. CASE locked[Current]
  <2>1. pc' = "compare" /\ cursor' = cursor
    BY <1>3 DEF AskLock
  <2>2. BestOfSeen' /\ Current' = Current
    BY <1>2, <2>1 DEF BestOfSeen, Current
  <2> QED BY <1>2, <1>3, <2>1, <2>2 DEF SelectionInv, ScanSoFar, SelectsPreferred
<1>4. CASE ~locked[Current]
  <2>1. pc' = "select" /\ cursor' = cursor + 1
    BY <1>4 DEF AskLock
  <2>2. cursor \notin Candidates
    BY <1>4 DEF Candidates, Current
  <2>3. \A j \in Candidates : (j < cursor' <=> j < cursor) /\ (j >= cursor' <=> j >= cursor)
    BY <2>1, <2>2
  <2>4. BestOfSeen'
    BY <1>2, <2>3 DEF BestOfSeen
  <2> QED BY <1>2, <2>1, <2>4 DEF SelectionInv, ScanSoFar, SelectsPreferred
<1> QED BY <1>3, <1>4

\* A locked secondary becomes the best if its priority is below the best so far.
LEMMA CompareSelection == TypeOK /\ SelectionInv /\ Compare => SelectionInv'
<1> SUFFICES ASSUME TypeOK, SelectionInv, Compare, undisturbed PROVE SelectionInv'
  BY DEF Compare, SelectionInv, ScanSoFar, SelectsPreferred
<1>1. /\ pc = "compare" /\ cursor <= Len(secondaryRefs)
      /\ UNCHANGED <<config, refs, bestPriority, undisturbed>>
  BY LenProperties DEF Compare, TypeOK
<1>2. /\ BestOfSeen /\ locked[Current] /\ ~(primaryRef # NoRef /\ locked[primaryRef])
  BY <1>1 DEF SelectionInv, ScanSoFar
<1> USE LoopBody, <1>1
<1>3. CASE Improves(Current)
  <2>1. pc' = "record" /\ best' = Current /\ cursor' = cursor /\ Current' = Current
    BY <1>3 DEF Compare, Current
  <2>2. bestPriority <= PriorityCeiling
    BY <1>2 DEF BestOfSeen
  <2>3. cursor \in Candidates
    BY <1>2, <1>3, <2>2 DEF Improves, Candidates, Current
  <2>4. \A j \in Candidates : j < cursor => priority[Current] < priority[secondaryRefs[j]]
    <3> SUFFICES ASSUME NEW j \in Candidates, j < cursor
                 PROVE  priority[Current] < priority[secondaryRefs[j]]
      OBVIOUS
    <3>1. best # NoRef
      BY <1>2 DEF BestOfSeen
    <3>2. bestPriority <= priority[secondaryRefs[j]]
      BY <1>2, <3>1 DEF BestOfSeen
    <3> QED BY <1>3, <3>2 DEF Improves
  <2>5. CurrentBeatsSeen'
    BY <2>1, <2>3, <2>4 DEF CurrentBeatsSeen
  <2> QED BY <1>2, <2>1, <2>5 DEF SelectionInv, ScanSoFar, SelectsPreferred
<1>4. CASE ~Improves(Current)
  <2>1. pc' = "select" /\ best' = best /\ cursor' = cursor + 1
    BY <1>4 DEF Compare
  <2>2. cursor \in Candidates => best # NoRef /\ bestPriority <= priority[Current]
    BY <1>2, <1>4 DEF Improves, BestOfSeen, Current
  <2>3. \A j \in Candidates : j < cursor' => j < cursor \/ j = cursor
    BY <2>1
  <2>4. CASE best = NoRef
    <3>1. \A j \in Candidates : j >= cursor'
      BY <1>2, <2>1, <2>2, <2>4 DEF BestOfSeen
    <3> QED BY <1>2, <2>1, <2>4, <3>1 DEF BestOfSeen, SelectionInv, ScanSoFar, SelectsPreferred
  <2>5. CASE best # NoRef
    <3>1. PICK i \in Candidates :
               /\ i < cursor /\ best = secondaryRefs[i]
               /\ bestPriority = priority[secondaryRefs[i]]
               /\ \A j \in Candidates : j < cursor =>
                    \/ bestPriority < priority[secondaryRefs[j]]
                    \/ bestPriority = priority[secondaryRefs[j]] /\ i <= j
      BY <1>2, <2>5 DEF BestOfSeen
    <3>2. i < cursor' /\ i <= cursor
      BY <2>1, <3>1
    <3>3. \A j \in Candidates : j < cursor' =>
                    \/ bestPriority' < priority[secondaryRefs[j]]
                    \/ bestPriority' = priority[secondaryRefs[j]] /\ i <= j
      BY <2>2, <2>3, <3>1, <3>2 DEF Current
    <3>4. BestOfSeen'
      BY <2>1, <2>5, <3>1, <3>2, <3>3 DEF BestOfSeen
    <3> QED BY <1>2, <2>1, <3>4 DEF SelectionInv, ScanSoFar, SelectsPreferred
  <2> QED BY <2>4, <2>5
<1> QED BY <1>3, <1>4

\* The best secondary's priority is recorded as the one to beat.
LEMMA RecordSelection == TypeOK /\ SelectionInv /\ Record => SelectionInv'
<1> SUFFICES ASSUME TypeOK, SelectionInv, Record, undisturbed PROVE SelectionInv'
  BY DEF Record, SelectionInv, ScanSoFar, SelectsPreferred
<1>1. /\ pc = "record" /\ cursor <= Len(secondaryRefs)
      /\ UNCHANGED <<config, refs, best, undisturbed>>
      /\ pc' = "select" /\ cursor' = cursor + 1 /\ bestPriority' = priority[Current]
  BY LenProperties DEF Record, TypeOK
<1>2. /\ CurrentBeatsSeen /\ ~(primaryRef # NoRef /\ locked[primaryRef])
  BY <1>1 DEF SelectionInv, ScanSoFar
<1> USE LoopBody, <1>1
<1>3. \A j \in Candidates : j < cursor' =>
           \/ bestPriority' < priority[secondaryRefs[j]]
           \/ bestPriority' = priority[secondaryRefs[j]] /\ cursor <= j
  BY <1>2 DEF CurrentBeatsSeen, Current
<1>4. cursor \in Candidates /\ best = secondaryRefs[cursor] /\ best # NoRef
  BY <1>2 DEF CurrentBeatsSeen, Current
<1>5. BestOfSeen'
  BY <1>3, <1>4 DEF BestOfSeen, Current
<1> QED BY <1>2, <1>5 DEF SelectionInv, ScanSoFar, SelectsPreferred

\* When every secondary is seen, the choice so far is the choice.
LEMMA EndSelection == TypeOK /\ SelectionInv /\ EndSelect => SelectionInv'
<1> SUFFICES ASSUME TypeOK, SelectionInv, EndSelect, undisturbed PROVE SelectionInv'
  BY DEF EndSelect, SelectionInv, ScanSoFar, SelectsPreferred
<1>1. /\ UNCHANGED <<primaryRef, secondaryRefs, locked, priority, best, bestPriority, cursor>>
      /\ pc = "select" /\ pc' = "discipline" /\ cursor > Len(secondaryRefs)
  BY DEF EndSelect, config, refs
<1>2. Len(secondaryRefs) \in Nat /\ DOMAIN secondaryRefs = 1 .. Len(secondaryRefs)
  BY LenProperties DEF TypeOK
<1>3. Candidates' = Candidates /\ Candidates \subseteq DOMAIN secondaryRefs
  BY <1>1 DEF Candidates
<1>4. \A j \in Candidates : j < cursor
  BY <1>1, <1>2, <1>3 DEF TypeOK
<1>5. \A j \in Candidates : secondaryRefs[j] # NoRef
  BY <1>2, <1>3, ElementOfSeq, RefAssumption DEF TypeOK
<1>6. ScanSoFar /\ BestOfSeen
  BY <1>1 DEF SelectionInv, ScanSoFar
<1>7. CASE best = NoRef
  <2>1. Candidates = {}
    BY <1>1, <1>2, <1>3, <1>4, <1>6, <1>7 DEF BestOfSeen, TypeOK
  <2> QED BY <1>1, <1>3, <1>6, <1>7, <2>1 DEF ScanSoFar, SelectsPreferred, SelectionInv
<1>8. CASE best # NoRef
  <2>1. PICK i \in Candidates :
           /\ best = secondaryRefs[i]
           /\ \A j \in Candidates :
                \/ priority[secondaryRefs[i]] < priority[secondaryRefs[j]]
                \/ priority[secondaryRefs[i]] = priority[secondaryRefs[j]] /\ i <= j
    BY <1>1, <1>4, <1>6, <1>8 DEF BestOfSeen
  <2>2. Preferred(i)
    BY <2>1 DEF Preferred
  <2>3. Preferred(i)'
    BY <1>1, <1>3, <2>2 DEF Preferred
  <2> QED BY <1>1, <1>3, <1>6, <2>1, <2>3 DEF ScanSoFar, SelectsPreferred, SelectionInv
<1> QED BY <1>7, <1>8

LEMMA NextSelection == TypeOK /\ SelectionInv /\ [Next]_vars => SelectionInv'
<1> SUFFICES ASSUME TypeOK, SelectionInv, [Next]_vars PROVE SelectionInv'
  OBVIOUS
<1>1. CASE BeginTick
  BY <1>1, BeginSelection
<1>2. CASE AskLock \/ Compare \/ Record
  BY <1>2, AskLockSelection, CompareSelection, RecordSelection
<1>3. CASE EndSelect
  BY <1>3, EndSelection
<1>4. CASE pc' = "idle"
  BY <1>4 DEF SelectionInv, ScanSoFar, SelectsPreferred
<1>5. CASE RefChanges
  <2>1. pc' = pc /\ (pc # "idle" => ~undisturbed')
    BY <1>5 DEF RefChanges, scan
  <2> QED BY <2>1 DEF SelectionInv, ScanSoFar, SelectsPreferred
<1>6. CASE UNCHANGED <<config, scan, refs, undisturbed>>
  <2>1. UNCHANGED <<primaryRef, secondaryRefs, pc, best, bestPriority, cursor, locked,
                    priority, undisturbed>>
    BY <1>6 DEF config, scan, refs
  <2> QED BY <2>1 DEF SelectionInv, ScanSoFar, BestOfSeen, CurrentBeatsSeen, Current,
         SelectsPreferred, Candidates, Preferred
<1>7. Discipline => pc' = "idle"
  BY DEF Discipline
<1>8. \A r \in Ref : SetPrimaryReference(r) \/ AddSecondaryReference(r) => pc' = "idle"
  BY DEF SetPrimaryReference, AddSecondaryReference, scan
<1>9. Elapse \/ UNCHANGED vars => UNCHANGED <<config, scan, refs, undisturbed>>
  BY DEF Elapse, vars
<1> QED BY <1>1, <1>2, <1>3, <1>4, <1>5, <1>6, <1>7, <1>8, <1>9 DEF Next, Tick

\* For any number of secondary references, a tick that no reference change
\* disturbs chooses the locked primary, or the preferred locked secondary.
THEOREM SelectionIsPreferred == Spec => []SelectsPreferred
<1>1. SelectionInv => SelectsPreferred
  BY DEF SelectionInv
<1> QED BY <1>1, InitSelection, NextSelection, TypeCorrect, PTL DEF Spec

-----------------------------------------------------------------------------
(* Refinement: the safety part of the contract. *)

LEMMA InitContract == Init => Contract!Init
BY DEF Init, Contract!Init

\* Every tick maps to a step of the contract or to a stutter; a reference that
\* is lost is lost from a state the contract allows to lose it in.
LEMMA TickContract ==
    TypeOK /\ HoldoverConsistent /\ Discipline => Contract!Next \/ UNCHANGED Contract!cvars
<1> SUFFICES ASSUME TypeOK, HoldoverConsistent, Discipline
             PROVE  Contract!Next \/ UNCHANGED Contract!cvars
  OBVIOUS
<1>1. PICK n : UpdateState(n)
  BY DEF Discipline
<1>2. activeRef' \in Ref \cup {NoRef}
  BY DEF Discipline, TypeOK
<1> USE RefAssumption DEF Contract!Next, Contract!cvars
<1>3. CASE FromInit
  BY <1>2, <1>3 DEF FromInit, HoldoverConsistent, Contract!Acquire
<1>4. CASE FromSyncing(n)
  BY <1>2, <1>4 DEF FromSyncing, Contract!Lose, Contract!Lock, Contract!Switch
<1>5. CASE FromLocked
  BY <1>2, <1>5 DEF FromLocked, Contract!Lose, Contract!Reject, Contract!Switch
<1>6. CASE FromHoldover
  BY <1>2, <1>6 DEF FromHoldover, HoldoverConsistent, Contract!Acquire, Contract!Expire
<1>7. CASE FromFault
  BY <1>2, <1>7 DEF FromFault, Contract!Acquire, Contract!Lose
<1> QED BY <1>1, <1>3, <1>4, <1>5, <1>6, <1>7 DEF UpdateState

LEMMA NextContract ==
    TypeOK /\ HoldoverConsistent /\ [Next]_vars => [Contract!Next]_(Contract!cvars)
<1> SUFFICES ASSUME TypeOK, HoldoverConsistent, [Next]_vars
             PROVE  Contract!Next \/ UNCHANGED Contract!cvars
  OBVIOUS
<1>1. CASE Discipline
  BY <1>1, TickContract
<1>2. CASE UNCHANGED manager
  BY <1>2 DEF manager, Contract!cvars
<1>3. [Next]_vars => Discipline \/ UNCHANGED manager
  BY DEF Next, Tick, BeginTick, AskLock, Compare, Record, EndSelect, RefChanges, Elapse,
     SetPrimaryReference, AddSecondaryReference, vars
<1> QED BY <1>1, <1>2, <1>3

\* The manager takes no step its readers' contract does not allow: FAULT is
\* never left but by SYNCING, HOLDOVER is entered only from LOCKED, and so on.
THEOREM RefinesContract ==
    Spec => Contract!Init /\ [][Contract!Next]_(Contract!cvars)
BY InitContract, NextContract, TypeCorrect, HoldoverIsConsistent, PTL DEF Spec
=============================================================================
