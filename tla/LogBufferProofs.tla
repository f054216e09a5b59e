-------------------------- MODULE LogBufferProofs --------------------------
(***************************************************************************)
(* The circular buffer gives its readers the latest entries, for a ring of *)
(* any size and any number of wraps: it implements the log of the latest   *)
(* entries, with any number of streams that read it.                       *)
(***************************************************************************)
EXTENDS LogStream, TLAPS

\* Indices of the ring never exceed twice its size, so a remainder is at most
\* one subtraction.
LEMMA Wrap ==
    ASSUME NEW x \in 0 .. 2 * Size - 1
    PROVE  x % Size = IF x < Size THEN x ELSE x - Size
BY SizeAssumption, SMTT(30)

\* The slot j places behind h, without the remainder.
Behind(h, j) == IF j <= h THEN h - j ELSE h - j + Size

LEMMA BehindIsRemainder ==
    ASSUME NEW h \in Slots, NEW j \in 1 .. Size
    PROVE  /\ (h - j + Size) % Size = Behind(h, j)
           /\ Behind(h, j) \in Slots
<1>1. h - j + Size \in 0 .. 2 * Size - 1
  BY SizeAssumption DEF Slots
<1> DEFINE x == h - j + Size
<1>2. x % Size = IF x < Size THEN x ELSE x - Size
  BY <1>1, Wrap
<1>3. /\ (IF x < Size THEN x ELSE x - Size) = Behind(h, j)
      /\ Behind(h, j) \in Slots
  BY SizeAssumption DEF Behind, Slots
<1> QED BY <1>2, <1>3

\* The next head is one slot further, and what lies j places behind it lay j - 1
\* places behind the head.
LEMMA NextHeadProperties ==
    ASSUME head \in Slots
    PROVE  /\ NextHead \in Slots
           /\ Behind(NextHead, 1) = head
           /\ \A j \in 2 .. Size : /\ Behind(NextHead, j) = Behind(head, j - 1)
                                   /\ Behind(head, j - 1) # head
<1> DEFINE x == head + 1
<1>1. x \in 0 .. 2 * Size - 1
  BY SizeAssumption DEF Slots
<1>2. x % Size = IF x < Size THEN x ELSE x - Size
  <2> HIDE DEF x
  <2> QED BY <1>1, Wrap
<1>3. NextHead = IF head + 1 < Size THEN head + 1 ELSE head + 1 - Size
  BY <1>1, <1>2, SizeAssumption DEF NextHead, Slots
<1>4. PICK k \in Int : k = NextHead /\ k = IF head + 1 < Size THEN head + 1 ELSE head + 1 - Size
  BY <1>3, SizeAssumption DEF Slots
<1>5. /\ k \in Slots
      /\ Behind(k, 1) = head
      /\ \A j \in 2 .. Size : /\ Behind(k, j) = Behind(head, j - 1)
                              /\ Behind(head, j - 1) # head
  BY <1>4, SizeAssumption DEF Behind, Slots
<1> QED BY <1>4, <1>5

\* The inductive invariant: the slots behind the head hold the latest entries, and as
\* long as there is none nothing was logged.
RingInv ==
    /\ BufferTypeOK
    /\ count <= added /\ (count = 0 => added = 0)
    /\ \A j \in 1 .. count : entries[Behind(head, j)] = added + 1 - j

LEMMA InitRing == InitBuffer => RingInv
BY SizeAssumption DEF InitBuffer, RingInv, BufferTypeOK, Slots

LEMMA AddRing == RingInv /\ [Add]_bvars => RingInv'
<1> SUFFICES ASSUME RingInv, [Add]_bvars PROVE RingInv'
  OBVIOUS
<1> USE SizeAssumption
<1>1. CASE Add
  <2> USE <1>1
  <2>1. head \in Slots /\ count \in 0 .. Size /\ added \in Nat /\ count <= added
        /\ entries \in [Slots -> Nat]
    BY DEF RingInv, BufferTypeOK
  <2>2. /\ head' = NextHead /\ added' = added + 1
        /\ entries' = [entries EXCEPT ![head] = added + 1]
        /\ count' = IF count < Size THEN count + 1 ELSE count
    BY DEF Add
  <2>3. BufferTypeOK' /\ count' <= added' /\ count' # 0
    BY <2>1, <2>2, NextHeadProperties DEF BufferTypeOK
  <2>4. \A j \in 1 .. count' : entries'[Behind(head', j)] = added' + 1 - j
    <3> SUFFICES ASSUME NEW j \in 1 .. count'
                 PROVE  entries'[Behind(head', j)] = added' + 1 - j
      OBVIOUS
    <3>1. CASE j = 1
      BY <2>1, <2>2, <3>1, NextHeadProperties
    <3>2. CASE j # 1
      <4>1. j \in 2 .. Size /\ j - 1 \in 1 .. count /\ j - 1 \in 1 .. Size
        BY <2>1, <2>2, <3>2
      <4>2. Behind(head', j) = Behind(head, j - 1) /\ Behind(head, j - 1) # head
        BY <2>1, <2>2, <4>1, NextHeadProperties
      <4>3. Behind(head, j - 1) \in Slots
        BY <2>1, <4>1, BehindIsRemainder
      <4>4. entries[Behind(head, j - 1)] = added + 1 - (j - 1)
        BY <4>1 DEF RingInv
      <4> QED BY <2>1, <2>2, <4>1, <4>2, <4>3, <4>4
    <3> QED BY <3>1, <3>2
  <2> QED BY <2>3, <2>4 DEF RingInv
<1>2. CASE UNCHANGED bvars
  BY <1>2 DEF bvars, RingInv, BufferTypeOK
<1> QED BY <1>1, <1>2

\* A read of any length out of such a ring returns the latest entries in order.
LEMMA ReadRing == RingInv => RecentIsLatest
<1> SUFFICES ASSUME RingInv, NEW n \in 0 .. Size + 1
             PROVE  LET m == IF n > count THEN count ELSE n
                    IN  GetRecent(n) = [i \in 1 .. m |-> added - m + i]
  BY DEF RecentIsLatest
<1> DEFINE m == IF n > count THEN count ELSE n
           start == (head - m + Size) % Size
<1>1. head \in Slots /\ count \in 0 .. Size /\ added \in Nat /\ m \in 0 .. count
  BY SizeAssumption DEF RingInv, BufferTypeOK
<1>2. ASSUME NEW i \in 1 .. m PROVE entries[(start + i - 1) % Size] = added - m + i
  <2>1. m \in 1 .. Size /\ m + 1 - i \in 1 .. count /\ m + 1 - i \in 1 .. Size
    BY <1>1, <1>2, SizeAssumption
  <2>2. start = Behind(head, m) /\ start \in Slots
    BY <1>1, <2>1, BehindIsRemainder
  <2>3. start + i - 1 \in 0 .. 2 * Size - 1
    BY <1>1, <1>2, <2>2, SizeAssumption DEF Slots
  <2>4. (start + i - 1) % Size = IF start + i - 1 < Size THEN start + i - 1
                                 ELSE start + i - 1 - Size
    <3> DEFINE x == start + i - 1
    <3>1. x \in 0 .. 2 * Size - 1
      BY <2>3
    <3> HIDE DEF x
    <3>2. x % Size = IF x < Size THEN x ELSE x - Size
      BY <3>1, Wrap
    <3> QED BY <1>1, <1>2, <2>2, <3>2, SizeAssumption DEF x, Slots
  <2> HIDE DEF start, m
  <2>5. (IF start + i - 1 < Size THEN start + i - 1 ELSE start + i - 1 - Size)
          = Behind(head, m + 1 - i)
    BY <1>1, <1>2, <2>1, <2>2, SizeAssumption DEF Behind, Slots
  <2>6. entries[Behind(head, m + 1 - i)] = added + 1 - (m + 1 - i)
    BY <2>1 DEF RingInv
  <2>7. added + 1 - (m + 1 - i) = added - m + i
    BY <1>1, <2>1, <1>2
  <2> QED BY <2>4, <2>5, <2>6, <2>7
<1>3. GetRecent(n) = [i \in 1 .. m |-> entries[(start + i - 1) % Size]]
  BY DEF GetRecent
<1> HIDE DEF start, m
<1>4. GetRecent(n) = [i \in 1 .. m |-> added - m + i]
  BY <1>2, <1>3
<1> QED BY <1>4 DEF m

\* Readers get the latest entries in order, whatever the size of the ring, the
\* number of entries logged and the number asked for.
THEOREM RecentIsAlwaysLatest == BufferSpec => []RecentIsLatest
<1>1. BufferSpec => []RingInv
  BY InitRing, AddRing, PTL DEF BufferSpec
<1> QED BY <1>1, ReadRing, PTL

-----------------------------------------------------------------------------
(* The refinement *)

\* Streams only read: their steps leave the buffer as it is.
LEMMA OnlyLogAdds == [Next]_vars => [Add]_bvars
BY DEF Next, Log, Connect, Tick, vars

LEMMA RingAlways == Spec => []RingInv
<1>1. Init => RingInv
  BY InitRing DEF Init
<1>2. RingInv /\ [Next]_vars => RingInv'
  BY OnlyLogAdds, AddRing
<1> QED BY <1>1, <1>2, PTL DEF Spec

\* The n numbers that end in a.
Last(n, a) == [i \in 1 .. n |-> a - n + i]

\* What the ring of any state holds, as a sequence of numbers.
LEMMA RingContents ==
    RingInv => /\ count \in Nat /\ count <= Size /\ added \in Nat /\ count <= added
               /\ count = 0 => added = 0
               /\ GetRecent(count) = Last(count, added)
<1> SUFFICES ASSUME RingInv
             PROVE  /\ count \in Nat /\ count <= Size /\ added \in Nat /\ count <= added
                    /\ count = 0 => added = 0
                    /\ GetRecent(count) = Last(count, added)
  OBVIOUS
<1>1. /\ count \in 0 .. Size + 1 /\ count \in Nat /\ count <= Size
      /\ added \in Nat /\ count <= added /\ (count = 0 => added = 0)
  BY SizeAssumption DEF RingInv, BufferTypeOK
<1>2. ~(count > count)
  BY <1>1
<1>3. GetRecent(count) = Last(count, added)
  BY <1>1, <1>2, ReadRing DEF RecentIsLatest, Last
<1> QED BY <1>1, <1>3

\* A sequence that loses its first element and has another one at its end.
LEMMA Slide ==
    ASSUME NEW r \in Seq(Int), r # <<>>, NEW x \in Int
    PROVE  /\ Append(Tail(r), x) \in Seq(Int) /\ Len(Append(Tail(r), x)) = Len(r)
           /\ Append(Tail(r), x)[Len(r)] = x
           /\ \A i \in 1 .. Len(r) - 1 : Append(Tail(r), x)[i] = r[i + 1]
<1> DEFINE q == Tail(r)
<1>1. q \in Seq(Int) /\ Len(q) = Len(r) - 1 /\ Len(r) \in Nat \ {0}
      /\ \A i \in 1 .. Len(r) - 1 : q[i] = r[i + 1]
  OBVIOUS
<1> HIDE DEF q
<1>2. /\ Append(q, x) \in Seq(Int) /\ Len(Append(q, x)) = Len(q) + 1
      /\ Append(q, x)[Len(q) + 1] = x
      /\ \A i \in 1 .. Len(q) : Append(q, x)[i] = q[i]
  BY <1>1
<1>3. /\ Append(q, x) \in Seq(Int) /\ Len(Append(q, x)) = Len(r)
      /\ Append(q, x)[Len(r)] = x
      /\ \A i \in 1 .. Len(r) - 1 : Append(q, x)[i] = r[i + 1]
  BY <1>1, <1>2
<1> QED BY <1>3 DEF q

\* One more entry: consecutive numbers grow at their end, and lose the first one when
\* there is no room.
LEMMA OneMore ==
    ASSUME NEW n \in Nat, NEW a \in Nat, n = 0 => a = 0
    PROVE  /\ Len(Last(n, a)) = n
           /\ (IF Last(n, a) = <<>> THEN 0 ELSE Last(n, a)[n]) = a
           /\ Last(n + 1, a + 1) = Append(Last(n, a), a + 1)
           /\ n > 0 => Last(n, a + 1) = Append(Tail(Last(n, a)), a + 1)
<1>1. PICK r : r = Last(n, a)
  OBVIOUS
<1>2. r \in Seq(Int) /\ Len(r) = n /\ \A i \in 1 .. n : r[i] = a - n + i
  BY <1>1 DEF Last
<1>3. (IF r = <<>> THEN 0 ELSE r[n]) = a
  <2>1. CASE n = 0
    BY <1>2, <2>1
  <2>2. CASE n # 0
    BY <1>2, <2>2
  <2> QED BY <2>1, <2>2
<1>4. Last(n + 1, a + 1) = Append(r, a + 1)
  <2>1. PICK t : t = Append(r, a + 1)
    OBVIOUS
  <2>2. t \in Seq(Int) /\ Len(t) = n + 1 /\ t[n + 1] = a + 1
        /\ \A i \in 1 .. n : t[i] = r[i]
    BY <1>2, <2>1
  <2>3. ASSUME NEW i \in 1 .. n + 1 PROVE t[i] = (a + 1) - (n + 1) + i
    <3>1. CASE i = n + 1
      BY <2>2, <3>1
    <3>2. CASE i \in 1 .. n
      BY <1>2, <2>2, <3>2
    <3> QED BY <2>3, <3>1, <3>2
  <2>4. t = [i \in 1 .. n + 1 |-> t[i]]
    BY <2>2
  <2>5. t = Last(n + 1, a + 1)
    BY <2>3, <2>4 DEF Last
  <2> QED BY <2>1, <2>5
<1>5. ASSUME n > 0 PROVE Last(n, a + 1) = Append(Tail(r), a + 1)
  <2>1. PICK t : t = Append(Tail(r), a + 1)
    OBVIOUS
  <2>2. r # <<>> /\ a + 1 \in Int
    BY <1>2, <1>5
  <2>3. t \in Seq(Int) /\ Len(t) = n /\ t[n] = a + 1
        /\ \A i \in 1 .. n - 1 : t[i] = r[i + 1]
    BY <1>2, <2>1, <2>2, Slide
  <2>4. ASSUME NEW i \in 1 .. n PROVE t[i] = (a + 1) - n + i
    <3>1. CASE i = n
      BY <2>3, <3>1
    <3>2. CASE i \in 1 .. n - 1
      <4>1. i + 1 \in 1 .. n
        BY <3>2
      <4>2. r[i + 1] = a - n + (i + 1)
        BY <1>2, <4>1
      <4> QED BY <2>3, <3>2, <4>2
    <3> QED BY <2>4, <3>1, <3>2
  <2>5. t = [i \in 1 .. n |-> t[i]]
    BY <2>3
  <2>6. t = Last(n, a + 1)
    BY <2>4, <2>5 DEF Last
  <2> QED BY <2>1, <2>6
<1> QED BY <1>1, <1>2, <1>3, <1>4, <1>5

\* Every entry logged is one of the abstract log; a stream's steps are none.
LEMMA LogRefines ==
    RingInv /\ RingInv' /\ [Next]_vars => [Abstract!Log]_(GetRecent(count))
<1> SUFFICES ASSUME RingInv, RingInv', [Add]_bvars
             PROVE  [Abstract!Log]_(GetRecent(count))
  BY OnlyLogAdds
<1>1. CASE UNCHANGED bvars
  <2>1. GetRecent(count)' = GetRecent(count)
    BY <1>1 DEF GetRecent, bvars
  <2> QED BY <2>1
<1>2. CASE Add
  <2>1. count' = (IF count < Size THEN count + 1 ELSE count) /\ added' = added + 1
    BY <1>2 DEF Add
  <2>2. (GetRecent(count) = Last(count, added))'
    BY RingContents, PTL
  <2>3. PICK n, a, r, s :
          /\ n = count /\ a = added /\ r = GetRecent(count) /\ s = GetRecent(count)'
    OBVIOUS
  <2>4. /\ n \in Nat /\ n <= Size /\ a \in Nat /\ (n = 0 => a = 0) /\ r = Last(n, a)
        /\ s = Last(IF n < Size THEN n + 1 ELSE n, a + 1)
    BY <2>1, <2>2, <2>3, RingContents DEF Last
  <2>5. /\ Len(r) = n /\ (IF r = <<>> THEN 0 ELSE r[n]) = a
        /\ n < Size => s = Append(r, a + 1)
        /\ ~(n < Size) => s = Append(Tail(r), a + 1)
    <3>1. /\ Len(r) = n /\ (IF r = <<>> THEN 0 ELSE r[n]) = a
          /\ Last(n + 1, a + 1) = Append(r, a + 1)
          /\ n > 0 => Last(n, a + 1) = Append(Tail(r), a + 1)
      BY <2>4, OneMore
    <3>2. n < Size => s = Last(n + 1, a + 1)
      BY <2>4
    <3>3. ~(n < Size) => s = Last(n, a + 1) /\ n > 0
      BY <2>4, SizeAssumption
    <3> QED BY <3>1, <3>2, <3>3
  <2>6. s = IF Len(r) < Size THEN Append(r, a + 1) ELSE Append(Tail(r), a + 1)
    BY <2>5
  <2>7. Abstract!Log
    BY <2>3, <2>5, <2>6 DEF Abstract!Log, Abstract!Newest
  <2> QED BY <2>7
<1> QED BY <1>1, <1>2

\* With any number of streams, and whatever they read, the ring is the log of the
\* latest entries: each entry is added at its end, once, and pushes out only the oldest.
THEOREM RefinesRecentLog == Spec => ImplementsRecentLog
<1>1. Init => Abstract!Init
  <2> SUFFICES ASSUME Init PROVE GetRecent(count) = <<>>
    BY DEF Abstract!Init
  <2>1. RingInv /\ count = 0
    BY InitRing DEF Init, InitBuffer
  <2>2. GetRecent(count) = [i \in 1 .. 0 |-> added - count + i]
    BY <2>1, RingContents DEF Last
  <2> QED BY <2>2
<1>2. Spec => [][Abstract!Log]_(GetRecent(count))
  BY RingAlways, LogRefines, PTL DEF Spec
<1> QED BY <1>1, <1>2, PTL DEF Spec, ImplementsRecentLog, Abstract!Spec
=============================================================================
