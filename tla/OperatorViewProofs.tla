------------------------- MODULE OperatorViewProofs -------------------------
(***************************************************************************)
(* Proofs about what an operator is shown: LogShipper, for any batch size, *)
(* buffer and number of lines and failures; RequestMetrics, for any        *)
(* connections, routes, segments, methods, statuses and caps; and          *)
(* MaintenanceWindow, for any probes, window and clock.  The three share   *)
(* no state and no lemma.                                                  *)
(***************************************************************************)
EXTENDS LogShipper, RequestMetrics, MaintenanceWindow,
        SequenceTheorems, FiniteSetTheorems, TLAPS

-----------------------------------------------------------------------------
(* The lines.  Every step either leaves what is pending alone (Flush moves  *)
(* lines from the buffer to the batch) or takes a prefix off it, or a line  *)
(* out of its middle, and counts what it took.                              *)

\* Whether the lines of s are in the order they were emitted.
Ordered(s) == \A i, j \in 1 .. Len(s) : i < j => s[i] < s[j]

\* What a suffix of a sequence is made of.
LEMMA SuffixFacts ==
    ASSUME NEW S, NEW s \in Seq(S), NEW k \in 0 .. Len(s)
    PROVE  LET t == SubSeq(s, k + 1, Len(s)) IN
             /\ t \in Seq(S) /\ Len(t) = Len(s) - k
             /\ \A i \in 1 .. Len(t) : t[i] = s[k + i]
<1>1. Len(s) \in Nat /\ \A i \in 1 .. Len(s) : s[i] \in S
  BY LenProperties, ElementOfSeq
<1>2. \A i \in k + 1 .. Len(s) : s[i] \in S
  BY <1>1
<1>3. (k + 1) + 0 = k + 1 /\ k + 1 \in Int /\ Len(s) \in Int
  BY <1>1
<1> QED
  BY <1>1, <1>2, <1>3, SubSeqProperties

\* The line sequences b and c are in order together when each is and no line
\* of b comes after one of c.
LEMMA OrderedConcat ==
    ASSUME NEW S \in SUBSET Nat, NEW b \in Seq(S), NEW c \in Seq(S)
    PROVE  Ordered(b \o c) <=>
             /\ Ordered(b) /\ Ordered(c)
             /\ \A i \in 1 .. Len(b), j \in 1 .. Len(c) : b[i] < c[j]
<1>1. Len(b) \in Nat /\ Len(c) \in Nat
  BY LenProperties
<1>2. /\ Len(b \o c) = Len(b) + Len(c)
      /\ \A i \in 1 .. Len(b) : (b \o c)[i] = b[i]
      /\ \A j \in 1 .. Len(c) : (b \o c)[Len(b) + j] = c[j]
  BY <1>1, ConcatProperties
<1>3. ASSUME Ordered(b \o c)
      PROVE  /\ Ordered(b) /\ Ordered(c)
             /\ \A i \in 1 .. Len(b), j \in 1 .. Len(c) : b[i] < c[j]
  <2>1. \A i, j \in 1 .. Len(b) : i < j => b[i] < b[j]
    BY <1>1, <1>2, <1>3 DEF Ordered
  <2>2. ASSUME NEW i \in 1 .. Len(c), NEW j \in 1 .. Len(c), i < j
        PROVE  c[i] < c[j]
    <3>1. /\ Len(b) + i \in 1 .. Len(b \o c) /\ Len(b) + j \in 1 .. Len(b \o c)
          /\ Len(b) + i < Len(b) + j
      BY <1>1, <1>2, <2>2
    <3> QED
      BY <1>2, <1>3, <3>1 DEF Ordered
  <2>3. ASSUME NEW i \in 1 .. Len(b), NEW j \in 1 .. Len(c)
        PROVE  b[i] < c[j]
    <3>1. /\ i \in 1 .. Len(b \o c) /\ Len(b) + j \in 1 .. Len(b \o c)
          /\ i < Len(b) + j
      BY <1>1, <1>2, <2>3
    <3> QED
      BY <1>2, <1>3, <3>1 DEF Ordered
  <2> QED
    BY <2>1, <2>2, <2>3 DEF Ordered
<1>4. ASSUME Ordered(b), Ordered(c),
             \A i \in 1 .. Len(b), j \in 1 .. Len(c) : b[i] < c[j],
             NEW i \in 1 .. Len(b \o c), NEW j \in 1 .. Len(b \o c), i < j
      PROVE  (b \o c)[i] < (b \o c)[j]
  <2>1. CASE j <= Len(b)
    BY <1>1, <1>2, <1>4, <2>1 DEF Ordered
  <2>2. CASE i <= Len(b) /\ j > Len(b)
    <3>1. j - Len(b) \in 1 .. Len(c) /\ Len(b) + (j - Len(b)) = j /\ i \in 1 .. Len(b)
      BY <1>1, <1>2, <2>2
    <3> QED
      BY <1>2, <1>4, <3>1
  <2>3. CASE i > Len(b)
    <3>1. /\ j - Len(b) \in 1 .. Len(c) /\ Len(b) + (j - Len(b)) = j
          /\ i - Len(b) \in 1 .. Len(c) /\ Len(b) + (i - Len(b)) = i
          /\ i - Len(b) < j - Len(b)
      BY <1>1, <1>2, <1>4, <2>3
    <3> QED
      BY <1>2, <1>4, <3>1 DEF Ordered
  <2> QED
    BY <1>1, <2>1, <2>2, <2>3
<1> QED
  BY <1>3, <1>4 DEF Ordered

\* A suffix of a sequence in order is in order.
LEMMA OrderedSuffix ==
    ASSUME NEW S \in SUBSET Nat, NEW s \in Seq(S), Ordered(s), NEW k \in 0 .. Len(s)
    PROVE  Ordered(SubSeq(s, k + 1, Len(s)))
<1> DEFINE t == SubSeq(s, k + 1, Len(s))
<1>1. Len(s) \in Nat /\ Len(t) = Len(s) - k /\ \A i \in 1 .. Len(t) : t[i] = s[k + i]
  BY SuffixFacts, LenProperties
<1>2. ASSUME NEW i \in 1 .. Len(t), NEW j \in 1 .. Len(t), i < j
      PROVE  t[i] < t[j]
  <2>1. k + i \in 1 .. Len(s) /\ k + j \in 1 .. Len(s) /\ k + i < k + j
    <3> DEFINE n == Len(s)
               l == Len(t)
    <3>1. n \in Nat /\ l = n - k /\ k \in 0 .. n /\ i \in 1 .. l /\ j \in 1 .. l
      BY <1>1, Zenon
    <3> HIDE DEF n, l
    <3>2. k + i \in 1 .. n /\ k + j \in 1 .. n /\ k + i < k + j
      BY ONLY <3>1, <1>2
    <3> QED
      BY ONLY <3>2, Zenon DEF n
  <2> QED
    BY <1>1, <2>1 DEF Ordered
<1> QED
  BY <1>2 DEF Ordered

-----------------------------------------------------------------------------

\* flush moves lines: what is pending afterwards is what was pending before,
\* in the same order, and the batch is within its size.
LEMMA FlushMoves ==
    ASSUME ShipperAssumption, NEW S \in SUBSET Nat, NEW buf \in Seq(S), batch \in Seq(S),
           Len(batch) <= BatchSize, inFlight = (batch # <<>>),
           Flush(buf) \/ NoFlush(buf)
    PROVE  /\ buffer' \in Seq(S) /\ Len(buffer') <= Len(buf)
           /\ batch' \in Seq(S) /\ Len(batch') <= BatchSize
           /\ inFlight' = (batch' # <<>>)
           /\ batch' \o buffer' = batch \o buf
           /\ inFlight => batch' = batch /\ buffer' = buf
           /\ \A i \in 1 .. Len(buffer') : \E j \in 1 .. Len(buf) : buffer'[i] = buf[j]
           /\ ~inFlight => \A i \in 1 .. Len(batch') : \E j \in 1 .. Len(buf) : batch'[i] = buf[j]
<1>1. Len(buf) \in Nat
  BY LenProperties
<1>2. CASE NoFlush(buf)
  <2>1. batch' = batch /\ buffer' = buf /\ inFlight' = inFlight
    BY <1>2 DEF NoFlush
  <2>2. ~inFlight => Len(batch') = 0
    BY <2>1, EmptySeq
  <2> QED
    BY <1>1, <2>1, <2>2
<1>3. CASE ~inFlight /\ buf # <<>> /\ Flush(buf)
  <2> DEFINE n == Taken(buf)
  <2>1. n \in 1 .. Len(buf) /\ n <= BatchSize
    <3>1. Len(buf) # 0
      BY <1>3, EmptySeq
    <3> QED
      BY <1>1, <3>1 DEF Taken, Smaller, ShipperAssumption
  <2>2. batch = <<>> /\ batch' = SubSeq(buf, 1, n) /\ buffer' = SubSeq(buf, n + 1, Len(buf))
        /\ inFlight' = TRUE
    BY <1>3 DEF Flush
  <2> HIDE DEF n
  <2>3. /\ buffer' \in Seq(S) /\ Len(buffer') = Len(buf) - n
        /\ \A i \in 1 .. Len(buffer') : buffer'[i] = buf[n + i]
    BY <1>1, <2>1, <2>2, SuffixFacts
  <2>4. /\ batch' \in Seq(S) /\ Len(batch') = n
        /\ \A i \in 1 .. n : batch'[i] = buf[i]
    <3>1. \A i \in 1 .. n : buf[i] \in S
      BY <1>1, <2>1, ElementOfSeq
    <3> QED
      BY <2>1, <2>2, <3>1, SubSeqProperties
  <2>5. batch' \o buffer' = buf
    <3>1. SubSeq(buf, 1, n) \o SubSeq(buf, n + 1, Len(buf)) = SubSeq(buf, 1, Len(buf))
      BY <1>1, <2>1, ConcatAdjacentSubSeq
    <3> QED
      BY <2>2, <3>1, SubSeqFull
  <2>6. batch \o buf = buf
    BY <2>2, ConcatEmptySeq
  <2>7. batch' # <<>>
    <3>1. Len(batch') # 0
      BY <1>1, <2>1, <2>4
    <3> QED
      BY <3>1, EmptySeq
  <2>8. Len(buffer') <= Len(buf) /\ Len(batch') <= BatchSize
    BY <1>1, <2>1, <2>3, <2>4
  <2>9. inFlight' = (batch' # <<>>) /\ (inFlight => batch' = batch /\ buffer' = buf)
    BY <1>3, <2>2, <2>7, Zenon
  <2>10. \A i \in 1 .. Len(buffer') : n + i \in 1 .. Len(buf)
    BY <1>1, <2>1, <2>3
  <2>11. \A i \in 1 .. n : i \in 1 .. Len(buf)
    BY <1>1, <2>1
  <2> QED
    BY <2>3, <2>4, <2>5, <2>6, <2>8, <2>9, <2>10, <2>11
<1> QED
  BY <1>2, <1>3 DEF Flush

-----------------------------------------------------------------------------

\* A dropped line is newer than a line in flight only while the buffer is
\* full: the line was dropped behind the batch's back, and no flush has made
\* room since.  So when the failed batch finds room, nothing it brings back is
\* older than what was dropped.
LossBehind ==
    \/ Len(buffer) >= MaxBuffer
    \/ \A d \in lost, i \in 1 .. Len(batch) : d < batch[i]

ShipInv == TypeOK /\ NothingVanishes /\ OrderKept /\ OldestDropped /\ LossBehind

\* What the invariant says of the lines that are pending.
LEMMA PendingFacts ==
    ASSUME ShipInv
    PROVE  /\ emitted \in Nat /\ 1 .. emitted \in SUBSET Nat
           /\ Len(batch) \in Nat /\ Len(buffer) \in Nat
           /\ DOMAIN batch = 1 .. Len(batch) /\ DOMAIN buffer = 1 .. Len(buffer)
           /\ \A i \in 1 .. Len(batch) : batch[i] \in 1 .. emitted
           /\ \A i \in 1 .. Len(buffer) : buffer[i] \in 1 .. emitted
           /\ Len(batch \o buffer) = Len(batch) + Len(buffer)
           /\ Ordered(batch) /\ Ordered(buffer)
           /\ \A i \in 1 .. Len(batch), j \in 1 .. Len(buffer) : batch[i] < buffer[j]
<1>1. /\ emitted \in Nat /\ 1 .. emitted \in SUBSET Nat
      /\ batch \in Seq(1 .. emitted) /\ buffer \in Seq(1 .. emitted)
  BY DEF ShipInv, TypeOK
<1>2. Ordered(batch \o buffer)
  BY DEF ShipInv, OrderKept, Pending, Ordered
<1>3. Len(batch \o buffer) = Len(batch) + Len(buffer)
  BY <1>1, ConcatProperties
<1>4. /\ Len(batch) \in Nat /\ Len(buffer) \in Nat
      /\ DOMAIN batch = 1 .. Len(batch) /\ DOMAIN buffer = 1 .. Len(buffer)
      /\ \A i \in 1 .. Len(batch) : batch[i] \in 1 .. emitted
      /\ \A i \in 1 .. Len(buffer) : buffer[i] \in 1 .. emitted
  BY <1>1, LenProperties, ElementOfSeq
<1> QED
  BY <1>1, <1>2, <1>3, <1>4, OrderedConcat

\* The first state: nothing emitted, nothing pending.
LEMMA InitShip ==
    ASSUME ShipperAssumption, Init
    PROVE  ShipInv
<1>1. Len(<<>>) = 0 /\ <<>> \in Seq(1 .. 0) /\ <<>> \o <<>> = <<>>
  <2>1. <<>> \in Seq(1 .. 0) /\ Len(<<>>) = 0
    BY EmptySeq
  <2> QED
    BY <2>1, ConcatEmptySeq
<1>2. TypeOK
  <2>1. inFlight = (batch # <<>>) /\ timer \in BOOLEAN
    BY DEF Init
  <2>2. emitted \in 0 .. MaxLines /\ {shipped, dropped, failures} \subseteq Nat
    BY DEF Init, ShipperAssumption
  <2>3. lost \subseteq 1 .. emitted /\ collected \subseteq 1 .. emitted
    BY DEF Init
  <2>4. /\ buffer \in Seq(1 .. emitted) /\ Len(buffer) <= MaxBuffer
        /\ batch \in Seq(1 .. emitted) /\ Len(batch) <= BatchSize
    BY <1>1 DEF Init, ShipperAssumption
  <2> QED
    BY <2>1, <2>2, <2>3, <2>4 DEF TypeOK
<1>3. NothingVanishes
  BY <1>1 DEF Init, NothingVanishes, Pending
<1>4. OrderKept
  BY <1>1 DEF Init, OrderKept, Pending
<1>5. OldestDropped /\ LossBehind
  BY DEF Init, OldestDropped, LossBehind
<1> QED
  BY <1>2, <1>3, <1>4, <1>5 DEF ShipInv

\* A line joins the buffer; the oldest one makes room for it.
LEMMA LogKeeps ==
    ASSUME ShipperAssumption, ShipInv, Log
    PROVE  ShipInv'
<1> DEFINE full == Len(buffer) >= MaxBuffer
           rest == IF full THEN Tail(buffer) ELSE buffer
           line == emitted + 1
           buf  == Append(rest, line)
           S    == 1 .. line
<1>1. /\ emitted \in Nat /\ emitted < MaxLines /\ emitted' = line
      /\ line \in S /\ S \in SUBSET Nat /\ 1 .. emitted \subseteq S
      /\ dropped' = (IF full THEN dropped + 1 ELSE dropped)
      /\ lost' = (IF full THEN lost \cup {Head(buffer)} ELSE lost)
      /\ Flush(buf) \/ NoFlush(buf)
      /\ UNCHANGED <<timer, shipped, failures, collected>>
  BY SMTT(30) DEF Log, ShipInv, TypeOK, ShipperAssumption
<1>2. /\ MaxBuffer \in Nat /\ MaxBuffer > 0 /\ MaxLines \in Nat
      /\ batch \in Seq(1 .. emitted) /\ buffer \in Seq(1 .. emitted)
      /\ Len(buffer) <= MaxBuffer /\ Len(batch) <= BatchSize /\ inFlight = (batch # <<>>)
      /\ lost \subseteq 1 .. emitted
  BY DEF ShipperAssumption, ShipInv, TypeOK
<1>3. batch \in Seq(S)
  BY <1>1, <1>2, SeqMonotonic
<1>4. full => buffer # <<>> /\ Len(buffer) = MaxBuffer /\ Head(buffer) = buffer[1]
  <2>1. Len(buffer) \in Nat
    BY PendingFacts
  <2>2. full => Len(buffer) # 0 /\ Len(buffer) = MaxBuffer
    BY <1>2, <2>1
  <2>3. full => buffer # <<>>
    BY <2>2, EmptySeq
  <2> QED
    BY <1>2, <2>2, <2>3
<1>5. /\ rest \in Seq(1 .. emitted)
      /\ Len(rest) = (IF full THEN Len(buffer) - 1 ELSE Len(buffer))
      /\ \A i \in 1 .. Len(rest) : rest[i] = (IF full THEN buffer[i + 1] ELSE buffer[i])
  <2>1. CASE full
    BY <1>2, <1>4, <2>1, HeadTailProperties
  <2>2. CASE ~full
    BY <1>2, <2>2
  <2> QED
    BY <2>1, <2>2
<1> HIDE DEF rest
<1>6. rest \in Seq(S) /\ Len(rest) \in Nat
  BY <1>1, <1>5, SeqMonotonic, LenProperties
<1>7. /\ buf \in Seq(S) /\ Len(buf) = Len(rest) + 1
      /\ \A i \in 1 .. Len(rest) : buf[i] = rest[i]
      /\ buf[Len(rest) + 1] = line
  BY <1>1, <1>6, AppendProperties
<1> HIDE DEF buf
<1>8. Len(buf) <= MaxBuffer /\ (full => Len(buf) = MaxBuffer)
  <2>1. Len(buffer) \in Nat
    BY PendingFacts
  <2> QED
    BY <1>2, <1>4, <1>5, <1>7, <2>1
\* Every line of rest is one of the buffer, later than what was lost.
<1>9. ASSUME NEW i \in 1 .. Len(rest)
      PROVE  /\ rest[i] \in 1 .. emitted
             /\ \E j \in 1 .. Len(buffer) : rest[i] = buffer[j]
             /\ \A d \in lost' : d < rest[i]
  <2>1. CASE full
    <3>1. i + 1 \in 1 .. Len(buffer) /\ rest[i] = buffer[i + 1] /\ 1 \in 1 .. Len(buffer)
      BY <1>5, <1>6, <2>1, PendingFacts
    <3>2. buffer[1] < buffer[i + 1]
      BY <3>1, <1>6, PendingFacts DEF Ordered
    <3>3. \A d \in lost : d < buffer[i + 1]
      BY <3>1 DEF ShipInv, OldestDropped
    <3> QED
      BY <1>1, <1>4, <2>1, <3>1, <3>2, <3>3, PendingFacts
  <2>2. CASE ~full
    <3>1. i \in 1 .. Len(buffer) /\ rest[i] = buffer[i]
      BY <1>5, <2>2
    <3> QED
      BY <1>1, <2>2, <3>1, PendingFacts DEF ShipInv, OldestDropped
  <2> QED
    BY <2>1, <2>2
<1>10. lost' \subseteq 1 .. emitted
  <2>1. full => Head(buffer) \in 1 .. emitted
    BY <1>2, <1>4, HeadTailProperties
  <2> QED
    BY <1>1, <1>2, <2>1
<1>11. \A d \in lost', i \in 1 .. Len(buf) : d < buf[i]
  <2> TAKE d \in lost', i \in 1 .. Len(buf)
  <2>1. CASE i \in 1 .. Len(rest)
    BY <1>7, <1>9, <2>1
  <2>2. CASE i = Len(rest) + 1
    BY <1>1, <1>7, <1>10, <2>2, SMTT(30)
  <2> QED
    BY <1>6, <1>7, <2>1, <2>2
<1>12. Ordered(batch \o buf) /\ Len(batch \o buf) = Len(batch) + Len(rest) + 1
  <2>1. Ordered(buf)
    <3>1. ASSUME NEW i \in 1 .. Len(buf), NEW j \in 1 .. Len(buf), i < j
          PROVE  buf[i] < buf[j]
      <4>0. i \in 1 .. Len(rest) /\ (j \in 1 .. Len(rest) \/ j = Len(rest) + 1)
        BY <1>6, <1>7, <3>1, SMTT(30)
      <4>1. CASE j \in 1 .. Len(rest)
        <5>1. CASE full
          <6>1. /\ i + 1 \in 1 .. Len(buffer) /\ j + 1 \in 1 .. Len(buffer) /\ i + 1 < j + 1
                /\ buf[i] = buffer[i + 1] /\ buf[j] = buffer[j + 1]
            <7>1. Len(buffer) \in Nat /\ Len(rest) = Len(buffer) - 1
              BY <1>5, <5>1, PendingFacts
            <7> QED
              BY <1>5, <1>7, <3>1, <4>0, <4>1, <5>1, <7>1, SMTT(30)
          <6> QED
            BY <6>1, PendingFacts DEF Ordered
        <5>2. CASE ~full
          <6>1. /\ i \in 1 .. Len(buffer) /\ j \in 1 .. Len(buffer)
                /\ buf[i] = buffer[i] /\ buf[j] = buffer[j]
            BY <1>5, <1>7, <4>0, <4>1, <5>2
          <6> QED
            BY <3>1, <6>1, PendingFacts DEF Ordered
        <5> QED
          BY <5>1, <5>2
      <4>2. CASE j = Len(rest) + 1
        <5>1. buf[i] = rest[i] /\ buf[j] = line
          BY <1>7, <4>0, <4>2
        <5>2. rest[i] \in 1 .. emitted
          BY <1>9, <4>0
        <5>3. emitted \in Nat /\ line = emitted + 1
          BY <1>1
        <5> HIDE DEF buf, rest, line
        <5> QED
          BY ONLY <5>1, <5>2, <5>3
      <4> QED
        BY <4>0, <4>1, <4>2
    <3> QED
      BY <3>1 DEF Ordered
  <2>2. Ordered(batch)
    BY PendingFacts
  <2>3. \A i \in 1 .. Len(batch), j \in 1 .. Len(buf) : batch[i] < buf[j]
    <3> TAKE i \in 1 .. Len(batch), j \in 1 .. Len(buf)
    <3>1. CASE j \in 1 .. Len(rest)
      BY <1>7, <1>9, <3>1, PendingFacts
    <3>2. CASE j = Len(rest) + 1
      BY <1>1, <1>7, <3>2, PendingFacts
    <3> QED
      BY <1>6, <1>7, <3>1, <3>2
  <2>4. Len(batch \o buf) = Len(batch) + Len(rest) + 1
    <3>1. Len(batch \o buf) = Len(batch) + Len(buf) /\ Len(batch) \in Nat
      BY <1>3, <1>7, ConcatProperties, LenProperties
    <3> QED
      BY <1>6, <1>7, <3>1
  <2> QED
    BY <1>1, <1>3, <1>7, <2>1, <2>2, <2>3, <2>4, OrderedConcat
<1> HIDE DEF S
<1>13. /\ buffer' \in Seq(S) /\ Len(buffer') <= Len(buf)
       /\ batch' \in Seq(S) /\ Len(batch') <= BatchSize
       /\ inFlight' = (batch' # <<>>)
       /\ batch' \o buffer' = batch \o buf
       /\ inFlight => batch' = batch /\ buffer' = buf
       /\ \A i \in 1 .. Len(buffer') : \E j \in 1 .. Len(buf) : buffer'[i] = buf[j]
       /\ ~inFlight => \A i \in 1 .. Len(batch') : \E j \in 1 .. Len(buf) : batch'[i] = buf[j]
  BY <1>1, <1>2, <1>3, <1>7, FlushMoves
<1>14. TypeOK'
  <2>1. Len(buffer') <= MaxBuffer
    BY <1>2, <1>6, <1>7, <1>8, <1>13, LenProperties
  <2>2. lost' \subseteq S /\ collected' \subseteq S /\ S = 1 .. emitted'
    BY <1>1, <1>10 DEF S, ShipInv, TypeOK
  <2>3. {shipped', dropped', failures'} \subseteq Nat
    BY <1>1, SMTT(30) DEF ShipInv, TypeOK
  <2>4. timer' \in BOOLEAN
    BY <1>1 DEF ShipInv, TypeOK
  <2>5. emitted' \in 0 .. MaxLines
    BY <1>1, <1>2
  <2>6. inFlight' = (batch' # <<>>)
    BY <1>13
  <2> QED
    BY <1>13, <2>1, <2>2, <2>3, <2>4, <2>5, <2>6 DEF TypeOK
<1>15. NothingVanishes'
  <2>1. Len(Pending') = Len(batch) + Len(rest) + 1
    BY <1>12, <1>13 DEF Pending
  <2>2. emitted = shipped + dropped + (Len(batch) + Len(buffer))
    BY PendingFacts DEF ShipInv, NothingVanishes, Pending
  <2>3. Len(buffer) \in Nat /\ Len(batch) \in Nat /\ shipped \in Nat /\ dropped \in Nat
    BY PendingFacts DEF ShipInv, TypeOK
  <2> QED
    BY <1>1, <1>5, <2>1, <2>2, <2>3 DEF NothingVanishes
<1>16. OrderKept'
  BY <1>12, <1>13 DEF OrderKept, Pending, Ordered
<1>17. OldestDropped'
  BY <1>11, <1>13 DEF OldestDropped
<1>18. LossBehind'
  <2>1. CASE inFlight /\ full
    BY <1>2, <1>8, <1>13, <2>1 DEF LossBehind
  <2>2. CASE inFlight /\ ~full
    BY <1>1, <1>13, <2>2 DEF LossBehind, ShipInv
  <2>3. CASE ~inFlight
    BY <1>11, <1>13, <2>3 DEF LossBehind
  <2> QED
    BY <2>1, <2>2, <2>3
<1> QED
  BY <1>14, <1>15, <1>16, <1>17, <1>18 DEF ShipInv

\* A flush from the buffer itself: the timer's, or the one of stop.
LEMMA FlushKeeps ==
    ASSUME ShipperAssumption, ShipInv, Flush(buffer), timer' \in BOOLEAN,
           UNCHANGED <<emitted, counters, lost, collected>>
    PROVE  ShipInv'
<1>1. /\ 1 .. emitted \in SUBSET Nat
      /\ batch \in Seq(1 .. emitted) /\ buffer \in Seq(1 .. emitted)
      /\ Len(buffer) <= MaxBuffer /\ Len(batch) <= BatchSize /\ inFlight = (batch # <<>>)
  BY DEF ShipInv, TypeOK
<1>2. /\ buffer' \in Seq(1 .. emitted) /\ Len(buffer') <= Len(buffer)
      /\ batch' \in Seq(1 .. emitted) /\ Len(batch') <= BatchSize
      /\ inFlight' = (batch' # <<>>)
      /\ batch' \o buffer' = batch \o buffer
      /\ inFlight => batch' = batch /\ buffer' = buffer
      /\ \A i \in 1 .. Len(buffer') : \E j \in 1 .. Len(buffer) : buffer'[i] = buffer[j]
      /\ ~inFlight => \A i \in 1 .. Len(batch') : \E j \in 1 .. Len(buffer) : batch'[i] = buffer[j]
  BY <1>1, FlushMoves
<1>3. /\ emitted' = emitted /\ lost' = lost /\ collected' = collected
      /\ shipped' = shipped /\ dropped' = dropped /\ failures' = failures
  BY DEF counters
<1>4. TypeOK'
  <2>1. Len(buffer') <= MaxBuffer
    <3>1. Len(buffer) \in Nat /\ Len(buffer') \in Nat /\ MaxBuffer \in Nat
      BY <1>1, <1>2, LenProperties DEF ShipperAssumption
    <3> QED
      BY <1>1, <1>2, <3>1
  <2>2. inFlight' = (batch' # <<>>)
    BY <1>2
  <2> QED
    BY <1>2, <1>3, <2>1, <2>2 DEF ShipInv, TypeOK
<1>5. NothingVanishes' /\ OrderKept'
  BY <1>2, <1>3 DEF ShipInv, NothingVanishes, OrderKept, Pending
<1>6. OldestDropped'
  BY <1>2, <1>3 DEF ShipInv, OldestDropped
<1>7. LossBehind'
  BY <1>2, <1>3 DEF ShipInv, OldestDropped, LossBehind
<1> QED
  BY <1>4, <1>5, <1>6, <1>7 DEF ShipInv

\* An acknowledged batch moves from pending to shipped.
LEMMA SuccessKeeps ==
    ASSUME ShipperAssumption, ShipInv, PostSucceeds
    PROVE  ShipInv'
<1>1. /\ batch' = <<>> /\ inFlight' = FALSE /\ buffer' = buffer /\ timer' = timer
      /\ emitted' = emitted /\ lost' = lost /\ dropped' = dropped /\ failures' = failures
      /\ shipped' = shipped + Len(batch) /\ collected' = collected \cup Range(batch)
  BY DEF PostSucceeds, InFlightEnds
<1>2. /\ Len(batch') = 0 /\ batch' \in Seq(1 .. emitted)
      /\ Pending' = buffer
  BY <1>1, EmptySeq, ConcatEmptySeq DEF Pending, ShipInv, TypeOK
<1>3. Range(batch) \subseteq 1 .. emitted
  BY PendingFacts DEF Range
<1>4. TypeOK'
  <2>1. {shipped', dropped', failures'} \subseteq Nat /\ Len(batch') <= BatchSize
    BY <1>1, <1>2, PendingFacts, SMTT(30) DEF ShipInv, TypeOK, ShipperAssumption
  <2>2. inFlight' = (batch' # <<>>)
    BY <1>1
  <2> QED
    BY <1>1, <1>2, <1>3, <2>1, <2>2 DEF ShipInv, TypeOK
<1>5. NothingVanishes'
  <2>1. emitted = shipped + dropped + (Len(batch) + Len(buffer))
    BY PendingFacts DEF ShipInv, NothingVanishes, Pending
  <2>2. Len(batch) \in Nat /\ Len(buffer) \in Nat /\ shipped \in Nat /\ dropped \in Nat
    BY PendingFacts DEF ShipInv, TypeOK
  <2> QED
    BY <1>1, <1>2, <2>1, <2>2 DEF NothingVanishes
<1>6. OrderKept'
  BY <1>2, PendingFacts DEF OrderKept, Ordered
<1>7. OldestDropped' /\ LossBehind'
  BY <1>1, <1>2 DEF ShipInv, OldestDropped, LossBehind
<1> QED
  BY <1>4, <1>5, <1>6, <1>7 DEF ShipInv

\* A failed batch returns in front, as much of it as there is room for.
LEMMA FailureKeeps ==
    ASSUME ShipperAssumption, ShipInv, PostFails
    PROVE  ShipInv'
<1> DEFINE m == Smaller(Room, Len(batch))
           k == Len(batch) - m
<1>1. /\ batch' = <<>> /\ inFlight' = FALSE /\ timer' = timer
      /\ emitted' = emitted /\ shipped' = shipped /\ failures' = failures + 1
      /\ buffer' = Kept \o buffer
      /\ dropped' = dropped + (Len(batch) - Len(Kept))
      /\ lost' = lost \cup (Range(batch) \ Range(Kept))
      /\ collected' \subseteq collected \cup Range(batch)
  BY DEF PostFails, InFlightEnds, Requeue, CountDropped
<1>2. /\ 1 .. emitted \in SUBSET Nat
      /\ batch \in Seq(1 .. emitted) /\ buffer \in Seq(1 .. emitted)
      /\ Len(batch) \in Nat /\ Len(buffer) \in Nat
      /\ MaxBuffer \in Nat /\ Len(buffer) <= MaxBuffer
      /\ shipped \in Nat /\ dropped \in Nat /\ failures \in Nat
  BY PendingFacts DEF ShipInv, TypeOK, ShipperAssumption
<1>3. /\ m \in 0 .. Len(batch) /\ k \in 0 .. Len(batch) /\ m = Len(batch) - k
      /\ m + Len(buffer) <= MaxBuffer
      /\ m > 0 => Len(buffer) < MaxBuffer
  BY <1>2 DEF Room, Smaller
<1>4. Kept = SubSeq(batch, k + 1, Len(batch))
  BY DEF Kept
<1> HIDE DEF m, k
<1>5. /\ Kept \in Seq(1 .. emitted) /\ Len(Kept) = m
      /\ \A i \in 1 .. m : Kept[i] = batch[k + i] /\ k + i \in 1 .. Len(batch)
  <2>1. \A i \in 1 .. m : k + i \in 1 .. Len(batch)
    BY <1>2, <1>3
  <2> QED
    BY <1>2, <1>3, <1>4, <2>1, SuffixFacts, ZenonT(60)
<1>6. Ordered(Kept)
  BY <1>2, <1>3, <1>4, OrderedSuffix, PendingFacts
<1>7. /\ buffer' \in Seq(1 .. emitted) /\ Len(buffer') = m + Len(buffer)
      /\ \A i \in 1 .. Len(buffer') :
           \/ i \in 1 .. m /\ buffer'[i] = Kept[i]
           \/ \E j \in 1 .. Len(buffer) : buffer'[i] = buffer[j]
  <2>1. /\ Kept \o buffer \in Seq(1 .. emitted)
        /\ Len(Kept \o buffer) = m + Len(buffer)
        /\ \A i \in 1 .. m + Len(buffer) : (Kept \o buffer)[i] =
              IF i <= m THEN Kept[i] ELSE buffer[i - m]
    BY ONLY <1>2, <1>5, ConcatProperties, ZenonT(60)
  <2>2. \A i \in 1 .. m + Len(buffer) : i \in 1 .. m \/ i - m \in 1 .. Len(buffer)
    BY <1>2, <1>3
  <2>3. \A i \in 1 .. m + Len(buffer) : i <= m => i \in 1 .. m
    BY <1>2, <1>3
  <2>4. \A i \in 1 .. m + Len(buffer) : ~(i <= m) => i - m \in 1 .. Len(buffer)
    BY <1>2, <1>3
  <2> QED
    BY <1>1, <2>1, <2>3, <2>4
<1>8. Ordered(buffer')
  <2>1. \A i \in 1 .. Len(Kept), j \in 1 .. Len(buffer) : Kept[i] < buffer[j]
    BY <1>5, PendingFacts
  <2> QED
    BY <1>1, <1>2, <1>5, <1>6, <2>1, OrderedConcat, PendingFacts
<1>9. /\ Len(batch') = 0 /\ batch' \in Seq(1 .. emitted) /\ Pending' = buffer'
  BY <1>1, <1>7, EmptySeq, ConcatEmptySeq DEF Pending
<1>10. Range(batch) \subseteq 1 .. emitted
  BY PendingFacts DEF Range
<1>11. TypeOK'
  <2>1. {shipped', dropped', failures'} \subseteq Nat /\ Len(batch') <= BatchSize
    BY <1>1, <1>2, <1>3, <1>5, <1>9 DEF ShipperAssumption
  <2>2. inFlight' = (batch' # <<>>)
    BY <1>1
  <2>3. Len(buffer') <= MaxBuffer
    BY <1>3, <1>7
  <2> QED
    BY <1>1, <1>7, <1>9, <1>10, <2>1, <2>2, <2>3 DEF ShipInv, TypeOK
<1>12. NothingVanishes'
  <2>1. emitted = shipped + dropped + (Len(batch) + Len(buffer))
    BY PendingFacts DEF ShipInv, NothingVanishes, Pending
  <2>2. m \in Nat /\ m <= Len(batch)
    BY <1>2, <1>3
  <2>3. /\ emitted' = emitted /\ shipped' = shipped
        /\ dropped' = dropped + (Len(batch) - m)
        /\ Len(Pending') = m + Len(buffer)
    BY <1>1, <1>5, <1>7, <1>9
  <2>4. emitted' = shipped' + dropped' + Len(Pending')
    BY <1>2, <2>1, <2>2, <2>3
  <2> QED
    BY <2>4 DEF NothingVanishes
<1>13. OrderKept'
  BY <1>8, <1>9 DEF OrderKept, Ordered
<1>14. OldestDropped'
  <2>1. \A d \in lost, j \in 1 .. Len(buffer) : d < buffer[j]
    BY DEF ShipInv, OldestDropped
  <2>2. \A d \in lost, i \in 1 .. m : d < Kept[i]
    BY <1>2, <1>3, <1>5, SMTT(30) DEF ShipInv, LossBehind
  <2>3. ASSUME NEW d \in Range(batch) \ Range(Kept)
        PROVE  /\ \A j \in 1 .. Len(buffer) : d < buffer[j]
               /\ \A i \in 1 .. m : d < Kept[i]
    <3>1. PICK p \in 1 .. Len(batch) : d = batch[p]
      BY PendingFacts DEF Range
    <3>2. p <= k
      <4>1. SUFFICES ASSUME p > k PROVE FALSE
        BY <1>2, <1>3
      <4>2. p - k \in 1 .. m /\ k + (p - k) = p
        BY <1>2, <1>3, <4>1
      <4>3. d = Kept[p - k]
        BY <1>5, <3>1, <4>2
      <4>4. DOMAIN Kept = 1 .. m
        BY <1>5, LenProperties
      <4> QED
        BY <2>3, <4>2, <4>3, <4>4 DEF Range
    <3>3. \A i \in 1 .. m : k + i \in 1 .. Len(batch) /\ p < k + i
      BY <1>2, <1>3, <3>2
    <3> QED
      BY <1>5, <3>1, <3>3, PendingFacts DEF Ordered
  <2> QED
    BY <1>1, <1>7, <2>1, <2>2, <2>3 DEF OldestDropped
<1>15. LossBehind'
  BY <1>9 DEF LossBehind
<1> QED
  BY <1>11, <1>12, <1>13, <1>14, <1>15 DEF ShipInv

-----------------------------------------------------------------------------

\* The invariant holds in every reachable state: the types, the accounting,
\* the order, and what links losses to the batch in flight.
THEOREM ShipKept == Spec => []ShipInv
<1> USE ShipperAssumption
<1>1. Init => ShipInv
  BY InitShip
<1>2. ShipInv /\ [Next]_vars => ShipInv'
  <2> SUFFICES ASSUME ShipInv, [Next]_vars PROVE ShipInv'
    OBVIOUS
  <2>1. CASE Log
    BY <2>1, LogKeeps
  <2>2. CASE Tick
    <3>1. timer' \in BOOLEAN /\ Flush(buffer) /\ UNCHANGED <<emitted, counters, lost, collected>>
      BY <2>2 DEF Tick, ShipInv, TypeOK, counters
    <3> QED
      BY <3>1, FlushKeeps
  <2>3. CASE PostSucceeds
    BY <2>3, SuccessKeeps
  <2>4. CASE PostFails
    BY <2>4, FailureKeeps
  <2>5. CASE Stop
    <3>1. timer' \in BOOLEAN /\ Flush(buffer) /\ UNCHANGED <<emitted, counters, lost, collected>>
      BY <2>5 DEF Stop
    <3> QED
      BY <3>1, FlushKeeps
  <2>6. CASE UNCHANGED vars
    BY <2>6 DEF vars, counters, ShipInv, TypeOK, NothingVanishes, OrderKept, OldestDropped,
                LossBehind, Pending
  <2> QED
    BY <2>1, <2>2, <2>3, <2>4, <2>5, <2>6 DEF Next
<1> QED
  BY <1>1, <1>2, PTL DEF Spec

\* The types, and the cap of the buffer (logShipper.js:304-305, 330-331).
THEOREM ShipperTyped == Spec => []TypeOK
<1>1. ShipInv => TypeOK
  BY DEF ShipInv
<1> QED
  BY <1>1, ShipKept, PTL

\* Every emitted line is acknowledged, counted as dropped, or pending, for any
\* sizes, failures and interleavings (logShipper.js:303-336).
THEOREM Accounted == Spec => []NothingVanishes
<1>1. ShipInv => NothingVanishes
  BY DEF ShipInv
<1> QED
  BY <1>1, ShipKept, PTL

\* A failed post never reorders the stream (logShipper.js:328-333), and what a
\* full buffer loses is older than all it keeps, failed batches that return to it
\* included (304-308).
THEOREM StreamOrdered == Spec => []StreamKept
<1>1. ShipInv => StreamKept
  BY DEF ShipInv, StreamKept
<1> QED
  BY <1>1, ShipKept, PTL

\* No line is lost unsaid or told twice, and the stream keeps its order.
THEOREM StreamIsAccounted == Spec => []StreamAccounted
<1>1. NothingVanishes /\ StreamKept => StreamAccounted
  BY DEF StreamAccounted
<1> QED
  BY <1>1, Accounted, StreamOrdered, PTL

-----------------------------------------------------------------------------
(* What is dropped is counted.  The counter is a cardinality, so that no    *)
(* step may drop a line twice: what is lost and what is pending are apart.  *)

Holds(s, n) == \E i \in 1 .. Len(s) : s[i] = n

Apart == \A n \in lost : ~Holds(Pending, n)

Seen == \A n \in 1 .. emitted : n \in collected \/ n \in lost \/ Holds(Pending, n)

DropInv == Apart /\ Seen /\ Cardinality(lost) = dropped

LEMMA HoldsConcat ==
    ASSUME NEW S, NEW b \in Seq(S), NEW c \in Seq(S), NEW n
    PROVE  Holds(b \o c, n) <=> Holds(b, n) \/ Holds(c, n)
<1>1. Len(b) \in Nat /\ Len(c) \in Nat
  BY LenProperties
<1>2. /\ Len(b \o c) = Len(b) + Len(c)
      /\ \A i \in 1 .. Len(b) : (b \o c)[i] = b[i] /\ i \in 1 .. Len(b \o c)
      /\ \A j \in 1 .. Len(c) : (b \o c)[Len(b) + j] = c[j] /\ Len(b) + j \in 1 .. Len(b \o c)
  BY <1>1, ConcatProperties
<1>3. ASSUME NEW i \in 1 .. Len(b \o c), (b \o c)[i] = n
      PROVE  Holds(b, n) \/ Holds(c, n)
  <2>1. CASE i <= Len(b)
    BY <1>1, <1>2, <1>3, <2>1 DEF Holds
  <2>2. CASE i > Len(b)
    <3>1. i - Len(b) \in 1 .. Len(c) /\ Len(b) + (i - Len(b)) = i
      BY <1>1, <1>2, <2>2
    <3> QED
      BY <1>2, <1>3, <3>1 DEF Holds
  <2> QED
    BY <1>1, <2>1, <2>2
<1> QED
  BY <1>2, <1>3 DEF Holds

\* What the pending lines are, by their parts.
LEMMA PendingHolds ==
    ASSUME ShipInv, NEW n
    PROVE  Holds(Pending, n) <=> Holds(batch, n) \/ Holds(buffer, n)
  BY HoldsConcat DEF ShipInv, TypeOK, Pending

LEMMA LostIsFinite ==
    ASSUME ShipInv
    PROVE  IsFiniteSet(lost) /\ dropped \in Nat
<1>1. IsFiniteSet(1 .. emitted)
  BY PendingFacts, FS_Interval
<1> QED
  BY <1>1, FS_Subset DEF ShipInv, TypeOK

LEMMA InitDrop ==
    ASSUME Init
    PROVE  DropInv
  BY FS_EmptySet DEF Init, DropInv, Apart, Seen

\* flush moves lines within what is pending.
LEMMA FlushDropsNone ==
    ASSUME ShipperAssumption, ShipInv, DropInv, Flush(buffer),
           UNCHANGED <<emitted, counters, lost, collected>>
    PROVE  DropInv'
<1> DEFINE S == 1 .. emitted
<1>1. /\ S \in SUBSET Nat /\ buffer \in Seq(S) /\ batch \in Seq(S)
      /\ Len(batch) <= BatchSize /\ inFlight = (batch # <<>>)
  BY PendingFacts DEF ShipInv, TypeOK
<1> HIDE DEF S
<1>2. batch' \o buffer' = batch \o buffer
  BY <1>1, FlushMoves
<1> QED
  BY <1>2 DEF DropInv, Apart, Seen, Pending, counters

\* The oldest line, which a full buffer loses, was pending and no line twice.
LEMMA LogDropsOne ==
    ASSUME ShipperAssumption, ShipInv, DropInv, Log
    PROVE  DropInv'
<1> DEFINE full == Len(buffer) >= MaxBuffer
           rest == IF full THEN Tail(buffer) ELSE buffer
           line == emitted + 1
           buf  == Append(rest, line)
           S    == 1 .. line
<1>1. /\ emitted \in Nat /\ emitted' = line /\ collected' = collected
      /\ line \in S /\ S \in SUBSET Nat /\ 1 .. emitted \subseteq S
      /\ \A n \in S : n = line \/ n \in 1 .. emitted
      /\ dropped' = (IF full THEN dropped + 1 ELSE dropped)
      /\ lost' = (IF full THEN lost \cup {Head(buffer)} ELSE lost)
      /\ Flush(buf) \/ NoFlush(buf)
  BY SMTT(30) DEF Log, ShipInv, TypeOK
<1>2. /\ MaxBuffer \in Nat /\ MaxBuffer > 0
      /\ batch \in Seq(1 .. emitted) /\ buffer \in Seq(1 .. emitted)
      /\ Len(batch) <= BatchSize /\ inFlight = (batch # <<>>)
      /\ lost \subseteq 1 .. emitted /\ line \notin 1 .. emitted
  BY <1>1, SMTT(30) DEF ShipperAssumption, ShipInv, TypeOK
<1>3. full => /\ buffer # <<>> /\ Head(buffer) = buffer[1] /\ 1 \in 1 .. Len(buffer)
              /\ Tail(buffer) \in Seq(1 .. emitted) /\ Len(Tail(buffer)) = Len(buffer) - 1
              /\ \A i \in 1 .. Len(Tail(buffer)) : Tail(buffer)[i] = buffer[i + 1]
  <2>1. Len(buffer) \in Nat
    BY PendingFacts
  <2>2. full => Len(buffer) # 0 /\ 1 \in 1 .. Len(buffer)
    BY <1>2, <2>1
  <2>3. full => buffer # <<>>
    BY <2>2, EmptySeq
  <2>4. buffer # <<>> => /\ Head(buffer) = buffer[1] /\ Tail(buffer) \in Seq(1 .. emitted)
                         /\ Len(Tail(buffer)) = Len(buffer) - 1
                         /\ \A i \in 1 .. Len(Tail(buffer)) : Tail(buffer)[i] = buffer[i + 1]
    BY <1>2, HeadTailProperties
  <2> QED
    BY <2>2, <2>3, <2>4
<1>4. rest \in Seq(1 .. emitted) /\ rest \in Seq(S) /\ batch \in Seq(S)
  <2>1. rest \in Seq(1 .. emitted)
    BY <1>2, <1>3
  <2> QED
    BY <1>1, <1>2, <2>1, SeqMonotonic, SMTT(30)
<1>5. ASSUME NEW n
      PROVE  Holds(rest, n) <=> Holds(buffer, n) /\ ~(full /\ n = Head(buffer))
  <2>1. CASE ~full
    BY <2>1
  <2>2. CASE full
    <3>1. /\ Len(buffer) \in Nat /\ Len(Tail(buffer)) = Len(buffer) - 1
          /\ \A i \in 1 .. Len(Tail(buffer)) :
                Tail(buffer)[i] = buffer[i + 1] /\ i + 1 \in 1 .. Len(buffer) /\ 1 < i + 1
          /\ \A i \in 1 .. Len(buffer) :
                i # 1 => i - 1 \in 1 .. Len(Tail(buffer)) /\ (i - 1) + 1 = i
      BY <1>3, <2>2, PendingFacts
    <3>2. \A i \in 1 .. Len(buffer) : buffer[i] \in Nat /\ (1 < i => buffer[1] < buffer[i])
      BY <1>3, <2>2, PendingFacts DEF Ordered
    <3>3. ASSUME NEW i \in 1 .. Len(Tail(buffer)), Tail(buffer)[i] = n
          PROVE  Holds(buffer, n) /\ n # Head(buffer)
      <4>1. i + 1 \in 1 .. Len(buffer) /\ buffer[i + 1] = n /\ 1 < i + 1
        BY <3>1, <3>3
      <4>2. buffer[1] < n /\ buffer[1] \in Nat /\ n \in Nat
        BY <1>3, <2>2, <3>2, <4>1
      <4> QED
        BY <1>3, <2>2, <4>1, <4>2 DEF Holds
    <3>4. ASSUME NEW i \in 1 .. Len(buffer), buffer[i] = n, n # Head(buffer)
          PROVE  Holds(Tail(buffer), n)
      <4>1. i # 1
        BY <1>3, <2>2, <3>4
      <4>2. i - 1 \in 1 .. Len(Tail(buffer)) /\ (i - 1) + 1 = i
        BY <3>1, <4>1
      <4> QED
        BY <3>1, <3>4, <4>2 DEF Holds
    <3> QED
      BY <2>2, <3>3, <3>4 DEF Holds
  <2> QED
    BY <2>1, <2>2
<1> HIDE DEF rest
<1>6. buf \in Seq(S) /\ \A n : Holds(buf, n) <=> Holds(rest, n) \/ n = line
  <2>1. /\ Len(rest) \in Nat
        /\ buf \in Seq(S) /\ Len(buf) = Len(rest) + 1
        /\ \A i \in 1 .. Len(rest) : buf[i] = rest[i]
        /\ buf[Len(rest) + 1] = line
    BY <1>1, <1>4, AppendProperties, LenProperties
  <2> HIDE DEF buf
  <2>2. \A i \in 1 .. Len(buf) : i \in 1 .. Len(rest) \/ i = Len(rest) + 1
    BY <2>1
  <2>3. (\A i \in 1 .. Len(rest) : i \in 1 .. Len(buf)) /\ Len(rest) + 1 \in 1 .. Len(buf)
    BY <2>1
  <2> QED
    BY <2>1, <2>2, <2>3 DEF Holds
<1> HIDE DEF buf
<1>7. \A n : Holds(Pending', n) <=> Holds(batch, n) \/ Holds(rest, n) \/ n = line
  <2>1. Pending' = batch \o buf
    BY <1>1, <1>2, <1>4, <1>6, FlushMoves DEF Pending
  <2> QED
    BY <1>4, <1>6, <2>1, HoldsConcat
\* The head was pending once: before the rest, and not in flight.
<1>8. full => Head(buffer) \notin lost /\ ~Holds(batch, Head(buffer)) /\ Head(buffer) \in 1 .. emitted
  <2> SUFFICES ASSUME full
               PROVE  Head(buffer) \notin lost /\ ~Holds(batch, Head(buffer)) /\ Head(buffer) \in 1 .. emitted
    OBVIOUS
  <2>1. Holds(buffer, Head(buffer)) /\ Head(buffer) \in 1 .. emitted
    BY <1>3, PendingFacts DEF Holds
  <2>2. \A i \in 1 .. Len(batch) : batch[i] \in Nat /\ batch[i] < Head(buffer)
    BY <1>3, PendingFacts
  <2>3. Head(buffer) \notin lost
    BY <2>1, PendingHolds DEF DropInv, Apart
  <2>4. ~Holds(batch, Head(buffer))
    BY <2>1, <2>2 DEF Holds
  <2> QED
    BY <2>1, <2>3, <2>4
<1>9. Cardinality(lost') = dropped'
  <2>1. Cardinality(lost) = dropped
    BY DEF DropInv
  <2>2. CASE full
    BY <1>1, <1>8, <2>1, <2>2, LostIsFinite, FS_AddElement
  <2> QED
    BY <1>1, <2>1, <2>2
<1>10. Apart'
  <2>1. ASSUME NEW n \in lost'
        PROVE  ~Holds(Pending', n)
    <3>1. n # line
      BY <1>1, <1>2, <1>8
    <3>2. CASE n \in lost
      BY <1>5, <1>7, <3>1, <3>2, PendingHolds DEF DropInv, Apart
    <3>3. CASE full /\ n = Head(buffer)
      BY <1>5, <1>7, <1>8, <3>1, <3>3
    <3> QED
      BY <1>1, <3>2, <3>3
  <2> QED
    BY <2>1 DEF Apart
<1>11. Seen'
  <2>1. ASSUME NEW n \in 1 .. line
        PROVE  n \in collected' \/ n \in lost' \/ Holds(Pending', n)
    <3>1. CASE n = line
      BY <1>7, <3>1
    <3>2. CASE n \in 1 .. emitted
      BY <1>1, <1>5, <1>7, <3>2, PendingHolds DEF DropInv, Seen
    <3> QED
      BY <1>1, <3>1, <3>2
  <2> QED
    BY <1>1, <2>1 DEF Seen
<1> QED
  BY <1>9, <1>10, <1>11 DEF DropInv

\* An acknowledged batch is the collector's.
LEMMA SuccessDropsNone ==
    ASSUME ShipperAssumption, ShipInv, DropInv, PostSucceeds
    PROVE  DropInv'
<1>1. /\ Pending' = buffer /\ emitted' = emitted /\ lost' = lost /\ dropped' = dropped
      /\ collected' = collected \cup Range(batch)
  BY ConcatEmptySeq DEF PostSucceeds, InFlightEnds, Pending, ShipInv, TypeOK
<1>2. \A n : Holds(batch, n) => n \in Range(batch)
  BY PendingFacts DEF Holds, Range
<1> QED
  BY <1>1, <1>2, PendingHolds DEF DropInv, Apart, Seen

\* A failed batch loses a prefix of itself, in which no line is there twice.
LEMMA FailureDropsPrefix ==
    ASSUME ShipperAssumption, ShipInv, DropInv, PostFails
    PROVE  DropInv'
<1> DEFINE m == Smaller(Room, Len(batch))
           k == Len(batch) - m
           gone == {batch[i] : i \in 1 .. k}
<1>1. /\ batch' = <<>> /\ emitted' = emitted
      /\ buffer' = Kept \o buffer
      /\ dropped' = dropped + (Len(batch) - Len(Kept))
      /\ lost' = lost \cup (Range(batch) \ Range(Kept))
      /\ collected \subseteq collected'
  BY DEF PostFails, InFlightEnds, Requeue, CountDropped
<1>2. /\ batch \in Seq(1 .. emitted) /\ buffer \in Seq(1 .. emitted)
      /\ Len(batch) \in Nat /\ Len(buffer) \in Nat /\ MaxBuffer \in Nat /\ dropped \in Nat
  BY PendingFacts DEF ShipInv, TypeOK, ShipperAssumption
<1>3. m \in 0 .. Len(batch) /\ k \in 0 .. Len(batch) /\ m = Len(batch) - k
  BY <1>2 DEF Room, Smaller
<1>4. Kept = SubSeq(batch, k + 1, Len(batch))
  BY DEF Kept
<1> HIDE DEF m, k
<1>5. /\ Kept \in Seq(1 .. emitted) /\ Len(Kept) = m /\ DOMAIN Kept = 1 .. m
      /\ \A i \in 1 .. m : Kept[i] = batch[k + i] /\ k + i \in 1 .. Len(batch) /\ k < k + i
      /\ \A i \in 1 .. Len(batch) : i > k => i - k \in 1 .. m /\ k + (i - k) = i
  <2>1. /\ \A i \in 1 .. m : k + i \in 1 .. Len(batch) /\ k < k + i
        /\ \A i \in 1 .. Len(batch) : i > k => i - k \in 1 .. m /\ k + (i - k) = i
    BY <1>2, <1>3
  <2> DEFINE S == 1 .. emitted
  <2>2. /\ Kept \in Seq(S) /\ Len(Kept) = Len(batch) - k
        /\ \A i \in 1 .. Len(Kept) : Kept[i] = batch[k + i]
    <3>1. batch \in Seq(S)
      BY <1>2
    <3> HIDE DEF S
    <3> QED
      BY <1>3, <1>4, <3>1, SuffixFacts
  <2>3. DOMAIN Kept = 1 .. Len(Kept)
    BY <2>2, LenProperties
  <2> QED
    BY <1>3, <2>1, <2>2, <2>3
<1>6. \A i, j \in 1 .. Len(batch) : batch[i] \in Nat /\ batch[j] \in Nat /\ (batch[i] = batch[j] => i = j)
  <2>1. \A i, j \in 1 .. Len(batch) : batch[i] \in Nat /\ batch[j] \in Nat /\ (i < j => batch[i] < batch[j])
    BY PendingFacts DEF Ordered
  <2>2. \A i, j \in 1 .. Len(batch) : i = j \/ i < j \/ j < i
    BY <1>2
  <2> QED
    BY <2>1, <2>2
<1>7. \A i \in 1 .. k : i \in 1 .. Len(batch) /\ i <= k
  BY <1>2, <1>3
<1>8. Range(batch) \ Range(Kept) = gone
  <2>1. ASSUME NEW i \in 1 .. Len(batch)
        PROVE  batch[i] \in Range(Kept) <=> i > k
    <3>1. ASSUME NEW j \in 1 .. m, Kept[j] = batch[i]
          PROVE  i > k
      BY <1>5, <1>6, <3>1, SMTT(30)
    <3>2. i > k => batch[i] \in Range(Kept)
      BY <1>5 DEF Range
    <3> QED
      BY <1>5, <3>1, <3>2 DEF Range
  <2>2. \A i \in 1 .. Len(batch) : ~(i > k) => i \in 1 .. k
    BY <1>2, <1>3
  <2>3. Range(batch) = {batch[i] : i \in 1 .. Len(batch)}
    BY PendingFacts DEF Range
  <2>4. \A i \in 1 .. k : ~(i > k)
    BY <1>3
  <2> QED
    BY <1>7, <2>1, <2>2, <2>3, <2>4
<1>9. IsFiniteSet(gone) /\ Cardinality(gone) = k
  <2> DEFINE f == [i \in 1 .. k |-> batch[i]]
  <2>1. IsFiniteSet(1 .. k) /\ Cardinality(1 .. k) = k
    <3>1. 1 \in Int /\ k \in Int /\ k >= 0
      BY <1>3
    <3>2. IsFiniteSet(1 .. k) /\ Cardinality(1 .. k) = (IF 1 > k THEN 0 ELSE k - 1 + 1)
      BY ONLY <3>1, FS_Interval, Zenon
    <3> QED
      BY ONLY <3>1, <3>2
  <2>2. f \in Surjection(1 .. k, gone)
    BY DEF Surjection
  <2>3. f \in Injection(1 .. k, gone)
    <3>1. f \in [1 .. k -> gone]
      OBVIOUS
    <3>2. \A i, j \in 1 .. k : f[i] = f[j] => i = j
      BY <1>6, <1>7
    <3> QED
      BY <3>1, <3>2 DEF Injection, IsInjective
  <2> HIDE DEF f, gone
  <2> QED
    BY <2>1, <2>2, <2>3, FS_Surjection
<1>10. \A n \in gone : Holds(batch, n) /\ n \notin lost /\ ~Holds(Kept, n) /\ ~Holds(buffer, n)
  <2> SUFFICES ASSUME NEW i \in 1 .. k
               PROVE  /\ Holds(batch, batch[i]) /\ batch[i] \notin lost
                      /\ ~Holds(Kept, batch[i]) /\ ~Holds(buffer, batch[i])
    OBVIOUS
  <2>1. i \in 1 .. Len(batch) /\ i <= k
    BY <1>7
  <2>2. Holds(batch, batch[i])
    BY <2>1 DEF Holds
  <2>3. batch[i] \notin lost
    BY <2>2, PendingHolds DEF DropInv, Apart
  <2>4. ~Holds(Kept, batch[i])
    <3> SUFFICES ASSUME NEW j \in 1 .. m, Kept[j] = batch[i] PROVE FALSE
      BY <1>5 DEF Holds
    <3>1. k + j = i /\ k < k + j
      BY <1>5, <1>6, <2>1, SMTT(30)
    <3> QED
      BY <1>3, <2>1, <3>1
  <2>5. ~Holds(buffer, batch[i])
    <3>1. \A j \in 1 .. Len(buffer) : buffer[j] \in Nat /\ batch[i] \in Nat /\ batch[i] < buffer[j]
      BY <2>1, PendingFacts
    <3> QED
      BY <3>1 DEF Holds
  <2> QED
    BY <2>2, <2>3, <2>4, <2>5
<1>11. \A n : Holds(batch, n) <=> Holds(Kept, n) \/ n \in gone
  <2>1. \A n : Holds(Kept, n) => Holds(batch, n)
    BY <1>5 DEF Holds
  <2>2. ASSUME NEW i \in 1 .. Len(batch)
        PROVE  Holds(Kept, batch[i]) \/ batch[i] \in gone
    <3>1. CASE i > k
      BY <1>5, <3>1 DEF Holds
    <3>2. CASE ~(i > k)
      <4>1. i \in 1 .. k
        BY <1>2, <1>3, <3>2
      <4> QED
        BY <4>1
    <3> QED
      BY <3>1, <3>2
  <2>3. \A n : Holds(batch, n) => Holds(Kept, n) \/ n \in gone
    BY <2>2 DEF Holds
  <2> QED
    BY <1>10, <2>1, <2>3
<1> HIDE DEF gone
<1>12. \A n : Holds(Pending', n) <=> Holds(Kept, n) \/ Holds(buffer, n)
  <2>1. Pending' = Kept \o buffer
    <3>1. Kept \o buffer \in Seq(1 .. emitted)
      BY <1>2, <1>5, ConcatProperties
    <3> QED
      BY <1>1, <3>1, ConcatEmptySeq DEF Pending
  <2> QED
    BY <1>2, <1>5, <2>1, HoldsConcat
<1>13. lost' = lost \cup gone /\ lost \cap gone = {}
  BY <1>1, <1>8, <1>10
<1>14. Cardinality(lost') = dropped'
  <2>1. Cardinality(lost') = Cardinality(lost) + Cardinality(gone) - Cardinality({})
    BY <1>9, <1>13, LostIsFinite, FS_Union
  <2>2. Cardinality(lost) = dropped /\ Cardinality({}) = 0
    BY FS_EmptySet DEF DropInv
  <2>3. Cardinality(lost') = dropped + k
    BY <1>2, <1>3, <1>9, <2>1, <2>2
  <2>4. Len(batch) - Len(Kept) = k
    BY <1>2, <1>3, <1>5
  <2> QED
    BY <1>1, <2>3, <2>4
<1>15. Apart'
  <2>1. ASSUME NEW n \in lost'
        PROVE  ~Holds(Pending', n)
    BY <1>10, <1>11, <1>12, <1>13, <2>1, PendingHolds DEF DropInv, Apart
  <2> QED
    BY <2>1 DEF Apart
<1>16. Seen'
  <2>1. ASSUME NEW n \in 1 .. emitted
        PROVE  n \in collected' \/ n \in lost' \/ Holds(Pending', n)
    BY <1>1, <1>11, <1>12, <1>13, PendingHolds DEF DropInv, Seen
  <2> QED
    BY <1>1, <2>1 DEF Seen
<1> QED
  BY <1>14, <1>15, <1>16 DEF DropInv

\* The counter is the number of lines lost, and what neither the collector has nor
\* the shipper is one of them, for any sizes and failures (logShipper.js:303-336).
THEOREM DropsAreCounted == Spec => []DroppedIsCounted
<1> USE ShipperAssumption
<1>1. Init => DropInv
  BY InitDrop
<1>2. ShipInv /\ DropInv /\ [Next]_vars => DropInv'
  <2> SUFFICES ASSUME ShipInv, DropInv, [Next]_vars PROVE DropInv'
    OBVIOUS
  <2>1. CASE Log
    BY <2>1, LogDropsOne
  <2>2. CASE Tick
    <3>1. Flush(buffer) /\ UNCHANGED <<emitted, counters, lost, collected>>
      BY <2>2 DEF Tick, counters
    <3> QED
      BY <3>1, FlushDropsNone
  <2>3. CASE PostSucceeds
    BY <2>3, SuccessDropsNone
  <2>4. CASE PostFails
    BY <2>4, FailureDropsPrefix
  <2>5. CASE Stop
    <3>1. Flush(buffer) /\ UNCHANGED <<emitted, counters, lost, collected>>
      BY <2>5 DEF Stop
    <3> QED
      BY <3>1, FlushDropsNone
  <2>6. CASE UNCHANGED vars
    BY <2>6 DEF vars, counters, DropInv, Apart, Seen, Pending
  <2> QED
    BY <2>1, <2>2, <2>3, <2>4, <2>5, <2>6 DEF Next
<1>3. ShipInv /\ DropInv => DroppedIsCounted
  <2> SUFFICES ASSUME ShipInv, DropInv PROVE DroppedIsCounted
    OBVIOUS
  <2>1. \A n : Holds(Pending, n) => n \in Range(Pending)
    <3>1. Pending \in Seq(1 .. emitted)
      BY ConcatProperties DEF Pending, ShipInv, TypeOK
    <3> QED
      BY <3>1, LenProperties DEF Holds, Range
  <2> QED
    BY <2>1 DEF DropInv, Seen, DroppedIsCounted
<1> QED
  BY <1>1, <1>2, <1>3, ShipKept, PTL DEF Spec

-----------------------------------------------------------------------------
(* The series.  UnmatchedLeaveRoom is not inductive: that the next latency  *)
(* still finds room takes that every series a latency has is a method with  *)
(* a route, a label given out or the overflow, and that no more labels were *)
(* given out than the cap.                                                  *)

Latency == "http_request_duration_seconds"

\* What a latency may be labelled with.
Labels == Routes \cup unmatchedRouteLabels \cup {Overflow}

Budget == (UnmatchedCap + 1 + Cardinality(Routes)) * Cardinality(Methods) <= MaxSeries

ConnectionsOK ==
    /\ request \in [Connections -> Routes \cup Segments \cup {"none"}]
    /\ done \in [Connections -> BOOLEAN]
    /\ arrived \in Nat

RegistryOK ==
    /\ DOMAIN series = Metrics
    /\ \A m \in Metrics : IsFiniteSet(series[m]) /\ Cardinality(series[m]) <= MaxSeries
    /\ counted \in [Metrics -> Nat]
    /\ seriesDropped \in [Metrics -> Nat]

LabelsOK ==
    /\ unmatchedRouteLabels \subseteq Routes \cup Segments
    /\ IsFiniteSet(unmatchedRouteLabels)
    /\ Cardinality(unmatchedRouteLabels) <= UnmatchedCap
    /\ series[Latency] \subseteq Methods \X Labels

\* The inductive invariant.
MetricsInv ==
    /\ ConnectionsOK /\ RegistryOK /\ LabelsOK
    /\ httpInFlight = Cardinality(Open)
    /\ EndedIsTold
    /\ UnmatchedLeaveRoom

-----------------------------------------------------------------------------
(* The requests without an answer.                                          *)

LEMMA OpenFinite == IsFiniteSet(Open) /\ Cardinality(Open) \in Nat
<1>1. Open \subseteq Connections
  BY DEF Open
<1>2. IsFiniteSet(Open)
  BY <1>1, FS_Subset, RequestMetricsAssumption DEF RequestMetricsAssumption
<1>. QED
  BY <1>2, FS_CardinalityType

\* One joins them, or one leaves.
LEMMA OpenJoined ==
  ASSUME NEW c, c \notin Open, Open' = Open \cup {c}
  PROVE  Cardinality(Open') = Cardinality(Open) + 1
  BY OpenFinite, FS_AddElement

LEMMA OpenLeft ==
  ASSUME NEW c, c \in Open, Open' = Open \ {c}
  PROVE  Cardinality(Open') = Cardinality(Open) - 1
  BY OpenFinite, FS_RemoveElement

-----------------------------------------------------------------------------
(* Observations.                                                            *)

\* A label is of the route or of the segment, given out within the cap, or the
\* overflow.
LEMMA RouteLabelKept ==
  ASSUME LabelsOK, NEW path \in Routes \cup Segments, NEW matched \in BOOLEAN,
         matched => path \in Routes,
         unmatchedRouteLabels' = RouteLabel(path, matched).labels
  PROVE  /\ unmatchedRouteLabels \subseteq unmatchedRouteLabels'
         /\ unmatchedRouteLabels' \subseteq Routes \cup Segments
         /\ IsFiniteSet(unmatchedRouteLabels')
         /\ Cardinality(unmatchedRouteLabels') <= UnmatchedCap
         /\ RouteLabel(path, matched).label \in Labels'
<1>0. Root \in Routes /\ UnmatchedCap \in Nat
  BY RequestMetricsAssumption DEF RequestMetricsAssumption
<1>1. CASE matched \/ path \in unmatchedRouteLabels \cup {Root}
  BY <1>0, <1>1 DEF RouteLabel, Labels, LabelsOK
<1>2. CASE /\ ~(matched \/ path \in unmatchedRouteLabels \cup {Root})
           /\ Cardinality(unmatchedRouteLabels) < UnmatchedCap
  <2>1. RouteLabel(path, matched) = [label |-> path, labels |-> unmatchedRouteLabels \cup {path}]
    BY <1>2 DEF RouteLabel
  <2>2. /\ IsFiniteSet(unmatchedRouteLabels \cup {path})
        /\ Cardinality(unmatchedRouteLabels \cup {path}) = Cardinality(unmatchedRouteLabels) + 1
    BY <1>2, FS_AddElement DEF LabelsOK
  <2>3. Cardinality(unmatchedRouteLabels) \in Nat
    BY FS_CardinalityType DEF LabelsOK
  <2>. QED
    BY <1>0, <1>2, <2>1, <2>2, <2>3 DEF Labels, LabelsOK
<1>3. CASE /\ ~(matched \/ path \in unmatchedRouteLabels \cup {Root})
           /\ ~(Cardinality(unmatchedRouteLabels) < UnmatchedCap)
  BY <1>3 DEF RouteLabel, Labels, LabelsOK
<1>. QED
  BY <1>1, <1>2, <1>3

\* The registry keeps its types, and counts or drops once on each metric.
LEMMA ObserveKept ==
  ASSUME RegistryOK, NEW at, Observe(at)
  PROVE  /\ RegistryOK'
         /\ \A m \in Metrics : counted'[m] + seriesDropped'[m] = counted[m] + seriesDropped[m] + 1
<1>0. MaxSeries \in Nat
  BY RequestMetricsAssumption DEF RequestMetricsAssumption
<1>1. ASSUME NEW m \in Metrics
      PROVE  IsFiniteSet(series'[m]) /\ Cardinality(series'[m]) <= MaxSeries
  <2>1. series'[m] = IF Takes(m, at[m]) THEN series[m] \cup {at[m]} ELSE series[m]
    BY <1>1 DEF Observe
  <2>2. IsFiniteSet(series[m]) /\ Cardinality(series[m]) <= MaxSeries /\ Cardinality(series[m]) \in Nat
    BY <1>1, FS_CardinalityType DEF RegistryOK
  <2>3. CASE at[m] \in series[m] \/ ~Takes(m, at[m])
    <3>1. series'[m] = series[m]
      BY <2>1, <2>3
    <3>. QED
      BY <2>2, <3>1
  <2>4. CASE at[m] \notin series[m] /\ Takes(m, at[m])
    <3>1. /\ IsFiniteSet(series[m] \cup {at[m]})
          /\ Cardinality(series[m] \cup {at[m]}) = Cardinality(series[m]) + 1
      BY <2>2, <2>4, FS_AddElement
    <3>2. Cardinality(series[m]) < MaxSeries
      BY <2>4 DEF Takes
    <3>. QED
      BY <1>0, <2>1, <2>2, <2>4, <3>1, <3>2
  <2>. QED
    BY <2>3, <2>4
<1>2. DOMAIN series' = Metrics /\ counted' \in [Metrics -> Nat] /\ seriesDropped' \in [Metrics -> Nat]
  BY DEF Observe, RegistryOK
<1>3. \A m \in Metrics : counted'[m] + seriesDropped'[m] = counted[m] + seriesDropped[m] + 1
  BY DEF Observe, RegistryOK
<1>. QED
  BY <1>1, <1>2, <1>3 DEF RegistryOK

\* Where the budget covers the methods in use, a latency finds room.
LEMMA LatencyTaken ==
  ASSUME RegistryOK, LabelsOK, Budget, NEW labels,
         NEW known, IsFiniteSet(known), Cardinality(known) <= UnmatchedCap,
         unmatchedRouteLabels \subseteq known,
         labels \in Methods \X (Routes \cup known \cup {Overflow})
  PROVE  Takes(Latency, labels)
<1>. DEFINE L == Routes \cup known \cup {Overflow}
            W == Methods \X L
<1>0. /\ IsFiniteSet(Routes) /\ IsFiniteSet(Methods) /\ UnmatchedCap \in Nat /\ MaxSeries \in Nat
      /\ Cardinality(Routes) \in Nat /\ Cardinality(Methods) \in Nat /\ Cardinality(known) \in Nat
  BY RequestMetricsAssumption, FS_CardinalityType DEF RequestMetricsAssumption
<1>1. IsFiniteSet(Routes \cup known) /\ Cardinality(Routes \cup known) <= Cardinality(Routes) + Cardinality(known)
  <2>1. /\ IsFiniteSet(Routes \cup known)
        /\ Cardinality(Routes \cup known)
             = Cardinality(Routes) + Cardinality(known) - Cardinality(Routes \cap known)
    BY <1>0, FS_Union
  <2>2. IsFiniteSet(Routes \cap known)
    BY <1>0, FS_Subset
  <2>3. Cardinality(Routes \cap known) \in Nat
    BY <2>2, FS_CardinalityType
  <2>. QED
    BY <1>0, <2>1, <2>3
<1>2. IsFiniteSet(L) /\ Cardinality(L) \in Nat /\ Cardinality(L) <= UnmatchedCap + 1 + Cardinality(Routes)
  <2>1. /\ IsFiniteSet(L)
        /\ Cardinality(L) = IF Overflow \in Routes \cup known
                            THEN Cardinality(Routes \cup known) ELSE Cardinality(Routes \cup known) + 1
    BY <1>1, FS_AddElement
  <2>2. Cardinality(Routes \cup known) \in Nat /\ Cardinality(L) \in Nat
    BY <1>1, <2>1, FS_CardinalityType
  <2>. QED
    BY <1>0, <1>1, <2>1, <2>2
<1>3. IsFiniteSet(W) /\ Cardinality(W) = Cardinality(Methods) * Cardinality(L)
  BY <1>0, <1>2, FS_Product
<1>4. Cardinality(Methods) * Cardinality(L) <= (UnmatchedCap + 1 + Cardinality(Routes)) * Cardinality(Methods)
  <2>1. ASSUME NEW x \in Nat, NEW y \in Nat, NEW z \in Nat, y <= z
        PROVE  x * y <= z * x
    BY <2>1
  <2>. HIDE DEF L
  <2>2. UnmatchedCap + 1 + Cardinality(Routes) \in Nat
    BY <1>0
  <2>. QED
    BY <1>0, <1>2, <2>1, <2>2
<1>5. Cardinality(W) <= MaxSeries
  <2>. HIDE DEF L, W
  <2>. QED
    BY <1>0, <1>2, <1>3, <1>4 DEF Budget
<1>6. CASE labels \in series[Latency]
  BY <1>6 DEF Takes
<1>7. CASE labels \notin series[Latency]
  <2>1. series[Latency] \in SUBSET W /\ series[Latency] # W /\ IsFiniteSet(series[Latency])
    BY <1>7 DEF LabelsOK, Labels, RegistryOK, Latency, Metrics
  <2>2. Cardinality(series[Latency]) <= Cardinality(W) /\ Cardinality(series[Latency]) # Cardinality(W)
    BY <1>3, <2>1, FS_Subset
  <2>3. Cardinality(series[Latency]) \in Nat /\ Cardinality(W) \in Nat
    BY <1>3, <2>1, FS_CardinalityType
  <2>. HIDE DEF L, W
  <2>4. Cardinality(series[Latency]) < MaxSeries
    BY <1>0, <1>5, <2>2, <2>3
  <2>. QED
    BY <2>4 DEF Takes
<1>. QED
  BY <1>6, <1>7

-----------------------------------------------------------------------------
(* finish                                                                   *)

\* Recording a request keeps the registry and the labels, and tells it once.
LEMMA RecordKept ==
  ASSUME MetricsInv, NEW c \in Connections, request[c] # "none", Record(c)
  PROVE  /\ RegistryOK' /\ LabelsOK'
         /\ \A m \in Metrics : counted'[m] + seriesDropped'[m] = counted[m] + seriesDropped[m] + 1
         /\ UnmatchedLeaveRoom'
<1>. DEFINE path == request[c]
<1>0. path \in Routes \cup Segments
  BY DEF MetricsInv, ConnectionsOK
<1>1. PICK method \in Methods, status \in Statuses,
           matched \in (IF path \in Routes THEN BOOLEAN ELSE {FALSE}) :
        /\ unmatchedRouteLabels' = RouteLabel(path, matched).labels
        /\ Observe([m \in Metrics |-> IF m = "http_requests_total"
                                      THEN <<method, RouteLabel(path, matched).label, status>>
                                      ELSE <<method, RouteLabel(path, matched).label>>])
  BY DEF Record
<1>. DEFINE label == RouteLabel(path, matched).label
            at == [m \in Metrics |-> IF m = "http_requests_total"
                                     THEN <<method, label, status>> ELSE <<method, label>>]
<1>2. matched \in BOOLEAN /\ (matched => path \in Routes)
  BY <1>1
<1>3. /\ unmatchedRouteLabels \subseteq unmatchedRouteLabels'
      /\ unmatchedRouteLabels' \subseteq Routes \cup Segments
      /\ IsFiniteSet(unmatchedRouteLabels')
      /\ Cardinality(unmatchedRouteLabels') <= UnmatchedCap
      /\ label \in Labels'
  <2>1. LabelsOK
    BY DEF MetricsInv
  <2>. QED
    BY <1>0, <1>1, <1>2, <2>1, RouteLabelKept
<1>4. at[Latency] = <<method, label>> /\ Latency \in Metrics
  BY DEF Latency, Metrics
<1>. HIDE DEF label, at
<1>5. Observe(at)
  BY <1>1 DEF label, at
<1>6. RegistryOK' /\ \A m \in Metrics : counted'[m] + seriesDropped'[m] = counted[m] + seriesDropped[m] + 1
  BY <1>5, ObserveKept DEF MetricsInv
<1>7. LabelsOK'
  <2>1. series[Latency] \subseteq Methods \X Labels'
    BY <1>3 DEF MetricsInv, LabelsOK, Labels
  <2>2. series'[Latency] \subseteq series[Latency] \cup {<<method, label>>}
    BY <1>4, <1>5 DEF Observe
  <2>3. <<method, label>> \in Methods \X Labels'
    BY <1>3
  <2>. QED
    BY <1>3, <2>1, <2>2, <2>3 DEF LabelsOK
<1>8. UnmatchedLeaveRoom'
  <2>. SUFFICES ASSUME Budget
                PROVE  seriesDropped'[Latency] = 0
    BY DEF UnmatchedLeaveRoom, Budget, Latency
  <2>1. <<method, label>> \in Methods \X (Routes \cup unmatchedRouteLabels' \cup {Overflow})
    BY <1>3 DEF Labels
  <2>2. Takes(Latency, at[Latency])
    BY <1>3, <1>4, <2>1, LatencyTaken DEF MetricsInv
  <2>3. seriesDropped'[Latency] = seriesDropped[Latency]
    BY <1>4, <1>5, <2>2 DEF Observe
  <2>. QED
    BY <2>3 DEF MetricsInv, UnmatchedLeaveRoom, Budget, Latency
<1>. QED
  BY <1>6, <1>7, <1>8

\* Either event of a request, with or without the end of its connection.
LEMMA FinishKept ==
  ASSUME MetricsInv, NEW c \in Connections, request[c] # "none", Finish(c),
         \/ UNCHANGED request
         \/ request' = [request EXCEPT ![c] = "none"],
         UNCHANGED arrived
  PROVE  MetricsInv'
<1>1. ConnectionsOK'
  BY DEF MetricsInv, ConnectionsOK, Finish
<1>2. CASE done[c]
  <2>1. Open' = Open
    BY <1>2 DEF MetricsInv, ConnectionsOK, Open, Finish
  <2>2. UNCHANGED <<done, httpInFlight, unmatchedRouteLabels, series, counted, seriesDropped>>
    BY <1>2 DEF Finish, registry
  <2>3. RegistryOK' /\ LabelsOK' /\ UnmatchedLeaveRoom'
    BY <2>2 DEF MetricsInv, RegistryOK, LabelsOK, Labels, UnmatchedLeaveRoom
  <2>. QED
    BY <1>1, <2>1, <2>2, <2>3 DEF MetricsInv, EndedIsTold
<1>3. CASE ~done[c]
  <2>1. httpInFlight' = httpInFlight - 1 /\ done' = [done EXCEPT ![c] = TRUE] /\ Record(c)
    BY <1>3 DEF Finish
  <2>2. c \in Open /\ Open' = Open \ {c}
    BY <1>3, <2>1 DEF MetricsInv, ConnectionsOK, Open
  <2>3. Cardinality(Open') = Cardinality(Open) - 1
    BY <2>2, OpenLeft
  <2>4. /\ RegistryOK' /\ LabelsOK' /\ UnmatchedLeaveRoom'
        /\ \A m \in Metrics : counted'[m] + seriesDropped'[m] = counted[m] + seriesDropped[m] + 1
    BY <2>1, RecordKept
  <2>5. EndedIsTold'
    <3>. SUFFICES ASSUME NEW m \in Metrics
                  PROVE  counted'[m] + seriesDropped'[m] + Cardinality(Open') = arrived'
      BY DEF EndedIsTold
    <3>1. counted[m] + seriesDropped[m] + Cardinality(Open) = arrived
      BY DEF MetricsInv, EndedIsTold
    <3>2. {counted[m], seriesDropped[m], Cardinality(Open)} \subseteq Nat
      BY OpenFinite DEF MetricsInv, RegistryOK
    <3>3. {counted'[m], seriesDropped'[m]} \subseteq Nat
      BY <2>4 DEF RegistryOK
    <3>. QED
      BY <2>3, <2>4, <3>1, <3>2, <3>3
  <2>. QED
    BY <1>1, <2>1, <2>3, <2>4, <2>5 DEF MetricsInv
<1>. QED
  BY <1>2, <1>3 DEF MetricsInv, ConnectionsOK

LEMMA InitOK == MetricsInit => MetricsInv
<1>. SUFFICES ASSUME MetricsInit PROVE MetricsInv
  OBVIOUS
<1>0. MaxSeries \in Nat /\ UnmatchedCap \in Nat
  BY RequestMetricsAssumption DEF RequestMetricsAssumption
<1>1. Open = {}
  BY DEF MetricsInit, Open
<1>2. IsFiniteSet({}) /\ Cardinality({}) = 0
  BY FS_EmptySet
<1>3. ConnectionsOK
  BY DEF MetricsInit, ConnectionsOK
<1>4. RegistryOK
  BY <1>0, <1>2 DEF MetricsInit, RegistryOK
<1>5. LabelsOK
  BY <1>0, <1>2 DEF MetricsInit, LabelsOK, Labels, Latency, Metrics
<1>6. httpInFlight = Cardinality(Open) /\ EndedIsTold /\ UnmatchedLeaveRoom
  BY <1>1, <1>2 DEF MetricsInit, EndedIsTold, UnmatchedLeaveRoom, Metrics
<1>. QED
  BY <1>3, <1>4, <1>5, <1>6 DEF MetricsInv

LEMMA StepOK == MetricsInv /\ [MetricsNext]_metricsVars => MetricsInv'
<1>. SUFFICES ASSUME MetricsInv, [MetricsNext]_metricsVars PROVE MetricsInv'
  OBVIOUS
<1>1. ASSUME NEW c \in Connections, Arrive(c) PROVE MetricsInv'
  <2>1. ConnectionsOK'
    BY <1>1 DEF MetricsInv, ConnectionsOK, Arrive
  <2>2. UNCHANGED <<unmatchedRouteLabels, series, counted, seriesDropped>>
    BY <1>1 DEF Arrive, registry
  <2>3. RegistryOK' /\ LabelsOK' /\ UnmatchedLeaveRoom'
    BY <2>2 DEF MetricsInv, RegistryOK, LabelsOK, Labels, UnmatchedLeaveRoom
  <2>4. c \notin Open /\ Open' = Open \cup {c}
    <3>1. PICK path \in Routes \cup Segments : request' = [request EXCEPT ![c] = path]
      BY <1>1 DEF Arrive
    <3>2. path # "none"
      BY RequestMetricsAssumption DEF RequestMetricsAssumption
    <3>. QED
      BY <1>1, <3>1, <3>2 DEF MetricsInv, ConnectionsOK, Arrive, Open
  <2>5. Cardinality(Open') = Cardinality(Open) + 1
    BY <2>4, OpenJoined
  <2>6. EndedIsTold'
    <3>. SUFFICES ASSUME NEW m \in Metrics
                  PROVE  counted'[m] + seriesDropped'[m] + Cardinality(Open') = arrived'
      BY DEF EndedIsTold
    <3>1. counted[m] + seriesDropped[m] + Cardinality(Open) = arrived
      BY DEF MetricsInv, EndedIsTold
    <3>2. {counted[m], seriesDropped[m], Cardinality(Open)} \subseteq Nat
      BY OpenFinite DEF MetricsInv, RegistryOK
    <3>3. arrived' = arrived + 1
      BY <1>1 DEF Arrive
    <3>. QED
      BY <2>2, <2>5, <3>1, <3>2, <3>3
  <2>7. httpInFlight' = httpInFlight + 1
    BY <1>1 DEF Arrive
  <2>. QED
    BY <2>1, <2>3, <2>5, <2>6, <2>7 DEF MetricsInv
<1>2. ASSUME NEW c \in Connections, ResponseFinishes(c) PROVE MetricsInv'
  BY <1>2, FinishKept DEF ResponseFinishes
<1>3. ASSUME NEW c \in Connections, ResponseCloses(c) PROVE MetricsInv'
  BY <1>3, FinishKept DEF ResponseCloses
<1>4. CASE UNCHANGED metricsVars
  BY <1>4 DEF metricsVars, registry, MetricsInv, ConnectionsOK, RegistryOK, LabelsOK, Labels, Open,
              EndedIsTold, UnmatchedLeaveRoom
<1>. QED
  BY <1>1, <1>2, <1>3, <1>4 DEF MetricsNext

-----------------------------------------------------------------------------

\* Every reachable state satisfies the inductive invariant (index.js:235-259,
\* metrics.js:118-129).
THEOREM MetricsKept == MetricsSpec => []MetricsInv
  BY InitOK, StepOK, PTL DEF MetricsSpec

\* The in-flight gauge is the number of requests without an answer, whichever of
\* its two events ends each (index.js:242-257).
THEOREM GaugeIsOpen == MetricsSpec => []InFlightIsOpen
<1>1. MetricsInv => InFlightIsOpen
  BY DEF MetricsInv, ConnectionsOK, RegistryOK, LabelsOK, InFlightIsOpen, MetricsTypeOK
<1>. QED
  BY <1>1, MetricsKept, PTL

\* No request that ended is lost unsaid by a metric's cap (metrics.js:116-129).
THEOREM EveryEndIsTold == MetricsSpec => []EndedIsTold
<1>1. MetricsInv => EndedIsTold
  BY DEF MetricsInv
<1>. QED
  BY <1>1, MetricsKept, PTL

\* Paths of no route cannot take the routes' room in the budget of latencies
\* (index.js:81-90, 138-143).
THEOREM RoutesKeepRoom == MetricsSpec => []UnmatchedLeaveRoom
<1>1. MetricsInv => UnmatchedLeaveRoom
  BY DEF MetricsInv
<1>. QED
  BY <1>1, MetricsKept, PTL

\* Every request is open, or told once on each metric.
THEOREM EveryRequestIsTold == MetricsSpec => []RequestsTold
<1>1. InFlightIsOpen /\ EndedIsTold => RequestsTold
  BY DEF RequestsTold
<1>. QED
  BY <1>1, GaugeIsOpen, EveryEndIsTold, PTL

-----------------------------------------------------------------------------
(* The maintenance window, for any probes, window and clock.  A file is     *)
(* judged by the time a probe took, which the clock has left behind; but    *)
(* one file's judgements differ only in that time, and the file that is     *)
(* there is the one they were all made of.                                  *)

\* Every time published, either way, is one for which the file that is still there
\* reads so.
JudgedByThisFile ==
    /\ \A t \in excused : file \in Sentinels /\ OpenAt(file, t)
    /\ \A s \in refused : ~(file \in Sentinels /\ OpenAt(file, s))

WindowInv == WindowTypeOK /\ JudgedByThisFile

\* Before the first probe nothing is published.
LEMMA InitWindow == WindowInit => WindowInv
BY MaintenanceAssumption DEF WindowInit, WindowInv, WindowTypeOK, JudgedByThisFile, Times

\* A probe's reading is judged by the file it reads.
LEMMA ReadJudges ==
    ASSUME WindowInv, NEW p \in Probes, Read(p)
    PROVE  WindowInv'
<1>1. askedAt[p] \in Times /\ file' = file /\ now' = now
  BY DEF Read, WindowInv, WindowTypeOK
<1>2. askedAt' \in [Probes -> Times \cup {None}] /\ maintenance' \in [Probes -> BOOLEAN]
  BY DEF Read, WindowInv, WindowTypeOK
<1>3. CASE file \in Sentinels /\ OpenAt(file, askedAt[p])
  <2>1. excused' = excused \cup {askedAt[p]} /\ refused' = refused
    BY <1>3 DEF Read
  <2>2. WindowTypeOK'
    BY <1>1, <1>2, <2>1 DEF WindowInv, WindowTypeOK
  <2>3. JudgedByThisFile'
    BY <1>1, <1>3, <2>1 DEF WindowInv, JudgedByThisFile, OpenAt
  <2> QED
    BY <2>2, <2>3 DEF WindowInv
<1>4. CASE ~(file \in Sentinels /\ OpenAt(file, askedAt[p]))
  <2>1. refused' = refused \cup {askedAt[p]} /\ excused' = excused
    BY <1>4 DEF Read
  <2>2. WindowTypeOK'
    BY <1>1, <1>2, <2>1 DEF WindowInv, WindowTypeOK
  <2>3. JudgedByThisFile'
    BY <1>1, <1>4, <2>1 DEF WindowInv, JudgedByThisFile, OpenAt
  <2> QED
    BY <2>2, <2>3 DEF WindowInv
<1> QED
  BY <1>3, <1>4

\* Every step keeps the judgements of the file that is there.
LEMMA StepWindow == WindowInv /\ [WindowNext]_windowVars => WindowInv'
<1> SUFFICES ASSUME WindowInv, [WindowNext]_windowVars PROVE WindowInv'
  OBVIOUS
<1>1. CASE ClockTicks
  <2>1. now' \in Times
    BY <1>1, MaintenanceAssumption DEF ClockTicks, WindowInv, WindowTypeOK, Times
  <2> QED
    BY <1>1, <2>1 DEF ClockTicks, WindowInv, WindowTypeOK, JudgedByThisFile, OpenAt
<1>2. CASE Declare
  <2>1. /\ excused' = {} /\ refused' = {} /\ UNCHANGED <<now, askedAt, maintenance>>
        /\ file' \in Sentinels \cup {None, Unreadable}
    BY <1>2 DEF Declare
  <2> QED
    BY <2>1 DEF WindowInv, WindowTypeOK, JudgedByThisFile
<1>3. ASSUME NEW p \in Probes, Ask(p) PROVE WindowInv'
  <2>1. askedAt' \in [Probes -> Times \cup {None}]
    BY <1>3 DEF Ask, WindowInv, WindowTypeOK
  <2> QED
    BY <1>3, <2>1 DEF Ask, WindowInv, WindowTypeOK, JudgedByThisFile, OpenAt
<1>4. CASE UNCHANGED windowVars
  BY <1>4 DEF windowVars, WindowInv, WindowTypeOK, JudgedByThisFile, OpenAt
<1> QED
  BY <1>1, <1>2, <1>3, <1>4, ReadJudges DEF WindowNext

\* One file excuses one window, and never what it was refused for.
LEMMA JudgedIsBounded == WindowInv => WindowsBounded
<1> SUFFICES ASSUME WindowInv PROVE WindowsBounded
  OBVIOUS
<1>1. \A t \in excused \cup refused : t \in Nat
  BY DEF WindowInv, WindowTypeOK, Times
<1>2. ASSUME NEW t \in excused
      PROVE  /\ file.until \in Nat /\ t < file.until /\ file.until - t <= MaxWindow
             /\ file.since = None \/ (file.since \in Nat /\ file.until - file.since <= MaxWindow)
  BY <1>2 DEF WindowInv, JudgedByThisFile, OpenAt, Times
<1>3. OneWindowPerFile
  <2>1. ASSUME NEW s \in excused, NEW t \in excused PROVE s - t < MaxWindow /\ s < file.until
    BY <1>1, <1>2, MaintenanceAssumption
  <2> QED
    BY <2>1 DEF OneWindowPerFile, WindowInv
<1>4. RefusedNeverOpens
  <2> SUFFICES ASSUME NEW s \in refused, NEW t \in excused, file.since \in Times,
                      file.since <= s, s < t
               PROVE  FALSE
    BY DEF RefusedNeverOpens
  <2>1. file \in Sentinels /\ OpenAt(file, t)
    BY DEF WindowInv, JudgedByThisFile
  <2>2. file.until \in Times /\ file.until > s /\ file.until - s <= MaxWindow
    <3>1. file.until \in Times /\ file.until \in Nat /\ file.until > t /\ file.until - file.since <= MaxWindow
      BY <2>1, MaintenanceAssumption DEF OpenAt, Times
    <3>2. file.since \in Nat
      BY DEF Times
    <3> QED
      BY <1>1, <3>1, <3>2, MaintenanceAssumption
  <2>3. file.until - file.since <= MaxWindow
    BY <2>1, MaintenanceAssumption DEF OpenAt, Times
  <2>4. OpenAt(file, s)
    BY <2>2, <2>3 DEF OpenAt
  <2> QED
    BY <2>1, <2>4 DEF WindowInv, JudgedByThisFile
<1> QED
  BY <1>3, <1>4 DEF WindowsBounded

\* A sentinel nobody removes excuses an outage for one window, and once.
THEOREM SentinelsAreBounded == WindowSpec => []WindowsBounded
BY InitWindow, StepWindow, JudgedIsBounded, PTL DEF WindowSpec
=============================================================================
