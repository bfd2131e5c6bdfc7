----------------------------- MODULE LogShipper -----------------------------
(***************************************************************************)
(* The log shipper: a bounded buffer that sends one batch at a time to a   *)
(* collector, drops its oldest lines when full and puts a failed batch     *)
(* back in front.  Lines are numbered as they are emitted.                 *)
(*                                                                         *)
(* A post ends in an acknowledgement, an error the collector knows nothing *)
(* of, or an error after it took the lines (a timeout, a lost answer).     *)
(***************************************************************************)
EXTENDS Integers, Sequences, SequencesExt, FiniteSets

CONSTANTS
    BatchSize, MaxBuffer,
    MaxLines, MaxFailures   \* bounds: lines emitted, posts that fail

ASSUME ShipperAssumption ==
    /\ {BatchSize, MaxBuffer} \subseteq Nat \ {0}
    /\ {MaxLines, MaxFailures} \subseteq Nat

VARIABLES
    emitted,    \* lines so far, and the number of the last one
    buffer,     \* lines that wait
    batch,      \* the lines of the post in flight
    inFlight,   \* whether a post is in flight
    timer,      \* whether the flush timer runs
    shipped, dropped, failures, \* the counters
    lost,       \* history: the lines behind `dropped'
    collected   \* the collector's lines

counters == <<shipped, dropped, failures>>
vars == <<emitted, buffer, batch, inFlight, timer, counters, lost, collected>>

Init ==
    /\ emitted = 0 /\ buffer = <<>> /\ batch = <<>> /\ inFlight = FALSE /\ timer = TRUE
    /\ shipped = 0 /\ dropped = 0 /\ failures = 0
    /\ lost = {} /\ collected = {}

Smaller(m, n) == IF m < n THEN m ELSE n

Taken(buf) == Smaller(BatchSize, Len(buf))

NoFlush(buf) == buffer' = buf /\ UNCHANGED <<batch, inFlight>>

\* flush() on the buffer buf: nothing while a post is in flight.
Flush(buf) ==
    IF inFlight \/ buf = <<>>
    THEN NoFlush(buf)
    ELSE /\ inFlight' = TRUE
         /\ batch' = SubSeq(buf, 1, Taken(buf))
         /\ buffer' = SubSeq(buf, Taken(buf) + 1, Len(buf))

\* Fault variant: a full buffer refuses the newest line.
LogDropNewest ==
    /\ emitted < MaxLines
    /\ emitted' = emitted + 1
    /\ LET full == Len(buffer) >= MaxBuffer
           buf  == IF full THEN buffer ELSE Append(buffer, emitted + 1)
       IN  /\ dropped' = IF full THEN dropped + 1 ELSE dropped
           /\ lost' = IF full THEN lost \cup {emitted + 1} ELSE lost
           /\ IF Len(buf) >= BatchSize THEN Flush(buf) ELSE NoFlush(buf)
    /\ UNCHANGED <<timer, shipped, failures, collected>>

\* log() and _enqueue: the oldest line goes when the buffer is full; a batch's
\* worth of lines is sent at once.
Log ==
    /\ emitted < MaxLines
    /\ emitted' = emitted + 1
    /\ LET full == Len(buffer) >= MaxBuffer
           buf  == Append(IF full THEN Tail(buffer) ELSE buffer, emitted + 1)
       IN  /\ dropped' = IF full THEN dropped + 1 ELSE dropped
           /\ lost' = IF full THEN lost \cup {Head(buffer)} ELSE lost
           /\ IF Len(buf) >= BatchSize THEN Flush(buf) ELSE NoFlush(buf)
    /\ UNCHANGED <<timer, shipped, failures, collected>>

Tick ==
    /\ timer
    /\ Flush(buffer)
    /\ UNCHANGED <<emitted, timer, counters, lost, collected>>

\* Fault variant: a post that ends leaves the shipper in flight.
InFlightStays == UNCHANGED inFlight

\* The finally of flush.
InFlightEnds == inFlight' = FALSE

PostSucceeds ==
    /\ batch # <<>>
    /\ shipped' = shipped + Len(batch)
    /\ collected' = collected \cup Range(batch)
    /\ batch' = <<>> /\ InFlightEnds
    /\ UNCHANGED <<emitted, buffer, timer, dropped, failures, lost>>

Room == IF Len(buffer) >= MaxBuffer THEN 0 ELSE MaxBuffer - Len(buffer)

\* Fault variant: a failed batch goes to the end of the line.
RequeueBehind(lines) == buffer' = buffer \o lines

\* unshift: a failed batch goes back to the front.
Requeue(lines) == buffer' = lines \o buffer

\* The newest lines of the batch that there is room for.
Kept == SubSeq(batch, Len(batch) - Smaller(Room, Len(batch)) + 1, Len(batch))

\* Fault variant: the lines a failed batch has no room for are not counted.
CountUncounted(n) == UNCHANGED dropped

CountDropped(n) == dropped' = dropped + n

PostFails ==
    /\ batch # <<>> /\ failures < MaxFailures
    /\ failures' = failures + 1
    /\ collected' \in {collected, collected \cup Range(batch)}
    /\ Requeue(Kept)
    /\ CountDropped(Len(batch) - Len(Kept))
    /\ lost' = lost \cup (Range(batch) \ Range(Kept))
    /\ batch' = <<>> /\ InFlightEnds
    /\ UNCHANGED <<emitted, timer, shipped>>

\* stop(): no more timer, and one flush.
Stop ==
    /\ timer' = FALSE
    /\ Flush(buffer)
    /\ UNCHANGED <<emitted, counters, lost, collected>>

Next == Log \/ Tick \/ PostSucceeds \/ PostFails \/ Stop

Spec == Init /\ [][Next]_vars

\* The interval timer fires, and every post ends by its timeout at the latest.
FairSpec == Spec /\ WF_vars(Tick) /\ WF_vars(PostSucceeds \/ PostFails)

-----------------------------------------------------------------------------

Pending == batch \o buffer

\* The types; and the buffer never exceeds its cap, failed batches included
\* (logShipper.js:330-333).
TypeOK ==
    /\ emitted \in 0 .. MaxLines
    /\ buffer \in Seq(1 .. emitted) /\ Len(buffer) <= MaxBuffer
    /\ batch \in Seq(1 .. emitted) /\ Len(batch) <= BatchSize
    /\ inFlight = (batch # <<>>) /\ timer \in BOOLEAN
    /\ {shipped, dropped, failures} \subseteq Nat
    /\ lost \subseteq 1 .. emitted /\ collected \subseteq 1 .. emitted

\* Every line is accounted for exactly once: acknowledged, counted as dropped,
\* or pending.  The exported counters add up whatever fails and however lines
\* and posts interleave.
NothingVanishes == emitted = shipped + dropped + Len(Pending)

\* A transient outage does not reorder the stream (line 328): what is pending
\* is in the order it was emitted.
OrderKept == \A i, j \in 1 .. Len(Pending) : i < j => Pending[i] < Pending[j]

\* What a full buffer loses is older than everything it keeps (line 305).
OldestDropped == \A d \in lost, i \in 1 .. Len(buffer) : d < buffer[i]

\* Neither a failed batch that returns nor a full buffer disturbs the stream.
StreamKept == OrderKept /\ OldestDropped

\* What the operator reads of a stream that a slow or failing collector backs up:
\* no line is lost unsaid, none is told twice, and what is left is in order.
StreamAccounted == NothingVanishes /\ StreamKept

\* A line the collector never saw is pending or was counted as dropped, even
\* though posts fail on either side of the collector.
DroppedIsCounted ==
    /\ Cardinality(lost) = dropped
    /\ (1 .. emitted) \ collected \subseteq lost \cup Range(Pending)

\* Once lines and failures cease, the shipper drains to the last line; if it
\* was stopped, one flush is all it still gets.
Drains == <>[](Pending = <<>> \/ ~timer)
=============================================================================
