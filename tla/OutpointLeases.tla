--------------------------- MODULE OutpointLeases ---------------------------
(***************************************************************************)
(* What the reservation book promises, without the book: an outpoint is    *)
(* leased to one holder for a bounded time, or to several holders that may *)
(* share it (cancels of one envelope commit); a lease ends when its holder *)
(* gives everything back or when its time is up, never by what another     *)
(* holder does; and an outpoint is free exactly when no lease on it runs.  *)
(***************************************************************************)
EXTENDS Naturals

CONSTANTS
    Outpoints, Holders,
    Sharers,    \* the holders that may share an outpoint
    MaxLease    \* the longest lease

VARIABLES
    now,
    until,  \* holder -> outpoint -> end of its lease, 0 for none
    free    \* the outpoints a new holder may take

vars == <<now, until, free>>

Runs(table, t, c, o) == table[c][o] > t

\* What nobody holds at time t.
Unleased(table, t) == {o \in Outpoints : \A c \in Holders : ~Runs(table, t, c, o)}

Init ==
    /\ now = 0
    /\ until = [c \in Holders |-> [o \in Outpoints |-> 0]]
    /\ free = Outpoints

\* A lease on several outpoints at once, ending at `end' at the latest MaxLease
\* from now (earlier when the holder read the clock some time ago).
Acquire(c) ==
    \E S \in SUBSET Outpoints, end \in 1..(now + MaxLease) :
        /\ \A o \in S : o \notin free =>
               \A d \in Holders : Runs(until, now, d, o) => {c, d} \subseteq Sharers
        /\ until' = [until EXCEPT ![c] = [o \in Outpoints |-> IF o \in S THEN end ELSE @[o]]]
        /\ free' = Unleased(until', now)
        /\ UNCHANGED now

Surrender(c) ==
    /\ until' = [until EXCEPT ![c] = [o \in Outpoints |-> 0]]
    /\ free' = Unleased(until', now)
    /\ UNCHANGED now

Elapse ==
    /\ now' \in Nat /\ now' > now
    /\ free' = Unleased(until, now')
    /\ UNCHANGED until

Next == Elapse \/ \E c \in Holders : Acquire(c) \/ Surrender(c)

Spec == Init /\ [][Next]_vars

\* An outpoint has one holder, or holders that may share it.
Exclusive ==
    \A c, d \in Holders, o \in Outpoints :
        Runs(until, now, c, o) /\ Runs(until, now, d, o) /\ c # d => {c, d} \subseteq Sharers
=============================================================================
