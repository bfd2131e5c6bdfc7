-------------------------- MODULE MaintenanceWindow --------------------------
(***************************************************************************)
(* The operator's sentinel of a planned outage, as readiness probes read   *)
(* it: a probe takes the time, reads the file some time later and          *)
(* publishes its window or none, while the clock runs and the file is      *)
(* written, left behind by a publish that crashed, and removed.            *)
(***************************************************************************)
EXTENDS Naturals

CONSTANTS
    Probes,
    MaxWindow,      \* MAX_WINDOW_MS
    MaxTime,        \* bound: the clock
    None,           \* a missing field or file, and no window
    Unreadable      \* a field that is no timestamp, a file that is no sentinel

Times == 0 .. MaxTime

\* "since" may be left out.
Sentinels == [since : Times \cup {None, Unreadable}, until : Times \cup {None, Unreadable}]

ASSUME MaintenanceAssumption ==
    /\ MaxWindow \in Nat \ {0} /\ MaxTime \in Nat
    /\ None \notin Nat /\ Unreadable \notin Nat /\ None # Unreadable

VARIABLES
    now,
    file,               \* what is at sentinelPath
    askedAt,            \* probe -> the time it took, None between probes
    maintenance,        \* probe -> whether it last published the file's window
    excused, refused    \* history: the times this file was published for, or not

windowVars == <<now, file, askedAt, maintenance, excused, refused>>

WindowInit ==
    /\ now = 0
    /\ file = None
    /\ askedAt = [p \in Probes |-> None]
    /\ maintenance = [p \in Probes |-> FALSE]
    /\ excused = {} /\ refused = {}

-----------------------------------------------------------------------------

ClockTicks ==
    /\ now < MaxTime
    /\ now' = now + 1
    /\ UNCHANGED <<file, askedAt, maintenance, excused, refused>>

\* The publish writes its sentinel, and removes it, or a restart clears it.
Declare ==
    /\ file' \in IF file = None THEN Sentinels \cup {Unreadable} ELSE {None}
    /\ excused' = {} /\ refused' = {}
    /\ UNCHANGED <<now, askedAt, maintenance>>

Ask(p) ==
    /\ askedAt[p] = None
    /\ askedAt' = [askedAt EXCEPT ![p] = now]
    /\ UNCHANGED <<now, file, maintenance, excused, refused>>

\* Fault variant: only the time remaining is bounded.
OpenAtAnySpan(doc, at) ==
    /\ doc.until \in Times /\ doc.until > at
    /\ doc.until - at <= MaxWindow
    /\ \/ doc.since = None
       \/ doc.since \in Times /\ doc.since <= at

\* Fault variant: only the declared span is bounded.
OpenAtAnyRemainder(doc, at) ==
    /\ doc.until \in Times /\ doc.until > at
    /\ \/ doc.since = None
       \/ doc.since \in Times /\ doc.since <= at /\ doc.until - doc.since <= MaxWindow

\* parseMaintenanceWindow: an expiry ahead, but not too far, and a start, where one
\* is supplied, that is past, and again not too far from the expiry.
OpenAt(doc, at) ==
    /\ doc.until \in Times /\ doc.until > at
    /\ doc.until - at <= MaxWindow
    /\ \/ doc.since = None
       \/ doc.since \in Times /\ doc.since <= at /\ doc.until - doc.since <= MaxWindow

\* readMaintenanceWindow: the file is read, and judged by the time the probe took.
Read(p) ==
    /\ askedAt[p] # None
    /\ askedAt' = [askedAt EXCEPT ![p] = None]
    /\ IF file \in Sentinels /\ OpenAt(file, askedAt[p])
       THEN /\ maintenance' = [maintenance EXCEPT ![p] = TRUE]
            /\ excused' = excused \cup {askedAt[p]}
            /\ UNCHANGED refused
       ELSE /\ maintenance' = [maintenance EXCEPT ![p] = FALSE]
            /\ refused' = refused \cup {askedAt[p]}
            /\ UNCHANGED excused
    /\ UNCHANGED <<now, file>>

WindowNext == ClockTicks \/ Declare \/ \E p \in Probes : Ask(p) \/ Read(p)

WindowSpec == WindowInit /\ [][WindowNext]_windowVars

-----------------------------------------------------------------------------

WindowTypeOK ==
    /\ now \in Times
    /\ file \in Sentinels \cup {None, Unreadable}
    /\ askedAt \in [Probes -> Times \cup {None}]
    /\ maintenance \in [Probes -> BOOLEAN]
    /\ excused \cup refused \subseteq Times

\* A file nobody cleans up excuses an outage for one window at most, and for no
\* time past its own expiry, however its fields are filled in or left out and
\* however late the probes read it (maintenance_window.js:33-38, 60-64).
OneWindowPerFile ==
    /\ WindowTypeOK
    /\ \A s, t \in excused : s - t < MaxWindow /\ s < file.until

\* A declaration that was refused once it had begun is not excused later, as its
\* expiry nears (maintenance_window.js:125-129).
RefusedNeverOpens ==
    \A s \in refused, t \in excused : file.since \in Times => ~(file.since <= s /\ s < t)

\* A sentinel is one window, once: what it excuses has an end, and what it was
\* refused for does not come back.
WindowsBounded == OneWindowPerFile /\ RefusedNeverOpens
=============================================================================
