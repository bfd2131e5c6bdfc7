---------------------------- MODULE TrackerReads ----------------------------
(***************************************************************************)
(* A build's read of an address from the UTXO tracker: the pre-flight      *)
(* status check, the paged fetch with its snapshot comparison, and the     *)
(* freshness gate on the answer.  Each request is answered from the        *)
(* tracker as it is at that moment, and the tracker moves between any two  *)
(* of them.                                                                *)
(*                                                                         *)
(* The tracker is external.  What this module assumes of it is what the    *)
(* encoder's comments rely on: a page's rows and its `sync' are one read,  *)
(* committed_hash names the chain, mempool_epoch moves with every mempool  *)
(* commit, and a cursor resumes after the last row it returned.            *)
(***************************************************************************)
EXTENDS Integers, FiniteSetsExt, Sequences, SequencesExt

CONSTANTS
    Blocks,             \* block names; a chain is a sequence of them
    MaxHeight,          \* bound: the longest chain
    OutputsOf,          \* chain -> the address's outputs on it, as numbers
    Published,          \* the `sync' fields the tracker's release puts on a page
    SyncedThreshold,    \* the lag up to which the tracker calls itself synced
    MaxLag,             \* maxUtxoTrackerLagBlocks
    Profiles,           \* the tracker profiles considered, "default" and "remote"
    PageLimit, Cap, MaxPages,
    NoLag,              \* a lag that is null
    MaxMoves, MaxFaults \* bounds: what may happen to the tracker, and to requests

SyncFields == {"lag", "synced", "halted", "ready", "height", "reorgs", "epoch", "hash"}

Chains == UNION {[1 .. n -> Blocks] : n \in 0 .. MaxHeight}

ASSUME TrackerAssumption ==
    /\ Published \subseteq SyncFields
    /\ Profiles \subseteq {"default", "remote"}
    /\ {PageLimit, Cap, MaxPages} \subseteq Nat \ {0}
    /\ {MaxHeight, SyncedThreshold, MaxLag, MaxMoves, MaxFaults} \subseteq Nat
    /\ NoLag \notin Int
    \* An address holds nothing before the first block, and its rows are numbered from 1.
    /\ OutputsOf \in [Chains -> SUBSET (Nat \ {0})] /\ OutputsOf[<<>>] = {}
    /\ \A c \in Chains : IsFiniteSet(OutputsOf[c])

VARIABLES
    tracker,    \* the tracker, with what its node reports
    profile,    \* this deployment's tracker profile
    moves, faults,
    pc,         \* "idle", "page", "gate", "accepted", or the refusal's code
    pages,      \* pages asked for
    cursor,     \* where the next page starts: after this row, 0 at first
    cursors,    \* the cursors seen in this fetch
    rows,       \* the rows merged so far
    firstSync,  \* the `sync' of page 1
    sync,       \* the `sync' of the last page, the one that survives the merge
    views       \* history: the tracker as each page was read

settings == <<profile, moves, faults>>
fetch == <<pages, cursor, cursors, rows, firstSync, sync, views>>
vars == <<tracker, settings, pc, fetch>>

Refusals == {"UNREACHABLE", "NOT_READY", "UTXO_TRACKER_ERROR", "UTXO_SET_TOO_LARGE", "REFUSED_BY_GATE", "NO_UTXOS"}

-----------------------------------------------------------------------------
(* The tracker.                                                            *)

\* The address's unspent outputs: on the chain, and not spent in the mempool.
Held(t) == OutputsOf[t.chain] \ t.spent

\* No lag before the first block; and then `synced' is whatever the release says.
Lag(t) == IF t.chain = <<>> THEN NoLag ELSE t.node - Len(t.chain)

Field(t, f) ==
    CASE f = "lag"    -> Lag(t)
      [] f = "synced" -> IF t.chain = <<>> THEN t.syncedWhenEmpty
                         ELSE ~t.halted /\ Lag(t) \in 0 .. SyncedThreshold
      [] f = "halted" -> t.halted
      [] f = "ready"  -> t.ready
      [] f = "height" -> Len(t.chain)
      [] f = "reorgs" -> t.reorgs
      [] f = "epoch"  -> t.epoch
      [] f = "hash"   -> t.chain

PageSync(t) == [f \in Published |-> Field(t, f)]

\* get_sync_status always has the lag and the verdict.
Status(t) == [f \in (Published \cup {"lag", "synced"}) \ {"hash", "epoch"} |-> Field(t, f)]

\* One page: the first rows after the cursor, and a cursor if there are more.
Page(t, limit) ==
    LET left  == {o \in Held(t) : o > cursor}
        taken == {o \in left : Cardinality({q \in left : q <= o}) <= limit}
    IN  [rows |-> taken, next |-> IF taken = left THEN 0 ELSE Max(taken)]

Move(t) ==
    /\ moves < MaxMoves
    /\ tracker' = t /\ moves' = moves + 1
    /\ UNCHANGED <<profile, faults, pc, fetch>>

ConnectBlock ==
    /\ ~tracker.halted /\ Len(tracker.chain) < MaxHeight
    /\ \E b \in Blocks : Move([tracker EXCEPT !.chain = Append(@, b)])

\* A rollback the counter records, or one it misses.
DisconnectBlock ==
    /\ ~tracker.halted /\ tracker.chain # <<>>
    /\ \E n \in {tracker.reorgs, tracker.reorgs + 1} :
          Move([tracker EXCEPT !.chain = Front(@), !.reorgs = n])

CommitMempool ==
    /\ ~tracker.halted
    /\ \E S \in {{}} \cup {{o} : o \in OutputsOf[tracker.chain]} :
          Move([tracker EXCEPT !.spent = S, !.epoch = @ + 1, !.ready = TRUE])

\* A restart forgets the counter and rebuilds the mempool.
Restart == Move([tracker EXCEPT !.reorgs = 0, !.spent = {}, !.epoch = @ + 1, !.ready = FALSE])

Halt == Move([tracker EXCEPT !.halted = TRUE])

NodeMoves == \E h \in {tracker.node - 1, tracker.node + 1} : h >= 0 /\ Move([tracker EXCEPT !.node = h])

-----------------------------------------------------------------------------
(* The encoder's verdicts.                                                 *)

Has(s, f) == f \in DOMAIN s

KnownLag(s) == Has(s, "lag") /\ s["lag"] # NoLag

\* classifyTrackerFreshness: only an explicit negative refuses.
Unfresh(s) ==
    \/ Has(s, "halted") /\ s["halted"]
    \/ Has(s, "synced") /\ ~s["synced"]
    \/ KnownLag(s) /\ s["lag"] \notin 0 .. MaxLag
    \/ Has(s, "ready") /\ ~s["ready"]

SyncedClaimed(s) == Has(s, "synced") /\ s["synced"]

\* classifyRemoteSync: the remote profile refuses what nobody vouched for.
GateRefuses(s) ==
    Unfresh(s) \/ (profile = "remote" /\ ~(KnownLag(s) /\ SyncedClaimed(s)))

\* assertTrackerReady.
PreflightRefuses(s) ==
    IF profile = "remote"
    THEN GateRefuses(s)
    ELSE \/ ~KnownLag(s)
         \/ s["lag"] < 0
         \/ Has(s, "halted") /\ s["halted"]
         \/ ~SyncedClaimed(s)
         \/ Has(s, "ready") /\ ~s["ready"]

\* getServeReadiness, its tracker_synced.
StatusHealthy(s) == SyncedClaimed(s) /\ ~GateRefuses(s)

Differ(a, b, f) == Has(a, f) /\ Has(b, f) /\ a[f] # b[f]

\* Fault variant: heights and counters only.
DivergedByHeight(first, later) ==
    \/ \E f \in {"height", "reorgs", "epoch"} : Differ(first, later, f)
    \/ Has(later, "halted") /\ later["halted"]
    \/ Has(later, "synced") /\ ~later["synced"]
    \/ KnownLag(later) /\ later["lag"] < 0

\* snapshotDivergence.
Diverged(first, later) ==
    \/ \E f \in {"height", "reorgs", "epoch", "hash"} : Differ(first, later, f)
    \/ Has(later, "halted") /\ later["halted"]
    \/ Has(later, "synced") /\ ~later["synced"]
    \/ KnownLag(later) /\ later["lag"] < 0

-----------------------------------------------------------------------------
(* The read.                                                               *)

Init ==
    /\ \E c \in Chains, h \in 0 .. (MaxHeight + SyncedThreshold + 1), s \in BOOLEAN :
          /\ s => c = <<>>
          /\ tracker = [chain |-> c, node |-> h, spent |-> {}, reorgs |-> 1, epoch |-> 0,
                        halted |-> FALSE, ready |-> TRUE, syncedWhenEmpty |-> s]
    /\ profile \in Profiles
    /\ moves = 0 /\ faults = 0
    /\ pc = "idle"
    /\ pages = 0 /\ cursor = 0 /\ cursors = {} /\ rows = {}
    /\ firstSync = <<>> /\ sync = <<>> /\ views = <<>>

Refuse(code) == pc' = code /\ UNCHANGED <<tracker, settings, fetch>>

\* Fault variant: the cursors of the last fetch are still remembered.
StartFetchRemembering ==
    /\ pages' = 0 /\ cursor' = 0 /\ rows' = {}
    /\ firstSync' = <<>> /\ sync' = <<>> /\ views' = <<>>
    /\ UNCHANGED cursors

\* fetchAllUtxoPages: a fetch starts from nothing.
StartFetch ==
    /\ pages' = 0 /\ cursor' = 0 /\ cursors' = {} /\ rows' = {}
    /\ firstSync' = <<>> /\ sync' = <<>> /\ views' = <<>>

\* getUtxosFromAddress: the status is asked for and judged before any page.
CheckStatus ==
    /\ pc = "idle"
    /\ IF PreflightRefuses(Status(tracker))
       THEN Refuse("NOT_READY")
       ELSE StartFetch /\ pc' = "page" /\ UNCHANGED <<tracker, settings>>

\* min(UTXO_PAGE_LIMIT, cap - merged + 1): one row over the cap is enough to know.
NextLimit == IF PageLimit < Cap - Cardinality(rows) + 1 THEN PageLimit ELSE Cap - Cardinality(rows) + 1

TooMany(page) == Cardinality(rows) + Cardinality(page.rows) > Cap

Mixed(s) == pages > 0 /\ Diverged(firstSync, s)

Stalled(page) == page.next # 0 /\ page.next \in cursors

\* Fault variant: the cap is looked at before the snapshot.
PageRefusalCapFirst(page, s) ==
    IF pages >= MaxPages THEN "UTXO_TRACKER_ERROR"
    ELSE IF TooMany(page) THEN "UTXO_SET_TOO_LARGE"
    ELSE IF Mixed(s) \/ Stalled(page) THEN "UTXO_TRACKER_ERROR"
    ELSE "page"

\* Fault variant: the merged set is not counted.
PageRefusalUncounted(page, s) ==
    IF pages >= MaxPages \/ Mixed(s) \/ Stalled(page) THEN "UTXO_TRACKER_ERROR" ELSE "page"

\* mergeUtxoPage and the page bound, in their order: the first refusal counts.
PageRefusal(page, s) ==
    IF pages >= MaxPages \/ Mixed(s) THEN "UTXO_TRACKER_ERROR"
    ELSE IF TooMany(page) THEN "UTXO_SET_TOO_LARGE"
    ELSE IF Stalled(page) THEN "UTXO_TRACKER_ERROR"
    ELSE "page"

FetchPage ==
    /\ pc = "page"
    /\ LET page == Page(tracker, NextLimit)
           s    == PageSync(tracker)
       IN  IF PageRefusal(page, s) # "page"
           THEN /\ pc' = PageRefusal(page, s)
                /\ views' = Append(views, tracker)
                /\ UNCHANGED <<tracker, settings, pages, cursor, cursors, rows, firstSync, sync>>
           ELSE /\ pages' = pages + 1
                /\ firstSync' = IF pages = 0 THEN s ELSE firstSync
                /\ sync' = s
                /\ rows' = rows \cup page.rows
                /\ cursor' = page.next
                /\ cursors' = IF page.next = 0 THEN cursors ELSE cursors \cup {page.next}
                /\ views' = Append(views, tracker)
                /\ pc' = IF page.next = 0 THEN "gate" ELSE "page"
                /\ UNCHANGED <<tracker, settings>>

\* Fault variant: the gate looks at page 1, which the pre-flight vouched for.
GatePassesFirst == ~GateRefuses(firstSync)

\* throwIfRefused on the answer's `sync'.
GatePasses == ~GateRefuses(sync)

\* fetchTrackerUtxos after the await: the gate, then the empty set.
Judge ==
    /\ pc = "gate"
    /\ IF ~GatePasses THEN Refuse("REFUSED_BY_GATE")
       ELSE IF rows = {} THEN Refuse("NO_UTXOS")
       ELSE pc' = "accepted" /\ UNCHANGED <<tracker, settings, fetch>>

\* A request that times out, an error body, a malformed row.
RequestFails ==
    /\ faults < MaxFaults
    /\ faults' = faults + 1
    /\ \/ pc = "idle" /\ pc' = "UNREACHABLE"
       \/ pc = "page" /\ pc' = "UTXO_TRACKER_ERROR"
    /\ UNCHANGED <<tracker, profile, moves, fetch>>

\* The caller builds again after a refusal it may retry.
Retry ==
    /\ pc \in Refusals \ {"UTXO_SET_TOO_LARGE"}
    /\ pc' = "idle"
    /\ UNCHANGED <<tracker, settings, fetch>>

TrackerMoves == ConnectBlock \/ DisconnectBlock \/ CommitMempool \/ Restart \/ Halt \/ NodeMoves

Read == CheckStatus \/ FetchPage \/ Judge

Next == TrackerMoves \/ Read \/ RequestFails \/ Retry

Spec == Init /\ [][Next]_vars

\* Requests are answered or time out, and the caller keeps asking.
FairSpec == Spec /\ WF_vars(Read) /\ WF_vars(Retry)

-----------------------------------------------------------------------------

\* The types; and a fetch never holds more rows than the cap it enforces
\* (assertWithinUtxoCap).
TypeOK ==
    /\ tracker.chain \in Chains /\ tracker.node \in Nat
    /\ pc \in {"idle", "page", "gate", "accepted"} \cup Refusals
    /\ pages \in 0 .. MaxPages
    /\ Cardinality(rows) <= Cap
    /\ cursor \in cursors \cup {0}
    /\ DOMAIN sync \in {{}, Published} /\ DOMAIN firstSync \in {{}, Published}
    /\ Len(views) \in pages .. (pages + 1)

\* The candidate set of a build is what the address held at one moment, all of
\* it: no output a rewind orphaned in an early page, none a mempool commit hid
\* in a late one, none cut off (utxo_tracker.js:52-73); and no read, accepted or
\* not, ever keeps more rows or asks for more pages than its bounds.
OneSnapshot == TypeOK /\ (pc = "accepted" => rows = Held(views[1]))

\* The read that was accepted last saw a tracker this encoder may serve from,
\* though it was judged ready some requests earlier (input_candidates.js:141-157).
AcceptedWhileFresh ==
    pc = "accepted" =>
        LET t == Last(views)
        IN  ~t.halted /\ t.ready /\ Lag(t) \in 0 .. MaxLag

\* What a build takes is one state of an address, from a tracker that was fit to
\* serve it to the end.
OneFreshSnapshot == OneSnapshot /\ AcceptedWhileFresh

\* UTXO_SET_TOO_LARGE tells the caller not to retry, so it is never the sum of
\* pages from two chain states: the address really held more than the cap.
TooLargeIsTrue ==
    pc = "UTXO_SET_TOO_LARGE" => Cardinality(Held(Last(views))) > Cap

Serveable ==
    /\ ~GateRefuses(PageSync(tracker)) /\ ~PreflightRefuses(Status(tracker))
    /\ Held(tracker) # {} /\ Cardinality(Held(tracker)) <= Cap

\* `retry the request': once the tracker rests in a serveable state, the next
\* try gets through, whatever the tries before it ran into.
RetrySucceeds == <>[]Serveable => <>(pc \in {"accepted", "UTXO_SET_TOO_LARGE"})

\* The claim of request_resolution.js:35-36 that a create_tx refusal and an
\* unhealthy /status can no longer disagree about the same tracker.
StatusAgreesWithBuild ==
    [][pc = "idle" /\ pc' = "NOT_READY" => ~StatusHealthy(Status(tracker))]_vars
=============================================================================
