---------------------------- MODULE Reservations ----------------------------
(***************************************************************************)
(* The double-spend bookkeeping of one encoder process and the calls that  *)
(* use it: createTransaction (a Build), createEnvelopeCancelTransaction (a *)
(* Cancel) and the release_inputs RPC.                                     *)
(*                                                                         *)
(* Every JavaScript Map of the encoder is a total function here in which   *)
(* the value 0 stands for an absent entry (a real expiry is clock + TTL,   *)
(* hence positive).  A call's continuation runs to its next await without  *)
(* a break: `running' names the call whose continuation holds the event    *)
(* loop, or NoCall when every call is idle, waiting or over.               *)
(***************************************************************************)
EXTENDS SequencesExt

CONSTANTS
    Outpoints,          \* "txid:vout" keys
    Builds,             \* createTransaction calls
    Cancels,            \* createEnvelopeCancelTransaction calls
    Jobs,               \* what a build may be asked to do, see JobsAssumption
    TxOf,               \* the txid half of an outpoint
    LegacyInputs,       \* outpoints whose previous transaction is fetched
    UnconfirmedInputs,  \* outpoints with no confirmation yet
    TTL,                \* RESERVATION_TTL_MS, in ticks of the clock
    MaxClock,           \* bound of the clock (model checking only)
    NoCall, NoOutpoint

Calls == Builds \cup Cancels

\* A job: the candidate UTXOs in selection order, how many of them cover
\* outputs plus fee, exactInputs, whether the carrier is obfuscated with the
\* first input's txid (OP_RETURN, MULTISIGN), and the outputs it asks for.
ASSUME JobsAssumption ==
    \A j \in Jobs :
        /\ j.utxos \in Seq(Outpoints) \ {<<>>}
        /\ j.need \in Nat \ {0}
        /\ j.exact \in BOOLEAN
        /\ j.keyed \in BOOLEAN

ASSUME ReservationsAssumption ==
    /\ TTL \in Nat \ {0}
    /\ MaxClock \in Nat
    /\ Builds \cap Cancels = {}
    /\ NoCall \notin Calls
    /\ NoOutpoint \notin Outpoints

VARIABLES
    clock,      \* Date.now()
    resv,       \* outpointReservations: outpoint -> expiry
    owners,     \* envelopeCancelClaims: outpoint -> (cancel -> expiry)
    recent,     \* recentBuilds: set of [tx, expiry]
    tickets,    \* reservationTickets, keyed by the call they were minted for
    phase,      \* where each call stands
    ledger,     \* callReservations: call -> (outpoint -> expiry it wrote)
    build,      \* the `build' state object of each createTransaction call
    err,        \* why a call failed
    running

maps == <<resv, owners, recent, tickets>>
vars == <<clock, resv, owners, recent, tickets, phase, ledger, build, err, running>>

-----------------------------------------------------------------------------
(* The maps. *)

\* Every evictExpired* sweep: drop what has lapsed at n.
Unexpired(m, n) == [x \in DOMAIN m |-> IF m[x] > n THEN m[x] ELSE 0]

\* Fault variants, named after what goes wrong, stand before the definition each
\* one replaces; the mutants of the project use them and nothing else does.

NoTicket == [claims |-> [o \in Outpoints |-> 0], expiry |-> 0, tx |-> <<>>, txExpiry |-> 0]

EvictTickets(n) == [c \in Calls |-> IF tickets[c].expiry > n THEN tickets[c] ELSE NoTicket]

EvictRecent(n) == {r \in recent : r.expiry > n}

EvictOwners(n) == [o \in Outpoints |-> Unexpired(owners[o], n)]

\* Fault variant: the first owner's expiry, not the latest.
EarliestCancelOwnerExpiry(own, o, n) ==
    LET live == {own[o][c] : c \in Cancels} \ 0..n
    IN  IF live = {} THEN 0 ELSE Min(live)

\* What the outpoint is worth to the cancel path: 0 for "no live owner".
MaxLiveCancelOwnerExpiry(own, o, n) ==
    LET live == {own[o][c] : c \in Cancels} \ 0..n
    IN  IF live = {} THEN 0 ELSE Max(live)

\* Fault variant: the owner token is left behind.
KeepOwner(own, c, S, n) == own

\* dropCancelOwner's effect on the owner map, for every outpoint in S: the
\* whole entry goes when no live owner remains.
DropOwner(own, c, S, n) ==
    [o \in Outpoints |->
        LET left == [own EXCEPT ![o][c] = 0]
        IN  IF o \notin S THEN own[o]
            ELSE IF MaxLiveCancelOwnerExpiry(left, o, n) = 0 THEN [d \in Cancels |-> 0]
            ELSE left[o]]

\* Fault variant: the outpoint is dropped whoever holds it by now.
DropByKey(res, claims) == [o \in Outpoints |-> IF claims[o] > 0 THEN 0 ELSE res[o]]

\* Fault variant: the claims are kept for the whole TTL.
DropNothing(res, claims) == res

\* releaseCallReservations: drop what still carries this call's stamp.
DropStamped(res, claims) == [o \in Outpoints |-> IF claims[o] = res[o] THEN 0 ELSE res[o]]

\* Fault variant: a single stamp per outpoint, no owner set.
HandBackByStamp(res, own, claims, n) ==
    [o \in Outpoints |-> IF claims[o] = res[o] THEN 0 ELSE res[o]]

\* What giving back `claims' does to the reservations `res': an outpoint that
\* another cancel still owns is restated at that owner's expiry, any other is
\* freed if it still carries the stamp this call wrote.
HandBack(res, own, claims, n) ==
    [o \in Outpoints |->
        LET remaining == MaxLiveCancelOwnerExpiry(own, o, n)
        IN  IF claims[o] = 0 THEN res[o]
            ELSE IF remaining > 0 THEN remaining
            ELSE IF res[o] = claims[o] THEN 0
            ELSE res[o]]

\* Fault variant: the duplicate refusal outlives the release.
KeepBuildRecord(ticket, n) == EvictRecent(n)

\* releaseReservation's last step: the recent-build record goes with the inputs.
RetireBuildRecord(ticket, n) == EvictRecent(n) \ {[tx |-> ticket.tx, expiry |-> ticket.txExpiry]}

Claimed(claims) == {o \in Outpoints : claims[o] > 0}

-----------------------------------------------------------------------------
(* The calls. *)

InFlight == {"bound", "selecting", "settling", "pricing", "returning", "failing"}
Phases == {"idle", "failed", "returned", "released"} \cup InFlight
Errors == {"none", "reserved", "empty", "race", "short", "duplicate", "other"}

\* The event loop is free, or already held by c's continuation.
Turn(c) == running \in {NoCall, c}

\* The unsigned transaction's identity: its inputs and its outputs.
TxId(b) == <<build[b].ins, build[b].job.outputs>>

EmptyBuild(j) == [job |-> j, utxos |-> j.utxos, first |-> NoOutpoint, key |-> TxOf[j.utxos[1]],
                  pos |-> 1, ins |-> <<>>, now |-> 0]

Init ==
    /\ clock = 0
    /\ resv = [o \in Outpoints |-> 0]
    /\ owners = [o \in Outpoints |-> [c \in Cancels |-> 0]]
    /\ recent = {}
    /\ tickets = [c \in Calls |-> NoTicket]
    /\ phase = [c \in Calls |-> "idle"]
    /\ ledger = [c \in Calls |-> [o \in Outpoints |-> 0]]
    /\ build \in [Builds -> {EmptyBuild(j) : j \in Jobs}]
    /\ err = [c \in Calls |-> "none"]
    /\ running = NoCall

Throw(c, why) ==
    /\ phase' = [phase EXCEPT ![c] = "failing"]
    /\ err' = [err EXCEPT ![c] = why]
    /\ running' = NoCall

\* Fault variant: every step is an async function and suspends at its end.
SuspendAfterBind(b) ==
    /\ phase' = [phase EXCEPT ![b] = "bound"]
    /\ running' = NoCall

\* After its claims the build obfuscates its payload (an await) when the
\* carrier is keyed; a payment has nothing to wait for.
AfterBind(b) ==
    /\ phase' = [phase EXCEPT ![b] = "bound"]
    /\ running' = IF build[b].job.keyed THEN NoCall ELSE b

\* Fault variant: a named set is spent unreserved.
TakeExactInputsUnclaimed(b) ==
    /\ running = NoCall /\ phase[b] = "idle" /\ build[b].job.exact
    /\ AfterBind(b)
    /\ UNCHANGED <<clock, maps, ledger, build, err>>

\* Exact-input mode claims every named outpoint, or refuses the build.
ClaimExactInputs(b) ==
    /\ running = NoCall /\ phase[b] = "idle" /\ build[b].job.exact
    /\ LET table == Unexpired(resv, clock)
           named == ToSet(build[b].utxos)
       IN  IF \E o \in named : table[o] > 0
           THEN /\ resv' = table
                /\ Throw(b, "reserved")
                /\ UNCHANGED ledger
           ELSE /\ resv' = [o \in Outpoints |-> IF o \in named THEN clock + TTL ELSE table[o]]
                /\ ledger' = [ledger EXCEPT ![b] =
                                [o \in Outpoints |-> IF o \in named THEN clock + TTL ELSE 0]]
                /\ AfterBind(b)
                /\ UNCHANGED err
    /\ UNCHANGED <<clock, owners, recent, tickets, build>>

\* Fault variant: the claimed outpoint stays where it was sorted.
KeepOrder(utxos, i) == utxos

\* The head-of-order splice.
HeadFirst(utxos, i) == <<utxos[i]>> \o RemoveAt(utxos, i)

\* Greedy mode claims the first outpoint nobody holds and moves it to the head
\* of the selection order; with every candidate held the key stays with
\* utxos[0] and nothing is claimed.
ClaimFirstFreeInput(b) ==
    /\ running = NoCall /\ phase[b] = "idle" /\ ~build[b].job.exact
    /\ LET table == Unexpired(resv, clock)
           utxos == build[b].utxos
           free  == {i \in DOMAIN utxos : table[utxos[i]] = 0}
           i     == Min(free)
           o     == utxos[i]
       IN  IF free = {}
           THEN /\ resv' = table
                /\ UNCHANGED <<ledger, build>>
           ELSE /\ resv' = [table EXCEPT ![o] = clock + TTL]
                /\ ledger' = [ledger EXCEPT ![b][o] = clock + TTL]
                /\ build' = [build EXCEPT ![b].first = o, ![b].key = TxOf[o],
                                          ![b].utxos = HeadFirst(utxos, i)]
    /\ AfterBind(b)
    /\ UNCHANGED <<clock, owners, recent, tickets, err>>

\* selectInputs reads the clock once, for the whole walk over the candidates.
StartSelection(b) ==
    /\ Turn(b) /\ phase[b] = "bound"
    /\ resv' = Unexpired(resv, clock)
    /\ build' = [build EXCEPT ![b].now = clock]
    /\ phase' = [phase EXCEPT ![b] = "selecting"]
    /\ running' = b
    /\ UNCHANGED <<clock, owners, recent, tickets, ledger, err>>

\* Fault variant: no reservation check on a caller-supplied set.
TakeableUnchecked(b, o) == TRUE

\* skipReservedInput lets the candidate through.
Takeable(b, o) ==
    \/ build[b].job.exact
    \/ o = build[b].first
    \/ resv[o] <= build[b].now

Remaining(b) == {i \in build[b].pos..Len(build[b].utxos) : Takeable(b, build[b].utxos[i])}

Funded(b) == ~build[b].job.exact /\ Len(build[b].ins) >= build[b].job.need

\* Skip to the next candidate no other build holds, claim it against the clock
\* the walk started with, and add it; a legacy input waits for the node.
SelectInput(b) ==
    /\ Turn(b) /\ phase[b] = "selecting"
    /\ ~Funded(b) /\ Remaining(b) # {}
    /\ LET i     == Min(Remaining(b))
           o     == build[b].utxos[i]
           stamp == build[b].now + TTL
       IN  /\ build' = [build EXCEPT ![b].ins = Append(@, o), ![b].pos = i + 1]
           /\ IF build[b].job.exact \/ o = build[b].first
              THEN UNCHANGED <<resv, ledger>>
              ELSE /\ resv' = [resv EXCEPT ![o] = stamp]
                   /\ ledger' = [ledger EXCEPT ![b][o] = stamp]
           /\ running' = IF o \in LegacyInputs THEN NoCall ELSE b
    /\ UNCHANGED <<clock, owners, recent, tickets, phase, err>>

\* The walk is over: refuseEmptySelection, refuseFirstInputRace, and then the
\* ancestor lookup, an await when some input is unconfirmed.
EndSelection(b) ==
    /\ Turn(b) /\ phase[b] = "selecting"
    /\ Funded(b) \/ Remaining(b) = {}
    /\ LET ins == build[b].ins
       IN  IF ins = <<>> THEN Throw(b, "empty")
           ELSE IF build[b].job.keyed /\ TxOf[ins[1]] # build[b].key THEN Throw(b, "race")
           ELSE /\ phase' = [phase EXCEPT ![b] = "settling"]
                /\ running' = IF ToSet(ins) \cap UnconfirmedInputs # {} THEN NoCall ELSE b
                /\ UNCHANGED err
    /\ UNCHANGED <<clock, resv, owners, recent, tickets, ledger, build>>

Short(b) == Len(build[b].ins) < build[b].job.need

\* computeChange: the selected inputs do not cover outputs plus fee.
RefuseShort(b) ==
    /\ Turn(b) /\ phase[b] = "settling" /\ Short(b)
    /\ Throw(b, "short")
    /\ UNCHANGED <<clock, maps, ledger, build>>

\* finishBuild: the duplicate-build gate, then the result.
FinishBuild(b) ==
    /\ Turn(b) /\ phase[b] = "settling" /\ ~Short(b)
    /\ LET kept == EvictRecent(clock)
       IN  IF \E r \in kept : r.tx = TxId(b)
           THEN /\ recent' = kept
                /\ Throw(b, "duplicate")
           ELSE /\ recent' = kept \cup {[tx |-> TxId(b), expiry |-> clock + TTL]}
                /\ phase' = [phase EXCEPT ![b] = "returning"]
                /\ running' = NoCall
                /\ UNCHANGED err
    /\ UNCHANGED <<clock, resv, owners, tickets, ledger, build>>

\* Any other throw of a build: an unusable input, a fee refused, a node error.
BuildThrows(b) ==
    /\ Turn(b) /\ phase[b] \in {"bound", "selecting", "settling"}
    /\ Throw(b, "other")
    /\ UNCHANGED <<clock, maps, ledger, build>>

\* Fault variant: any reservation is taken for the cancel path's own.
ClaimHeldOutpoint(c, o) ==
    /\ running = NoCall /\ phase[c] = "idle"
    /\ resv' = [Unexpired(resv, clock) EXCEPT ![o] = clock + TTL]
    /\ owners' = [EvictOwners(clock) EXCEPT ![o][c] = clock + TTL]
    /\ ledger' = [ledger EXCEPT ![c][o] = clock + TTL]
    /\ phase' = [phase EXCEPT ![c] = "pricing"]
    /\ UNCHANGED <<clock, recent, tickets, build, err, running>>

\* claimCommitOutpoint: refused while a create_tx build holds the outpoint,
\* shared with the other cancels of the same commit otherwise.
ClaimCommitOutpoint(c, o) ==
    /\ running = NoCall /\ phase[c] = "idle"
    /\ LET table == Unexpired(resv, clock)
           own   == EvictOwners(clock)
       IN  IF table[o] > 0 /\ MaxLiveCancelOwnerExpiry(own, o, clock) # table[o]
           THEN /\ resv' = table /\ owners' = own
                /\ Throw(c, "reserved")
                /\ UNCHANGED ledger
           ELSE /\ resv' = [table EXCEPT ![o] = clock + TTL]
                /\ owners' = [own EXCEPT ![o][c] = clock + TTL]
                /\ ledger' = [ledger EXCEPT ![c][o] = clock + TTL]
                /\ phase' = [phase EXCEPT ![c] = "pricing"]
                /\ UNCHANGED <<err, running>>
    /\ UNCHANGED <<clock, recent, tickets, build>>

\* The node's fee rate arrived and the sweep clears the dust floor ...
CancelBuilt(c) ==
    /\ running = NoCall /\ phase[c] = "pricing"
    /\ phase' = [phase EXCEPT ![c] = "returning"]
    /\ UNCHANGED <<clock, maps, ledger, build, err, running>>

\* ... or it did not, or the node failed.
CancelThrows(c) ==
    /\ running = NoCall /\ phase[c] = "pricing"
    /\ Throw(c, "other")
    /\ UNCHANGED <<clock, maps, ledger, build>>

\* The catch of createTransaction and of createEnvelopeCancelTransaction.
ReleaseFailed(c) ==
    /\ running = NoCall /\ phase[c] = "failing"
    /\ owners' = IF c \in Cancels THEN DropOwner(owners, c, Claimed(ledger[c]), clock) ELSE owners
    /\ resv' = IF c \in Cancels THEN HandBack(resv, owners', ledger[c], clock)
               ELSE DropStamped(resv, ledger[c])
    /\ phase' = [phase EXCEPT ![c] = "failed"]
    /\ UNCHANGED <<clock, recent, tickets, ledger, build, err, running>>

\* Fault variant: only the first stamp read back goes on the ticket.
FirstOfMine(c) ==
    [o \in Outpoints |-> IF ledger[c][o] = resv[o] /\ (\A p \in Outpoints : ledger[c][p] <= ledger[c][o])
                         THEN ledger[c][o] ELSE 0]

\* The claims whose stamp is still the map's value.
StillMine(c) == [o \in Outpoints |-> IF ledger[c][o] = resv[o] THEN ledger[c][o] ELSE 0]

\* mintReservationTicket: the receipt for the claims that are still this call's.
MintTicket(c) ==
    /\ running = NoCall /\ phase[c] = "returning"
    /\ LET live == StillMine(c)
           mine == {r \in recent : c \in Builds /\ r.tx = TxId(c)}
           ticket == [claims |-> live, expiry |-> Max(Range(live)),
                      tx |-> IF c \in Builds THEN TxId(c) ELSE <<>>,
                      txExpiry |-> IF mine = {} THEN 0 ELSE (CHOOSE r \in mine : TRUE).expiry]
       IN  tickets' = [EvictTickets(clock) EXCEPT ![c] =
                          IF Claimed(live) = {} THEN NoTicket ELSE ticket]
    /\ phase' = [phase EXCEPT ![c] = "returned"]
    /\ UNCHANGED <<clock, resv, owners, recent, ledger, build, err, running>>

\* release_inputs with a ticket that is still there.
ReleaseReservation(c) ==
    /\ running = NoCall /\ phase[c] = "returned"
    /\ LET held   == EvictTickets(clock)
           ticket == held[c]
           table  == Unexpired(resv, clock)
           own    == EvictOwners(clock)
       IN  /\ ticket.expiry > 0
           /\ tickets' = [held EXCEPT ![c] = NoTicket]
           /\ owners' = IF c \in Cancels THEN DropOwner(own, c, Claimed(ticket.claims), clock) ELSE own
           /\ resv' = IF c \in Cancels THEN HandBack(table, owners', ticket.claims, clock)
                      ELSE DropStamped(table, ticket.claims)
           /\ recent' = RetireBuildRecord(ticket, clock)
    /\ phase' = [phase EXCEPT ![c] = "released"]
    /\ UNCHANGED <<clock, ledger, build, err, running>>

\* release_inputs with an unknown, released or lapsed id: found:false, after
\* the sweeps.
ReleaseUnknown ==
    /\ running = NoCall
    /\ resv' = Unexpired(resv, clock)
    /\ owners' = EvictOwners(clock)
    /\ recent' = EvictRecent(clock)
    /\ tickets' = EvictTickets(clock)
    /\ UNCHANGED <<clock, phase, ledger, build, err, running>>

Tick ==
    /\ clock < MaxClock
    /\ clock' = clock + 1
    /\ UNCHANGED <<maps, phase, ledger, build, err, running>>

BuildStep(b) ==
    \/ ClaimExactInputs(b) \/ ClaimFirstFreeInput(b) \/ StartSelection(b) \/ SelectInput(b)
    \/ EndSelection(b) \/ RefuseShort(b) \/ FinishBuild(b) \/ BuildThrows(b)

CancelStep(c) ==
    \/ \E o \in Outpoints : ClaimCommitOutpoint(c, o)
    \/ CancelBuilt(c) \/ CancelThrows(c)

Next ==
    \/ \E b \in Builds : BuildStep(b)
    \/ \E c \in Cancels : CancelStep(c)
    \/ \E c \in Calls : ReleaseFailed(c) \/ MintTicket(c) \/ ReleaseReservation(c)
    \/ ReleaseUnknown
    \/ Tick

Spec == Init /\ [][Next]_vars

-----------------------------------------------------------------------------
(* Properties. *)

\* A call answers for what its ledger names until it has thrown and handed it
\* back, or its caller has released it.
Holding(c) == phase[c] \in InFlight \cup {"returned"}

LiveClaim(c, o) == Holding(c) /\ ledger[c][o] > clock

\* Unsigned transactions, told apart by their inputs and their outputs.
TxIds == Seq(Outpoints) \X {j.outputs : j \in Jobs}

Ticket == [claims : [Outpoints -> Nat], expiry : Nat,
           tx : TxIds \cup {<<>>}, txExpiry : Nat]

BuildState == [job : Jobs, utxos : Seq(Outpoints), first : Outpoints \cup {NoOutpoint},
               key : {TxOf[o] : o \in Outpoints}, pos : Nat \ {0}, ins : Seq(Outpoints), now : Nat]

\* Every variable keeps its type.
TypeOK ==
    /\ clock \in Nat
    /\ resv \in [Outpoints -> Nat]
    /\ owners \in [Outpoints -> [Cancels -> Nat]]
    /\ recent \subseteq [tx : TxIds, expiry : Nat]
    /\ tickets \in [Calls -> Ticket]
    /\ phase \in [Calls -> Phases]
    /\ ledger \in [Calls -> [Outpoints -> Nat]]
    /\ build \in [Builds -> BuildState]
    /\ err \in [Calls -> Errors]
    /\ running \in Builds \cup {NoCall}

\* No outpoint is claimed by two calls at once, unless both are cancels of the
\* same commit (a retry): the guards of skipReservedInput, claimExactInputs,
\* claimFirstFreeInput and claimCommitOutpoint, whose clocks differ.
LiveClaimsExclusive ==
    \A c, d \in Calls, o \in Outpoints :
        LiveClaim(c, o) /\ LiveClaim(d, o) /\ c # d => {c, d} \subseteq Cancels

\* A failure, a release or a sweep of one call never frees or shortens what
\* another call still holds: releaseCallReservations, releaseReservation and
\* dropCancelOwner drop only what is the caller's own.
LiveClaimsReserved ==
    \A c \in Calls, o \in Outpoints : LiveClaim(c, o) => resv[o] >= ledger[c][o]

\* A result's receipt is a lever over everything the call still holds, so an
\* abandoned result need not block its inputs for the whole TTL.
ReceiptCovers(c) ==
    phase[c] = "returned" => \A o \in Outpoints : LiveClaim(c, o) => tickets[c].claims[o] > 0

\* For createTransaction: whatever is claimed, lapses or is released between
\* the claim and the receipt.
BuildReceiptsComplete == \A b \in Builds : ReceiptCovers(b)

\* For createEnvelopeCancelTransaction, as its header comment has it: "a
\* successful cancel keeps its commit-outpoint claim and gets the same
\* `reservation' receipt create_tx does".
CancelReceiptsComplete == \A c \in Cancels : ReceiptCovers(c)

\* No address is stranded: a live reservation is always the latest claim of a
\* call that still answers for it, so a failed or released call leaves none.
NoOrphanReservation ==
    \A o \in Outpoints :
        resv[o] > clock => \E c \in Calls : LiveClaim(c, o) /\ ledger[c][o] = resv[o]

\* The store and the calls agree on who holds what: nothing a call may still spend
\* is free, and nothing is taken that no call answers for.
ReservedIffClaimed == LiveClaimsReserved /\ NoOrphanReservation

\* What a finished call will spend.
Inputs(c) == IF c \in Builds THEN ToSet(build[c].ins) ELSE Claimed(ledger[c])

Outstanding(c) == phase[c] \in {"returning", "returned"}

\* Two results nobody released share an input only when one of the two claimed
\* it and outlived its own claim: every path of a build claims what it selects
\* (exact, greedy, and the outpoint bound to the key).
NoConflictingResults ==
    \A b \in Builds, c \in Calls : \A o \in Inputs(b) \cap Inputs(c) :
        b # c /\ Outstanding(b) /\ Outstanding(c) => \E d \in {b, c} : ledger[d][o] \in 1..clock

\* A recompose is refused as a duplicate only while an identical result is
\* outstanding: releaseReservation retires the recent-build record together
\* with the inputs.
NoStaleDuplicateRefusal ==
    \A r \in recent : r.expiry > clock =>
        \E b \in Builds : Outstanding(b) /\ TxId(b) = r.tx

\* The obfuscation key is bound to ins[0] by construction whenever an outpoint
\* could be claimed up front, whatever lapses while the payload is encoded;
\* INPUT_SELECTION_RACE is left for the case where none could.
KeyBoundToFirstInput ==
    \A b \in Builds :
        /\ build[b].first # NoOutpoint /\ build[b].ins # <<>> => build[b].ins[1] = build[b].first
        /\ err[b] = "race" => build[b].first = NoOutpoint
        /\ Outstanding(b) /\ build[b].job.keyed => TxOf[build[b].ins[1]] = build[b].key

\* A build that has nothing to fetch between its first claim and the end of its
\* selection: no payload to obfuscate, no previous transaction to attach.
NeverSuspends(b) ==
    ~build[b].job.keyed /\ ToSet(build[b].job.utxos) \cap LegacyInputs = {}

\* Builds that wait for nothing between their first claim and the end of the
\* selection do not split an address between them and all come up short: the
\* driver loop of _buildTransaction suspends only where a step yields.
NoMutualStarvation ==
    (\A b \in Builds : NeverSuspends(b)) => \E b \in Builds : err[b] \notin {"short", "empty"}

\* The book keeps the promise of OutpointLeases: a call's leases are the claims
\* it answers for, and an outpoint is free when isOutpointReserved says so.
Lease == INSTANCE OutpointLeases WITH
            Holders <- Calls, Sharers <- Cancels, MaxLease <- TTL, now <- clock,
            until <- [c \in Calls |-> IF Holding(c) THEN ledger[c] ELSE [o \in Outpoints |-> 0]],
            free <- {o \in Outpoints : resv[o] <= clock}

ImplementsLeases == Lease!Spec
-----------------------------------------------------------------------------
(* The inductive strengthening of the invariants above. *)

\* Every stamp was written at most TTL ahead of a clock that has passed.
StampsBounded ==
    /\ \A o \in Outpoints : resv[o] <= clock + TTL
    /\ \A o \in Outpoints, c \in Cancels : owners[o][c] <= clock + TTL
    /\ \A c \in Calls, o \in Outpoints : ledger[c][o] <= clock + TTL
    /\ \A b \in Builds : build[b].now <= clock

\* A build's live claim is what the outpoint is reserved for, to the stamp.
BuildStampHeld ==
    \A b \in Builds, o \in Outpoints : LiveClaim(b, o) => resv[o] = ledger[b][o]

\* The owner tokens that still count are the live claims of the cancels.
OwnersAreLiveCancels ==
    \A c \in Cancels, o \in Outpoints :
        /\ LiveClaim(c, o) => owners[o][c] = ledger[c][o]
        /\ owners[o][c] > clock => LiveClaim(c, o) /\ ledger[c][o] = owners[o][c]

\* Only a call that returned has a ticket; it names claims of that call, and
\* all that are still live.
TicketsNameLiveClaims ==
    \A c \in Calls, o \in Outpoints :
        /\ phase[c] # "returned" => tickets[c] = NoTicket
        /\ tickets[c].claims[o] \in {0, ledger[c][o]}
        /\ tickets[c].claims[o] <= tickets[c].expiry
        /\ tickets[c].expiry > 0 /\ LiveClaim(c, o) => tickets[c].claims[o] = ledger[c][o]

OneOutpointPerCancel ==
    \A c \in Cancels, o, p \in Outpoints : ledger[c][o] > 0 /\ ledger[c][p] > 0 => o = p

NothingClaimedYet ==
    \A c \in Calls, o \in Outpoints : phase[c] = "idle" => ledger[c][o] = 0

ClaimInv ==
    /\ LiveClaimsExclusive /\ LiveClaimsReserved /\ NoOrphanReservation
    /\ BuildStampHeld /\ OwnersAreLiveCancels

ReceiptInv == TicketsNameLiveClaims /\ OneOutpointPerCancel /\ NothingClaimedYet

BookInv == TypeOK /\ StampsBounded /\ ClaimInv /\ ReceiptInv

\* What a build knows of its own key: nothing is selected before the walk, the
\* outpoint it claimed up front leads the order and is selected first.
FirstLeads ==
    \A b \in Builds :
        /\ phase[b] \in {"idle", "bound"} => build[b].ins = <<>> /\ build[b].pos = 1
        /\ phase[b] = "idle" => build[b].first = NoOutpoint /\ err[b] = "none"
        /\ phase[b] \in {"settling", "returning", "returned"} => build[b].ins # <<>>
        /\ build[b].first # NoOutpoint =>
              /\ build[b].utxos # <<>> /\ build[b].utxos[1] = build[b].first
              /\ build[b].key = TxOf[build[b].first]
              /\ build[b].ins = <<>> => build[b].pos = 1
        /\ phase[b] = "settling" /\ build[b].job.keyed => TxOf[build[b].ins[1]] = build[b].key

\* Nothing is selected that the build did not claim, lapsed or not: a named set
\* as a whole, the first input up front, any other as it is taken.
SelectedIsClaimed ==
    \A b \in Builds :
        /\ \A i \in DOMAIN build[b].ins : ledger[b][build[b].ins[i]] > 0
        /\ build[b].first # NoOutpoint => ledger[b][build[b].first] > 0
        /\ build[b].job.exact /\ phase[b] \in {"bound", "selecting"} =>
              \A i \in DOMAIN build[b].utxos : ledger[b][build[b].utxos[i]] > 0

\* A record answers for a build that was not released: one that still has its
\* receipt to come, or has it, and then releasing it retires this very record.
RecordAnswersFor(r, b) ==
    /\ TxId(b) = r.tx
    /\ \/ phase[b] = "returning"
       \/ /\ phase[b] = "returned"
          /\ tickets[b].expiry > 0 => tickets[b].tx = r.tx /\ tickets[b].txExpiry = r.expiry

OneRecordPerResult == \A r, s \in recent : r.tx = s.tx => r = s

RecordsOutstanding ==
    /\ OneRecordPerResult
    /\ \A r \in recent : r.expiry > clock => \E b \in Builds : RecordAnswersFor(r, b)

ResultInv ==
    /\ KeyBoundToFirstInput /\ FirstLeads /\ SelectedIsClaimed
    /\ BuildReceiptsComplete /\ RecordsOutstanding
=============================================================================
