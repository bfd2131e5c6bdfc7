------------------------- MODULE ReservationsProofs -------------------------
(***************************************************************************)
(* Proofs about Reservations, for any outpoints, calls, jobs and TTL.      *)
(* First the types, action by action; then the book: BookInv is inductive, *)
(* and the claims' exclusiveness, their safety from other calls and the    *)
(* absence of orphans are parts of it.  A release is judged by what the    *)
(* ticket names, hence the receipt invariant inside BookInv; a cancel's    *)
(* stamp may be overwritten, hence the owner tokens.  Then what a result   *)
(* rests on (ResultInv): its key, its claims, its receipt and the record   *)
(* of it; then that the book implements OutpointLeases.  Last, that builds *)
(* which wait for nothing do not starve each other.                        *)
(***************************************************************************)
EXTENDS Reservations, SequenceTheorems, WellFoundedInduction, TLAPS

\* A nonempty set of naturals has a least member.
LEMMA LeastNatural ==
    ASSUME NEW S \in SUBSET Nat, S # {}
    PROVE  \E x \in S : \A y \in S : x <= y
<1>1. IsWellFoundedOn(OpToRel(<, Nat), Nat)
  BY NatLessThanWellFounded
<1>2. PICK x \in S : \A y \in S : ~(<<y, x>> \in OpToRel(<, Nat))
  BY <1>1, WFMin
<1>3. \A y \in S : ~(y < x)
  BY <1>2 DEF OpToRel
<1> QED
  BY <1>3

\* Min is that member: the first free candidate, the next takeable one.
LEMMA MinOfNaturals ==
    ASSUME NEW S \in SUBSET Nat, S # {}
    PROVE  Min(S) \in S /\ \A y \in S : Min(S) <= y
BY LeastNatural DEF Min

\* A bounded set of naturals has a greatest member, which is Max.
LEMMA MaxOfBounded ==
    ASSUME NEW S \in SUBSET Nat, S # {}, NEW B \in Nat, \A x \in S : x <= B
    PROVE  Max(S) \in S /\ \A y \in S : y <= Max(S)
<1> DEFINE T == {B - x : x \in S}
<1>1. \A x \in S : x \in Nat /\ B - x \in Nat
  OBVIOUS
<1>2. T \in SUBSET Nat /\ T # {}
  <2>1. PICK x \in S : TRUE
    OBVIOUS
  <2>2. B - x \in T
    BY <2>1
  <2> QED
    BY <1>1, <2>2
<1>3. PICK t \in T : \A u \in T : t <= u
  <2> HIDE DEF T
  <2> QED
    BY <1>2, LeastNatural
<1>4. PICK x \in S : t = B - x
  BY <1>3
<1>5. \A y \in S : x >= y
  <2> TAKE y \in S
  <2>1. B - y \in T
    OBVIOUS
  <2>2. B - x <= B - y
    BY <1>3, <1>4, <2>1
  <2> QED
    BY <2>2, <1>1
<1>6. Max(S) \in S /\ \A y \in S : Max(S) >= y
  BY <1>5 DEF Max
<1> QED
  BY <1>1, <1>6

\* maxLiveCancelOwnerExpiry is 0 without a live owner, else the latest live
\* owner's expiry, which is no owner's invention and no owner's to exceed.
LEMMA MaxLiveType ==
    ASSUME NEW own, own \in [Outpoints -> [Cancels -> Nat]], NEW o \in Outpoints, NEW n \in Nat,
           NEW B \in Nat, \A c \in Cancels : own[o][c] <= B
    PROVE  LET m == MaxLiveCancelOwnerExpiry(own, o, n)
           IN  /\ m \in Nat
               /\ m = 0 => \A c \in Cancels : own[o][c] <= n
               /\ m > 0 => m > n /\ \E c \in Cancels : own[o][c] = m
               /\ \A c \in Cancels : own[o][c] > n => own[o][c] <= m
<1> DEFINE live == {own[o][c] : c \in Cancels} \ 0..n
<1>1. \A c \in Cancels : own[o][c] \in Nat
  OBVIOUS
<1>2. live \in SUBSET Nat /\ (\A x \in live : x <= B /\ x > n /\ \E c \in Cancels : own[o][c] = x)
  BY <1>1
<1>3. \A c \in Cancels : own[o][c] > n => own[o][c] \in live
  BY <1>1
<1>4. MaxLiveCancelOwnerExpiry(own, o, n) = IF live = {} THEN 0 ELSE Max(live)
  BY DEF MaxLiveCancelOwnerExpiry
<1> HIDE DEF live
<1>5. CASE live = {}
  BY <1>1, <1>3, <1>4, <1>5
<1>6. CASE live # {}
  <2>1. Max(live) \in live /\ \A y \in live : y <= Max(live)
    BY <1>2, <1>6, MaxOfBounded
  <2>2. MaxLiveCancelOwnerExpiry(own, o, n) = Max(live)
    BY <1>4, <1>6
  <2>3. /\ Max(live) \in Nat /\ Max(live) > n
        /\ \E c \in Cancels : own[o][c] = Max(live)
    BY <1>2, <2>1
  <2>4. \A c \in Cancels : own[o][c] > n => own[o][c] <= Max(live)
    BY <1>3, <2>1
  <2> HIDE DEF MaxLiveCancelOwnerExpiry
  <2> QED
    BY <2>2, <2>3, <2>4
<1> QED
  BY <1>5, <1>6

-----------------------------------------------------------------------------
(* Types and bounds. *)

\* A sweep leaves a table of expiries, entry by entry.
LEMMA UnexpiredType ==
    ASSUME NEW D, NEW m \in [D -> Nat], NEW n \in Nat
    PROVE  /\ Unexpired(m, n) \in [D -> Nat]
           /\ \A x \in D : Unexpired(m, n)[x] = IF m[x] > n THEN m[x] ELSE 0
BY DEF Unexpired

\* So does the sweep of the owner sets.
LEMMA EvictOwnersType ==
    ASSUME TypeOK
    PROVE  /\ EvictOwners(clock) \in [Outpoints -> [Cancels -> Nat]]
           /\ \A o \in Outpoints, c \in Cancels :
                 EvictOwners(clock)[o][c] = IF owners[o][c] > clock THEN owners[o][c] ELSE 0
BY DEF EvictOwners, TypeOK, Unexpired

\* An absent ticket is a ticket record.
LEMMA NoTicketType == NoTicket \in Ticket
BY DEF NoTicket, Ticket

\* The sweep of the tickets leaves tickets.
LEMMA EvictTicketsType ==
    ASSUME TypeOK
    PROVE  /\ EvictTickets(clock) \in [Calls -> Ticket]
           /\ \A c \in Calls : EvictTickets(clock)[c] \in {tickets[c], NoTicket}
           /\ \A c \in Calls : EvictTickets(clock)[c] =
                                  IF tickets[c].expiry > clock THEN tickets[c] ELSE NoTicket
BY NoTicketType DEF EvictTickets, TypeOK

\* dropCancelOwner touches nothing but the caller's token and dead tokens.
LEMMA DropOwnerValue ==
    ASSUME NEW own \in [Outpoints -> [Cancels -> Nat]], NEW c \in Cancels,
           NEW S \in SUBSET Outpoints, NEW n \in Nat, NEW o \in Outpoints
    PROVE  /\ DropOwner(own, c, S, n)[o] \in [Cancels -> Nat]
           /\ \A d \in Cancels : DropOwner(own, c, S, n)[o][d] \in {0, own[o][d]}
           /\ o \in S => DropOwner(own, c, S, n)[o][c] = 0
           /\ o \notin S => DropOwner(own, c, S, n)[o] = own[o]
<1> DEFINE left == [own EXCEPT ![o][c] = 0]
<1>1. /\ left \in [Outpoints -> [Cancels -> Nat]]
      /\ left[o][c] = 0
      /\ \A d \in Cancels : left[o][d] \in {0, own[o][d]}
  OBVIOUS
<1>2. DropOwner(own, c, S, n)[o] =
          IF o \notin S THEN own[o]
          ELSE IF MaxLiveCancelOwnerExpiry(left, o, n) = 0 THEN [d \in Cancels |-> 0]
          ELSE left[o]
  BY DEF DropOwner
<1> HIDE DEF left
<1>3. CASE o \notin S
  BY <1>2, <1>3
<1>4. CASE o \in S /\ MaxLiveCancelOwnerExpiry(left, o, n) = 0
  <2>1. DropOwner(own, c, S, n)[o] = [d \in Cancels |-> 0]
    BY <1>2, <1>4
  <2> QED
    BY <1>4, <2>1
<1>5. CASE o \in S /\ MaxLiveCancelOwnerExpiry(left, o, n) # 0
  <2>1. DropOwner(own, c, S, n)[o] = left[o]
    BY <1>2, <1>5
  <2> QED
    BY <1>1, <1>5, <2>1
<1> QED
  BY <1>3, <1>4, <1>5

\* dropCancelOwner leaves a table of owner sets.
LEMMA DropOwnerType ==
    ASSUME NEW own \in [Outpoints -> [Cancels -> Nat]], NEW c \in Cancels,
           NEW S \in SUBSET Outpoints, NEW n \in Nat
    PROVE  DropOwner(own, c, S, n) \in [Outpoints -> [Cancels -> Nat]]
<1> DEFINE D == DropOwner(own, c, S, n)
<1>1. D = [o \in Outpoints |-> D[o]]
  BY DEF DropOwner
<1>2. \A o \in Outpoints : D[o] \in [Cancels -> Nat]
  BY DropOwnerValue
<1> HIDE DEF D
<1>3. D \in [Outpoints -> [Cancels -> Nat]]
  BY <1>1, <1>2
<1> QED
  BY <1>3 DEF D

Typed == TypeOK /\ StampsBounded

\* initReservationMaps starts with well-typed maps.
LEMMA InitTyped == Init => Typed
<1> SUFFICES ASSUME Init PROVE Typed
  OBVIOUS
<1>1. \A j \in Jobs : EmptyBuild(j) \in BuildState
  <2> TAKE j \in Jobs
  <2>1. j.utxos \in Seq(Outpoints) /\ j.utxos # <<>>
    BY JobsAssumption
  <2>2. j.utxos[1] \in Outpoints
    BY <2>1
  <2> QED
    BY <2>1, <2>2 DEF EmptyBuild, BuildState
<1>2. build \in [Builds -> BuildState] /\ \A b \in Builds : build[b].now = 0
  <2>1. build \in [Builds -> {EmptyBuild(j) : j \in Jobs}]
    BY DEF Init
  <2>2. \A j \in Jobs : EmptyBuild(j).now = 0
    BY DEF EmptyBuild
  <2> QED
    BY <1>1, <2>1, <2>2
<1>3. StampsBounded
  BY <1>2, ReservationsAssumption DEF Init, StampsBounded
<1>4. TypeOK
  BY <1>2, NoTicketType DEF Init, TypeOK, Phases, Errors
<1> QED
  BY <1>3, <1>4 DEF Typed

\* A throw changes the phase, the reason and the event loop, each within its type.
LEMMA ThrowTyped ==
    ASSUME TypeOK, NEW c \in Calls, NEW why \in Errors, Throw(c, why)
    PROVE  phase' \in [Calls -> Phases] /\ err' \in [Calls -> Errors] /\ running' = NoCall
BY DEF Throw, TypeOK, Phases, InFlight

\* evictExpiredReservations leaves every entry at its value or absent.
LEMMA SweptTable ==
    ASSUME Typed
    PROVE  /\ Unexpired(resv, clock) \in [Outpoints -> Nat]
           /\ \A o \in Outpoints :
                 /\ Unexpired(resv, clock)[o] = IF resv[o] > clock THEN resv[o] ELSE 0
                 /\ Unexpired(resv, clock)[o] <= clock + TTL
<1>1. resv \in [Outpoints -> Nat] /\ clock \in Nat
  BY DEF Typed, TypeOK
<1>2. /\ Unexpired(resv, clock) \in [Outpoints -> Nat]
      /\ \A o \in Outpoints : Unexpired(resv, clock)[o] = IF resv[o] > clock THEN resv[o] ELSE 0
  BY <1>1 DEF Unexpired
<1>3. \A o \in Outpoints : resv[o] <= clock + TTL /\ 0 <= clock + TTL
  BY <1>1, ReservationsAssumption DEF Typed, StampsBounded
<1> HIDE DEF Unexpired
<1> QED
  BY <1>2, <1>3

\* The fields of a build's state object, by name.
LEMMA BuildFields ==
    ASSUME NEW r \in BuildState
    PROVE  /\ \A n \in Nat : [r EXCEPT !.now = n] \in BuildState /\ [r EXCEPT !.now = n].now = n
           /\ \A s \in Seq(Outpoints), i \in Nat \ {0} :
                 /\ [r EXCEPT !.ins = s, !.pos = i] \in BuildState
                 /\ [r EXCEPT !.ins = s, !.pos = i].now = r.now
           /\ \A o \in Outpoints, s \in Seq(Outpoints) :
                 /\ [r EXCEPT !.first = o, !.key = TxOf[o], !.utxos = s] \in BuildState
                 /\ [r EXCEPT !.first = o, !.key = TxOf[o], !.utxos = s].now = r.now
BY DEF BuildState

\* Replacing one build's state object keeps all of them typed.
LEMMA BuildUpdated ==
    ASSUME Typed, NEW b \in Builds, NEW r \in BuildState, r.now <= clock,
           build' = [build EXCEPT ![b] = r]
    PROVE  build' \in [Builds -> BuildState] /\ \A d \in Builds : build'[d].now <= clock
<1>1. build \in [Builds -> BuildState] /\ \A d \in Builds : build[d].now <= clock
  BY DEF Typed, TypeOK, StampsBounded
<1>2. build' \in [Builds -> BuildState]
  BY <1>1
<1>3. \A d \in Builds : build'[d] = IF d = b THEN r ELSE build[d]
  BY <1>1
<1> QED
  BY <1>1, <1>2, <1>3

\* claimExactInputs keeps the types.
LEMMA ClaimExactInputsTyped ==
    ASSUME Typed, NEW b \in Builds, ClaimExactInputs(b)
    PROVE  Typed'
<1> DEFINE table == Unexpired(resv, clock)
           named == ToSet(build[b].utxos)
<1> USE DEF Typed
<1>1. table \in [Outpoints -> Nat] /\ \A o \in Outpoints : table[o] <= clock + TTL
  BY SweptTable
<1>2. b \in Calls /\ "reserved" \in Errors
  BY DEF Calls, Errors
<1>3. UNCHANGED <<clock, owners, recent, tickets, build>>
  BY DEF ClaimExactInputs
<1>4. CASE \E o \in named : table[o] > 0
  <2>1. resv' = table /\ Throw(b, "reserved") /\ UNCHANGED ledger
    BY <1>4 DEF ClaimExactInputs
  <2> HIDE DEF table, named
  <2>2. phase' \in [Calls -> Phases] /\ err' \in [Calls -> Errors] /\ running' = NoCall
    BY <1>2, <2>1, ThrowTyped
  <2>3. TypeOK'
    BY <1>1, <1>3, <2>1, <2>2 DEF TypeOK
  <2>4. StampsBounded'
    BY <1>1, <1>3, <2>1 DEF StampsBounded
  <2> QED
    BY <2>3, <2>4
<1>5. CASE ~ \E o \in named : table[o] > 0
  <2>1. /\ resv' = [o \in Outpoints |-> IF o \in named THEN clock + TTL ELSE table[o]]
        /\ ledger' = [ledger EXCEPT ![b] =
                        [o \in Outpoints |-> IF o \in named THEN clock + TTL ELSE 0]]
        /\ AfterBind(b) /\ UNCHANGED err
    BY <1>5 DEF ClaimExactInputs
  <2> HIDE DEF table, named
  <2>2. TypeOK'
    BY <1>1, <1>2, <1>3, <2>1, ReservationsAssumption DEF TypeOK, AfterBind, Phases, InFlight
  <2>3. StampsBounded'
    BY <1>1, <1>2, <1>3, <2>1, ReservationsAssumption DEF StampsBounded, TypeOK
  <2> QED
    BY <2>2, <2>3
<1> QED
  BY <1>4, <1>5

\* initSelection keeps the types.
LEMMA StartSelectionTyped ==
    ASSUME Typed, NEW b \in Builds, StartSelection(b)
    PROVE  Typed'
<1>1. b \in Calls
  BY DEF Calls
<1>2. Unexpired(resv, clock) \in [Outpoints -> Nat] /\ \A o \in Outpoints : Unexpired(resv, clock)[o] <= clock + TTL
  BY SweptTable
<1>3. build' \in [Builds -> BuildState] /\ \A d \in Builds : build'[d].now <= clock
  <2> DEFINE r == [build[b] EXCEPT !.now = clock]
  <2>1. build' = [build EXCEPT ![b] = r]
    BY DEF StartSelection
  <2>2. build[b] \in BuildState /\ clock \in Nat
    BY DEF Typed, TypeOK
  <2>3. r \in BuildState /\ r.now <= clock
    BY <2>2, SMTT(30) DEF BuildState
  <2> HIDE DEF r
  <2> QED
    BY <2>1, <2>2, <2>3, BuildUpdated
<1>4. TypeOK'
  BY <1>1, <1>2, <1>3 DEF StartSelection, Typed, TypeOK, Phases, InFlight
<1>5. StampsBounded'
  BY <1>2, <1>3 DEF StartSelection, Typed, StampsBounded
<1> QED
  BY <1>4, <1>5 DEF Typed

\* The head-of-order splice yields a selection order over the same outpoints.
LEMMA HeadFirstType ==
    ASSUME NEW S, NEW s \in Seq(S), NEW i \in DOMAIN s
    PROVE  /\ HeadFirst(s, i) \in Seq(S)
           /\ HeadFirst(s, i) # <<>> /\ HeadFirst(s, i)[1] = s[i]
<1>1. SubSeq(s, 1, i - 1) \in Seq(S) /\ SubSeq(s, i + 1, Len(s)) \in Seq(S) /\ <<s[i]>> \in Seq(S)
  OBVIOUS
<1> QED
  BY <1>1 DEF HeadFirst, RemoveAt

\* claimFirstFreeInput keeps the types.
LEMMA ClaimFirstFreeInputTyped ==
    ASSUME Typed, NEW b \in Builds, ClaimFirstFreeInput(b)
    PROVE  Typed'
<1> DEFINE table == Unexpired(resv, clock)
           utxos == build[b].utxos
           free  == {i \in DOMAIN utxos : table[utxos[i]] = 0}
           i     == Min(free)
           o     == utxos[i]
           r     == [build[b] EXCEPT !.first = o, !.key = TxOf[o], !.utxos = HeadFirst(utxos, i)]
<1>1. table \in [Outpoints -> Nat] /\ \A p \in Outpoints : table[p] <= clock + TTL
  BY SweptTable, SMTT(30)
<1>2. b \in Calls
  BY DEF Calls
<1>3. /\ AfterBind(b)
      /\ UNCHANGED <<clock, owners, recent, tickets, err>>
  BY Zenon DEF ClaimFirstFreeInput
<1>4. CASE free = {}
  <2>1. resv' = table /\ UNCHANGED <<ledger, build>>
    BY <1>4 DEF ClaimFirstFreeInput
  <2> HIDE DEF table
  <2>2. TypeOK'
    BY <1>1, <1>2, <1>3, <2>1 DEF Typed, TypeOK, AfterBind, Phases, InFlight
  <2>3. StampsBounded'
    BY <1>1, <1>3, <2>1, SMTT(30) DEF Typed, StampsBounded
  <2> QED
    BY <2>2, <2>3 DEF Typed
<1>5. CASE free # {}
  <2>1. /\ resv' = [table EXCEPT ![o] = clock + TTL]
        /\ ledger' = [ledger EXCEPT ![b][o] = clock + TTL]
        /\ build' = [build EXCEPT ![b] = r]
    BY <1>5, Zenon DEF ClaimFirstFreeInput
  <2>2. build[b] \in BuildState /\ utxos \in Seq(Outpoints) /\ build[b].now <= clock
    BY DEF Typed, TypeOK, StampsBounded, BuildState
  <2>3. i \in DOMAIN utxos /\ o \in Outpoints
    <3>1. free \in SUBSET Nat /\ free # {}
      BY <1>5, <2>2
    <3>2. i \in free
      BY <3>1, MinOfNaturals
    <3> HIDE DEF i, utxos, table
    <3>3. i \in DOMAIN utxos
      BY <3>2
    <3>4. utxos[i] \in Outpoints
      BY <2>2, <3>3
    <3> QED
      BY <3>3, <3>4
  <2>4. r \in BuildState /\ r.now <= clock
    <3>1. HeadFirst(utxos, i) \in Seq(Outpoints)
      BY <2>2, <2>3, HeadFirstType
    <3> HIDE DEF o, i, utxos
    <3>2. r.now = build[b].now
      BY <2>2 DEF BuildState
    <3> QED
      BY <2>2, <2>3, <3>1, <3>2, BuildFields, ZenonT(60)
  <2> HIDE DEF table, i, o, r
  <2>5. build' \in [Builds -> BuildState] /\ \A d \in Builds : build'[d].now <= clock
    BY <2>1, <2>4, BuildUpdated
  <2>6. TypeOK'
    BY <1>1, <1>2, <1>3, <2>1, <2>3, <2>5, ReservationsAssumption
    DEF Typed, TypeOK, AfterBind, Phases, InFlight
  <2>7. StampsBounded'
    BY <1>1, <1>2, <1>3, <2>1, <2>3, <2>5, ReservationsAssumption DEF Typed, TypeOK, StampsBounded
  <2> QED
    BY <2>6, <2>7 DEF Typed
<1> QED
  BY <1>4, <1>5

\* One round of selectInputs keeps the types.
LEMMA SelectInputTyped ==
    ASSUME Typed, NEW b \in Builds, SelectInput(b)
    PROVE  Typed'
<1> DEFINE i     == Min(Remaining(b))
           o     == build[b].utxos[i]
           stamp == build[b].now + TTL
           r     == [build[b] EXCEPT !.ins = Append(@, o), !.pos = i + 1]
<1>1. b \in Calls /\ build[b] \in BuildState /\ clock \in Nat
  BY DEF Calls, Typed, TypeOK
<1>2. i \in Nat \ {0} /\ o \in Outpoints
  <2>1. Remaining(b) \in SUBSET Nat /\ Remaining(b) # {}
    BY <1>1 DEF Remaining, SelectInput, BuildState
  <2>2. i \in Remaining(b)
    BY <2>1, MinOfNaturals
  <2>3. i \in 1..Len(build[b].utxos)
    BY <1>1, <2>2 DEF Remaining, BuildState
  <2> QED
    BY <1>1, <2>3 DEF BuildState
<1>3. stamp \in Nat /\ stamp <= clock + TTL
  BY <1>1, ReservationsAssumption DEF Typed, StampsBounded, BuildState
<1>4. build' = [build EXCEPT ![b] = r]
  BY DEF SelectInput
<1>5. r \in BuildState /\ r.now <= clock
  <2>1. build[b].now <= clock
    BY DEF Typed, StampsBounded
  <2>2. Append(build[b].ins, o) \in Seq(Outpoints) /\ i + 1 \in Nat \ {0}
    BY <1>1, <1>2 DEF BuildState
  <2> DEFINE s == Append(build[b].ins, o)
             j == i + 1
  <2>3. r = [build[b] EXCEPT !.ins = s, !.pos = j]
    OBVIOUS
  <2> HIDE DEF s, j, r
  <2>4. s \in Seq(Outpoints) /\ j \in Nat \ {0}
    BY <2>2 DEF s, j
  <2> QED
    BY <1>1, <2>1, <2>3, <2>4 DEF BuildState
<1> HIDE DEF i, o, r, stamp
<1>6. build' \in [Builds -> BuildState] /\ \A d \in Builds : build'[d].now <= clock
  BY <1>4, <1>5, BuildUpdated
<1>7. running' \in {NoCall, b} /\ UNCHANGED <<clock, owners, recent, tickets, phase, err>>
  BY DEF SelectInput
<1>8. \/ UNCHANGED <<resv, ledger>>
      \/ resv' = [resv EXCEPT ![o] = stamp] /\ ledger' = [ledger EXCEPT ![b][o] = stamp]
  BY DEF SelectInput, i, o, stamp
<1>9. /\ resv' \in [Outpoints -> Nat]
      /\ ledger' \in [Calls -> [Outpoints -> Nat]]
      /\ \A p \in Outpoints : resv'[p] <= clock + TTL
      /\ \A d \in Calls, p \in Outpoints : ledger'[d][p] <= clock + TTL
  <2>1. /\ resv \in [Outpoints -> Nat]
        /\ ledger \in [Calls -> [Outpoints -> Nat]]
        /\ \A p \in Outpoints : resv[p] <= clock + TTL
        /\ \A d \in Calls, p \in Outpoints : ledger[d][p] <= clock + TTL
    BY DEF Typed, TypeOK, StampsBounded
  <2>2. CASE UNCHANGED <<resv, ledger>>
    BY <2>1, <2>2
  <2>3. CASE resv' = [resv EXCEPT ![o] = stamp] /\ ledger' = [ledger EXCEPT ![b][o] = stamp]
    <3>1. resv' \in [Outpoints -> Nat] /\ \A p \in Outpoints : resv'[p] <= clock + TTL
      BY <1>2, <1>3, <2>1, <2>3
    <3>2. ledger' \in [Calls -> [Outpoints -> Nat]] 
      BY <1>1, <1>2, <1>3, <2>1, <2>3
    <3>3. \A d \in Calls, p \in Outpoints : ledger'[d][p] <= clock + TTL
      BY <1>1, <1>2, <1>3, <2>1, <2>3
    <3> QED
      BY <3>1, <3>2, <3>3
  <2> QED
    BY <1>8, <2>2, <2>3
<1>10. TypeOK'
  BY <1>6, <1>7, <1>9 DEF Typed, TypeOK
<1>11. StampsBounded'
  BY <1>6, <1>7, <1>9 DEF Typed, StampsBounded
<1> QED
  BY <1>10, <1>11 DEF Typed

\* The end of the selection keeps the types.
LEMMA EndSelectionTyped ==
    ASSUME Typed, NEW b \in Builds, EndSelection(b)
    PROVE  Typed'
<1>1. b \in Calls /\ {"empty", "race"} \subseteq Errors
  BY DEF Calls, Errors
<1>2. UNCHANGED <<clock, resv, owners, recent, tickets, ledger, build>>
  BY DEF EndSelection
<1>3. \/ Throw(b, "empty") \/ Throw(b, "race")
      \/ /\ phase' = [phase EXCEPT ![b] = "settling"]
         /\ running' \in {NoCall, b}
         /\ UNCHANGED err
  BY DEF EndSelection
<1>4. phase' \in [Calls -> Phases] /\ err' \in [Calls -> Errors] /\ running' \in {NoCall, b}
  BY <1>1, <1>3, ThrowTyped DEF Typed, TypeOK, Phases, InFlight
<1>5. TypeOK' /\ StampsBounded'
  BY <1>2, <1>4 DEF Typed, TypeOK, StampsBounded
<1> QED
  BY <1>5 DEF Typed

\* The throws that change nothing else keep the types.
LEMMA BareThrowTyped ==
    ASSUME Typed, NEW c \in Calls, NEW why \in Errors, Throw(c, why),
           UNCHANGED <<clock, maps, ledger, build>>
    PROVE  Typed'
<1>1. phase' \in [Calls -> Phases] /\ err' \in [Calls -> Errors] /\ running' = NoCall
  BY ThrowTyped DEF Typed
<1>2. TypeOK' /\ StampsBounded'
  BY <1>1 DEF Typed, TypeOK, StampsBounded, maps
<1> QED
  BY <1>2 DEF Typed

\* A build's inputs and outputs make up a transaction's identity.
LEMMA TxIdType ==
    ASSUME Typed, NEW b \in Builds
    PROVE  TxId(b) \in TxIds
<1>1. build[b].ins \in Seq(Outpoints) /\ build[b].job \in Jobs
  BY DEF Typed, TypeOK, BuildState
<1> QED
  BY <1>1 DEF TxId, TxIds

\* finishBuild keeps the types.
LEMMA FinishBuildTyped ==
    ASSUME Typed, NEW b \in Builds, FinishBuild(b)
    PROVE  Typed'
<1>1. b \in Calls /\ "duplicate" \in Errors
  BY DEF Calls, Errors
<1>2. UNCHANGED <<clock, resv, owners, tickets, ledger, build>>
  BY DEF FinishBuild
<1>3. /\ recent' \subseteq EvictRecent(clock) \cup {[tx |-> TxId(b), expiry |-> clock + TTL]}
      /\ \/ Throw(b, "duplicate")
         \/ phase' = [phase EXCEPT ![b] = "returning"] /\ running' = NoCall /\ UNCHANGED err
  BY DEF FinishBuild
<1>4. recent' \subseteq [tx : TxIds, expiry : Nat]
  <2>1. EvictRecent(clock) \subseteq [tx : TxIds, expiry : Nat]
    BY DEF EvictRecent, Typed, TypeOK
  <2>2. [tx |-> TxId(b), expiry |-> clock + TTL] \in [tx : TxIds, expiry : Nat]
    BY TxIdType, ReservationsAssumption DEF Typed, TypeOK
  <2> QED
    BY <1>3, <2>1, <2>2
<1>5. phase' \in [Calls -> Phases] /\ err' \in [Calls -> Errors] /\ running' = NoCall
  BY <1>1, <1>3, ThrowTyped DEF Typed, TypeOK, Phases, InFlight
<1>6. TypeOK' /\ StampsBounded'
  BY <1>2, <1>4, <1>5 DEF Typed, TypeOK, StampsBounded
<1> QED
  BY <1>6 DEF Typed

\* claimCommitOutpoint keeps the types.
LEMMA ClaimCommitOutpointTyped ==
    ASSUME Typed, NEW c \in Cancels, NEW o \in Outpoints, ClaimCommitOutpoint(c, o)
    PROVE  Typed'
<1> DEFINE table == Unexpired(resv, clock)
           own   == EvictOwners(clock)
<1>1. c \in Calls /\ "reserved" \in Errors /\ clock \in Nat /\ clock + TTL \in Nat
  BY ReservationsAssumption DEF Calls, Errors, Typed, TypeOK
<1>2. table \in [Outpoints -> Nat] /\ \A p \in Outpoints : table[p] <= clock + TTL
  BY SweptTable
<1>3. /\ own \in [Outpoints -> [Cancels -> Nat]]
      /\ \A p \in Outpoints, d \in Cancels : own[p][d] <= clock + TTL
  <2> HIDE DEF own
  <2>1. /\ own \in [Outpoints -> [Cancels -> Nat]]
        /\ \A p \in Outpoints, d \in Cancels : own[p][d] \in {0, owners[p][d]}
    BY EvictOwnersType DEF own, Typed
  <2>2. \A p \in Outpoints, d \in Cancels : owners[p][d] <= clock + TTL
    BY DEF Typed, StampsBounded
  <2> QED
    BY <1>1, <2>1, <2>2
<1>4. UNCHANGED <<clock, recent, tickets, build>>
  BY DEF ClaimCommitOutpoint
<1>5. \/ /\ resv' = table /\ owners' = own /\ Throw(c, "reserved") /\ UNCHANGED ledger
      \/ /\ resv' = [table EXCEPT ![o] = clock + TTL]
         /\ owners' = [own EXCEPT ![o][c] = clock + TTL]
         /\ ledger' = [ledger EXCEPT ![c][o] = clock + TTL]
         /\ phase' = [phase EXCEPT ![c] = "pricing"]
         /\ UNCHANGED <<err, running>>
  BY DEF ClaimCommitOutpoint
<1> HIDE DEF table, own
<1>6. CASE resv' = table /\ owners' = own /\ Throw(c, "reserved") /\ UNCHANGED ledger
  <2>1. phase' \in [Calls -> Phases] /\ err' \in [Calls -> Errors] /\ running' = NoCall
    BY <1>1, <1>6, ThrowTyped DEF Typed
  <2>2. TypeOK' /\ StampsBounded'
    BY <1>2, <1>3, <1>4, <1>6, <2>1 DEF Typed, TypeOK, StampsBounded
  <2> QED
    BY <2>2 DEF Typed
<1>7. CASE /\ resv' = [table EXCEPT ![o] = clock + TTL]
           /\ owners' = [own EXCEPT ![o][c] = clock + TTL]
           /\ ledger' = [ledger EXCEPT ![c][o] = clock + TTL]
           /\ phase' = [phase EXCEPT ![c] = "pricing"]
           /\ UNCHANGED <<err, running>>
  <2>1. resv' \in [Outpoints -> Nat] /\ \A p \in Outpoints : resv'[p] <= clock + TTL
    BY <1>1, <1>2, <1>7
  <2>2. owners' \in [Outpoints -> [Cancels -> Nat]]
    BY <1>1, <1>3, <1>7
  <2>3. \A p \in Outpoints, d \in Cancels : owners'[p][d] <= clock + TTL
    BY <1>1, <1>3, <1>7
  <2>4. ledger \in [Calls -> [Outpoints -> Nat]] /\ \A d \in Calls, p \in Outpoints : ledger[d][p] <= clock + TTL
    BY DEF Typed, TypeOK, StampsBounded
  <2>5. ledger' \in [Calls -> [Outpoints -> Nat]]
    BY <1>1, <1>7, <2>4
  <2>6. \A d \in Calls, p \in Outpoints : ledger'[d][p] <= clock + TTL
    BY <1>1, <1>7, <2>4
  <2>7. phase' \in [Calls -> Phases]
    BY <1>1, <1>7 DEF Typed, TypeOK, Phases, InFlight
  <2>8. TypeOK'
    BY <1>4, <1>7, <2>1, <2>2, <2>5, <2>7 DEF Typed, TypeOK
  <2>9. StampsBounded'
    BY <1>4, <1>7, <2>1, <2>3, <2>6 DEF Typed, StampsBounded
  <2> QED
    BY <2>8, <2>9 DEF Typed
<1> QED
  BY <1>5, <1>6, <1>7

\* A priced cancel keeps the types.
LEMMA CancelBuiltTyped ==
    ASSUME Typed, NEW c \in Cancels, CancelBuilt(c)
    PROVE  Typed'
<1>1. TypeOK' /\ StampsBounded'
  BY DEF CancelBuilt, Typed, TypeOK, StampsBounded, maps, Phases, InFlight, Calls
<1> QED
  BY <1>1 DEF Typed

\* So does the passing of time.
LEMMA TickTyped ==
    ASSUME Typed, Tick
    PROVE  Typed'
<1>1. clock' = clock + 1 /\ clock \in Nat /\ UNCHANGED <<maps, phase, ledger, build, err, running>>
  BY DEF Tick, Typed, TypeOK
<1>2. TypeOK'
  BY <1>1 DEF Typed, TypeOK, maps
<1>3. StampsBounded'
  <2>1. \A n \in Nat : n <= clock + TTL => n <= clock' + TTL
    BY <1>1, ReservationsAssumption
  <2>2. \A b \in Builds : build[b].now \in Nat
    BY DEF Typed, TypeOK, BuildState
  <2> QED
    BY <1>1, <2>1, <2>2 DEF Typed, TypeOK, StampsBounded, maps
<1> QED
  BY <1>2, <1>3 DEF Typed

\* An outpoint outside the claims given back is left alone.
LEMMA HandBackUnclaimed ==
    ASSUME NEW res \in [Outpoints -> Nat], NEW own, NEW claims \in [Outpoints -> Nat], NEW n,
           NEW o \in Outpoints, claims[o] = 0
    PROVE  HandBack(res, own, claims, n)[o] = res[o]
BY DEF HandBack

\* An outpoint some other cancel still owns is restated at the latest owner's expiry.
LEMMA HandBackOwned ==
    ASSUME NEW res \in [Outpoints -> Nat], NEW own \in [Outpoints -> [Cancels -> Nat]],
           NEW claims \in [Outpoints -> Nat], NEW n \in Nat, NEW o \in Outpoints,
           \E B \in Nat : \A d \in Cancels : own[o][d] <= B,
           claims[o] > 0, NEW c \in Cancels, own[o][c] > n
    PROVE  /\ own[o][c] <= HandBack(res, own, claims, n)[o]
           /\ \E d \in Cancels : own[o][d] = HandBack(res, own, claims, n)[o]
<1> DEFINE m == MaxLiveCancelOwnerExpiry(own, o, n)
           r == HandBack(res, own, claims, n)[o]
<1>1. r = IF claims[o] = 0 THEN res[o]
          ELSE IF m > 0 THEN m
          ELSE IF res[o] = claims[o] THEN 0
          ELSE res[o]
  BY DEF HandBack
<1>2. PICK B \in Nat : \A d \in Cancels : own[o][d] <= B
  OBVIOUS
<1>3. /\ m \in Nat /\ own[o][c] <= m /\ own[o][c] \in Nat
      /\ m > 0 => \E d \in Cancels : own[o][d] = m
  <2> HIDE DEF m
  <2> QED
    BY <1>2, MaxLiveType DEF m
<1> HIDE DEF m, r
<1>4. m > 0
  BY <1>3
<1>5. r = m
  BY <1>1, <1>4
<1> QED
  BY <1>3, <1>4, <1>5 DEF r

\* An outpoint no cancel owns any more is freed if it still carries the stamp.
LEMMA HandBackUnowned ==
    ASSUME NEW res \in [Outpoints -> Nat], NEW own \in [Outpoints -> [Cancels -> Nat]],
           NEW claims \in [Outpoints -> Nat], NEW n \in Nat, NEW o \in Outpoints,
           \E B \in Nat : \A c \in Cancels : own[o][c] <= B,
           claims[o] > 0, \A c \in Cancels : own[o][c] <= n
    PROVE  /\ res[o] = claims[o] => HandBack(res, own, claims, n)[o] = 0
           /\ res[o] # claims[o] => HandBack(res, own, claims, n)[o] = res[o]
<1> DEFINE m == MaxLiveCancelOwnerExpiry(own, o, n)
           r == HandBack(res, own, claims, n)[o]
<1>1. r = IF claims[o] = 0 THEN res[o]
          ELSE IF m > 0 THEN m
          ELSE IF res[o] = claims[o] THEN 0
          ELSE res[o]
  BY DEF HandBack
<1>2. PICK B \in Nat : \A c \in Cancels : own[o][c] <= B
  OBVIOUS
<1>3. m \in Nat /\ (m > 0 => \E d \in Cancels : own[o][d] = m /\ m > n)
  <2> HIDE DEF m
  <2> QED
    BY <1>2, MaxLiveType DEF m
<1> HIDE DEF m, r
<1>4. m = 0
  BY <1>3
<1>5. r = IF res[o] = claims[o] THEN 0 ELSE res[o]
  BY <1>1, <1>4
<1> QED
  BY <1>5 DEF r

\* Handing back writes no stamp later than those in the book.
LEMMA HandBackBounded ==
    ASSUME NEW res \in [Outpoints -> Nat], NEW own \in [Outpoints -> [Cancels -> Nat]],
           NEW claims \in [Outpoints -> Nat], NEW n \in Nat, NEW o \in Outpoints,
           NEW B \in Nat, res[o] <= B, \A c \in Cancels : own[o][c] <= B
    PROVE  HandBack(res, own, claims, n)[o] \in Nat /\ HandBack(res, own, claims, n)[o] <= B
<1> DEFINE m == MaxLiveCancelOwnerExpiry(own, o, n)
           r == HandBack(res, own, claims, n)[o]
<1>1. r = IF claims[o] = 0 THEN res[o]
          ELSE IF m > 0 THEN m
          ELSE IF res[o] = claims[o] THEN 0
          ELSE res[o]
  BY DEF HandBack
<1>3. m \in Nat /\ (m > 0 => \E d \in Cancels : own[o][d] = m)
  <2> HIDE DEF m
  <2> QED
    BY MaxLiveType DEF m
<1> HIDE DEF m, r
<1>4. m <= B
  BY <1>3
<1>5. r \in Nat /\ r <= B
  BY <1>1, <1>3, <1>4
<1> QED
  BY <1>5 DEF r

\* Handing back leaves a table of expiries.
LEMMA HandBackType ==
    ASSUME NEW res \in [Outpoints -> Nat], NEW own \in [Outpoints -> [Cancels -> Nat]],
           NEW claims \in [Outpoints -> Nat], NEW n \in Nat, NEW B \in Nat,
           \A o \in Outpoints : res[o] <= B /\ \A c \in Cancels : own[o][c] <= B
    PROVE  /\ HandBack(res, own, claims, n) \in [Outpoints -> Nat]
           /\ \A o \in Outpoints : HandBack(res, own, claims, n)[o] <= B
<1> DEFINE H == HandBack(res, own, claims, n)
<1>1. H = [o \in Outpoints |-> H[o]]
  BY DEF HandBack
<1>2. \A o \in Outpoints : H[o] \in Nat /\ H[o] <= B
  <2> TAKE o \in Outpoints
  <2>1. res[o] <= B /\ \A c \in Cancels : own[o][c] <= B
    OBVIOUS
  <2> QED
    BY <2>1, HandBackBounded
<1> HIDE DEF H
<1>3. H \in [Outpoints -> Nat]
  BY <1>1, <1>2
<1> QED
  BY <1>2, <1>3 DEF H

\* So does releaseCallReservations.
LEMMA DropStampedType ==
    ASSUME NEW res \in [Outpoints -> Nat], NEW claims
    PROVE  /\ DropStamped(res, claims) \in [Outpoints -> Nat]
           /\ \A o \in Outpoints : DropStamped(res, claims)[o] \in {0, res[o]}
BY DEF DropStamped

\* What a call's give-back leaves of the owner tokens and of the reservations.
OwnersAfter(own, c, claims, n) ==
    IF c \in Cancels THEN DropOwner(own, c, Claimed(claims), n) ELSE own

TableAfter(res, own, c, claims, n) ==
    IF c \in Cancels THEN HandBack(res, OwnersAfter(own, c, claims, n), claims, n)
    ELSE DropStamped(res, claims)

\* The owner sets after claims are given back: other calls' live tokens stand.
LEMMA OwnersAfterValue ==
    ASSUME NEW own \in [Outpoints -> [Cancels -> Nat]], NEW c, NEW claims \in [Outpoints -> Nat],
           NEW n \in Nat
    PROVE  /\ OwnersAfter(own, c, claims, n) \in [Outpoints -> [Cancels -> Nat]]
           /\ \A o \in Outpoints, d \in Cancels : OwnersAfter(own, c, claims, n)[o][d] \in {0, own[o][d]}
<1> DEFINE S == Claimed(claims)
           D == DropOwner(own, c, S, n)
           A == OwnersAfter(own, c, claims, n)
<1>1. CASE c \in Cancels
  <2>1. S \in SUBSET Outpoints
    BY DEF Claimed
  <2> HIDE DEF S
  <2>2. D \in [Outpoints -> [Cancels -> Nat]]
    BY <1>1, <2>1, DropOwnerType
  <2>3. \A o \in Outpoints, d \in Cancels : D[o][d] \in {0, own[o][d]}
    BY <1>1, <2>1, DropOwnerValue
  <2>4. A = D
    BY <1>1 DEF OwnersAfter, S
  <2> HIDE DEF A, D
  <2>5. \A o \in Outpoints, d \in Cancels : A[o][d] \in {0, own[o][d]}
    BY <2>3, <2>4
  <2>6. A \in [Outpoints -> [Cancels -> Nat]]
    BY <2>2, <2>4
  <2> QED
    BY <2>5, <2>6 DEF A
<1>2. CASE c \notin Cancels
  <2>1. A = own
    BY <1>2 DEF OwnersAfter
  <2> HIDE DEF A
  <2>2. A \in [Outpoints -> [Cancels -> Nat]] /\ \A o \in Outpoints, d \in Cancels : A[o][d] \in {0, own[o][d]}
    BY <2>1
  <2> QED
    BY <2>2 DEF A
<1> QED
  BY <1>1, <1>2

\* The reservations after claims are given back are typed and bounded.
LEMMA TableAfterType ==
    ASSUME NEW res \in [Outpoints -> Nat], NEW own \in [Outpoints -> [Cancels -> Nat]],
           NEW c, NEW claims \in [Outpoints -> Nat], NEW n \in Nat, NEW B \in Nat,
           \A o \in Outpoints : res[o] <= B,
           \A o \in Outpoints, d \in Cancels : own[o][d] <= B
    PROVE  /\ TableAfter(res, own, c, claims, n) \in [Outpoints -> Nat]
           /\ \A o \in Outpoints : TableAfter(res, own, c, claims, n)[o] <= B
           /\ \A o \in Outpoints, d \in Cancels : OwnersAfter(own, c, claims, n)[o][d] <= B
<1> DEFINE A == OwnersAfter(own, c, claims, n)
           H == HandBack(res, A, claims, n)
           T == TableAfter(res, own, c, claims, n)
<1>1. /\ A \in [Outpoints -> [Cancels -> Nat]]
      /\ \A o \in Outpoints, d \in Cancels : A[o][d] <= B
  <2>1. /\ A \in [Outpoints -> [Cancels -> Nat]]
        /\ \A o \in Outpoints, d \in Cancels : A[o][d] \in {0, own[o][d]}
    BY OwnersAfterValue
  <2> HIDE DEF A
  <2> QED
    BY <2>1
<1>2. CASE c \in Cancels
  <2>1. T = H
    BY <1>2 DEF TableAfter
  <2> HIDE DEF A
  <2>2. \A o \in Outpoints : res[o] <= B /\ \A d \in Cancels : A[o][d] <= B
    BY <1>1
  <2>3. H \in [Outpoints -> Nat] /\ \A o \in Outpoints : H[o] <= B
    BY <1>1, <2>2, HandBackType
  <2> HIDE DEF T, H
  <2>4. T \in [Outpoints -> Nat] /\ \A o \in Outpoints : T[o] <= B
    BY <2>1, <2>3
  <2> QED
    BY <1>1, <2>4 DEF T, A
<1>3. CASE c \notin Cancels
  <2>1. T = DropStamped(res, claims)
    BY <1>3 DEF TableAfter
  <2> HIDE DEF A, T
  <2>2. T \in [Outpoints -> Nat] /\ \A o \in Outpoints : T[o] <= B
    BY <2>1, DropStampedType
  <2> QED
    BY <1>1, <2>2 DEF T, A
<1> QED
  BY <1>2, <1>3

\* Giving claims back, from a failure or a release, keeps the types.
LEMMA GivenBackTyped ==
    ASSUME Typed, NEW c \in Calls, NEW p \in Phases,
           NEW res \in [Outpoints -> Nat], \A o \in Outpoints : res[o] <= clock + TTL,
           NEW own \in [Outpoints -> [Cancels -> Nat]],
           \A o \in Outpoints, d \in Cancels : own[o][d] <= clock + TTL,
           NEW claims \in [Outpoints -> Nat],
           owners' = OwnersAfter(own, c, claims, clock),
           resv' = TableAfter(res, own, c, claims, clock),
           recent' \subseteq [tx : TxIds, expiry : Nat], tickets' \in [Calls -> Ticket],
           phase' = [phase EXCEPT ![c] = p], UNCHANGED <<clock, ledger, build, err, running>>
    PROVE  Typed'
<1>1. clock \in Nat /\ clock + TTL \in Nat
  BY ReservationsAssumption DEF Typed, TypeOK
<1>2. /\ owners' \in [Outpoints -> [Cancels -> Nat]]
      /\ resv' \in [Outpoints -> Nat]
  BY <1>1, OwnersAfterValue, TableAfterType
<1>3. /\ \A o \in Outpoints : resv'[o] <= clock + TTL
      /\ \A o \in Outpoints, d \in Cancels : owners'[o][d] <= clock + TTL
  BY <1>1, TableAfterType
<1>4. phase' \in [Calls -> Phases]
  BY DEF Typed, TypeOK
<1>5. TypeOK'
  BY <1>2, <1>4 DEF Typed, TypeOK
<1>6. StampsBounded'
  BY <1>3 DEF Typed, StampsBounded
<1> QED
  BY <1>5, <1>6 DEF Typed

\* The catch blocks keep the types.
LEMMA ReleaseFailedTyped ==
    ASSUME Typed, NEW c \in Calls, ReleaseFailed(c)
    PROVE  Typed'
<1>1. /\ UNCHANGED <<clock, recent, tickets, ledger, build, err, running>>
      /\ phase' = [phase EXCEPT ![c] = "failed"]
  BY DEF ReleaseFailed
<1>2. /\ owners' = OwnersAfter(owners, c, ledger[c], clock)
      /\ resv' = TableAfter(resv, owners, c, ledger[c], clock)
  BY DEF ReleaseFailed, OwnersAfter, TableAfter
<1>3. /\ resv \in [Outpoints -> Nat] /\ \A o \in Outpoints : resv[o] <= clock + TTL
      /\ owners \in [Outpoints -> [Cancels -> Nat]]
      /\ \A o \in Outpoints, d \in Cancels : owners[o][d] <= clock + TTL
      /\ ledger[c] \in [Outpoints -> Nat]
      /\ recent \subseteq [tx : TxIds, expiry : Nat] /\ tickets \in [Calls -> Ticket]
  BY DEF Typed, TypeOK, StampsBounded
<1>4. "failed" \in Phases
  BY DEF Phases
<1> QED
  BY <1>1, <1>2, <1>3, <1>4, GivenBackTyped

\* evictExpiredEnvelopeCancelClaims leaves every token at its value or absent.
LEMMA SweptOwners ==
    ASSUME Typed
    PROVE  /\ EvictOwners(clock) \in [Outpoints -> [Cancels -> Nat]]
           /\ \A o \in Outpoints, c \in Cancels :
                 /\ EvictOwners(clock)[o][c] = IF owners[o][c] > clock THEN owners[o][c] ELSE 0
                 /\ EvictOwners(clock)[o][c] <= clock + TTL
<1>1. /\ EvictOwners(clock) \in [Outpoints -> [Cancels -> Nat]]
      /\ \A o \in Outpoints, c \in Cancels :
            EvictOwners(clock)[o][c] = IF owners[o][c] > clock THEN owners[o][c] ELSE 0
  BY EvictOwnersType DEF Typed
<1>2. \A o \in Outpoints, c \in Cancels : owners[o][c] <= clock + TTL /\ 0 <= clock + TTL
  BY ReservationsAssumption DEF Typed, TypeOK, StampsBounded
<1> QED
  BY <1>1, <1>2

\* evictExpiredRecentBuilds leaves a subset of the records.
LEMMA SweptRecent ==
    ASSUME Typed
    PROVE  EvictRecent(clock) \subseteq [tx : TxIds, expiry : Nat]
BY DEF EvictRecent, Typed, TypeOK

\* What is still a call's own is part of what it claimed.
LEMMA StillMineType ==
    ASSUME Typed, NEW c \in Calls
    PROVE  /\ StillMine(c) \in [Outpoints -> Nat]
           /\ \A o \in Outpoints : StillMine(c)[o] = IF ledger[c][o] = resv[o] THEN ledger[c][o] ELSE 0
           /\ \A o \in Outpoints : StillMine(c)[o] <= clock + TTL
<1>1. /\ StillMine(c) \in [Outpoints -> Nat]
      /\ \A o \in Outpoints : StillMine(c)[o] = IF ledger[c][o] = resv[o] THEN ledger[c][o] ELSE 0
  BY DEF StillMine, Typed, TypeOK
<1>2. \A o \in Outpoints : ledger[c][o] <= clock + TTL /\ 0 <= clock + TTL
  BY ReservationsAssumption DEF Typed, TypeOK, StampsBounded
<1> QED
  BY <1>1, <1>2

\* A ticket's expiry is the latest of the claims it names.
LEMMA ReceiptExpiry ==
    ASSUME Typed, NEW c \in Calls, Claimed(StillMine(c)) # {}
    PROVE  /\ Max(Range(StillMine(c))) \in Nat
           /\ \A o \in Outpoints : StillMine(c)[o] <= Max(Range(StillMine(c)))
<1> DEFINE live == StillMine(c)
           R == Range(live)
<1>1. live \in [Outpoints -> Nat] /\ \A o \in Outpoints : live[o] <= clock + TTL
  BY StillMineType
<1>2. \E o \in Outpoints : TRUE
  BY DEF Claimed
<1> HIDE DEF live
<1>3. R \in SUBSET Nat /\ R # {} /\ (\A x \in R : x <= clock + TTL) /\ \A o \in Outpoints : live[o] \in R
  BY <1>1, <1>2 DEF Range
<1>4. clock + TTL \in Nat
  BY ReservationsAssumption DEF Typed, TypeOK
<1> HIDE DEF R
<1>5. Max(R) \in R /\ \A y \in R : y <= Max(R)
  BY <1>3, <1>4, MaxOfBounded
<1> QED
  BY <1>3, <1>5 DEF R, live

\* What MintTicket leaves under c.
Receipt(c) ==
    LET mine == {r \in recent : c \in Builds /\ r.tx = TxId(c)}
    IN  IF Claimed(StillMine(c)) = {} THEN NoTicket
        ELSE [claims |-> StillMine(c), expiry |-> Max(Range(StillMine(c))),
              tx |-> IF c \in Builds THEN TxId(c) ELSE <<>>,
              txExpiry |-> IF mine = {} THEN 0 ELSE (CHOOSE r \in mine : TRUE).expiry]

\* mintReservationTicket produces a ticket record.
LEMMA ReceiptType ==
    ASSUME Typed, NEW c \in Calls
    PROVE  Receipt(c) \in Ticket
<1> DEFINE mine == {r \in recent : c \in Builds /\ r.tx = TxId(c)}
           e == IF mine = {} THEN 0 ELSE (CHOOSE r \in mine : TRUE).expiry
           t == IF c \in Builds THEN TxId(c) ELSE <<>>
<1>1. mine \subseteq [tx : TxIds, expiry : Nat]
  BY DEF Typed, TypeOK
<1>2. e \in Nat
  <2> HIDE DEF mine
  <2>1. CASE mine = {}
    BY <2>1
  <2>2. CASE mine # {}
    <3>1. (CHOOSE r \in mine : TRUE) \in mine
      BY <2>2
    <3> QED
      BY <1>1, <2>2, <3>1
  <2> QED
    BY <2>1, <2>2
<1>3. t \in TxIds \cup {<<>>}
  BY TxIdType
<1>4. CASE Claimed(StillMine(c)) = {}
  BY <1>4, NoTicketType DEF Receipt
<1>5. CASE Claimed(StillMine(c)) # {}
  <2>1. Receipt(c) = [claims |-> StillMine(c), expiry |-> Max(Range(StillMine(c))), tx |-> t, txExpiry |-> e]
    BY <1>5 DEF Receipt
  <2>2. StillMine(c) \in [Outpoints -> Nat] /\ Max(Range(StillMine(c))) \in Nat
    BY <1>5, StillMineType, ReceiptExpiry
  <2> HIDE DEF t, e
  <2> QED
    BY <1>2, <1>3, <2>1, <2>2 DEF Ticket
<1> QED
  BY <1>4, <1>5

\* What mintReservationTicket changes.
LEMMA MintTicketEffect ==
    ASSUME NEW c \in Calls, MintTicket(c)
    PROVE  /\ phase[c] = "returning"
           /\ tickets' = [EvictTickets(clock) EXCEPT ![c] = Receipt(c)]
           /\ phase' = [phase EXCEPT ![c] = "returned"]
           /\ UNCHANGED <<clock, resv, owners, recent, ledger, build, err, running>>
BY DEF MintTicket, Receipt

\* mintReservationTicket keeps the types.
LEMMA MintTicketTyped ==
    ASSUME Typed, NEW c \in Calls, MintTicket(c)
    PROVE  Typed'
<1>1. tickets' = [EvictTickets(clock) EXCEPT ![c] = Receipt(c)]
  BY MintTicketEffect
<1>2. EvictTickets(clock) \in [Calls -> Ticket] /\ Receipt(c) \in Ticket
  BY EvictTicketsType, ReceiptType DEF Typed
<1>3. tickets' \in [Calls -> Ticket]
  BY <1>1, <1>2
<1>4. phase' \in [Calls -> Phases] /\ UNCHANGED <<clock, resv, owners, recent, ledger, build, err, running>>
  BY MintTicketEffect DEF Typed, TypeOK, Phases
<1>5. TypeOK' /\ StampsBounded'
  BY <1>3, <1>4 DEF Typed, TypeOK, StampsBounded
<1> QED
  BY <1>5 DEF Typed

\* What release_inputs changes, given a ticket that is still there.
LEMMA ReleaseReservationEffect ==
    ASSUME Typed, NEW c \in Calls, ReleaseReservation(c)
    PROVE  /\ phase[c] = "returned"
           /\ tickets[c].expiry > clock
           /\ tickets' = [EvictTickets(clock) EXCEPT ![c] = NoTicket]
           /\ owners' = OwnersAfter(EvictOwners(clock), c, tickets[c].claims, clock)
           /\ resv' = TableAfter(Unexpired(resv, clock), EvictOwners(clock), c, tickets[c].claims, clock)
           /\ recent' = RetireBuildRecord(tickets[c], clock)
           /\ phase' = [phase EXCEPT ![c] = "released"]
           /\ UNCHANGED <<clock, ledger, build, err, running>>
<1> DEFINE ticket == EvictTickets(clock)[c]
<1>1. ticket.expiry > 0
  BY DEF ReleaseReservation
<1>2. ticket = IF tickets[c].expiry > clock THEN tickets[c] ELSE NoTicket
  BY DEF EvictTickets
<1>3. tickets[c].expiry > clock /\ ticket = tickets[c]
  BY <1>1, <1>2 DEF NoTicket
<1>4. /\ tickets' = [EvictTickets(clock) EXCEPT ![c] = NoTicket]
      /\ owners' = OwnersAfter(EvictOwners(clock), c, ticket.claims, clock)
      /\ resv' = TableAfter(Unexpired(resv, clock), EvictOwners(clock), c, ticket.claims, clock)
      /\ recent' = RetireBuildRecord(ticket, clock)
      /\ phase' = [phase EXCEPT ![c] = "released"]
      /\ phase[c] = "returned"
      /\ UNCHANGED <<clock, ledger, build, err, running>>
  BY DEF ReleaseReservation, OwnersAfter, TableAfter
<1> HIDE DEF ticket
<1> QED
  BY <1>3, <1>4

\* releaseReservation keeps the types.
LEMMA ReleaseReservationTyped ==
    ASSUME Typed, NEW c \in Calls, ReleaseReservation(c)
    PROVE  Typed'
<1>1. tickets[c].claims \in [Outpoints -> Nat]
  BY DEF Typed, TypeOK, Ticket
<1>2. RetireBuildRecord(tickets[c], clock) \subseteq [tx : TxIds, expiry : Nat]
  BY SweptRecent DEF RetireBuildRecord
<1>3. [EvictTickets(clock) EXCEPT ![c] = NoTicket] \in [Calls -> Ticket]
  BY EvictTicketsType, NoTicketType DEF Typed
<1>4. "released" \in Phases
  BY DEF Phases
<1>5. /\ Unexpired(resv, clock) \in [Outpoints -> Nat]
      /\ \A o \in Outpoints : Unexpired(resv, clock)[o] <= clock + TTL
      /\ EvictOwners(clock) \in [Outpoints -> [Cancels -> Nat]]
      /\ \A o \in Outpoints, d \in Cancels : EvictOwners(clock)[o][d] <= clock + TTL
  BY SweptTable, SweptOwners
<1>6. recent' \subseteq [tx : TxIds, expiry : Nat] /\ tickets' \in [Calls -> Ticket]
  BY <1>2, <1>3, ReleaseReservationEffect
<1> QED
  BY <1>1, <1>4, <1>5, <1>6, ReleaseReservationEffect, GivenBackTyped

\* The sweeps of an unknown release keep the types.
LEMMA ReleaseUnknownTyped ==
    ASSUME Typed, ReleaseUnknown
    PROVE  Typed'
<1>1. /\ resv' = Unexpired(resv, clock) /\ owners' = EvictOwners(clock)
      /\ recent' = EvictRecent(clock) /\ tickets' = EvictTickets(clock)
      /\ UNCHANGED <<clock, phase, ledger, build, err, running>>
  BY DEF ReleaseUnknown
<1>2. TypeOK'
  BY <1>1, SweptTable, SweptOwners, SweptRecent, EvictTicketsType DEF Typed, TypeOK
<1>3. StampsBounded'
  BY <1>1, SweptTable, SweptOwners DEF Typed, StampsBounded
<1> QED
  BY <1>2, <1>3 DEF Typed

\* Every step keeps the types.
LEMMA NextTyped == Typed /\ [Next]_vars => Typed'
<1> SUFFICES ASSUME Typed, [Next]_vars PROVE Typed'
  OBVIOUS
<1>1. ASSUME NEW b \in Builds, BuildStep(b) PROVE Typed'
  <2>1. b \in Calls /\ {"short", "other"} \subseteq Errors
    BY DEF Calls, Errors
  <2>2. CASE ClaimExactInputs(b)
    BY <2>2, ClaimExactInputsTyped
  <2>3. CASE ClaimFirstFreeInput(b)
    BY <2>3, ClaimFirstFreeInputTyped
  <2>4. CASE StartSelection(b)
    BY <2>4, StartSelectionTyped
  <2>5. CASE SelectInput(b)
    BY <2>5, SelectInputTyped
  <2>6. CASE EndSelection(b)
    BY <2>6, EndSelectionTyped
  <2>7. CASE RefuseShort(b)
    BY <2>1, <2>7, BareThrowTyped DEF RefuseShort
  <2>8. CASE FinishBuild(b)
    BY <2>8, FinishBuildTyped
  <2>9. CASE BuildThrows(b)
    BY <2>1, <2>9, BareThrowTyped DEF BuildThrows
  <2> QED
    BY <1>1, <2>2, <2>3, <2>4, <2>5, <2>6, <2>7, <2>8, <2>9 DEF BuildStep
<1>2. ASSUME NEW c \in Cancels, CancelStep(c) PROVE Typed'
  <2>1. c \in Calls /\ "other" \in Errors
    BY DEF Calls, Errors
  <2>2. ASSUME NEW o \in Outpoints, ClaimCommitOutpoint(c, o) PROVE Typed'
    BY <2>2, ClaimCommitOutpointTyped
  <2>3. CASE CancelBuilt(c)
    BY <2>3, CancelBuiltTyped
  <2>4. CASE CancelThrows(c)
    BY <2>1, <2>4, BareThrowTyped DEF CancelThrows
  <2> QED
    BY <1>2, <2>2, <2>3, <2>4 DEF CancelStep
<1>3. ASSUME NEW c \in Calls, ReleaseFailed(c) \/ MintTicket(c) \/ ReleaseReservation(c) PROVE Typed'
  BY <1>3, ReleaseFailedTyped, MintTicketTyped, ReleaseReservationTyped
<1>4. CASE ReleaseUnknown
  BY <1>4, ReleaseUnknownTyped
<1>5. CASE Tick
  BY <1>5, TickTyped
<1>6. CASE UNCHANGED vars
  <2>1. TypeOK' /\ StampsBounded'
    BY <1>6 DEF vars, Typed, TypeOK, StampsBounded
  <2> QED
    BY <2>1 DEF Typed
<1> QED
  BY <1>1, <1>2, <1>3, <1>4, <1>5, <1>6 DEF Next

\* Type correctness of the reservation book, for every set of calls and
\* outpoints, every job, and a TTL of any length.
THEOREM TypeCorrect == Spec => []TypeOK
<1>1. Init => Typed
  BY InitTyped
<1>2. Typed /\ [Next]_vars => Typed'
  BY NextTyped
<1>3. Typed => TypeOK
  BY DEF Typed
<1> QED
  BY <1>1, <1>2, <1>3, PTL DEF Spec

-----------------------------------------------------------------------------
(* The claims.  Four kinds of step: one that leaves every live claim as it  *)
(* was, one that takes free outpoints for a build, the cancel's claim, and  *)
(* one that gives everything back.                                          *)

\* A step that leaves the book, the ledgers and who is holding alone keeps the
\* claim invariant.
LEMMA ClaimsUntouched ==
    ASSUME Typed, Typed', ClaimInv, UNCHANGED <<clock, ledger>>,
           \A o \in Outpoints : resv[o] > clock \/ resv'[o] > clock => resv'[o] = resv[o],
           \A o \in Outpoints, c \in Cancels :
               owners[o][c] > clock \/ owners'[o][c] > clock => owners'[o][c] = owners[o][c],
           \A c \in Calls, o \in Outpoints : LiveClaim(c, o)' <=> LiveClaim(c, o)
    PROVE  ClaimInv'
<1>1. /\ clock \in Nat
      /\ resv \in [Outpoints -> Nat] /\ resv' \in [Outpoints -> Nat]
      /\ owners \in [Outpoints -> [Cancels -> Nat]] /\ owners' \in [Outpoints -> [Cancels -> Nat]]
      /\ ledger \in [Calls -> [Outpoints -> Nat]]
  BY DEF Typed, TypeOK
<1>2. \A c \in Calls, o \in Outpoints : LiveClaim(c, o) => ledger[c][o] > clock
  BY DEF LiveClaim
<1>3. \A c \in Cancels : c \in Calls
  BY DEF Calls
<1>4. \A b \in Builds : b \in Calls
  BY DEF Calls
<1>5. LiveClaimsExclusive'
  BY DEF ClaimInv, LiveClaimsExclusive
<1>6. LiveClaimsReserved'
  <2> SUFFICES ASSUME NEW c \in Calls, NEW o \in Outpoints, LiveClaim(c, o)'
               PROVE  resv'[o] >= ledger'[c][o]
    BY DEF LiveClaimsReserved
  <2>1. LiveClaim(c, o) /\ ledger[c][o] > clock
    BY <1>2
  <2>2. resv[o] >= ledger[c][o]
    BY <2>1 DEF ClaimInv, LiveClaimsReserved
  <2>3. resv[o] \in Nat /\ ledger[c][o] \in Nat /\ clock \in Nat
    BY ONLY <1>1, c \in Calls, o \in Outpoints
  <2>4. resv[o] > clock
    BY ONLY <2>1, <2>2, <2>3
  <2>5. resv'[o] = resv[o]
    BY <2>4, Zenon
  <2>6. ledger'[c][o] = ledger[c][o]
    OBVIOUS
  <2> QED
    BY ONLY <2>2, <2>5, <2>6
<1>7. NoOrphanReservation'
  BY <1>1 DEF ClaimInv, NoOrphanReservation
<1>8. BuildStampHeld'
  BY <1>1, <1>2, <1>4 DEF ClaimInv, BuildStampHeld
<1>9. OwnersAreLiveCancels'
  BY <1>1, <1>2, <1>3 DEF ClaimInv, OwnersAreLiveCancels
<1> QED
  BY <1>5, <1>6, <1>7, <1>8, <1>9 DEF ClaimInv

\* The same, when phases change but the holders stay the same.
LEMMA SameHolders ==
    ASSUME Typed, NothingClaimedYet, UNCHANGED <<clock, ledger>>, NEW c \in Calls,
           phase[c] \in InFlight \cup {"idle", "returned"},
           phase'[c] \in InFlight \cup {"returned"},
           \A d \in Calls \ {c} : phase'[d] = phase[d]
    PROVE  \A d \in Calls, o \in Outpoints : LiveClaim(d, o)' <=> LiveClaim(d, o)
<1> TAKE d \in Calls, o \in Outpoints
<1>1. clock \in Nat /\ ledger[d][o] \in Nat
  BY DEF Typed, TypeOK
<1>2. CASE d = c
  <2>1. phase[c] = "idle" => ~(ledger[c][o] > clock)
    BY <1>1, <1>2 DEF NothingClaimedYet
  <2> QED
    BY <1>2, <2>1 DEF LiveClaim, Holding
<1>3. CASE d # c
  BY <1>3 DEF LiveClaim, Holding
<1> QED
  BY <1>2, <1>3

\* What the book calls free carries no live claim and no live token.
LEMMA FreeNotLive ==
    ASSUME Typed, ClaimInv, NEW o \in Outpoints, resv[o] <= clock
    PROVE  /\ \A c \in Calls : ~LiveClaim(c, o)
           /\ \A c \in Cancels : owners[o][c] <= clock
<1>1. clock \in Nat /\ resv[o] \in Nat /\ \A c \in Calls : ledger[c][o] \in Nat
  BY DEF Typed, TypeOK
<1>2. \A c \in Calls : ~LiveClaim(c, o)
  BY <1>1 DEF ClaimInv, LiveClaimsReserved, LiveClaim
<1>3. \A c \in Cancels : c \in Calls /\ owners[o][c] \in Nat
  BY DEF Calls, Typed, TypeOK
<1> QED
  BY <1>1, <1>2, <1>3 DEF ClaimInv, OwnersAreLiveCancels

\* Claiming a set of free outpoints for a call keeps the claim invariant.
LEMMA FreeOutpointsTaken ==
    ASSUME Typed, Typed', ClaimInv, NothingClaimedYet, NEW b \in Builds,
           NEW W \in SUBSET Outpoints, NEW stamp \in Nat,
           \A o \in W : resv[o] <= clock /\ resv'[o] = stamp /\ ledger'[b][o] = stamp,
           \A o \in Outpoints \ W : ledger'[b][o] = ledger[b][o],
           \A o \in Outpoints \ W : resv[o] > clock \/ resv'[o] > clock => resv'[o] = resv[o],
           \A d \in Calls \ {b} : ledger'[d] = ledger[d] /\ phase'[d] = phase[d],
           UNCHANGED <<clock, owners>>,
           phase[b] \in InFlight \cup {"idle"}, phase'[b] \in InFlight
    PROVE  ClaimInv'
<1>1. /\ clock \in Nat
      /\ resv \in [Outpoints -> Nat] /\ resv' \in [Outpoints -> Nat]
      /\ owners \in [Outpoints -> [Cancels -> Nat]]
      /\ ledger \in [Calls -> [Outpoints -> Nat]] /\ ledger' \in [Calls -> [Outpoints -> Nat]]
  BY DEF Typed, TypeOK
<1>2. b \in Calls /\ b \notin Cancels /\ Cancels \subseteq Calls /\ Builds \subseteq Calls
  BY ReservationsAssumption DEF Calls
<1>3. \A o \in W : \A c \in Calls : ~LiveClaim(c, o)
  BY FreeNotLive
<1>4. \A o \in W : \A c \in Cancels : owners[o][c] <= clock
  BY FreeNotLive
<1>5. \A d \in Calls \ {b}, o \in Outpoints : LiveClaim(d, o)' <=> LiveClaim(d, o)
  BY DEF LiveClaim, Holding
<1>6. \A o \in Outpoints \ W : LiveClaim(b, o)' <=> LiveClaim(b, o)
  BY <1>1, <1>2 DEF LiveClaim, Holding, NothingClaimedYet
<1>7. \A o \in W : LiveClaim(b, o)' <=> stamp > clock
  BY DEF LiveClaim, Holding
<1>8. \A c \in Calls, o \in Outpoints : LiveClaim(c, o) => ledger[c][o] > clock
  BY DEF LiveClaim
<1>9. LiveClaimsExclusive'
  BY <1>2, <1>3, <1>5, <1>6 DEF ClaimInv, LiveClaimsExclusive
<1>10. LiveClaimsReserved'
  <2> SUFFICES ASSUME NEW c \in Calls, NEW o \in Outpoints, LiveClaim(c, o)'
               PROVE  resv'[o] >= ledger'[c][o]
    BY DEF LiveClaimsReserved
  <2>1. CASE o \in W
    <3>1. c = b
      BY <1>3, <1>5, <2>1
    <3> QED
      BY <1>1, <1>2, <2>1, <3>1
  <2>2. CASE o \notin W
    <3>1. LiveClaim(c, o) /\ ledger'[c][o] = ledger[c][o]
      BY <1>5, <1>6, <2>2
    <3>2. resv[o] >= ledger[c][o] /\ ledger[c][o] > clock
      BY <1>8, <3>1 DEF ClaimInv, LiveClaimsReserved
    <3> QED
      BY <1>1, <2>2, <3>1, <3>2
  <2> QED
    BY <2>1, <2>2
<1>11. NoOrphanReservation'
  <2> SUFFICES ASSUME NEW o \in Outpoints, resv'[o] > clock'
               PROVE  \E c \in Calls : LiveClaim(c, o)' /\ ledger'[c][o] = resv'[o]
    BY DEF NoOrphanReservation
  <2>1. CASE o \in W
    BY <1>2, <1>7, <2>1
  <2>2. CASE o \notin W
    <3>1. resv'[o] = resv[o] /\ resv[o] > clock
      BY <1>1, <2>2
    <3>2. PICK c \in Calls : LiveClaim(c, o) /\ ledger[c][o] = resv[o]
      BY <3>1 DEF ClaimInv, NoOrphanReservation
    <3>3. LiveClaim(c, o)' /\ ledger'[c][o] = ledger[c][o]
      BY <1>5, <1>6, <2>2, <3>2
    <3> QED
      BY <3>1, <3>2, <3>3
  <2> QED
    BY <2>1, <2>2
<1>12. BuildStampHeld'
  <2> SUFFICES ASSUME NEW c \in Builds, NEW o \in Outpoints, LiveClaim(c, o)'
               PROVE  resv'[o] = ledger'[c][o]
    BY DEF BuildStampHeld
  <2>1. c \in Calls
    BY <1>2
  <2>2. CASE o \in W
    BY <1>3, <1>5, <2>1, <2>2
  <2>3. CASE o \notin W
    <3>1. LiveClaim(c, o) /\ ledger'[c][o] = ledger[c][o]
      BY <1>5, <1>6, <2>1, <2>3
    <3>2. resv[o] = ledger[c][o] /\ ledger[c][o] > clock
      BY <1>8, <2>1, <3>1 DEF ClaimInv, BuildStampHeld
    <3> QED
      BY <2>3, <3>1, <3>2
  <2> QED
    BY <2>2, <2>3
<1>13. OwnersAreLiveCancels'
  <2>1. \A c \in Cancels : c \in Calls \ {b} /\ ledger'[c] = ledger[c]
    BY <1>2
  <2> QED
    BY <1>5, <2>1 DEF ClaimInv, OwnersAreLiveCancels
<1> QED
  BY <1>9, <1>10, <1>11, <1>12, <1>13 DEF ClaimInv

\* Claiming a commit outpoint that is free or held by cancels only keeps it too:
\* the step where a stamp is overwritten under another holder.
LEMMA CommitOutpointTaken ==
    ASSUME Typed, Typed', ClaimInv, NothingClaimedYet, NEW c \in Cancels, NEW o \in Outpoints,
           ClaimCommitOutpoint(c, o)
    PROVE  ClaimInv'
<1> DEFINE table == Unexpired(resv, clock)
           own   == EvictOwners(clock)
<1>1. /\ clock \in Nat /\ TTL \in Nat \ {0} /\ clock + TTL \in Nat
      /\ resv \in [Outpoints -> Nat]
      /\ owners \in [Outpoints -> [Cancels -> Nat]]
      /\ ledger \in [Calls -> [Outpoints -> Nat]]
      /\ phase \in [Calls -> Phases]
      /\ c \in Calls /\ Cancels \subseteq Calls /\ Builds \subseteq Calls
  BY ReservationsAssumption DEF Typed, TypeOK, Calls
<1>2. /\ table \in [Outpoints -> Nat]
      /\ \A p \in Outpoints : table[p] = IF resv[p] > clock THEN resv[p] ELSE 0
  BY SweptTable
<1>3. /\ own \in [Outpoints -> [Cancels -> Nat]]
      /\ \A p \in Outpoints, d \in Cancels : own[p][d] = IF owners[p][d] > clock THEN owners[p][d] ELSE 0
      /\ \A p \in Outpoints, d \in Cancels : own[p][d] <= clock + TTL
  BY SweptOwners
<1>4. phase[c] = "idle" /\ UNCHANGED clock
  BY DEF ClaimCommitOutpoint
<1>5. \A p \in Outpoints : ledger[c][p] = 0
  BY <1>1, <1>4 DEF NothingClaimedYet
<1>6. CASE table[o] > 0 /\ MaxLiveCancelOwnerExpiry(own, o, clock) # table[o]
  <2>1. resv' = table /\ owners' = own /\ UNCHANGED ledger /\ phase' = [phase EXCEPT ![c] = "failing"]
    BY <1>6 DEF ClaimCommitOutpoint, Throw
  <2> HIDE DEF table, own
  <2>2. \A p \in Outpoints : resv[p] > clock \/ resv'[p] > clock => resv'[p] = resv[p]
    BY <1>1, <1>2, <2>1
  <2>3. \A p \in Outpoints, d \in Cancels :
            owners[p][d] > clock \/ owners'[p][d] > clock => owners'[p][d] = owners[p][d]
    BY <1>1, <1>3, <2>1
  <2>4. phase'[c] \in InFlight /\ \A d \in Calls \ {c} : phase'[d] = phase[d]
    BY <1>1, <2>1 DEF InFlight
  <2>5. \A d \in Calls, p \in Outpoints : LiveClaim(d, p)' <=> LiveClaim(d, p)
    BY <1>1, <1>4, <2>1, <2>4, SameHolders
  <2> QED
    BY <1>4, <2>1, <2>2, <2>3, <2>5, ClaimsUntouched
<1>7. CASE ~(table[o] > 0 /\ MaxLiveCancelOwnerExpiry(own, o, clock) # table[o])
  <2>1. /\ resv' = [table EXCEPT ![o] = clock + TTL]
        /\ owners' = [own EXCEPT ![o][c] = clock + TTL]
        /\ ledger' = [ledger EXCEPT ![c][o] = clock + TTL]
        /\ phase' = [phase EXCEPT ![c] = "pricing"]
    BY <1>7 DEF ClaimCommitOutpoint
  <2>2. \A b \in Builds : ~LiveClaim(b, o)
    <3>1. CASE table[o] = 0
      <4>1. resv[o] <= clock
        BY <1>1, <1>2, <3>1
      <4> QED
        BY <1>1, <4>1, FreeNotLive
    <3>2. CASE table[o] > 0
      <4>1. MaxLiveCancelOwnerExpiry(own, o, clock) = table[o]
        BY <1>7, <3>2
      <4> HIDE DEF table, own
      <4>2. PICK d \in Cancels : own[o][d] = table[o]
        <5> DEFINE m == MaxLiveCancelOwnerExpiry(own, o, clock)
        <5> HIDE DEF m
        <5>1. \A d \in Cancels : own[o][d] <= clock + TTL
          BY <1>3
        <5>2. m > 0 => \E d \in Cancels : own[o][d] = m
          BY <1>1, <1>3, <5>1, MaxLiveType DEF m
        <5> QED
          BY <3>2, <4>1, <5>2 DEF m
      <4>3. own[o][d] > 0
        BY <3>2, <4>2
      <4>4. owners[o][d] > clock
        BY <1>1, <1>3, <4>3
      <4>5. LiveClaim(d, o)
        BY <4>4 DEF ClaimInv, OwnersAreLiveCancels
      <4> QED
        BY <1>1, <4>5, ReservationsAssumption DEF ClaimInv, LiveClaimsExclusive
    <3> QED
      BY <1>2, <3>1, <3>2
  <2> HIDE DEF table, own
  <2>3. \A d \in Calls, p \in Outpoints : LiveClaim(d, p) => d # c /\ ledger[d][p] > clock
    BY <1>1, <1>5 DEF LiveClaim
  <2>4. \A d \in Calls \ {c}, p \in Outpoints :
            /\ ledger'[d][p] = ledger[d][p]
            /\ LiveClaim(d, p)' <=> LiveClaim(d, p)
    BY <1>1, <1>4, <2>1 DEF LiveClaim, Holding
  <2>5. \A p \in Outpoints : ledger'[c][p] = IF p = o THEN clock + TTL ELSE 0
    BY <1>1, <1>5, <2>1
  <2>6. \A p \in Outpoints : LiveClaim(c, p)' <=> p = o
    BY <1>1, <1>4, <2>1, <2>5 DEF LiveClaim, Holding, InFlight
  <2>7. resv'[o] = clock + TTL /\ \A p \in Outpoints \ {o} : resv'[p] = table[p]
    BY <1>2, <2>1
  <2>8. \A p \in Outpoints, d \in Cancels :
            owners'[p][d] = IF p = o /\ d = c THEN clock + TTL ELSE own[p][d]
    BY <1>3, <2>1
  <2>9. LiveClaimsExclusive'
    <3>1. \A d \in Calls \ {c}, p \in Outpoints : LiveClaim(d, p)' /\ LiveClaim(c, p)' => d \in Cancels
      BY <2>2, <2>4, <2>6 DEF Calls
    <3> QED
      BY <2>4, <3>1 DEF ClaimInv, LiveClaimsExclusive
  <2>10. LiveClaimsReserved'
    <3> SUFFICES ASSUME NEW d \in Calls, NEW p \in Outpoints, LiveClaim(d, p)'
                 PROVE  resv'[p] >= ledger'[d][p]
      BY DEF LiveClaimsReserved
    <3>1. CASE d = c
      BY <1>1, <2>5, <2>6, <2>7, <3>1
    <3>2. CASE d # c
      <4>1. LiveClaim(d, p) /\ ledger'[d][p] = ledger[d][p]
        BY <2>4, <3>2
      <4>2. resv[p] >= ledger[d][p] /\ ledger[d][p] > clock /\ ledger[d][p] <= clock + TTL
        BY <2>3, <4>1 DEF ClaimInv, LiveClaimsReserved, Typed, StampsBounded
      <4> QED
        BY <1>1, <1>2, <2>7, <4>1, <4>2, SMTT(30)
    <3> QED
      BY <3>1, <3>2
  <2>11. NoOrphanReservation'
    <3> SUFFICES ASSUME NEW p \in Outpoints, resv'[p] > clock'
                 PROVE  \E d \in Calls : LiveClaim(d, p)' /\ ledger'[d][p] = resv'[p]
      BY DEF NoOrphanReservation
    <3>1. CASE p = o
      BY <1>1, <2>5, <2>6, <2>7, <3>1
    <3>2. CASE p # o
      <4>1. resv'[p] = resv[p] /\ resv[p] > clock
        BY <1>1, <1>2, <1>4, <2>7, <3>2
      <4>2. PICK d \in Calls : LiveClaim(d, p) /\ ledger[d][p] = resv[p]
        BY <4>1 DEF ClaimInv, NoOrphanReservation
      <4> QED
        BY <2>3, <2>4, <4>1, <4>2
    <3> QED
      BY <3>1, <3>2
  <2>12. BuildStampHeld'
    <3> SUFFICES ASSUME NEW b \in Builds, NEW p \in Outpoints, LiveClaim(b, p)'
                 PROVE  resv'[p] = ledger'[b][p]
      BY DEF BuildStampHeld
    <3>1. b \in Calls \ {c}
      BY <1>1, ReservationsAssumption
    <3>2. LiveClaim(b, p) /\ ledger'[b][p] = ledger[b][p] /\ p # o
      BY <2>2, <2>4, <3>1
    <3>3. resv[p] = ledger[b][p] /\ ledger[b][p] > clock
      BY <2>3, <3>1, <3>2 DEF ClaimInv, BuildStampHeld
    <3> QED
      BY <1>1, <1>2, <2>7, <3>2, <3>3
  <2>13. OwnersAreLiveCancels'
    <3> SUFFICES ASSUME NEW d \in Cancels, NEW p \in Outpoints
                 PROVE  /\ LiveClaim(d, p)' => owners'[p][d] = ledger'[d][p]
                        /\ owners'[p][d] > clock => LiveClaim(d, p)' /\ ledger'[d][p] = owners'[p][d]
      BY <1>4 DEF OwnersAreLiveCancels
    <3>1. CASE d = c /\ p = o
      BY <2>5, <2>6, <2>8, <3>1
    <3>2. CASE d = c /\ p # o
      <4>1. owners'[p][d] = own[p][d] /\ ~LiveClaim(d, p)' /\ ~LiveClaim(d, p)
        BY <1>1, <2>3, <2>6, <2>8, <3>2
      <4>2. ~(owners[p][d] > clock)
        BY <4>1 DEF ClaimInv, OwnersAreLiveCancels
      <4>3. own[p][d] = 0
        BY <1>3, <4>2
      <4> QED
        BY <1>1, <4>1, <4>3
    <3>3. CASE d # c
      <4>1. /\ owners'[p][d] = own[p][d] /\ ledger'[d][p] = ledger[d][p]
            /\ LiveClaim(d, p)' <=> LiveClaim(d, p)
        BY <1>1, <2>4, <2>8, <3>3
      <4>2. owners[p][d] > clock \/ own[p][d] > clock => own[p][d] = owners[p][d]
        BY <1>1, <1>3
      <4>3. LiveClaim(d, p) => ledger[d][p] > clock /\ ledger[d][p] = owners[p][d]
        BY <1>1, <2>3 DEF ClaimInv, OwnersAreLiveCancels
      <4>4. owners[p][d] > clock => LiveClaim(d, p) /\ ledger[d][p] = owners[p][d]
        BY DEF ClaimInv, OwnersAreLiveCancels
      <4> QED
        BY <4>1, <4>2, <4>3, <4>4
    <3> QED
      BY <3>1, <3>2, <3>3
  <2> QED
    BY <2>9, <2>10, <2>11, <2>12, <2>13 DEF ClaimInv
<1> QED
  BY <1>6, <1>7

\* A claim that lapses takes its reservation and its token with it.
LEMMA TimePasses ==
    ASSUME Typed, Typed', ClaimInv, Tick
    PROVE  ClaimInv'
<1>1. /\ clock \in Nat /\ clock' = clock + 1
      /\ UNCHANGED <<resv, owners, phase, ledger>>
      /\ resv \in [Outpoints -> Nat] /\ owners \in [Outpoints -> [Cancels -> Nat]]
      /\ ledger \in [Calls -> [Outpoints -> Nat]]
      /\ Cancels \subseteq Calls /\ Builds \subseteq Calls
  BY DEF Tick, maps, Typed, TypeOK, Calls
<1>2. \A c \in Calls, o \in Outpoints : LiveClaim(c, o)' <=> Holding(c) /\ ledger[c][o] > clock + 1
  BY <1>1 DEF LiveClaim, Holding
<1>3. \A c \in Calls, o \in Outpoints : LiveClaim(c, o)' => LiveClaim(c, o)
  BY <1>1, <1>2 DEF LiveClaim
<1>4. LiveClaimsExclusive' /\ LiveClaimsReserved' /\ BuildStampHeld'
  BY <1>1, <1>3 DEF ClaimInv, LiveClaimsExclusive, LiveClaimsReserved, BuildStampHeld
<1>5. NoOrphanReservation'
  <2> SUFFICES ASSUME NEW o \in Outpoints, resv[o] > clock + 1
               PROVE  \E c \in Calls : LiveClaim(c, o)' /\ ledger[c][o] = resv[o]
    BY <1>1 DEF NoOrphanReservation
  <2>1. PICK c \in Calls : LiveClaim(c, o) /\ ledger[c][o] = resv[o]
    BY <1>1 DEF ClaimInv, NoOrphanReservation
  <2> QED
    BY <1>2, <2>1 DEF LiveClaim
<1>6. OwnersAreLiveCancels'
  <2> SUFFICES ASSUME NEW c \in Cancels, NEW o \in Outpoints
               PROVE  /\ LiveClaim(c, o)' => owners[o][c] = ledger[c][o]
                      /\ owners[o][c] > clock + 1 => LiveClaim(c, o)' /\ ledger[c][o] = owners[o][c]
    BY <1>1 DEF OwnersAreLiveCancels
  <2>1. /\ LiveClaim(c, o) => owners[o][c] = ledger[c][o]
        /\ owners[o][c] > clock => LiveClaim(c, o) /\ ledger[c][o] = owners[o][c]
    BY DEF ClaimInv, OwnersAreLiveCancels
  <2> QED
    BY <1>1, <1>2, <1>3, <2>1 DEF LiveClaim
<1> QED
  BY <1>4, <1>5, <1>6 DEF ClaimInv

\* The live token of any other cancel survives a hand-back.
LEMMA OwnersAfterKeeps ==
    ASSUME NEW own \in [Outpoints -> [Cancels -> Nat]], NEW c \in Calls, NEW claims \in [Outpoints -> Nat],
           NEW n \in Nat, NEW o \in Outpoints, \E B \in Nat : \A d \in Cancels : own[o][d] <= B,
           NEW e \in Cancels, e # c, own[o][e] > n
    PROVE  OwnersAfter(own, c, claims, n)[o][e] = own[o][e]
<1> DEFINE A == OwnersAfter(own, c, claims, n)
           left == [own EXCEPT ![o][c] = 0]
           m == MaxLiveCancelOwnerExpiry(left, o, n)
<1>0. PICK B \in Nat : \A d \in Cancels : own[o][d] <= B
  OBVIOUS
<1>1. CASE c \notin Cancels
  BY <1>1 DEF OwnersAfter
<1>2. CASE c \in Cancels
  <2>1. A[o] = IF ~(claims[o] > 0) THEN own[o]
               ELSE IF m = 0 THEN [d \in Cancels |-> 0]
               ELSE left[o]
    BY <1>2 DEF OwnersAfter, DropOwner, Claimed
  <2>2. /\ left \in [Outpoints -> [Cancels -> Nat]]
        /\ left[o][c] = 0
        /\ \A d \in Cancels : d # c => left[o][d] = own[o][d]
        /\ \A d \in Cancels : left[o][d] <= B
    BY <1>0, <1>2
  <2> HIDE DEF left
  <2>3. m = 0 => \A d \in Cancels : left[o][d] <= n
    <3> HIDE DEF m
    <3> QED
      BY <2>2, MaxLiveType DEF m
  <2> HIDE DEF A, m
  <2>4. CASE ~(claims[o] > 0)
    BY <2>1, <2>4 DEF A
  <2>5. CASE claims[o] > 0 /\ m = 0
    <3>1. A[o] = [d \in Cancels |-> 0]
      BY <2>1, <2>5
    <3>2. \A d \in Cancels : d # c => ~(own[o][d] > n)
      BY <2>2, <2>3, <2>5
    <3> QED
      BY <1>2, <3>1, <3>2 DEF A
  <2>6. CASE claims[o] > 0 /\ m # 0
    <3>1. A[o] = left[o]
      BY <2>1, <2>6
    <3> QED
      BY <1>2, <2>2, <3>1 DEF A
  <2> QED
    BY <2>4, <2>5, <2>6
<1> QED
  BY <1>1, <1>2

\* The token of the call itself does not.
LEMMA OwnersAfterDrops ==
    ASSUME NEW own \in [Outpoints -> [Cancels -> Nat]], NEW c \in Cancels,
           NEW claims \in [Outpoints -> Nat], NEW n \in Nat, NEW o \in Outpoints, claims[o] > 0
    PROVE  OwnersAfter(own, c, claims, n)[o][c] = 0
BY DEF OwnersAfter, DropOwner, Claimed

\* Giving back all that is live of a call, with stamps and owner set deciding what
\* to drop, keeps the claim invariant for every other call.
LEMMA ClaimsGivenBack ==
    ASSUME Typed, Typed', ClaimInv, NEW c \in Calls, Holding(c), ~Holding(c)',
           NEW res \in [Outpoints -> Nat], NEW own \in [Outpoints -> [Cancels -> Nat]],
           NEW claims \in [Outpoints -> Nat],
           \A o \in Outpoints : res[o] <= clock + TTL,
           \A o \in Outpoints, d \in Cancels : own[o][d] <= clock + TTL,
           \A o \in Outpoints : resv[o] > clock \/ res[o] > clock => res[o] = resv[o],
           \A o \in Outpoints, d \in Cancels :
               owners[o][d] > clock \/ own[o][d] > clock => own[o][d] = owners[o][d],
           \A o \in Outpoints : /\ claims[o] \in {0, ledger[c][o]}
                                /\ ledger[c][o] > clock => claims[o] = ledger[c][o],
           owners' = OwnersAfter(own, c, claims, clock),
           resv' = TableAfter(res, own, c, claims, clock),
           UNCHANGED <<clock, ledger>>,
           \A d \in Calls \ {c} : phase'[d] = phase[d]
    PROVE  ClaimInv'
<1>1. /\ clock \in Nat /\ clock + TTL \in Nat
      /\ resv \in [Outpoints -> Nat] /\ resv' \in [Outpoints -> Nat]
      /\ owners \in [Outpoints -> [Cancels -> Nat]] /\ owners' \in [Outpoints -> [Cancels -> Nat]]
      /\ ledger \in [Calls -> [Outpoints -> Nat]]
      /\ Cancels \subseteq Calls /\ Builds \subseteq Calls /\ Cancels \cap Builds = {}
  BY ReservationsAssumption DEF Typed, TypeOK, Calls
<1>2. \A d \in Calls, o \in Outpoints : LiveClaim(d, o)' <=> d # c /\ LiveClaim(d, o)
  BY DEF LiveClaim, Holding
<1>3. \A d \in Calls, o \in Outpoints : LiveClaim(d, o) => ledger[d][o] > clock
  BY DEF LiveClaim
<1>4. \A o \in Outpoints : ledger[c][o] > clock => LiveClaim(c, o)
  BY DEF LiveClaim
<1>5. LiveClaimsExclusive'
  BY <1>2 DEF ClaimInv, LiveClaimsExclusive
<1>6. OwnersAreLiveCancels'
  <2> SUFFICES ASSUME NEW d \in Cancels, NEW o \in Outpoints
               PROVE  /\ LiveClaim(d, o)' => owners'[o][d] = ledger[d][o]
                      /\ owners'[o][d] > clock => LiveClaim(d, o)' /\ ledger[d][o] = owners'[o][d]
    BY DEF OwnersAreLiveCancels
  <2>1. owners'[o][d] \in {0, own[o][d]}
    BY <1>1, OwnersAfterValue
  <2> DEFINE B == clock + TTL
             after == OwnersAfter(own, c, claims, clock)
  <2>9. B \in Nat /\ \A e \in Cancels : own[o][e] <= B
    BY <1>1
  <2>10. owners' = after
    OBVIOUS
  <2> HIDE DEF B, after
  <2>14. clock \in Nat
    BY <1>1
  <2>11. ASSUME d # c, own[o][d] > clock PROVE after[o][d] = own[o][d]
    BY <2>9, <2>11, <2>14, OwnersAfterKeeps, Zenon DEF after
  <2>12. ASSUME c \in Cancels, claims[o] > 0 PROVE after[o][c] = 0
    BY <2>12, <2>14, OwnersAfterDrops, Zenon DEF after
  <2>2. d # c /\ own[o][d] > clock => owners'[o][d] = own[o][d]
    BY <2>10, <2>11
  <2>3. c \in Cancels /\ claims[o] > 0 => owners'[o][c] = 0
    BY <2>10, <2>12
  <2>4. /\ LiveClaim(d, o) => owners[o][d] = ledger[d][o]
        /\ owners[o][d] > clock => LiveClaim(d, o) /\ ledger[d][o] = owners[o][d]
    BY DEF ClaimInv, OwnersAreLiveCancels
  <2>5. /\ owners[o][d] \in Nat /\ own[o][d] \in Nat /\ owners'[o][d] \in Nat /\ ledger[d][o] \in Nat
    BY <1>1
  <2>6. CASE d = c
    <3>1. owners'[o][d] > clock => owners[o][d] > clock
      BY <1>1, <2>1, <2>5
    <3>2. owners[o][d] > clock => claims[o] > 0
      BY <1>1, <1>3, <2>4, <2>5, <2>6
    <3> QED
      BY <1>1, <1>2, <2>3, <2>6, <3>1, <3>2
  <2>7. CASE d # c
    <3>1. LiveClaim(d, o)' <=> LiveClaim(d, o)
      BY <1>1, <1>2, <2>7
    <3>2. LiveClaim(d, o) => owners[o][d] > clock
      BY <1>1, <1>3, <2>4
    <3> QED
      BY <1>1, <2>1, <2>2, <2>4, <2>5, <2>7, <3>1, <3>2
  <2> QED
    BY <2>6, <2>7
\* What each outpoint is reserved for afterwards.
<1>7. ASSUME NEW o \in Outpoints, c \in Builds
      PROVE  resv'[o] = IF claims[o] = res[o] THEN 0 ELSE res[o]
  BY <1>1, <1>7 DEF TableAfter, DropStamped
<1>8. ASSUME NEW o \in Outpoints, c \in Cancels
      PROVE  /\ claims[o] = 0 => resv'[o] = res[o]
             /\ claims[o] > 0 /\ (\A d \in Cancels : owners'[o][d] <= clock) =>
                    /\ res[o] = claims[o] => resv'[o] = 0
                    /\ res[o] # claims[o] => resv'[o] = res[o]
             /\ claims[o] > 0 => \A d \in Cancels : owners'[o][d] > clock =>
                    owners'[o][d] <= resv'[o] /\ \E e \in Cancels : owners'[o][e] = resv'[o]
  <2> DEFINE after == OwnersAfter(own, c, claims, clock)
  <2>1. resv' = HandBack(res, after, claims, clock)
    BY <1>8 DEF TableAfter
  <2>2. after \in [Outpoints -> [Cancels -> Nat]]
    BY <1>1
  <2>3. \A d \in Cancels : after[o][d] <= clock + TTL
    BY <1>1, TableAfterType
  <2>4. owners' = after
    OBVIOUS
  <2> HIDE DEF after
  <2>5. res[o] <= clock + TTL
    OBVIOUS
  <2> DEFINE r == HandBack(res, after, claims, clock)[o]
             B == clock + TTL
  <2>8. B \in Nat /\ res[o] <= B /\ \A d \in Cancels : after[o][d] <= B
    BY <1>1, <2>3, <2>5
  <2> HIDE DEF r, B
  <2>6. claims[o] = 0 => r = res[o]
    BY HandBackUnclaimed, SMTT(30) DEF r
  <2>14. clock \in Nat
    BY <1>1
  <2>7. ASSUME claims[o] > 0, \A d \in Cancels : after[o][d] <= clock
        PROVE  (res[o] = claims[o] => r = 0) /\ (res[o] # claims[o] => r = res[o])
    BY <2>2, <2>7, <2>8, <2>14, HandBackUnowned, ZenonT(60) DEF r
  <2>9. ASSUME claims[o] > 0, NEW d \in Cancels, after[o][d] > clock
        PROVE  after[o][d] <= r /\ \E e \in Cancels : after[o][e] = r
    BY <2>2, <2>9, <2>8, <2>14, HandBackOwned, ZenonT(60) DEF r
  <2>10. resv'[o] = r
    BY <2>1 DEF r
  <2>11. claims[o] = 0 => resv'[o] = res[o]
    BY <2>6, <2>10
  <2>12. claims[o] > 0 /\ (\A d \in Cancels : owners'[o][d] <= clock) =>
             (res[o] = claims[o] => resv'[o] = 0) /\ (res[o] # claims[o] => resv'[o] = res[o])
    BY <2>4, <2>7, <2>10
  <2>13. claims[o] > 0 => \A d \in Cancels : owners'[o][d] > clock =>
             owners'[o][d] <= resv'[o] /\ \E e \in Cancels : owners'[o][e] = resv'[o]
    BY <2>4, <2>9, <2>10
  <2> QED
    BY <2>11, <2>12, <2>13
\* What another call still holds keeps its reservation.
<1>9. ASSUME NEW d \in Calls, NEW o \in Outpoints, d # c, LiveClaim(d, o)
      PROVE  resv'[o] >= ledger[d][o] /\ (d \in Builds => resv'[o] = resv[o])
  <2>1. /\ ledger[d][o] > clock /\ resv[o] >= ledger[d][o]
        /\ ledger[d][o] \in Nat /\ resv[o] \in Nat /\ claims[o] \in Nat /\ ledger[c][o] \in Nat
    BY <1>1, <1>3, <1>9 DEF ClaimInv, LiveClaimsReserved
  <2>2. res[o] = resv[o] /\ res[o] > clock
    BY <1>1, <2>1
  <2>3. claims[o] = res[o] => LiveClaim(c, o)
    <3>1. claims[o] \in {0, ledger[c][o]}
      OBVIOUS
    <3> QED
      BY <1>1, <1>4, <2>1, <2>2, <3>1
  <2>4. c \in Builds \/ d \in Builds => ~LiveClaim(c, o)
    BY <1>1, <1>9 DEF ClaimInv, LiveClaimsExclusive
  <2>5. CASE c \in Builds
    BY <1>7, <2>1, <2>2, <2>3, <2>4, <2>5
  <2>6. CASE c \in Cancels /\ claims[o] = 0
    BY <1>8, <2>1, <2>2, <2>6
  <2>7. CASE c \in Cancels /\ claims[o] > 0 /\ d \in Cancels
    <3>1. LiveClaim(d, o)'
      BY <1>2, <1>9
    <3>2. owners'[o][d] = ledger[d][o]
      BY <1>6, <2>7, <3>1 DEF OwnersAreLiveCancels
    <3>3. owners'[o][d] <= resv'[o]
      BY <1>8, <2>1, <2>7, <3>2
    <3> QED
      BY <1>1, <2>1, <2>7, <3>2, <3>3
  <2>8. CASE c \in Cancels /\ claims[o] > 0 /\ d \in Builds
    <3>1. \A e \in Cancels : ~LiveClaim(e, o)
      BY <1>1, <1>9, <2>8 DEF ClaimInv, LiveClaimsExclusive
    <3>2. \A e \in Cancels : ~(owners'[o][e] > clock)
      BY <1>1, <1>2, <1>6, <3>1 DEF OwnersAreLiveCancels
    <3>3. \A e \in Cancels : owners'[o][e] <= clock
      BY <1>1, <3>2
    <3>4. resv'[o] = res[o]
      BY <1>8, <2>3, <2>4, <2>8, <3>3
    <3> QED
      BY <2>1, <2>2, <3>4
  <2> QED
    BY <1>1, <2>1, <2>5, <2>6, <2>7, <2>8 DEF Calls
<1>10. LiveClaimsReserved'
  BY <1>2, <1>9 DEF LiveClaimsReserved
<1>11. BuildStampHeld'
  <2> SUFFICES ASSUME NEW b \in Builds, NEW o \in Outpoints, LiveClaim(b, o)'
               PROVE  resv'[o] = ledger[b][o]
    BY DEF BuildStampHeld
  <2>1. b # c /\ LiveClaim(b, o) /\ b \in Calls
    BY <1>1, <1>2
  <2> QED
    BY <1>9, <2>1 DEF ClaimInv, BuildStampHeld
<1>12. NoOrphanReservation'
  <2> SUFFICES ASSUME NEW o \in Outpoints, resv'[o] > clock
               PROVE  \E d \in Calls : LiveClaim(d, o)' /\ ledger[d][o] = resv'[o]
    BY DEF NoOrphanReservation
  <2>1. CASE resv'[o] = res[o] /\ claims[o] # res[o]
    <3>1. resv'[o] = resv[o] /\ resv[o] > clock
      BY <2>1
    <3>2. PICK d \in Calls : LiveClaim(d, o) /\ ledger[d][o] = resv[o]
      BY <3>1 DEF ClaimInv, NoOrphanReservation
    <3>3. d # c
      BY <1>3, <2>1, <3>1, <3>2
    <3> QED
      BY <1>2, <3>1, <3>2, <3>3
  <2>2. CASE \E e \in Cancels : owners'[o][e] = resv'[o]
    <3>1. PICK e \in Cancels : owners'[o][e] = resv'[o]
      BY <2>2
    <3>2. LiveClaim(e, o)' /\ ledger[e][o] = owners'[o][e]
      BY <1>6, <3>1 DEF OwnersAreLiveCancels
    <3> QED
      BY <1>1, <3>1, <3>2
  <2>3. CASE c \in Builds
    BY <1>1, <1>7, <2>1, <2>3
  <2>4. CASE c \in Cancels /\ claims[o] = 0
    BY <1>1, <1>8, <2>1, <2>4
  <2>5. CASE c \in Cancels /\ claims[o] > 0 /\ \E d \in Cancels : owners'[o][d] > clock
    BY <1>8, <2>2, <2>5
  <2>6. CASE c \in Cancels /\ claims[o] > 0 /\ ~\E d \in Cancels : owners'[o][d] > clock
    <3>1. \A d \in Cancels : owners'[o][d] <= clock
      BY <1>1, <2>6
    <3>2. (res[o] = claims[o] => resv'[o] = 0) /\ (res[o] # claims[o] => resv'[o] = res[o])
      BY <1>8, <2>6, <3>1
    <3>3. resv'[o] = res[o] /\ claims[o] # res[o]
      BY <1>1, <3>2
    <3> QED
      BY <2>1, <3>3
  <2> QED
    BY <1>1, <2>3, <2>4, <2>5, <2>6 DEF Calls
<1> QED
  BY <1>5, <1>6, <1>10, <1>11, <1>12 DEF ClaimInv

-----------------------------------------------------------------------------
(* The receipts. *)

\* A step that leaves tickets and ledgers alone keeps the receipt invariant.
LEMMA ReceiptsUntouched ==
    ASSUME Typed, Typed', ReceiptInv, NEW c \in Calls,
           phase[c] # "returned", phase'[c] \notin {"returned", "idle"},
           \A d \in Calls \ {c} : phase'[d] = phase[d] /\ ledger'[d] = ledger[d],
           \A o, p \in Outpoints : c \in Cancels /\ ledger'[c][o] > 0 /\ ledger'[c][p] > 0 => o = p,
           UNCHANGED <<clock, tickets>>
    PROVE  ReceiptInv'
<1>1. /\ ledger \in [Calls -> [Outpoints -> Nat]] /\ ledger' \in [Calls -> [Outpoints -> Nat]]
      /\ Cancels \subseteq Calls
  BY DEF Typed, TypeOK, Calls
<1>2. OneOutpointPerCancel'
  <2> SUFFICES ASSUME NEW d \in Cancels, NEW o \in Outpoints, NEW p \in Outpoints,
                      ledger'[d][o] > 0, ledger'[d][p] > 0
               PROVE  o = p
    BY DEF OneOutpointPerCancel
  <2>1. CASE d = c
    BY <2>1
  <2>2. CASE d # c
    BY <1>1, <2>2 DEF ReceiptInv, OneOutpointPerCancel
  <2> QED
    BY <2>1, <2>2
<1>3. NothingClaimedYet'
  <2> SUFFICES ASSUME NEW d \in Calls, NEW o \in Outpoints, phase'[d] = "idle"
               PROVE  ledger'[d][o] = 0
    BY DEF NothingClaimedYet
  <2>1. d # c
    OBVIOUS
  <2> QED
    BY <2>1 DEF ReceiptInv, NothingClaimedYet
<1>4. TicketsNameLiveClaims'
  <2> SUFFICES ASSUME NEW d \in Calls, NEW o \in Outpoints
               PROVE  /\ phase'[d] # "returned" => tickets[d] = NoTicket
                      /\ tickets[d].claims[o] \in {0, ledger'[d][o]}
                      /\ tickets[d].claims[o] <= tickets[d].expiry
                      /\ tickets[d].expiry > 0 /\ LiveClaim(d, o)' =>
                             tickets[d].claims[o] = ledger'[d][o]
    BY DEF TicketsNameLiveClaims
  <2>1. CASE d = c
    <3>1. tickets[d] = NoTicket
      BY <2>1 DEF ReceiptInv, TicketsNameLiveClaims
    <3>2. NoTicket.claims[o] = 0 /\ NoTicket.expiry = 0
      BY DEF NoTicket
    <3> QED
      BY <3>1, <3>2
  <2>2. CASE d # c
    <3>1. phase'[d] = phase[d] /\ ledger'[d] = ledger[d] /\ (LiveClaim(d, o)' <=> LiveClaim(d, o))
      BY <2>2 DEF LiveClaim, Holding
    <3> QED
      BY <3>1 DEF ReceiptInv, TicketsNameLiveClaims
  <2> QED
    BY <2>1, <2>2
<1> QED
  BY <1>2, <1>3, <1>4 DEF ReceiptInv

\* What TicketsNameLiveClaims asks of the ticket t of call c.
Names(t, c, o) ==
    /\ t.claims[o] \in {0, ledger[c][o]}
    /\ t.claims[o] <= t.expiry
    /\ t.expiry > 0 /\ LiveClaim(c, o) => t.claims[o] = ledger[c][o]

\* An absent ticket names nothing.
LEMMA NoTicketNames ==
    ASSUME NEW c \in Calls, NEW o \in Outpoints
    PROVE  Names(NoTicket, c, o)
<1>1. NoTicket.claims[o] = 0 /\ NoTicket.expiry = 0
  BY DEF NoTicket
<1> QED
  BY <1>1 DEF Names

\* A sweep of the tickets invents no claim.
LEMMA SweptTicketNames ==
    ASSUME Typed, ReceiptInv, NEW c \in Calls, NEW o \in Outpoints
    PROVE  /\ phase[c] # "returned" => EvictTickets(clock)[c] = NoTicket
           /\ Names(EvictTickets(clock)[c], c, o)
<1>1. EvictTickets(clock)[c] \in {tickets[c], NoTicket}
  BY EvictTicketsType DEF Typed
<1>2. Names(tickets[c], c, o) /\ (phase[c] # "returned" => tickets[c] = NoTicket)
  BY DEF Names, ReceiptInv, TicketsNameLiveClaims
<1>3. Names(NoTicket, c, o)
  BY NoTicketNames
<1> QED
  BY <1>1, <1>2, <1>3

\* A minted ticket names all of the call's live claims.
LEMMA ReceiptNames ==
    ASSUME Typed, ClaimInv, ReceiptInv, NEW c \in Calls, NEW o \in Outpoints
    PROVE  Names(Receipt(c), c, o)
<1>1. CASE Claimed(StillMine(c)) = {}
  <2>1. Receipt(c) = NoTicket
    BY <1>1 DEF Receipt
  <2> QED
    BY <2>1, NoTicketNames
<1>2. CASE Claimed(StillMine(c)) # {}
  <2>1. Receipt(c).claims = StillMine(c) /\ Receipt(c).expiry = Max(Range(StillMine(c)))
    BY <1>2 DEF Receipt
  <2>2. StillMine(c)[o] <= Receipt(c).expiry
    BY <1>2, <2>1, ReceiptExpiry
  <2>3. \A p \in Outpoints : StillMine(c)[p] = IF ledger[c][p] = resv[p] THEN ledger[c][p] ELSE 0
    BY StillMineType
  <2>4. clock \in Nat /\ resv \in [Outpoints -> Nat] /\ ledger[c] \in [Outpoints -> Nat]
    BY DEF Typed, TypeOK
  <2>5. ASSUME LiveClaim(c, o) PROVE ledger[c][o] = resv[o]
    <3>1. CASE c \in Builds
      BY <2>5, <3>1 DEF ClaimInv, BuildStampHeld
    <3>2. CASE c \in Cancels
      <4>1. PICK p \in Outpoints : StillMine(c)[p] > 0
        BY <1>2 DEF Claimed
      <4>2. ledger[c][p] > 0 /\ ledger[c][p] = resv[p]
        BY <2>3, <2>4, <4>1
      <4>3. ledger[c][o] > 0
        BY <2>4, <2>5 DEF LiveClaim
      <4>4. p = o
        BY <3>2, <4>2, <4>3 DEF ReceiptInv, OneOutpointPerCancel
      <4> QED
        BY <4>2, <4>4
    <3> QED
      BY <3>1, <3>2 DEF Calls
  <2>6. StillMine(c)[o] \in {0, ledger[c][o]}
    BY <2>3
  <2>7. LiveClaim(c, o) => StillMine(c)[o] = ledger[c][o]
    BY <2>3, <2>5
  <2> QED
    BY <2>1, <2>2, <2>6, <2>7 DEF Names
<1> QED
  BY <1>1, <1>2

\* The three steps that touch the tickets.
LEMMA TicketsChanged ==
    ASSUME Typed, Typed', ReceiptInv, UNCHANGED <<clock, ledger>>,
           \A c \in Calls, o \in Outpoints :
               /\ phase'[c] # "returned" => tickets'[c] = NoTicket
               /\ Names(tickets'[c], c, o)
               /\ LiveClaim(c, o)' => LiveClaim(c, o)
               /\ phase'[c] = "idle" => phase[c] = "idle"
    PROVE  ReceiptInv'
<1>1. OneOutpointPerCancel' /\ NothingClaimedYet'
  BY DEF ReceiptInv, OneOutpointPerCancel, NothingClaimedYet
<1>2. TicketsNameLiveClaims'
  BY DEF TicketsNameLiveClaims, Names
<1> QED
  BY <1>1, <1>2 DEF ReceiptInv

\* The passing of time keeps the receipt invariant.
LEMMA TimePassesReceipts ==
    ASSUME Typed, ReceiptInv, Tick
    PROVE  ReceiptInv'
<1>1. clock \in Nat /\ clock' = clock + 1 /\ UNCHANGED <<tickets, phase, ledger>>
  BY DEF Tick, maps, Typed, TypeOK
<1>2. \A c \in Calls, o \in Outpoints : LiveClaim(c, o)' => LiveClaim(c, o)
  <2>1. \A c \in Calls, o \in Outpoints : ledger[c][o] \in Nat
    BY DEF Typed, TypeOK
  <2> QED
    BY <1>1, <2>1 DEF LiveClaim, Holding
<1>3. OneOutpointPerCancel' /\ NothingClaimedYet' /\ TicketsNameLiveClaims'
  BY <1>1, <1>2 DEF ReceiptInv, OneOutpointPerCancel, NothingClaimedYet, TicketsNameLiveClaims
<1> QED
  BY <1>3 DEF ReceiptInv

-----------------------------------------------------------------------------
(* Every step keeps the book. *)

Book == Typed /\ ClaimInv /\ ReceiptInv

\* A call that moves from one in-flight phase to another keeps the book.
LEMMA PhaseMoves ==
    ASSUME Book, Typed', NEW c \in Calls,
           phase[c] \in InFlight \cup {"idle"}, phase'[c] \in InFlight,
           \A d \in Calls \ {c} : phase'[d] = phase[d],
           resv' \in {resv, Unexpired(resv, clock)}, UNCHANGED <<clock, owners, tickets, ledger>>
    PROVE  Book'
<1>1. /\ clock \in Nat /\ resv \in [Outpoints -> Nat]
      /\ Unexpired(resv, clock) \in [Outpoints -> Nat]
      /\ \A o \in Outpoints : Unexpired(resv, clock)[o] = IF resv[o] > clock THEN resv[o] ELSE 0
  BY SweptTable DEF Book, Typed, TypeOK
<1>2. \A o \in Outpoints : resv[o] > clock \/ resv'[o] > clock => resv'[o] = resv[o]
  BY <1>1
<1>3. \A d \in Calls, o \in Outpoints : LiveClaim(d, o)' <=> LiveClaim(d, o)
  BY SameHolders DEF Book, ReceiptInv
<1>4. ClaimInv'
  BY <1>2, <1>3, ClaimsUntouched DEF Book
<1>5. phase[c] # "returned" /\ phase'[c] \notin {"returned", "idle"}
  BY DEF InFlight
<1>6. \A o, p \in Outpoints : c \in Cancels /\ ledger'[c][o] > 0 /\ ledger'[c][p] > 0 => o = p
  BY DEF Book, ReceiptInv, OneOutpointPerCancel
<1>7. ReceiptInv'
  BY <1>5, <1>6, ReceiptsUntouched DEF Book
<1> QED
  BY <1>4, <1>7 DEF Book

\* A build that takes free outpoints keeps the receipt invariant.
LEMMA BuildTakes ==
    ASSUME Book, Typed', NEW b \in Builds, NEW W \in SUBSET Outpoints, NEW stamp \in Nat,
           \A o \in W : resv[o] <= clock /\ resv'[o] = stamp /\ ledger'[b][o] = stamp,
           \A o \in Outpoints \ W : ledger'[b][o] = ledger[b][o],
           \A o \in Outpoints \ W : resv[o] > clock \/ resv'[o] > clock => resv'[o] = resv[o],
           \A d \in Calls \ {b} : ledger'[d] = ledger[d] /\ phase'[d] = phase[d],
           UNCHANGED <<clock, owners, tickets>>,
           phase[b] \in InFlight \cup {"idle"}, phase'[b] \in InFlight
    PROVE  Book'
<1>1. ClaimInv'
  BY FreeOutpointsTaken DEF Book, ReceiptInv
<1>2. b \in Calls /\ b \notin Cancels
  BY ReservationsAssumption DEF Calls
<1>3. phase[b] # "returned" /\ phase'[b] \notin {"returned", "idle"}
  BY DEF InFlight
<1>4. ReceiptInv'
  BY <1>2, <1>3, ReceiptsUntouched DEF Book
<1> QED
  BY <1>1, <1>4 DEF Book

\* A throw is such a move.
LEMMA ThrowMoves ==
    ASSUME Book, Typed', NEW c \in Calls, phase[c] \in InFlight \cup {"idle"}, NEW why, Throw(c, why),
           resv' \in {resv, Unexpired(resv, clock)}, UNCHANGED <<clock, owners, tickets, ledger>>
    PROVE  Book'
<1>1. phase'[c] \in InFlight /\ \A d \in Calls \ {c} : phase'[d] = phase[d]
  BY DEF Throw, InFlight, Book, Typed, TypeOK
<1> QED
  BY <1>1, PhaseMoves

\* claimExactInputs keeps the book: all named outpoints were free, or nothing is taken.
LEMMA ClaimExactInputsKeepsBook ==
    ASSUME Book, NEW b \in Builds, ClaimExactInputs(b)
    PROVE  Book'
<1> DEFINE table == Unexpired(resv, clock)
           named == ToSet(build[b].utxos)
<1>1. Typed'
  BY ClaimExactInputsTyped DEF Book
<1>2. /\ b \in Calls /\ phase[b] = "idle" /\ UNCHANGED <<clock, owners, tickets>>
      /\ clock \in Nat /\ clock + TTL \in Nat
      /\ resv \in [Outpoints -> Nat] /\ phase \in [Calls -> Phases]
      /\ ledger \in [Calls -> [Outpoints -> Nat]]
  BY ReservationsAssumption DEF ClaimExactInputs, Calls, Book, Typed, TypeOK
<1>3. /\ table \in [Outpoints -> Nat]
      /\ \A o \in Outpoints : table[o] = IF resv[o] > clock THEN resv[o] ELSE 0
  BY SweptTable DEF Book
<1>4. CASE \E o \in named : table[o] > 0
  <2>1. resv' = table /\ Throw(b, "reserved") /\ UNCHANGED ledger
    BY <1>4 DEF ClaimExactInputs
  <2> QED
    BY <1>1, <1>2, <2>1, ThrowMoves
<1>5. CASE ~ \E o \in named : table[o] > 0
  <2>1. /\ resv' = [o \in Outpoints |-> IF o \in named THEN clock + TTL ELSE table[o]]
        /\ ledger' = [ledger EXCEPT ![b] =
                        [o \in Outpoints |-> IF o \in named THEN clock + TTL ELSE 0]]
        /\ phase' = [phase EXCEPT ![b] = "bound"]
    BY <1>5 DEF ClaimExactInputs, AfterBind
  <2>2. named \in SUBSET Outpoints
    <3>1. build[b].utxos \in Seq(Outpoints)
      BY DEF Book, Typed, TypeOK, BuildState
    <3> QED
      BY <3>1 DEF ToSet
  <2> HIDE DEF table, named
  <2>3. \A o \in named : resv[o] <= clock /\ resv'[o] = clock + TTL /\ ledger'[b][o] = clock + TTL
    BY <1>2, <1>3, <1>5, <2>1, <2>2
  <2>4. \A o \in Outpoints \ named : ledger'[b][o] = ledger[b][o]
    BY <1>2, <2>1 DEF Book, ReceiptInv, NothingClaimedYet
  <2>5. \A o \in Outpoints \ named : resv[o] > clock \/ resv'[o] > clock => resv'[o] = resv[o]
    BY <1>2, <1>3, <2>1
  <2>6. \A d \in Calls \ {b} : ledger'[d] = ledger[d] /\ phase'[d] = phase[d]
    BY <1>2, <2>1
  <2>7. phase'[b] \in InFlight
    BY <1>2, <2>1 DEF InFlight
  <2> QED
    BY <1>1, <1>2, <2>2, <2>3, <2>4, <2>5, <2>6, <2>7, BuildTakes, Zenon
<1> QED
  BY <1>4, <1>5

\* claimFirstFreeInput keeps the book.
LEMMA ClaimFirstFreeInputKeepsBook ==
    ASSUME Book, NEW b \in Builds, ClaimFirstFreeInput(b)
    PROVE  Book'
<1> DEFINE table == Unexpired(resv, clock)
           utxos == build[b].utxos
           free  == {i \in DOMAIN utxos : table[utxos[i]] = 0}
           i     == Min(free)
           o     == utxos[i]
<1>1. Typed'
  BY ClaimFirstFreeInputTyped DEF Book
<1>2. /\ b \in Calls /\ phase[b] = "idle" /\ UNCHANGED <<clock, owners, tickets>>
      /\ clock \in Nat /\ clock + TTL \in Nat
      /\ resv \in [Outpoints -> Nat] /\ phase \in [Calls -> Phases]
      /\ ledger \in [Calls -> [Outpoints -> Nat]]
      /\ phase' = [phase EXCEPT ![b] = "bound"]
      /\ build[b].utxos \in Seq(Outpoints)
  <2>1. phase[b] = "idle" /\ AfterBind(b) /\ UNCHANGED <<clock, owners, tickets>>
    BY Zenon DEF ClaimFirstFreeInput
  <2>2. phase' = [phase EXCEPT ![b] = "bound"]
    BY <2>1 DEF AfterBind
  <2>3. build[b].utxos \in Seq(Outpoints)
    BY DEF Book, Typed, TypeOK, BuildState
  <2> QED
    BY <2>1, <2>2, <2>3, ReservationsAssumption, SMTT(30) DEF Calls, Book, Typed, TypeOK
<1>3. /\ table \in [Outpoints -> Nat]
      /\ \A p \in Outpoints : table[p] = IF resv[p] > clock THEN resv[p] ELSE 0
  BY SweptTable DEF Book
<1>4. phase'[b] \in InFlight /\ \A d \in Calls \ {b} : phase'[d] = phase[d]
  BY <1>2 DEF InFlight
<1>5. CASE free = {}
  <2>1. resv' = table /\ UNCHANGED ledger
    BY <1>5 DEF ClaimFirstFreeInput
  <2> QED
    BY <1>1, <1>2, <1>4, <2>1, PhaseMoves
<1>6. CASE free # {}
  <2>1. resv' = [table EXCEPT ![o] = clock + TTL] /\ ledger' = [ledger EXCEPT ![b][o] = clock + TTL]
    BY <1>6, Zenon DEF ClaimFirstFreeInput
  <2>2. i \in DOMAIN utxos /\ table[o] = 0
    <3>1. free \in SUBSET Nat /\ free # {}
      <4>1. build[b].utxos \in Seq(Outpoints)
        BY <1>2
      <4> HIDE DEF utxos, table
      <4>2. DOMAIN utxos \in SUBSET Nat
        BY <4>1 DEF utxos
      <4> QED
        BY <1>6, <4>2
    <3>2. i \in free
      BY <3>1, MinOfNaturals
    <3> HIDE DEF i, utxos, table
    <3> QED
      BY <3>2
  <2>3. o \in Outpoints
    <3> HIDE DEF i
    <3> QED
      BY <1>2, <2>2
  <2> DEFINE W == {o}
             stamp == clock + TTL
  <2> HIDE DEF table, o
  <2>4. \A p \in W : resv[p] <= clock /\ resv'[p] = stamp /\ ledger'[b][p] = stamp
    BY <1>2, <1>3, <2>1, <2>2, <2>3, SMTT(30)
  <2>5. \A p \in Outpoints \ W : ledger'[b][p] = ledger[b][p]
    BY <1>2, <2>1, <2>3
  <2>6. \A p \in Outpoints \ W : resv[p] > clock \/ resv'[p] > clock => resv'[p] = resv[p]
    BY <1>2, <1>3, <2>1, <2>3
  <2>7. \A d \in Calls \ {b} : ledger'[d] = ledger[d] /\ phase'[d] = phase[d]
    BY <1>2, <1>4, <2>1, <2>3
  <2>8. W \in SUBSET Outpoints
    BY <2>3
  <2>9. stamp \in Nat
    BY <1>2
  <2>10. /\ phase[b] \in InFlight \cup {"idle"} /\ phase'[b] \in InFlight
         /\ UNCHANGED <<clock, owners, tickets>>
    BY <1>2, <1>4
  <2> HIDE DEF W, stamp
  <2> QED
    BY <1>1, <2>4, <2>5, <2>6, <2>7, <2>8, <2>9, <2>10, BuildTakes, SMTT(30)
<1> QED
  BY <1>5, <1>6

\* selectInputs keeps the book, although it judges and stamps by the clock it read
\* before its awaits.
LEMMA SelectInputKeepsBook ==
    ASSUME Book, NEW b \in Builds, SelectInput(b)
    PROVE  Book'
<1> DEFINE i     == Min(Remaining(b))
           o     == build[b].utxos[i]
           stamp == build[b].now + TTL
<1>1. Typed'
  BY SelectInputTyped DEF Book
<1>2. /\ b \in Calls /\ phase[b] = "selecting" /\ UNCHANGED <<clock, owners, tickets, phase>>
      /\ clock \in Nat
      /\ resv \in [Outpoints -> Nat]
      /\ ledger \in [Calls -> [Outpoints -> Nat]]
      /\ build[b] \in BuildState /\ build[b].now <= clock
  BY DEF SelectInput, Calls, Book, Typed, TypeOK, StampsBounded
<1>3. stamp \in Nat
  BY <1>2, ReservationsAssumption DEF BuildState
<1>4. i \in Remaining(b) /\ o \in Outpoints
  <2>1. Remaining(b) \in SUBSET Nat /\ Remaining(b) # {}
    <3>1. Remaining(b) # {}
      BY DEF SelectInput
    <3>2. Remaining(b) \in SUBSET Nat
      BY <1>2 DEF Remaining, BuildState
    <3> QED
      BY <3>1, <3>2
  <2>2. i \in Remaining(b)
    BY <2>1, MinOfNaturals
  <2>3. i \in 1..Len(build[b].utxos)
    BY <1>2, <2>2 DEF Remaining, BuildState
  <2> QED
    BY <1>2, <2>2, <2>3 DEF BuildState
<1>5. Takeable(b, o)
  BY <1>4 DEF Remaining
<1>6. phase[b] \in InFlight
  BY <1>2 DEF InFlight
<1>7. CASE build[b].job.exact \/ o = build[b].first
  <2>1. UNCHANGED <<resv, ledger>>
    BY <1>7 DEF SelectInput
  <2> QED
    BY <1>1, <1>2, <1>6, <2>1, PhaseMoves
<1>8. CASE ~(build[b].job.exact \/ o = build[b].first)
  <2>1. resv' = [resv EXCEPT ![o] = stamp] /\ ledger' = [ledger EXCEPT ![b][o] = stamp]
    BY <1>8 DEF SelectInput
  <2>2. resv[o] <= build[b].now
    BY <1>5, <1>8 DEF Takeable
  <2>3. resv[o] <= clock
    BY <1>2, <1>4, <2>2 DEF BuildState
  <2> DEFINE W == {o}
  <2> HIDE DEF o, stamp
  <2>4. \A p \in W : resv[p] <= clock /\ resv'[p] = stamp /\ ledger'[b][p] = stamp
    BY <1>2, <1>4, <2>1, <2>3
  <2>5. \A p \in Outpoints \ W : ledger'[b][p] = ledger[b][p] /\ resv'[p] = resv[p]
    BY <1>2, <1>4, <2>1
  <2>6. \A d \in Calls \ {b} : ledger'[d] = ledger[d] /\ phase'[d] = phase[d]
    BY <1>2, <1>4, <2>1
  <2>7. W \in SUBSET Outpoints
    BY <1>4
  <2> HIDE DEF W
  <2> QED
    BY <1>1, <1>2, <1>3, <1>6, <2>4, <2>5, <2>6, <2>7, BuildTakes, ZenonT(60)
<1> QED
  BY <1>7, <1>8

\* Every step of a build keeps the book.
LEMMA BuildStepKeepsBook ==
    ASSUME Book, NEW b \in Builds, BuildStep(b)
    PROVE  Book'
<1>1. b \in Calls /\ phase \in [Calls -> Phases]
  BY DEF Calls, Book, Typed, TypeOK
<1>2. Typed'
  BY NextTyped DEF Book, Next
<1>3. CASE ClaimExactInputs(b)
  BY <1>3, ClaimExactInputsKeepsBook
<1>4. CASE ClaimFirstFreeInput(b)
  BY <1>4, ClaimFirstFreeInputKeepsBook
<1>5. CASE SelectInput(b)
  BY <1>5, SelectInputKeepsBook
<1>6. CASE StartSelection(b)
  <2>1. /\ phase[b] = "bound" /\ phase' = [phase EXCEPT ![b] = "selecting"]
        /\ resv' = Unexpired(resv, clock) /\ UNCHANGED <<clock, owners, tickets, ledger>>
    BY <1>6 DEF StartSelection
  <2>2. phase[b] \in InFlight /\ phase'[b] \in InFlight /\ \A d \in Calls \ {b} : phase'[d] = phase[d]
    BY <1>1, <2>1 DEF InFlight
  <2> QED
    BY <1>1, <1>2, <2>1, <2>2, PhaseMoves
<1>7. CASE EndSelection(b)
  <2>1. phase[b] \in InFlight /\ UNCHANGED <<clock, resv, owners, tickets, ledger>>
    BY <1>7 DEF EndSelection, InFlight
  <2>2. \/ Throw(b, "empty") \/ Throw(b, "race") \/ phase' = [phase EXCEPT ![b] = "settling"]
    BY <1>7 DEF EndSelection
  <2>3. phase'[b] \in InFlight /\ \A d \in Calls \ {b} : phase'[d] = phase[d]
    BY <1>1, <2>2 DEF Throw, InFlight
  <2> QED
    BY <1>1, <1>2, <2>1, <2>3, PhaseMoves
<1>8. CASE RefuseShort(b)
  <2>1. phase[b] \in InFlight /\ Throw(b, "short") /\ UNCHANGED <<clock, resv, owners, tickets, ledger>>
    BY <1>8 DEF RefuseShort, InFlight, maps
  <2> QED
    BY <1>1, <1>2, <2>1, ThrowMoves
<1>9. CASE FinishBuild(b)
  <2>1. phase[b] \in InFlight /\ UNCHANGED <<clock, resv, owners, tickets, ledger>>
    BY <1>9 DEF FinishBuild, InFlight
  <2>2. Throw(b, "duplicate") \/ phase' = [phase EXCEPT ![b] = "returning"]
    BY <1>9 DEF FinishBuild
  <2>3. phase'[b] \in InFlight /\ \A d \in Calls \ {b} : phase'[d] = phase[d]
    BY <1>1, <2>2 DEF Throw, InFlight
  <2> QED
    BY <1>1, <1>2, <2>1, <2>3, PhaseMoves
<1>10. CASE BuildThrows(b)
  <2>1. phase[b] \in InFlight /\ Throw(b, "other") /\ UNCHANGED <<clock, resv, owners, tickets, ledger>>
    BY <1>10 DEF BuildThrows, InFlight, maps
  <2> QED
    BY <1>1, <1>2, <2>1, ThrowMoves
<1> QED
  BY <1>3, <1>4, <1>5, <1>6, <1>7, <1>8, <1>9, <1>10 DEF BuildStep

\* Every step of an envelope cancel keeps the book.
LEMMA CancelStepKeepsBook ==
    ASSUME Book, NEW c \in Cancels, CancelStep(c)
    PROVE  Book'
<1>1. c \in Calls /\ phase \in [Calls -> Phases] /\ ledger \in [Calls -> [Outpoints -> Nat]]
  BY DEF Calls, Book, Typed, TypeOK
<1>2. Typed'
  BY NextTyped DEF Book, Next
<1>3. ASSUME NEW o \in Outpoints, ClaimCommitOutpoint(c, o) PROVE Book'
  <2>1. ClaimInv'
    BY <1>2, <1>3, CommitOutpointTaken DEF Book, ReceiptInv
  <2>2. phase[c] = "idle" /\ UNCHANGED <<clock, tickets>>
    BY <1>3 DEF ClaimCommitOutpoint
  <2>3. \/ Throw(c, "reserved") /\ UNCHANGED ledger
        \/ phase' = [phase EXCEPT ![c] = "pricing"] /\ ledger' = [ledger EXCEPT ![c][o] = clock + TTL]
    BY <1>3 DEF ClaimCommitOutpoint
  <2>4. /\ phase'[c] \notin {"returned", "idle"}
        /\ \A d \in Calls \ {c} : phase'[d] = phase[d] /\ ledger'[d] = ledger[d]
    BY <1>1, <2>3 DEF Throw
  <2>5. \A p \in Outpoints : ledger'[c][p] > 0 => p = o
    <3>1. \A p \in Outpoints : ledger[c][p] = 0
      BY <1>1, <2>2 DEF Book, ReceiptInv, NothingClaimedYet
    <3> QED
      BY <1>1, <2>3, <3>1
  <2>6. ReceiptInv'
    BY <1>1, <1>2, <2>2, <2>4, <2>5, ReceiptsUntouched DEF Book
  <2> QED
    BY <1>2, <2>1, <2>6 DEF Book
<1>4. CASE CancelBuilt(c)
  <2>1. /\ phase[c] \in InFlight /\ phase' = [phase EXCEPT ![c] = "returning"]
        /\ UNCHANGED <<clock, resv, owners, tickets, ledger>>
    BY <1>4 DEF CancelBuilt, InFlight, maps
  <2>2. phase'[c] \in InFlight /\ \A d \in Calls \ {c} : phase'[d] = phase[d]
    BY <1>1, <2>1 DEF InFlight
  <2> QED
    BY <1>1, <1>2, <2>1, <2>2, PhaseMoves
<1>5. CASE CancelThrows(c)
  <2>1. phase[c] \in InFlight /\ Throw(c, "other") /\ UNCHANGED <<clock, resv, owners, tickets, ledger>>
    BY <1>5 DEF CancelThrows, InFlight, maps
  <2> QED
    BY <1>1, <1>2, <2>1, ThrowMoves
<1> QED
  BY <1>3, <1>4, <1>5 DEF CancelStep

\* The catch blocks keep the book.
LEMMA ReleaseFailedKeepsBook ==
    ASSUME Book, NEW c \in Calls, ReleaseFailed(c)
    PROVE  Book'
<1>1. Typed'
  BY ReleaseFailedTyped DEF Book
<1>2. /\ phase[c] = "failing" /\ phase' = [phase EXCEPT ![c] = "failed"]
      /\ UNCHANGED <<clock, tickets, ledger>>
      /\ owners' = OwnersAfter(owners, c, ledger[c], clock)
      /\ resv' = TableAfter(resv, owners, c, ledger[c], clock)
  BY DEF ReleaseFailed, OwnersAfter, TableAfter
<1>3. /\ resv \in [Outpoints -> Nat] /\ owners \in [Outpoints -> [Cancels -> Nat]]
      /\ ledger[c] \in [Outpoints -> Nat] /\ phase \in [Calls -> Phases]
      /\ \A o \in Outpoints : resv[o] <= clock + TTL
      /\ \A o \in Outpoints, d \in Cancels : owners[o][d] <= clock + TTL
  BY DEF Book, Typed, TypeOK, StampsBounded
<1>4. /\ phase'[c] = "failed" /\ \A d \in Calls \ {c} : phase'[d] = phase[d]
  BY <1>2, <1>3
<1>5. Holding(c) /\ ~Holding(c)'
  BY <1>2, <1>4 DEF Holding, InFlight
<1>6. ClaimInv'
  BY <1>1, <1>2, <1>3, <1>4, <1>5, ClaimsGivenBack DEF Book
<1>7. \A o, p \in Outpoints : c \in Cancels /\ ledger'[c][o] > 0 /\ ledger'[c][p] > 0 => o = p
  BY <1>2 DEF Book, ReceiptInv, OneOutpointPerCancel
<1>8. ReceiptInv'
  BY <1>1, <1>2, <1>4, <1>7, ReceiptsUntouched DEF Book
<1> QED
  BY <1>1, <1>6, <1>8 DEF Book

\* mintReservationTicket keeps the book.
LEMMA MintTicketKeepsBook ==
    ASSUME Book, NEW c \in Calls, MintTicket(c)
    PROVE  Book'
<1>1. Typed'
  BY MintTicketTyped DEF Book
<1>2. /\ phase[c] = "returning" /\ phase' = [phase EXCEPT ![c] = "returned"]
      /\ tickets' = [EvictTickets(clock) EXCEPT ![c] = Receipt(c)]
      /\ UNCHANGED <<clock, resv, owners, ledger>>
  BY MintTicketEffect
<1>3. phase \in [Calls -> Phases] /\ EvictTickets(clock) \in [Calls -> Ticket]
  BY EvictTicketsType DEF Book, Typed, TypeOK
<1>4. /\ phase[c] \in InFlight /\ phase'[c] = "returned"
      /\ \A d \in Calls \ {c} : phase'[d] = phase[d]
  BY <1>2, <1>3 DEF InFlight
<1>5. \A d \in Calls, o \in Outpoints : LiveClaim(d, o)' <=> LiveClaim(d, o)
  BY <1>2, <1>4, SameHolders DEF Book, ReceiptInv
<1>6. ClaimInv'
  BY <1>1, <1>2, <1>5, ClaimsUntouched DEF Book
<1>7. ASSUME NEW d \in Calls, NEW o \in Outpoints
      PROVE  /\ phase'[d] # "returned" => tickets'[d] = NoTicket
             /\ Names(tickets'[d], d, o)
             /\ phase'[d] = "idle" => phase[d] = "idle"
  <2>1. CASE d = c
    BY <1>2, <1>3, <1>4, <2>1, ReceiptNames DEF Book
  <2>2. CASE d # c
    <3>1. tickets'[d] = EvictTickets(clock)[d]
      BY <1>2, <1>3, <2>2
    <3> QED
      BY <1>4, <2>2, <3>1, SweptTicketNames DEF Book
  <2> QED
    BY <2>1, <2>2
<1>8. ReceiptInv'
  BY <1>1, <1>2, <1>5, <1>7, TicketsChanged DEF Book
<1> QED
  BY <1>1, <1>6, <1>8 DEF Book

\* releaseReservation keeps the book, also when claims lapsed or changed hands since
\* the ticket was minted.
LEMMA ReleaseReservationKeepsBook ==
    ASSUME Book, NEW c \in Calls, ReleaseReservation(c)
    PROVE  Book'
<1> DEFINE table == Unexpired(resv, clock)
           own   == EvictOwners(clock)
           claims == tickets[c].claims
<1>1. Typed'
  BY ReleaseReservationTyped DEF Book
<1>2. /\ phase[c] = "returned" /\ tickets[c].expiry > clock
      /\ tickets' = [EvictTickets(clock) EXCEPT ![c] = NoTicket]
      /\ owners' = OwnersAfter(own, c, claims, clock)
      /\ resv' = TableAfter(table, own, c, claims, clock)
      /\ phase' = [phase EXCEPT ![c] = "released"]
      /\ UNCHANGED <<clock, ledger>>
  BY ReleaseReservationEffect DEF Book
<1>3. /\ clock \in Nat /\ phase \in [Calls -> Phases] /\ tickets[c] \in Ticket
      /\ EvictTickets(clock) \in [Calls -> Ticket]
  BY EvictTicketsType DEF Book, Typed, TypeOK
<1>4. /\ table \in [Outpoints -> Nat]
      /\ \A o \in Outpoints : table[o] <= clock + TTL
      /\ \A o \in Outpoints : resv[o] > clock \/ table[o] > clock => table[o] = resv[o]
  <2>1. /\ table \in [Outpoints -> Nat]
        /\ \A o \in Outpoints : /\ table[o] = IF resv[o] > clock THEN resv[o] ELSE 0
                                /\ table[o] <= clock + TTL
    BY SweptTable DEF Book
  <2> HIDE DEF table
  <2> QED
    BY <1>3, <2>1
<1>5. /\ own \in [Outpoints -> [Cancels -> Nat]]
      /\ \A o \in Outpoints, d \in Cancels : own[o][d] <= clock + TTL
      /\ \A o \in Outpoints, d \in Cancels :
            owners[o][d] > clock \/ own[o][d] > clock => own[o][d] = owners[o][d]
  <2>1. /\ own \in [Outpoints -> [Cancels -> Nat]]
        /\ \A o \in Outpoints, d \in Cancels :
              /\ own[o][d] = IF owners[o][d] > clock THEN owners[o][d] ELSE 0
              /\ own[o][d] <= clock + TTL
    BY SweptOwners DEF Book
  <2> HIDE DEF own
  <2> QED
    BY <1>3, <2>1
<1>6. phase'[c] = "released" /\ \A d \in Calls \ {c} : phase'[d] = phase[d]
  BY <1>2, <1>3
<1>7. Holding(c) /\ ~Holding(c)'
  BY <1>2, <1>6 DEF Holding, InFlight
<1>8. /\ claims \in [Outpoints -> Nat]
      /\ \A o \in Outpoints : /\ claims[o] \in {0, ledger[c][o]}
                              /\ ledger[c][o] > clock => claims[o] = ledger[c][o]
  <2>1. tickets[c].expiry > 0
    BY <1>2, <1>3 DEF Ticket
  <2> QED
    BY <1>3, <1>7, <2>1 DEF Ticket, Book, ReceiptInv, TicketsNameLiveClaims, LiveClaim
<1> HIDE DEF table, own, claims
<1>9. ClaimInv'
  BY <1>1, <1>2, <1>4, <1>5, <1>6, <1>7, <1>8, ClaimsGivenBack, SMTT(30) DEF Book
<1>10. ASSUME NEW d \in Calls, NEW o \in Outpoints
       PROVE  /\ phase'[d] # "returned" => tickets'[d] = NoTicket
              /\ Names(tickets'[d], d, o)
              /\ LiveClaim(d, o)' => LiveClaim(d, o)
              /\ phase'[d] = "idle" => phase[d] = "idle"
  <2>1. LiveClaim(d, o)' => LiveClaim(d, o)
    BY <1>2, <1>6, <1>7 DEF LiveClaim, Holding
  <2>2. CASE d = c
    BY <1>2, <1>3, <1>6, <2>1, <2>2, NoTicketNames
  <2>3. CASE d # c
    <3>1. tickets'[d] = EvictTickets(clock)[d]
      BY <1>2, <1>3, <2>3
    <3> QED
      BY <1>6, <2>1, <2>3, <3>1, SweptTicketNames DEF Book
  <2> QED
    BY <2>2, <2>3
<1>11. ReceiptInv'
  BY <1>1, <1>2, <1>10, TicketsChanged DEF Book
<1> QED
  BY <1>1, <1>9, <1>11 DEF Book

\* The sweeps drop only what is dead.
LEMMA ReleaseUnknownKeepsBook ==
    ASSUME Book, ReleaseUnknown
    PROVE  Book'
<1>1. Typed'
  BY ReleaseUnknownTyped DEF Book
<1>2. /\ resv' = Unexpired(resv, clock) /\ owners' = EvictOwners(clock)
      /\ tickets' = EvictTickets(clock) /\ UNCHANGED <<clock, phase, ledger>>
  BY DEF ReleaseUnknown
<1>3. clock \in Nat
  BY DEF Book, Typed, TypeOK
<1>4. \A o \in Outpoints : resv[o] > clock \/ resv'[o] > clock => resv'[o] = resv[o]
  <2>1. \A o \in Outpoints : resv'[o] = IF resv[o] > clock THEN resv[o] ELSE 0
    BY <1>2, SweptTable DEF Book
  <2> QED
    BY <1>3, <2>1
<1>5. \A o \in Outpoints, d \in Cancels :
          owners[o][d] > clock \/ owners'[o][d] > clock => owners'[o][d] = owners[o][d]
  <2>1. \A o \in Outpoints, d \in Cancels : owners'[o][d] = IF owners[o][d] > clock THEN owners[o][d] ELSE 0
    BY <1>2, SweptOwners DEF Book
  <2> QED
    BY <1>3, <2>1
<1>6. \A d \in Calls, o \in Outpoints : LiveClaim(d, o)' <=> LiveClaim(d, o)
  BY <1>2 DEF LiveClaim, Holding
<1>7. ClaimInv'
  BY <1>1, <1>2, <1>4, <1>5, <1>6, ClaimsUntouched DEF Book
<1>8. ReceiptInv'
  BY <1>1, <1>2, <1>6, SweptTicketNames, TicketsChanged DEF Book
<1> QED
  BY <1>1, <1>7, <1>8 DEF Book

\* The empty book is in order.
LEMMA InitBook == Init => Book
<1> SUFFICES ASSUME Init PROVE Book
  OBVIOUS
<1>1. Typed
  BY InitTyped
<1>2. /\ clock = 0 /\ resv = [o \in Outpoints |-> 0]
      /\ owners = [o \in Outpoints |-> [c \in Cancels |-> 0]]
      /\ tickets = [c \in Calls |-> NoTicket]
      /\ ledger = [c \in Calls |-> [o \in Outpoints |-> 0]]
      /\ phase = [c \in Calls |-> "idle"]
  BY DEF Init
<1>3. Cancels \subseteq Calls /\ Builds \subseteq Calls
  BY DEF Calls
<1>4. \A c \in Calls, o \in Outpoints : ~LiveClaim(c, o)
  BY <1>2 DEF LiveClaim
<1>5. ClaimInv
  BY <1>2, <1>3, <1>4 DEF ClaimInv, LiveClaimsExclusive, LiveClaimsReserved, NoOrphanReservation,
                          BuildStampHeld, OwnersAreLiveCancels
<1>6. ReceiptInv
  <2>1. \A o \in Outpoints : NoTicket.claims[o] = 0 /\ NoTicket.expiry = 0
    BY DEF NoTicket
  <2>2. TicketsNameLiveClaims
    BY <1>2, <2>1 DEF TicketsNameLiveClaims
  <2> QED
    BY <1>2, <1>3, <2>2 DEF ReceiptInv, OneOutpointPerCancel, NothingClaimedYet
<1> QED
  BY <1>1, <1>5, <1>6 DEF Book

\* Every step keeps the book.
LEMMA NextBook == Book /\ [Next]_vars => Book'
<1> SUFFICES ASSUME Book, [Next]_vars PROVE Book'
  OBVIOUS
<1>1. Typed'
  BY NextTyped DEF Book
<1>2. CASE \E b \in Builds : BuildStep(b)
  BY <1>2, BuildStepKeepsBook
<1>3. CASE \E c \in Cancels : CancelStep(c)
  BY <1>3, CancelStepKeepsBook
<1>4. CASE \E c \in Calls : ReleaseFailed(c) \/ MintTicket(c) \/ ReleaseReservation(c)
  BY <1>4, ReleaseFailedKeepsBook, MintTicketKeepsBook, ReleaseReservationKeepsBook
<1>5. CASE ReleaseUnknown
  BY <1>5, ReleaseUnknownKeepsBook
<1>6. CASE Tick
  BY <1>1, <1>6, TimePasses, TimePassesReceipts DEF Book
<1>7. CASE UNCHANGED vars
  <2>1. ClaimInv' /\ ReceiptInv'
    BY <1>7 DEF vars, Book, ClaimInv, LiveClaimsExclusive, LiveClaimsReserved, NoOrphanReservation,
                BuildStampHeld, OwnersAreLiveCancels, ReceiptInv, TicketsNameLiveClaims,
                OneOutpointPerCancel, NothingClaimedYet, LiveClaim, Holding
  <2> QED
    BY <1>1, <2>1 DEF Book
<1> QED
  BY <1>2, <1>3, <1>4, <1>5, <1>6, <1>7 DEF Next

\* The book's inductive invariant.
THEOREM BookKept == Spec => []BookInv
<1>1. Book => BookInv
  BY DEF Book, BookInv, Typed
<1> QED
  BY <1>1, InitBook, NextBook, PTL DEF Spec

\* No outpoint is ever claimed by two calls that may not share it.
THEOREM ClaimsAreExclusive == Spec => []LiveClaimsExclusive
<1>1. BookInv => LiveClaimsExclusive
  BY DEF BookInv, ClaimInv
<1> QED
  BY <1>1, BookKept, PTL

\* No failure, release or sweep takes an outpoint from a call that holds it.
THEOREM ClaimsStayReserved == Spec => []LiveClaimsReserved
<1>1. BookInv => LiveClaimsReserved
  BY DEF BookInv, ClaimInv
<1> QED
  BY <1>1, BookKept, PTL

\* No reservation outlives the call that answers for it.
THEOREM NothingOrphaned == Spec => []NoOrphanReservation
<1>1. BookInv => NoOrphanReservation
  BY DEF BookInv, ClaimInv
<1> QED
  BY <1>1, BookKept, PTL

\* The store and the calls agree on who holds what, however the calls end.
THEOREM StoreAgrees == Spec => []ReservedIffClaimed
<1>1. BookInv => ReservedIffClaimed
  BY DEF BookInv, ClaimInv, ReservedIffClaimed
<1> QED
  BY <1>1, BookKept, PTL

-----------------------------------------------------------------------------
(* The results.  A build's key, its inputs and its receipt are its own, so  *)
(* that most steps leave them alone; the records of recent builds are       *)
(* shared.                                                                  *)

\* What a step of another call, a sweep or the passing of time leaves to build b.
Apart(b) ==
    /\ phase'[b] = phase[b] /\ build'[b] = build[b]
    /\ ledger'[b] = ledger[b] /\ err'[b] = err[b]
    /\ tickets'[b] \in {tickets[b], EvictTickets(clock)[b]}

\* A throw is the thrower's affair.
LEMMA ThrowApart ==
    ASSUME TypeOK, NEW d \in Calls, NEW why, Throw(d, why)
    PROVE  \A c \in Calls \ {d} : phase'[c] = phase[c] /\ err'[c] = err[c]
BY DEF Throw, TypeOK

\* Every step of a build is apart from the other builds.
LEMMA BuildStepApart ==
    ASSUME TypeOK, NEW d \in Builds, BuildStep(d), NEW b \in Builds, b # d
    PROVE  Apart(b)
<1>1. /\ b \in Calls \ {d} /\ d \in Calls /\ phase \in [Calls -> Phases] /\ err \in [Calls -> Errors]
      /\ ledger \in [Calls -> [Outpoints -> Nat]] /\ build \in [Builds -> BuildState]
  BY SMTT(30) DEF Calls, TypeOK
<1>2. tickets' = tickets
  BY ZenonT(60) DEF BuildStep, ClaimExactInputs, ClaimFirstFreeInput, StartSelection, SelectInput,
         EndSelection, RefuseShort, FinishBuild, BuildThrows, maps
<1>3. \/ \E why : Throw(d, why)
      \/ phase'[b] = phase[b] /\ err' = err
  BY <1>1, Zenon DEF BuildStep, ClaimExactInputs, ClaimFirstFreeInput, StartSelection, SelectInput,
         EndSelection, RefuseShort, FinishBuild, BuildThrows, AfterBind
<1>4. phase'[b] = phase[b] /\ err'[b] = err[b]
  BY <1>1, <1>3, ThrowApart
<1>5. ledger'[b] = ledger[b]
  <2>1. CASE ClaimExactInputs(d)
    BY <1>1, <2>1, SMTT(30) DEF ClaimExactInputs
  <2>2. CASE ClaimFirstFreeInput(d)
    BY <1>1, <2>2, Zenon DEF ClaimFirstFreeInput
  <2>3. CASE SelectInput(d)
    BY <1>1, <2>3 DEF SelectInput
  <2>4. CASE ~(ClaimExactInputs(d) \/ ClaimFirstFreeInput(d) \/ SelectInput(d))
    BY <2>4, SMTT(30) DEF BuildStep, StartSelection, EndSelection, RefuseShort, FinishBuild, BuildThrows
  <2> QED
    BY <2>1, <2>2, <2>3, <2>4
<1>6. build'[b] = build[b]
  <2>1. CASE ClaimFirstFreeInput(d)
    BY <1>1, <2>1, Zenon DEF ClaimFirstFreeInput
  <2>2. CASE StartSelection(d)
    BY <1>1, <2>2 DEF StartSelection
  <2>3. CASE SelectInput(d)
    BY <1>1, <2>3 DEF SelectInput
  <2>4. CASE ~(ClaimFirstFreeInput(d) \/ StartSelection(d) \/ SelectInput(d))
    BY <2>4 DEF BuildStep, ClaimExactInputs, EndSelection, RefuseShort, FinishBuild, BuildThrows
  <2> QED
    BY <2>1, <2>2, <2>3, <2>4
<1> QED
  BY <1>2, <1>4, <1>5, <1>6 DEF Apart

\* Whose step it is.
LEMMA StepsApart ==
    ASSUME Typed, [Next]_vars, NEW b \in Builds
    PROVE  \/ BuildStep(b) \/ ReleaseFailed(b) \/ MintTicket(b) \/ ReleaseReservation(b)
           \/ Apart(b)
<1>1. /\ b \in Calls /\ TypeOK /\ phase \in [Calls -> Phases] /\ err \in [Calls -> Errors]
      /\ ledger \in [Calls -> [Outpoints -> Nat]] /\ EvictTickets(clock) \in [Calls -> Ticket]
      /\ b \notin Cancels
  BY EvictTicketsType, ReservationsAssumption DEF Calls, Typed, TypeOK
<1>2. ASSUME NEW d \in Builds, BuildStep(d), d # b PROVE Apart(b)
  BY <1>1, <1>2, BuildStepApart
<1>3. ASSUME NEW c \in Cancels, CancelStep(c) PROVE Apart(b)
  <2>1. c # b /\ c \in Calls
    BY <1>1 DEF Calls
  <2>2. tickets' = tickets /\ build' = build
    BY <1>3 DEF CancelStep, ClaimCommitOutpoint, CancelBuilt, CancelThrows, maps
  <2>3. \/ \E why : Throw(c, why)
        \/ phase'[b] = phase[b] /\ err' = err
    BY <1>1, <1>3, <2>1 DEF CancelStep, ClaimCommitOutpoint, CancelBuilt, CancelThrows
  <2>4. phase'[b] = phase[b] /\ err'[b] = err[b]
    BY <1>1, <2>1, <2>3, ThrowApart
  <2>5. ledger'[b] = ledger[b]
    BY <1>1, <1>3, <2>1 DEF CancelStep, ClaimCommitOutpoint, CancelBuilt, CancelThrows
  <2> QED
    BY <2>2, <2>4, <2>5 DEF Apart
<1>4. ASSUME NEW c \in Calls, c # b, ReleaseFailed(c) PROVE Apart(b)
  BY <1>1, <1>4 DEF ReleaseFailed, Apart
<1>5. ASSUME NEW c \in Calls, c # b, MintTicket(c) PROVE Apart(b)
  <2>1. /\ tickets' = [EvictTickets(clock) EXCEPT ![c] = Receipt(c)]
        /\ phase' = [phase EXCEPT ![c] = "returned"] /\ UNCHANGED <<ledger, build, err>>
    BY <1>5, MintTicketEffect
  <2> QED
    BY <1>1, <1>5, <2>1 DEF Apart
<1>6. ASSUME NEW c \in Calls, c # b, ReleaseReservation(c) PROVE Apart(b)
  <2>1. /\ tickets' = [EvictTickets(clock) EXCEPT ![c] = NoTicket]
        /\ phase' = [phase EXCEPT ![c] = "released"] /\ UNCHANGED <<ledger, build, err>>
    BY <1>6, ReleaseReservationEffect
  <2> QED
    BY <1>1, <1>6, <2>1 DEF Apart
<1>7. CASE ReleaseUnknown
  BY <1>7 DEF ReleaseUnknown, Apart
<1>8. CASE Tick
  BY <1>8 DEF Tick, maps, Apart
<1>9. CASE UNCHANGED vars
  BY <1>9 DEF vars, Apart
<1> QED
  BY <1>2, <1>3, <1>4, <1>5, <1>6, <1>7, <1>8, <1>9 DEF Next

\* What FirstLeads and KeyBoundToFirstInput say of one build.
Key(b) ==
    /\ phase[b] \in {"idle", "bound"} => build[b].ins = <<>> /\ build[b].pos = 1
    /\ phase[b] = "idle" => build[b].first = NoOutpoint /\ err[b] = "none"
    /\ phase[b] \in {"settling", "returning", "returned"} => build[b].ins # <<>>
    /\ build[b].first # NoOutpoint =>
          /\ build[b].utxos # <<>> /\ build[b].utxos[1] = build[b].first
          /\ build[b].key = TxOf[build[b].first]
          /\ build[b].ins = <<>> => build[b].pos = 1
          /\ build[b].ins # <<>> => build[b].ins[1] = build[b].first
    /\ err[b] = "race" => build[b].first = NoOutpoint
    /\ phase[b] \in {"settling", "returning", "returned"} /\ build[b].job.keyed =>
          TxOf[build[b].ins[1]] = build[b].key

\* What SelectedIsClaimed says of it.
Selected(b) ==
    /\ \A i \in DOMAIN build[b].ins : ledger[b][build[b].ins[i]] > 0
    /\ build[b].first # NoOutpoint => ledger[b][build[b].first] > 0
    /\ build[b].job.exact /\ phase[b] \in {"bound", "selecting"} =>
          \A i \in DOMAIN build[b].utxos : ledger[b][build[b].utxos[i]] > 0

\* claimExactInputs claims all it will select.
LEMMA ClaimExactInputsKey ==
    ASSUME Book, NEW b \in Builds, ClaimExactInputs(b), Key(b), Selected(b)
    PROVE  Key(b)' /\ Selected(b)'
<1> DEFINE table == Unexpired(resv, clock)
           named == ToSet(build[b].utxos)
<1>1. /\ b \in Calls /\ phase[b] = "idle" /\ build' = build
      /\ clock \in Nat /\ clock + TTL > 0
      /\ phase \in [Calls -> Phases] /\ err \in [Calls -> Errors]
      /\ ledger \in [Calls -> [Outpoints -> Nat]]
      /\ build[b].utxos \in Seq(Outpoints)
  BY ReservationsAssumption DEF ClaimExactInputs, Calls, Book, Typed, TypeOK, BuildState
<1>2. build[b].ins = <<>> /\ build[b].pos = 1 /\ build[b].first = NoOutpoint /\ err[b] = "none"
  BY <1>1 DEF Key
<1>3. CASE \E o \in named : table[o] > 0
  <2>1. Throw(b, "reserved") /\ ledger' = ledger
    BY <1>3 DEF ClaimExactInputs
  <2>2. phase'[b] = "failing" /\ err'[b] = "reserved"
    BY <1>1, <2>1 DEF Throw
  <2> QED
    BY <1>1, <1>2, <2>1, <2>2 DEF Key, Selected
<1>4. CASE ~ \E o \in named : table[o] > 0
  <2>1. /\ ledger' = [ledger EXCEPT ![b] =
                        [o \in Outpoints |-> IF o \in named THEN clock + TTL ELSE 0]]
        /\ phase' = [phase EXCEPT ![b] = "bound"] /\ err' = err
    BY <1>4 DEF ClaimExactInputs, AfterBind
  <2>2. \A i \in DOMAIN build[b].utxos : build[b].utxos[i] \in named /\ build[b].utxos[i] \in Outpoints
    BY <1>1 DEF ToSet
  <2> HIDE DEF table, named
  <2>3. phase'[b] = "bound" /\ \A i \in DOMAIN build[b].utxos : ledger'[b][build[b].utxos[i]] > 0
    BY <1>1, <2>1, <2>2
  <2>4. Key(b)'
    BY <1>1, <1>2, <2>1, <2>3 DEF Key
  <2>5. Selected(b)'
    BY <1>1, <1>2, <2>3 DEF Selected
  <2> QED
    BY <2>4, <2>5
<1> QED
  BY <1>3, <1>4

\* claimFirstFreeInput puts what it claims at the head and takes its key from it.
LEMMA ClaimFirstFreeInputKey ==
    ASSUME Book, NEW b \in Builds, ClaimFirstFreeInput(b), Key(b), Selected(b)
    PROVE  Key(b)' /\ Selected(b)'
<1> DEFINE table == Unexpired(resv, clock)
           utxos == build[b].utxos
           free  == {i \in DOMAIN utxos : table[utxos[i]] = 0}
           i     == Min(free)
           o     == utxos[i]
           r     == [build[b] EXCEPT !.first = o, !.key = TxOf[o], !.utxos = HeadFirst(utxos, i)]
<1>1. /\ b \in Calls /\ phase[b] = "idle" /\ err' = err /\ ~build[b].job.exact
      /\ clock \in Nat /\ clock + TTL > 0
      /\ phase \in [Calls -> Phases] /\ phase' = [phase EXCEPT ![b] = "bound"]
      /\ ledger \in [Calls -> [Outpoints -> Nat]]
      /\ build[b] \in BuildState /\ build \in [Builds -> BuildState]
  <2>1. phase[b] = "idle" /\ AfterBind(b) /\ err' = err /\ ~build[b].job.exact
    BY Zenon DEF ClaimFirstFreeInput
  <2>2. phase' = [phase EXCEPT ![b] = "bound"]
    BY <2>1 DEF AfterBind
  <2> QED
    BY <2>1, <2>2, ReservationsAssumption, SMTT(30) DEF Calls, Book, Typed, TypeOK
<1>2. build[b].ins = <<>> /\ build[b].pos = 1 /\ build[b].first = NoOutpoint /\ err[b] = "none"
  BY <1>1 DEF Key
<1>3. phase'[b] = "bound"
  BY <1>1
<1>4. CASE free = {}
  <2>1. ledger' = ledger /\ build' = build
    BY <1>4, SMTT(30) DEF ClaimFirstFreeInput
  <2> QED
    BY <1>1, <1>2, <1>3, <2>1 DEF Key, Selected
<1>5. CASE free # {}
  <2>1. /\ ledger' = [ledger EXCEPT ![b][o] = clock + TTL]
        /\ build' = [build EXCEPT ![b] = r]
    BY <1>5, Zenon DEF ClaimFirstFreeInput
  <2>2. utxos \in Seq(Outpoints)
    BY <1>1 DEF BuildState
  <2>3. i \in DOMAIN utxos /\ o \in Outpoints
    <3>1. free \in SUBSET Nat /\ free # {}
      BY <1>5, <2>2
    <3>2. i \in free
      BY <3>1, MinOfNaturals
    <3> HIDE DEF i, utxos, table
    <3>3. i \in DOMAIN utxos
      BY <3>2
    <3>4. utxos[i] \in Outpoints
      BY <2>2, <3>3
    <3> QED
      BY <3>3, <3>4
  <2>4. /\ r.first = o /\ r.key = TxOf[o] /\ r.utxos = HeadFirst(utxos, i)
        /\ r.ins = <<>> /\ r.pos = 1 /\ r.job = build[b].job
    BY <1>1, <1>2 DEF BuildState
  <2>5. HeadFirst(utxos, i) # <<>> /\ HeadFirst(utxos, i)[1] = o
    BY <2>2, <2>3, HeadFirstType
  <2> HIDE DEF o, r, i, utxos, table
  <2>6. build'[b] = r /\ ledger'[b][o] > 0
    BY <1>1, <2>1, <2>3
  <2>7. Key(b)'
    BY <1>1, <1>2, <1>3, <2>4, <2>5, <2>6 DEF Key
  <2>8. Selected(b)'
    BY <1>1, <2>4, <2>6 DEF Selected
  <2> QED
    BY <2>7, <2>8
<1> QED
  BY <1>4, <1>5

\* What joins a sequence joins it at the end.
LEMMA AppendedLast ==
    ASSUME NEW S, NEW s \in Seq(S), NEW e \in S
    PROVE  /\ Append(s, e) # <<>>
           /\ s = <<>> => Append(s, e)[1] = e
           /\ s # <<>> => Append(s, e)[1] = s[1]
           /\ \A j \in DOMAIN Append(s, e) :
                 Append(s, e)[j] = e \/ (j \in DOMAIN s /\ Append(s, e)[j] = s[j])
<1>1. Append(s, e) \in Seq(S) /\ Len(Append(s, e)) = Len(s) + 1
  OBVIOUS
<1>2. \A j \in 1..(Len(s) + 1) : Append(s, e)[j] = IF j = Len(s) + 1 THEN e ELSE s[j]
  OBVIOUS
<1>3. s # <<>> => Len(s) > 0
  OBVIOUS
<1>4. DOMAIN Append(s, e) = 1..(Len(s) + 1) /\ DOMAIN s = 1..Len(s) /\ Len(s) \in Nat
  BY <1>1
<1>5. Append(s, e) # <<>>
  BY <1>1, <1>4
<1>6. s = <<>> => Append(s, e)[1] = e
  BY <1>2
<1>7. s # <<>> => Append(s, e)[1] = s[1]
  BY <1>2, <1>3, <1>4
<1>8. \A j \in DOMAIN Append(s, e) :
          Append(s, e)[j] = e \/ (j \in DOMAIN s /\ Append(s, e)[j] = s[j])
  BY <1>2, <1>4
<1> QED
  BY <1>5, <1>6, <1>7, <1>8

\* selectInputs takes the claimed outpoint first, and nothing it has not claimed.
LEMMA SelectInputKey ==
    ASSUME Book, NEW b \in Builds, SelectInput(b), Key(b), Selected(b)
    PROVE  Key(b)' /\ Selected(b)'
<1> DEFINE i     == Min(Remaining(b))
           o     == build[b].utxos[i]
           stamp == build[b].now + TTL
           r     == [build[b] EXCEPT !.ins = Append(@, o), !.pos = i + 1]
<1>1. /\ b \in Calls /\ phase[b] = "selecting" /\ phase' = phase /\ err' = err
      /\ ledger \in [Calls -> [Outpoints -> Nat]]
      /\ build[b] \in BuildState /\ build \in [Builds -> BuildState]
      /\ build' = [build EXCEPT ![b] = r]
  BY DEF SelectInput, Calls, Book, Typed, TypeOK
<1>2. /\ build[b].utxos \in Seq(Outpoints) /\ build[b].ins \in Seq(Outpoints)
      /\ build[b].pos \in Nat \ {0} /\ build[b].now \in Nat
  BY <1>1 DEF BuildState
<1>3. /\ i \in Remaining(b) /\ i \in 1..Len(build[b].utxos) /\ o \in Outpoints
      /\ \A j \in Remaining(b) : i <= j
  <2>1. Remaining(b) \in SUBSET Nat
    BY <1>2 DEF Remaining
  <2>2. Remaining(b) # {}
    BY DEF SelectInput
  <2>3. i \in Remaining(b) /\ \A j \in Remaining(b) : i <= j
    BY <2>1, <2>2, MinOfNaturals
  <2>4. i \in 1..Len(build[b].utxos)
    BY <1>2, <2>3 DEF Remaining
  <2> HIDE DEF i
  <2> QED
    BY <1>2, <2>3, <2>4
<1>4. stamp > 0
  BY <1>2, ReservationsAssumption
<1>5. /\ r.ins = Append(build[b].ins, o) /\ r.first = build[b].first /\ r.key = build[b].key
      /\ r.utxos = build[b].utxos /\ r.job = build[b].job
  BY <1>1 DEF BuildState
<1>6. \/ /\ ledger' = ledger /\ (build[b].job.exact \/ o = build[b].first)
      \/ ledger' = [ledger EXCEPT ![b][o] = stamp]
  BY DEF SelectInput
<1> HIDE DEF i, stamp, r
<1>7. build'[b] = r /\ phase'[b] = "selecting"
  BY <1>1
<1>8. ASSUME build[b].first # NoOutpoint, build[b].ins = <<>> PROVE o = build[b].first
  <2>1. /\ build[b].utxos # <<>> /\ build[b].utxos[1] = build[b].first /\ build[b].pos = 1
    BY <1>8 DEF Key
  <2>2. Takeable(b, build[b].utxos[1])
    BY <2>1 DEF Takeable
  <2>3. 1 \in Remaining(b)
    <3>1. 1 \in build[b].pos..Len(build[b].utxos)
      BY <1>2, <2>1
    <3> QED
      BY <2>2, <3>1 DEF Remaining
  <2>4. i = 1
    BY <1>3, <2>3
  <2> QED
    BY <2>1, <2>4
<1>9. /\ Append(build[b].ins, o) # <<>>
      /\ build[b].ins = <<>> => Append(build[b].ins, o)[1] = o
      /\ build[b].ins # <<>> => Append(build[b].ins, o)[1] = build[b].ins[1]
      /\ \A j \in DOMAIN Append(build[b].ins, o) :
            \/ Append(build[b].ins, o)[j] = o
            \/ j \in DOMAIN build[b].ins /\ Append(build[b].ins, o)[j] = build[b].ins[j]
  BY <1>2, <1>3, AppendedLast
<1>10. ledger[b][o] > 0 \/ ledger' = [ledger EXCEPT ![b][o] = stamp]
  <2>1. CASE build[b].job.exact
    BY <1>1, <1>2, <1>3, <2>1 DEF Selected
  <2>2. CASE o = build[b].first
    <3>1. build[b].first # NoOutpoint
      BY <1>3, <2>2, ReservationsAssumption
    <3> QED
      BY <2>2, <3>1 DEF Selected
  <2> QED
    BY <1>6, <2>1, <2>2
<1>11. /\ ledger'[b][o] > 0
       /\ \A p \in Outpoints : ledger[b][p] > 0 => ledger'[b][p] > 0
  BY <1>1, <1>3, <1>4, <1>6, <1>10, Zenon
<1> HIDE DEF o
<1>12. Key(b)'
  BY <1>1, <1>5, <1>7, <1>8, <1>9 DEF Key
<1>13. \A j \in DOMAIN r.ins : ledger'[b][r.ins[j]] > 0
  <2>1. \A j \in DOMAIN build[b].ins : build[b].ins[j] \in Outpoints
    BY <1>2
  <2> QED
    BY <1>5, <1>9, <1>11, <2>1 DEF Selected
<1>14. build[b].first # NoOutpoint => ledger'[b][build[b].first] > 0
  <2>1. build[b].first # NoOutpoint => build[b].first \in Outpoints
    BY <1>1 DEF BuildState
  <2> QED
    BY <1>11, <2>1 DEF Selected
<1>15. build[b].job.exact => \A j \in DOMAIN build[b].utxos : ledger'[b][build[b].utxos[j]] > 0
  BY <1>1, <1>2, <1>11 DEF Selected
<1>16. Selected(b)'
  BY <1>5, <1>7, <1>13, <1>14, <1>15 DEF Selected
<1> QED
  BY <1>12, <1>16

\* The end of the walk sees the key it started from, or a build that claimed nothing.
LEMMA EndSelectionKey ==
    ASSUME Book, NEW b \in Builds, EndSelection(b), Key(b), Selected(b)
    PROVE  Key(b)' /\ Selected(b)'
<1> DEFINE race == build[b].job.keyed /\ TxOf[build[b].ins[1]] # build[b].key
<1>1. /\ b \in Calls /\ phase[b] = "selecting" /\ build' = build /\ ledger' = ledger
      /\ phase \in [Calls -> Phases] /\ err \in [Calls -> Errors]
  BY DEF EndSelection, Calls, Book, Typed, TypeOK
<1>2. \/ Throw(b, "empty")
      \/ build[b].ins # <<>> /\ race /\ Throw(b, "race")
      \/ build[b].ins # <<>> /\ ~race /\ phase' = [phase EXCEPT ![b] = "settling"] /\ err' = err
  BY DEF EndSelection
<1>3. Selected(b)'
  <2>1. phase'[b] \in {"failing", "settling"}
    BY <1>1, <1>2 DEF Throw
  <2> QED
    BY <1>1, <2>1 DEF Selected
<1>4. CASE Throw(b, "empty")
  <2>1. phase'[b] = "failing" /\ err'[b] = "empty"
    BY <1>1, <1>4 DEF Throw
  <2> QED
    BY <1>1, <1>3, <2>1 DEF Key
<1>5. CASE build[b].ins # <<>> /\ race /\ Throw(b, "race")
  <2>1. phase'[b] = "failing" /\ err'[b] = "race"
    BY <1>1, <1>5 DEF Throw
  <2>2. build[b].first = NoOutpoint
    BY <1>5 DEF Key
  <2> QED
    BY <1>1, <1>3, <2>1, <2>2 DEF Key
<1>6. CASE build[b].ins # <<>> /\ ~race /\ phase' = [phase EXCEPT ![b] = "settling"] /\ err' = err
  <2>1. phase'[b] = "settling"
    BY <1>1, <1>6
  <2> QED
    BY <1>1, <1>3, <1>6, <2>1 DEF Key
<1> QED
  BY <1>2, <1>4, <1>5, <1>6

\* Every step of a build keeps its key and its selection.
LEMMA BuildStepKey ==
    ASSUME Book, NEW b \in Builds, BuildStep(b), Key(b), Selected(b)
    PROVE  Key(b)' /\ Selected(b)'
<1>1. b \in Calls /\ phase \in [Calls -> Phases] /\ err \in [Calls -> Errors] /\ build \in [Builds -> BuildState]
  BY DEF Calls, Book, Typed, TypeOK
<1>2. CASE StartSelection(b)
  <2>1. /\ phase[b] = "bound" /\ phase'[b] = "selecting" /\ err' = err /\ ledger' = ledger
        /\ build'[b] = [build[b] EXCEPT !.now = clock]
    BY <1>1, <1>2 DEF StartSelection
  <2> DEFINE r == build'[b]
  <2>2. /\ r.ins = build[b].ins /\ r.pos = build[b].pos /\ r.first = build[b].first
        /\ r.key = build[b].key /\ r.utxos = build[b].utxos /\ r.job = build[b].job
    BY <1>1, <2>1 DEF BuildState
  <2>3. Key(b)'
    BY <2>1, <2>2 DEF Key
  <2>4. Selected(b)'
    BY <2>1, <2>2 DEF Selected
  <2> QED
    BY <2>3, <2>4
<1>3. CASE FinishBuild(b)
  <2>1. phase[b] = "settling" /\ build' = build /\ ledger' = ledger
    BY <1>3 DEF FinishBuild
  <2>2. \/ Throw(b, "duplicate")
        \/ phase' = [phase EXCEPT ![b] = "returning"] /\ err' = err
    BY <1>3 DEF FinishBuild
  <2>3. \/ phase'[b] = "failing" /\ err'[b] = "duplicate"
        \/ phase'[b] = "returning" /\ err'[b] = err[b]
    BY <1>1, <2>2 DEF Throw
  <2>4. Key(b)'
    BY <2>1, <2>3 DEF Key
  <2>5. Selected(b)'
    BY <2>1, <2>3 DEF Selected
  <2> QED
    BY <2>4, <2>5
<1>4. CASE RefuseShort(b) \/ BuildThrows(b)
  <2>1. build' = build /\ ledger' = ledger /\ \E why \in {"short", "other"} : Throw(b, why)
    BY <1>4 DEF RefuseShort, BuildThrows
  <2>2. phase'[b] = "failing" /\ err'[b] \in {"short", "other"}
    BY <1>1, <2>1 DEF Throw
  <2>3. Key(b)'
    BY <2>1, <2>2 DEF Key
  <2>4. Selected(b)'
    BY <2>1, <2>2 DEF Selected
  <2> QED
    BY <2>3, <2>4
<1> QED
  BY <1>2, <1>3, <1>4, ClaimExactInputsKey, ClaimFirstFreeInputKey, SelectInputKey, EndSelectionKey
  DEF BuildStep

\* Every step keeps every build's key and selection.
LEMMA StepKey ==
    ASSUME Book, [Next]_vars, NEW b \in Builds, Key(b), Selected(b)
    PROVE  Key(b)' /\ Selected(b)'
<1>1. b \in Calls /\ phase \in [Calls -> Phases]
  BY DEF Calls, Book, Typed, TypeOK
<1>2. CASE BuildStep(b)
  BY <1>2, BuildStepKey
<1>3. CASE ReleaseFailed(b) \/ MintTicket(b) \/ ReleaseReservation(b)
  <2>1. UNCHANGED <<ledger, build, err>>
    BY <1>3 DEF ReleaseFailed, MintTicket, ReleaseReservation
  <2>2. \/ phase'[b] \in {"failed", "released"}
        \/ phase[b] = "returning" /\ phase'[b] = "returned"
    BY <1>1, <1>3 DEF ReleaseFailed, MintTicket, ReleaseReservation
  <2>3. Key(b)'
    BY <2>1, <2>2 DEF Key
  <2>4. Selected(b)'
    BY <2>1, <2>2 DEF Selected
  <2> QED
    BY <2>3, <2>4
<1>4. CASE Apart(b)
  <2>1. Key(b)'
    BY <1>4 DEF Apart, Key
  <2>2. Selected(b)'
    BY <1>4 DEF Apart, Selected
  <2> QED
    BY <2>1, <2>2
<1> QED
  BY <1>2, <1>3, <1>4, StepsApart DEF Book

\* Time does not run backwards.
LEMMA ClockAdvances ==
    ASSUME Typed, [Next]_vars
    PROVE  clock' \in Nat /\ clock' >= clock
<1>1. clock' = clock \/ clock' = clock + 1
  BY ZenonT(60) DEF Next, vars, BuildStep, CancelStep, ClaimExactInputs, ClaimFirstFreeInput, StartSelection,
         SelectInput, EndSelection, RefuseShort, FinishBuild, BuildThrows, ClaimCommitOutpoint,
         CancelBuilt, CancelThrows, ReleaseFailed, MintTicket, ReleaseReservation, ReleaseUnknown, Tick
<1> QED
  BY <1>1, SMTT(30) DEF Typed, TypeOK

\* Every step keeps every build's receipt complete: the mint reads back exactly what
\* is still the build's, and no sweep takes a ticket that names a live claim.
LEMMA StepReceipt ==
    ASSUME Book, [Next]_vars, NEW b \in Builds, ReceiptCovers(b)
    PROVE  ReceiptCovers(b)'
<1> SUFFICES ASSUME phase'[b] = "returned", NEW o \in Outpoints, LiveClaim(b, o)'
             PROVE  tickets'[b].claims[o] > 0
  BY DEF ReceiptCovers
<1>1. /\ b \in Calls /\ phase \in [Calls -> Phases] /\ clock \in Nat
      /\ tickets[b] \in Ticket /\ EvictTickets(clock) \in [Calls -> Ticket]
      /\ ledger \in [Calls -> [Outpoints -> Nat]] /\ resv \in [Outpoints -> Nat]
  BY EvictTicketsType DEF Calls, Book, Typed, TypeOK
<1>2. clock' \in Nat /\ clock' >= clock
  BY ClockAdvances DEF Book
<1>3. CASE BuildStep(b) \/ ReleaseFailed(b) \/ ReleaseReservation(b)
  <2>1. phase'[b] # "returned"
    <3>1. CASE BuildStep(b)
      <4>1. \/ \E why : Throw(b, why)
            \/ \E p \in {"bound", "selecting", "settling", "returning"} : phase' = [phase EXCEPT ![b] = p]
            \/ phase[b] = "selecting" /\ phase' = phase
        BY <3>1, Zenon DEF BuildStep, ClaimExactInputs, ClaimFirstFreeInput, StartSelection, SelectInput,
                    EndSelection, RefuseShort, FinishBuild, BuildThrows, AfterBind
      <4> QED
        BY <1>1, <4>1 DEF Throw
    <3>2. CASE ReleaseFailed(b) \/ ReleaseReservation(b)
      BY <1>1, <3>2 DEF ReleaseFailed, ReleaseReservation
    <3> QED
      BY <1>3, <3>1, <3>2
  <2> QED
    BY <2>1
<1>4. CASE MintTicket(b)
  <2>1. /\ phase[b] = "returning" /\ UNCHANGED <<clock, ledger>>
        /\ tickets' = [EvictTickets(clock) EXCEPT ![b] = Receipt(b)]
    BY <1>1, <1>4, MintTicketEffect
  <2>2. LiveClaim(b, o)
    BY <2>1 DEF LiveClaim, Holding, InFlight
  <2>3. resv[o] = ledger[b][o] /\ ledger[b][o] > 0
    BY <1>1, <2>2 DEF Book, ClaimInv, BuildStampHeld, LiveClaim
  <2>4. StillMine(b)[o] > 0
    BY <1>1, <2>3, StillMineType DEF Book
  <2>5. Receipt(b).claims = StillMine(b)
    <3>1. Claimed(StillMine(b)) # {}
      BY <2>4 DEF Claimed
    <3> QED
      BY <3>1 DEF Receipt
  <2>6. tickets'[b] = Receipt(b)
    BY <1>1, <2>1
  <2> QED
    BY <2>4, <2>5, <2>6
<1>5. CASE Apart(b)
  <2>1. phase[b] = "returned" /\ LiveClaim(b, o)
    BY <1>1, <1>2, <1>5 DEF Apart, LiveClaim, Holding
  <2>2. tickets[b].claims[o] > 0
    BY <2>1 DEF ReceiptCovers
  <2>3. tickets[b].expiry > clock
    BY <1>1, <2>1, <2>2 DEF Book, ReceiptInv, TicketsNameLiveClaims, LiveClaim, Ticket
  <2>4. tickets'[b] = tickets[b]
    BY <1>1, <1>5, <2>3, EvictTicketsType DEF Apart, Book, Typed
  <2> QED
    BY <2>2, <2>4
<1> QED
  BY <1>3, <1>4, <1>5, StepsApart DEF Book

\* Only finishBuild adds to the recent builds, and only a build not recorded yet.
LEMMA RecentChanges ==
    ASSUME Typed, [Next]_vars
    PROVE  \/ recent' \subseteq recent
           \/ \E b \in Builds :
                 /\ phase'[b] = "returning" /\ build' = build /\ clock' = clock
                 /\ recent' = EvictRecent(clock) \cup {[tx |-> TxId(b), expiry |-> clock + TTL]}
                 /\ \A r \in EvictRecent(clock) : r.tx # TxId(b)
<1>1. EvictRecent(clock) \subseteq recent
  BY DEF EvictRecent
<1>2. ASSUME NEW b \in Builds, FinishBuild(b), ~(recent' \subseteq recent)
      PROVE  /\ phase'[b] = "returning" /\ build' = build /\ clock' = clock
             /\ recent' = EvictRecent(clock) \cup {[tx |-> TxId(b), expiry |-> clock + TTL]}
             /\ \A r \in EvictRecent(clock) : r.tx # TxId(b)
  <2>1. b \in Calls /\ phase \in [Calls -> Phases]
    BY DEF Calls, Typed, TypeOK
  <2>2. ~ \E r \in EvictRecent(clock) : r.tx = TxId(b)
    BY <1>1, <1>2, SMTT(30) DEF FinishBuild
  <2> QED
    BY <1>2, <2>1, <2>2 DEF FinishBuild
<1>3. ASSUME NEW b \in Builds, BuildStep(b), ~FinishBuild(b) PROVE recent' = recent
  BY <1>3, Zenon DEF BuildStep, ClaimExactInputs, ClaimFirstFreeInput, StartSelection, SelectInput,
              EndSelection, RefuseShort, BuildThrows, maps
<1>4. ASSUME NEW c \in Cancels, CancelStep(c) PROVE recent' = recent
  BY <1>4 DEF CancelStep, ClaimCommitOutpoint, CancelBuilt, CancelThrows, maps
<1>5. ASSUME NEW c \in Calls, ReleaseFailed(c) \/ MintTicket(c) PROVE recent' = recent
  BY <1>5 DEF ReleaseFailed, MintTicket
<1>6. ASSUME NEW c \in Calls, ReleaseReservation(c) PROVE recent' \subseteq recent
  BY <1>1, <1>6, ReleaseReservationEffect DEF RetireBuildRecord
<1>7. ReleaseUnknown \/ Tick \/ UNCHANGED vars => recent' \subseteq recent
  BY <1>1 DEF ReleaseUnknown, Tick, maps, vars
<1> QED
  BY <1>2, <1>3, <1>4, <1>5, <1>6, <1>7 DEF Next

\* A live record that stays keeps the build it answers for: no step but that
\* build's own release ends its claim to it, and the release retires the record.
LEMMA RecordKept ==
    ASSUME Book, [Next]_vars, OneRecordPerResult,
           NEW b \in Builds, NEW r \in recent \cap recent', RecordAnswersFor(r, b)
    PROVE  RecordAnswersFor(r, b)'
<1>1. /\ b \in Calls /\ phase \in [Calls -> Phases] /\ clock \in Nat
      /\ tickets[b] \in Ticket /\ EvictTickets(clock) \in [Calls -> Ticket]
      /\ r = [tx |-> r.tx, expiry |-> r.expiry]
  BY EvictTicketsType DEF Calls, Book, Typed, TypeOK
<1>2. phase[b] \in {"returning", "returned"} /\ TxId(b) = r.tx
  BY SMTT(30) DEF RecordAnswersFor
<1>3. ~BuildStep(b)
  BY <1>2, Zenon DEF BuildStep, ClaimExactInputs, ClaimFirstFreeInput, StartSelection, SelectInput,
              EndSelection, RefuseShort, FinishBuild, BuildThrows
<1>4. ~ReleaseFailed(b)
  BY <1>2 DEF ReleaseFailed
<1>5. CASE MintTicket(b)
  <2>1. /\ phase' = [phase EXCEPT ![b] = "returned"] /\ build' = build /\ recent' = recent
        /\ tickets' = [EvictTickets(clock) EXCEPT ![b] = Receipt(b)]
    BY <1>1, <1>5, MintTicketEffect
  <2>2. phase'[b] = "returned" /\ tickets'[b] = Receipt(b)
    BY <1>1, <2>1
  <2>3. TxId(b)' = r.tx
    BY <1>2, <2>1 DEF TxId
  <2> DEFINE mine == {s \in recent : b \in Builds /\ s.tx = TxId(b)}
  <2>4. mine = {r}
    BY <1>2 DEF OneRecordPerResult
  <2>5. Receipt(b).expiry > 0 => Receipt(b).tx = r.tx /\ Receipt(b).txExpiry = r.expiry
    <3>1. CASE Claimed(StillMine(b)) = {}
      <4>1. Receipt(b).expiry = 0
        BY <3>1 DEF Receipt, NoTicket
      <4> QED
        BY <4>1
    <3>2. CASE Claimed(StillMine(b)) # {}
      <4>1. /\ Receipt(b).tx = TxId(b)
            /\ Receipt(b).txExpiry = IF mine = {} THEN 0 ELSE (CHOOSE s \in mine : TRUE).expiry
        BY <3>2 DEF Receipt
      <4> HIDE DEF mine
      <4>2. (CHOOSE s \in mine : TRUE) = r
        BY <2>4
      <4> QED
        BY <1>2, <2>4, <4>1, <4>2
    <3> QED
      BY <3>1, <3>2
  <2> QED
    BY <2>2, <2>3, <2>5 DEF RecordAnswersFor
<1>6. CASE ReleaseReservation(b)
  <2>1. /\ phase[b] = "returned" /\ tickets[b].expiry > clock
        /\ recent' = RetireBuildRecord(tickets[b], clock)
    BY <1>1, <1>6, ReleaseReservationEffect DEF Book
  <2>2. tickets[b].tx = r.tx /\ tickets[b].txExpiry = r.expiry
    BY <1>1, <2>1 DEF RecordAnswersFor, Ticket
  <2>3. r \notin recent'
    BY <1>1, <2>1, <2>2 DEF RetireBuildRecord
  <2> QED
    BY <2>3
<1>7. CASE Apart(b)
  <2>1. /\ phase'[b] = phase[b] /\ TxId(b)' = TxId(b)
        /\ tickets'[b] \in {tickets[b], EvictTickets(clock)[b]}
    BY <1>7 DEF Apart, TxId
  <2>2. tickets'[b].expiry > 0 => tickets'[b] = tickets[b]
    <3>1. EvictTickets(clock)[b] \in {tickets[b], NoTicket} /\ NoTicket.expiry = 0
      BY <1>1, EvictTicketsType DEF NoTicket, Book, Typed
    <3> QED
      BY <2>1, <3>1
  <2> QED
    BY <2>1, <2>2 DEF RecordAnswersFor
<1> QED
  BY <1>3, <1>4, <1>5, <1>6, <1>7, StepsApart DEF Book

\* Every step keeps the records in line with what is outstanding.
LEMMA StepRecords ==
    ASSUME Book, [Next]_vars, RecordsOutstanding
    PROVE  RecordsOutstanding'
<1>1. clock \in Nat /\ clock' \in Nat /\ clock' >= clock /\ recent \subseteq [tx : TxIds, expiry : Nat]
  BY ClockAdvances DEF Book, Typed, TypeOK
<1>2. ASSUME NEW r \in recent \cap recent', r.expiry > clock'
      PROVE  \E b \in Builds : RecordAnswersFor(r, b)'
  <2>1. r.expiry > clock
    BY <1>1, <1>2
  <2>2. PICK b \in Builds : RecordAnswersFor(r, b)
    BY <2>1 DEF RecordsOutstanding
  <2> QED
    BY <2>2, RecordKept DEF RecordsOutstanding
<1>3. CASE recent' \subseteq recent
  <2>1. OneRecordPerResult'
    BY <1>3 DEF RecordsOutstanding, OneRecordPerResult
  <2> QED
    BY <1>2, <1>3, <2>1 DEF RecordsOutstanding
<1>4. ASSUME NEW b \in Builds,
             phase'[b] = "returning", build' = build, clock' = clock,
             recent' = EvictRecent(clock) \cup {[tx |-> TxId(b), expiry |-> clock + TTL]},
             \A r \in EvictRecent(clock) : r.tx # TxId(b)
      PROVE  RecordsOutstanding'
  <2> DEFINE new == [tx |-> TxId(b), expiry |-> clock + TTL]
  <2>1. EvictRecent(clock) \subseteq recent
    BY DEF EvictRecent
  <2>2. ASSUME NEW r \in recent', r = new PROVE RecordAnswersFor(r, b)'
    <3>1. TxId(b)' = TxId(b) /\ r.tx = TxId(b)
      BY <1>4, <2>2 DEF TxId
    <3> QED
      BY <1>4, <3>1 DEF RecordAnswersFor
  <2>3. OneRecordPerResult'
    <3>1. new.tx = TxId(b)
      OBVIOUS
    <3> HIDE DEF new
    <3>2. recent' = EvictRecent(clock) \cup {new}
      BY <1>4 DEF new
    <3>3. ASSUME NEW r \in recent', NEW s \in recent', r.tx = s.tx PROVE r = s
      BY <1>4, <2>1, <3>1, <3>2, <3>3 DEF RecordsOutstanding, OneRecordPerResult
    <3> QED
      BY <3>3 DEF OneRecordPerResult
  <2>4. ASSUME NEW r \in recent', r.expiry > clock' PROVE \E d \in Builds : RecordAnswersFor(r, d)'
    <3>1. CASE r = new
      BY <2>2, <3>1
    <3>2. CASE r # new
      BY <1>2, <1>4, <2>1, <2>4, <3>2
    <3> QED
      BY <3>1, <3>2
  <2> QED
    BY <2>3, <2>4 DEF RecordsOutstanding
<1> QED
  BY <1>3, <1>4, RecentChanges DEF Book

\* The book and what the results rest on.
ResultBook == Book /\ ResultInv

\* The parts of ResultInv, build by build.
LEMMA ResultParts ==
    ASSUME Typed
    PROVE  (KeyBoundToFirstInput /\ FirstLeads /\ SelectedIsClaimed) <=> (\A b \in Builds : Key(b) /\ Selected(b))
<1>1. \A b \in Builds : (Outstanding(b) => phase[b] \in {"settling", "returning", "returned"})
  BY DEF Outstanding
<1>2. (\A b \in Builds : Key(b) /\ Selected(b)) => KeyBoundToFirstInput
  BY <1>1 DEF Key, KeyBoundToFirstInput
<1>3. (\A b \in Builds : Key(b) /\ Selected(b)) => FirstLeads
  BY DEF Key, FirstLeads
<1>4. (\A b \in Builds : Key(b) /\ Selected(b)) <=> (\A b \in Builds : Key(b)) /\ SelectedIsClaimed
  BY DEF Selected, SelectedIsClaimed
<1>5. KeyBoundToFirstInput /\ FirstLeads => \A b \in Builds : Key(b)
  BY DEF Key, KeyBoundToFirstInput, FirstLeads, Outstanding
<1> QED
  BY <1>2, <1>3, <1>4, <1>5

\* Before the first call nothing is selected, receipted or recorded.
LEMMA InitResults == Init => ResultBook
<1> SUFFICES ASSUME Init PROVE ResultBook
  OBVIOUS
<1>1. Book /\ Typed
  BY InitBook DEF Book
<1>2. ASSUME NEW b \in Builds PROVE Key(b) /\ Selected(b) /\ ReceiptCovers(b)
  <2>1. /\ phase[b] = "idle" /\ err[b] = "none" /\ \E j \in Jobs : build[b] = EmptyBuild(j)
    BY DEF Init, Calls
  <2>2. build[b].ins = <<>> /\ build[b].pos = 1 /\ build[b].first = NoOutpoint
    BY <2>1 DEF EmptyBuild
  <2> QED
    BY <2>1, <2>2 DEF Key, Selected, ReceiptCovers
<1>3. RecordsOutstanding
  BY DEF Init, RecordsOutstanding, OneRecordPerResult
<1> QED
  BY <1>1, <1>2, <1>3, ResultParts DEF ResultBook, ResultInv, BuildReceiptsComplete

\* Every step keeps them.
LEMMA NextResults == ResultBook /\ [Next]_vars => ResultBook'
<1> SUFFICES ASSUME ResultBook, [Next]_vars PROVE ResultBook'
  OBVIOUS
<1>1. Book /\ Book' /\ Typed /\ Typed'
  BY NextBook DEF ResultBook, Book
<1>2. \A b \in Builds : Key(b) /\ Selected(b)
  BY <1>1, ResultParts DEF ResultBook, ResultInv
<1>3. \A b \in Builds : Key(b)' /\ Selected(b)'
  BY <1>1, <1>2, StepKey
<1>4. (KeyBoundToFirstInput /\ FirstLeads /\ SelectedIsClaimed)'
  <2>1. KeyBoundToFirstInput'
    BY <1>3 DEF Key, KeyBoundToFirstInput, Outstanding
  <2>2. FirstLeads'
    BY <1>3 DEF Key, FirstLeads
  <2>3. SelectedIsClaimed'
    BY <1>3 DEF Selected, SelectedIsClaimed
  <2> QED
    BY <2>1, <2>2, <2>3
<1>5. BuildReceiptsComplete'
  BY <1>1, StepReceipt DEF BuildReceiptsComplete, ResultBook, ResultInv
<1>6. RecordsOutstanding'
  BY <1>1, StepRecords DEF ResultBook, ResultInv
<1> QED
  BY <1>1, <1>4, <1>5, <1>6 DEF ResultBook, ResultInv

\* The inductive invariant of the results.
THEOREM ResultsKept == Spec => []ResultInv
<1>1. ResultBook => ResultInv
  BY DEF ResultBook
<1> QED
  BY <1>1, InitResults, NextResults, PTL DEF Spec

\* A build's obfuscation key is its first input's, whatever lapsed meanwhile.
THEOREM KeyIsFirstInputs == Spec => []KeyBoundToFirstInput
<1>1. ResultInv => KeyBoundToFirstInput
  BY DEF ResultInv
<1> QED
  BY <1>1, ResultsKept, PTL

\* A result's receipt reaches every claim the build still holds.
THEOREM ReceiptsReachEveryClaim == Spec => []BuildReceiptsComplete
<1>1. ResultInv => BuildReceiptsComplete
  BY DEF ResultInv
<1> QED
  BY <1>1, ResultsKept, PTL

\* A duplicate is refused only while its twin is outstanding.
THEOREM DuplicatesRefusedOnlyWhileOutstanding == Spec => []NoStaleDuplicateRefusal
<1>1. ResultInv => NoStaleDuplicateRefusal
  BY DEF ResultInv, RecordsOutstanding, RecordAnswersFor, NoStaleDuplicateRefusal, Outstanding
<1> QED
  BY <1>1, ResultsKept, PTL

\* Two unreleased results share an input only if a claim on it has lapsed.
THEOREM ResultsDoNotConflict == Spec => []NoConflictingResults
<1>1. BookInv /\ ResultInv => NoConflictingResults
  <2> SUFFICES ASSUME BookInv, ResultInv, NEW b \in Builds, NEW c \in Calls,
                      NEW o \in Inputs(b) \cap Inputs(c), b # c, Outstanding(b), Outstanding(c)
               PROVE  \E d \in {b, c} : ledger[d][o] \in 1..clock
    BY DEF NoConflictingResults
  <2>1. b \in Calls /\ b \notin Cancels /\ clock \in Nat /\ ledger \in [Calls -> [Outpoints -> Nat]]
    BY ReservationsAssumption DEF Calls, BookInv, TypeOK
  <2>2. ASSUME NEW d \in Builds, o \in Inputs(d) PROVE o \in Outpoints /\ ledger[d][o] > 0
    <3>1. build[d].ins \in Seq(Outpoints)
      BY DEF BookInv, TypeOK, BuildState
    <3>2. PICK i \in DOMAIN build[d].ins : o = build[d].ins[i]
      BY <2>2 DEF Inputs, ToSet
    <3> QED
      BY <3>1, <3>2 DEF ResultInv, SelectedIsClaimed
  <2>3. ASSUME c \notin Builds PROVE ledger[c][o] > 0
    BY <2>3 DEF Inputs, Claimed
  <2>4. o \in Outpoints /\ ledger[b][o] > 0 /\ ledger[c][o] > 0
    BY <2>2, <2>3
  <2>5. Holding(b) /\ Holding(c)
    BY DEF Outstanding, Holding, InFlight
  <2>6. ~(ledger[b][o] > clock /\ ledger[c][o] > clock)
    BY <2>1, <2>4, <2>5 DEF LiveClaim, BookInv, ClaimInv, LiveClaimsExclusive
  <2>7. ledger[b][o] \in Nat /\ ledger[c][o] \in Nat
    BY <2>1, <2>4
  <2>8. CASE ledger[b][o] <= clock
    BY <2>1, <2>4, <2>7, <2>8
  <2>9. CASE ledger[c][o] <= clock
    BY <2>1, <2>4, <2>7, <2>9
  <2> QED
    BY <2>1, <2>6, <2>7, <2>8, <2>9
<1> QED
  BY <1>1, BookKept, ResultsKept, PTL

-----------------------------------------------------------------------------
(* The refinement: the book as leases. *)

\* The leases of a call, as the refinement mapping of Lease has them.
Leases(c) == IF Holding(c) THEN ledger[c] ELSE [o \in Outpoints |-> 0]

LeaseTable == [c \in Calls |-> Leases(c)]

FreeOutpoints == {o \in Outpoints : resv[o] <= clock}

\* What isOutpointReserved lets through is what nobody holds.
FreeIsUnleased == FreeOutpoints = Lease!Unleased(LeaseTable, clock)

LEMMA BookFrees == Book => FreeIsUnleased
<1> SUFFICES ASSUME Book PROVE FreeIsUnleased
  OBVIOUS
<1>1. clock \in Nat /\ resv \in [Outpoints -> Nat] /\ ledger \in [Calls -> [Outpoints -> Nat]]
  BY DEF Book, Typed, TypeOK
<1>2. ASSUME NEW o \in Outpoints
      PROVE  resv[o] <= clock <=> \A c \in Calls : ~(Leases(c)[o] > clock)
  <2>1. \A c \in Calls : Leases(c)[o] > clock <=> LiveClaim(c, o)
    BY <1>1 DEF Leases, LiveClaim
  <2>2. (\E c \in Calls : LiveClaim(c, o)) => resv[o] > clock
    BY <1>1 DEF Book, ClaimInv, LiveClaimsReserved, LiveClaim
  <2>3. resv[o] > clock => \E c \in Calls : LiveClaim(c, o)
    BY <1>1 DEF Book, ClaimInv, NoOrphanReservation
  <2> QED
    BY <1>1, <2>1, <2>2, <2>3
<1> QED
  BY <1>2 DEF Lease!Unleased, Lease!Runs, FreeOutpoints, LeaseTable, FreeIsUnleased

\* The book starts without a lease.
LEMMA InitLeases == Init => Lease!Init
<1> SUFFICES ASSUME Init PROVE Lease!Init
  OBVIOUS
<1>1. \A c \in Calls : Leases(c) = [o \in Outpoints |-> 0]
  BY DEF Init, Leases
<1>2. [c \in Calls |-> Leases(c)] = [c \in Calls |-> [o \in Outpoints |-> 0]]
  BY <1>1
<1> QED
  BY <1>2 DEF Init, Lease!Init, Leases

\* What changes no call's leases, and no time, changes nothing of them.
LEMMA LeasesStand ==
    ASSUME FreeIsUnleased, FreeIsUnleased', clock' = clock, \A c \in Calls : Leases(c)' = Leases(c)
    PROVE  UNCHANGED Lease!vars
<1>1. LeaseTable' = LeaseTable
  BY DEF LeaseTable
<1>2. FreeOutpoints' = FreeOutpoints
  BY <1>1 DEF FreeIsUnleased, Lease!Unleased, Lease!Runs
<1> QED
  BY <1>1, <1>2 DEF Lease!vars, Leases, LeaseTable, FreeOutpoints

\* A call that stops answering for anything gives its leases up.
LEMMA LeasesSurrendered ==
    ASSUME FreeIsUnleased', clock' = clock, NEW c \in Calls, ~Holding(c)',
           \A d \in Calls \ {c} : Leases(d)' = Leases(d)
    PROVE  Lease!Surrender(c)
<1>1. Leases(c)' = [o \in Outpoints |-> 0]
  BY DEF Leases
<1>2. LeaseTable' = [LeaseTable EXCEPT ![c] = [o \in Outpoints |-> 0]]
  BY <1>1 DEF LeaseTable
<1> QED
  BY <1>2 DEF Lease!Surrender, FreeIsUnleased, LeaseTable, FreeOutpoints, Leases

\* A call that claims what is free, or what it may share, takes a lease on it.
LEMMA LeasesAcquired ==
    ASSUME Book, FreeIsUnleased', clock' = clock, NEW c \in Calls, Holding(c)',
           NEW S \in SUBSET Outpoints, NEW end \in 1..(clock + TTL),
           \A o \in S : resv[o] > clock => c \in Cancels /\ \A b \in Builds : ~LiveClaim(b, o),
           ledger'[c] = [o \in Outpoints |-> IF o \in S THEN end ELSE ledger[c][o]],
           Holding(c) \/ phase[c] = "idle",
           \A d \in Calls \ {c} : Leases(d)' = Leases(d)
    PROVE  Lease!Acquire(c)
<1>1. /\ clock \in Nat /\ ledger \in [Calls -> [Outpoints -> Nat]] /\ resv \in [Outpoints -> Nat]
  BY DEF Book, Typed, TypeOK
<1>2. \A o \in Outpoints : Leases(c)[o] = ledger[c][o]
  BY <1>1 DEF Leases, Book, ReceiptInv, NothingClaimedYet
<1>3. Leases(c)' = [o \in Outpoints |-> IF o \in S THEN end ELSE Leases(c)[o]]
  BY <1>2 DEF Leases
<1>4. LeaseTable' = [LeaseTable EXCEPT ![c] = [o \in Outpoints |-> IF o \in S THEN end ELSE @[o]]]
  BY <1>3 DEF LeaseTable
<1>5. ASSUME NEW o \in S, o \notin FreeOutpoints, NEW d \in Calls, LeaseTable[d][o] > clock
      PROVE  {c, d} \subseteq Cancels
  <2>1. LiveClaim(d, o)
    BY <1>1, <1>5 DEF LeaseTable, Leases, LiveClaim
  <2>2. resv[o] > clock
    BY <1>1, <1>5 DEF FreeOutpoints
  <2> QED
    BY <2>1, <2>2 DEF Calls
<1>6. FreeOutpoints' = Lease!Unleased(LeaseTable', clock)
  BY DEF FreeIsUnleased
<1>7. /\ \A o \in S : o \notin FreeOutpoints =>
            \A d \in Calls : Lease!Runs(LeaseTable, clock, d, o) => {c, d} \subseteq Cancels
      /\ LeaseTable' = [LeaseTable EXCEPT ![c] = [o \in Outpoints |-> IF o \in S THEN end ELSE @[o]]]
      /\ FreeOutpoints' = Lease!Unleased(LeaseTable', clock)
      /\ clock' = clock
  BY <1>4, <1>5, <1>6 DEF Lease!Runs
<1> QED
  BY <1>7 DEF Lease!Acquire, LeaseTable, FreeOutpoints, Leases

\* Time runs for the leases as for the book.
LEMMA TickElapses ==
    ASSUME Typed, FreeIsUnleased', Tick
    PROVE  Lease!Elapse
<1>1. clock \in Nat /\ clock' = clock + 1 /\ UNCHANGED <<phase, ledger>>
  BY DEF Tick, Typed, TypeOK
<1>2. LeaseTable' = LeaseTable
  BY <1>1 DEF LeaseTable, Leases, Holding
<1>3. FreeOutpoints' = Lease!Unleased(LeaseTable, clock')
  BY <1>2 DEF FreeIsUnleased
<1>4. clock' \in Nat /\ clock' > clock
  BY <1>1
<1> QED
  BY <1>2, <1>3, <1>4 DEF Lease!Elapse, LeaseTable, FreeOutpoints, Leases

\* A move from one answering phase to another leaves a call's leases alone.
LEMMA OthersLeases ==
    ASSUME NEW c \in Calls, \A d \in Calls \ {c} : phase'[d] = phase[d] /\ ledger'[d] = ledger[d]
    PROVE  \A d \in Calls \ {c} : Leases(d)' = Leases(d)
BY DEF Leases, Holding

\* So does a call's first step when it claims nothing.
LEMMA OwnLeases ==
    ASSUME Book, NEW c \in Calls, Holding(c) \/ phase[c] = "idle", Holding(c)', ledger'[c] = ledger[c]
    PROVE  Leases(c)' = Leases(c)
<1>1. ledger[c] \in [Outpoints -> Nat]
  BY DEF Book, Typed, TypeOK
<1>2. CASE Holding(c)
  BY <1>2 DEF Leases
<1>3. CASE phase[c] = "idle"
  <2>1. \A o \in Outpoints : ledger[c][o] = 0
    BY <1>3 DEF Book, ReceiptInv, NothingClaimedYet
  <2>2. ledger[c] = [o \in Outpoints |-> 0]
    BY <1>1, <2>1
  <2>3. ~Holding(c)
    BY <1>3 DEF Holding, InFlight
  <2> QED
    BY <2>2, <2>3 DEF Leases
<1> QED
  BY <1>2, <1>3

\* claimExactInputs leases the whole named set or nothing.
LEMMA ClaimExactInputsLeases ==
    ASSUME Book, FreeIsUnleased, FreeIsUnleased', NEW b \in Builds, ClaimExactInputs(b)
    PROVE  [Lease!Next]_(Lease!vars)
<1> DEFINE table == Unexpired(resv, clock)
           named == ToSet(build[b].utxos)
<1>1. /\ b \in Calls /\ phase[b] = "idle" /\ clock' = clock
      /\ clock \in Nat /\ clock + TTL \in 1..(clock + TTL)
      /\ phase \in [Calls -> Phases] /\ ledger \in [Calls -> [Outpoints -> Nat]]
      /\ build[b].utxos \in Seq(Outpoints)
  BY ReservationsAssumption DEF ClaimExactInputs, Calls, Book, Typed, TypeOK, BuildState
<1>2. /\ table \in [Outpoints -> Nat]
      /\ \A o \in Outpoints : table[o] = IF resv[o] > clock THEN resv[o] ELSE 0
  BY SweptTable DEF Book
<1>3. CASE \E o \in named : table[o] > 0
  <2>1. Throw(b, "reserved") /\ ledger' = ledger
    BY <1>3 DEF ClaimExactInputs
  <2>2. phase'[b] = "failing" /\ \A d \in Calls \ {b} : phase'[d] = phase[d]
    BY <1>1, <2>1 DEF Throw
  <2>3. Holding(b)'
    BY <2>2 DEF Holding, InFlight
  <2>4. \A d \in Calls : Leases(d)' = Leases(d)
    BY <1>1, <2>1, <2>2, <2>3, OthersLeases, OwnLeases
  <2> QED
    BY <1>1, <2>4, LeasesStand
<1>4. CASE ~ \E o \in named : table[o] > 0
  <2>1. /\ ledger' = [ledger EXCEPT ![b] =
                        [o \in Outpoints |-> IF o \in named THEN clock + TTL ELSE 0]]
        /\ phase' = [phase EXCEPT ![b] = "bound"]
    BY <1>4 DEF ClaimExactInputs, AfterBind
  <2>2. named \in SUBSET Outpoints
    BY <1>1 DEF ToSet
  <2> HIDE DEF table, named
  <2>3. \A o \in Outpoints : ledger[b][o] = 0
    BY <1>1 DEF Book, ReceiptInv, NothingClaimedYet
  <2>4. ledger'[b] = [o \in Outpoints |-> IF o \in named THEN clock + TTL ELSE ledger[b][o]]
    BY <1>1, <2>1, <2>3
  <2>5. /\ phase'[b] = "bound"
        /\ \A d \in Calls \ {b} : phase'[d] = phase[d] /\ ledger'[d] = ledger[d]
    BY <1>1, <2>1
  <2>6. Holding(b)'
    BY <2>5 DEF Holding, InFlight
  <2>7. \A o \in named : ~(resv[o] > clock)
    BY <1>1, <1>2, <1>4, <2>2
  <2>8. \A d \in Calls \ {b} : Leases(d)' = Leases(d)
    BY <1>1, <2>5, OthersLeases
  <2> QED
    <3> DEFINE end == clock + TTL
    <3>1. end \in 1..(clock + TTL)
      BY <1>1
    <3>2. ledger'[b] = [o \in Outpoints |-> IF o \in named THEN end ELSE ledger[b][o]]
      BY <2>4
    <3>3. \A o \in named : resv[o] > clock => b \in Cancels /\ \A d \in Builds : ~LiveClaim(d, o)
      BY <2>7
    <3> HIDE DEF end
    <3>4. Lease!Acquire(b)
      BY <1>1, <2>2, <2>6, <2>8, <3>1, <3>2, <3>3, LeasesAcquired
    <3> QED
      BY <1>1, <3>4 DEF Lease!Next
<1> QED
  BY <1>3, <1>4

\* Claiming one outpoint that is free, or shared, is a lease on it.
LEMMA OneOutpointLeased ==
    ASSUME Book, FreeIsUnleased', clock' = clock, NEW c \in Calls, NEW o \in Outpoints,
           NEW end \in 1..(clock + TTL),
           Holding(c) \/ phase[c] = "idle", Holding(c)',
           resv[o] > clock => c \in Cancels /\ \A b \in Builds : ~LiveClaim(b, o),
           ledger' = [ledger EXCEPT ![c][o] = end],
           \A d \in Calls \ {c} : phase'[d] = phase[d]
    PROVE  Lease!Next
<1>1. ledger \in [Calls -> [Outpoints -> Nat]] /\ clock \in Nat /\ end \in Nat
  BY ReservationsAssumption DEF Book, Typed, TypeOK
<1> DEFINE S == {o}
<1>2. ledger'[c] = [p \in Outpoints |-> IF p \in S THEN end ELSE ledger[c][p]]
  BY <1>1
<1>3. \A d \in Calls \ {c} : Leases(d)' = Leases(d)
  <2>1. \A d \in Calls \ {c} : ledger'[d] = ledger[d]
    BY <1>1
  <2> QED
    BY <2>1, OthersLeases
<1>4. S \in SUBSET Outpoints /\ \A p \in S : resv[p] > clock => c \in Cancels /\ \A b \in Builds : ~LiveClaim(b, p)
  OBVIOUS
<1> HIDE DEF S
<1>5. Lease!Acquire(c)
  BY <1>2, <1>3, <1>4, LeasesAcquired, ZenonT(60)
<1> QED
  BY ONLY <1>5, c \in Calls, Zenon DEF Lease!Next

\* claimFirstFreeInput leases one free outpoint or nothing.
LEMMA ClaimFirstFreeInputLeases ==
    ASSUME Book, FreeIsUnleased, FreeIsUnleased', NEW b \in Builds, ClaimFirstFreeInput(b)
    PROVE  [Lease!Next]_(Lease!vars)
<1> DEFINE table == Unexpired(resv, clock)
           utxos == build[b].utxos
           free  == {i \in DOMAIN utxos : table[utxos[i]] = 0}
           i     == Min(free)
           o     == utxos[i]
<1>1. /\ b \in Calls /\ phase[b] = "idle" /\ clock' = clock
      /\ clock \in Nat /\ clock + TTL \in 1..(clock + TTL)
      /\ phase \in [Calls -> Phases] /\ phase' = [phase EXCEPT ![b] = "bound"]
      /\ build[b].utxos \in Seq(Outpoints)
  <2>1. phase[b] = "idle" /\ AfterBind(b) /\ clock' = clock
    BY Zenon DEF ClaimFirstFreeInput
  <2>2. phase' = [phase EXCEPT ![b] = "bound"]
    BY <2>1 DEF AfterBind
  <2> QED
    BY <2>1, <2>2, ReservationsAssumption, SMTT(30) DEF Calls, Book, Typed, TypeOK, BuildState
<1>2. /\ table \in [Outpoints -> Nat]
      /\ \A p \in Outpoints : table[p] = IF resv[p] > clock THEN resv[p] ELSE 0
  BY SweptTable DEF Book
<1>3. phase'[b] = "bound" /\ \A d \in Calls \ {b} : phase'[d] = phase[d]
  BY <1>1
<1>4. Holding(b)'
  BY <1>3 DEF Holding, InFlight
<1>5. CASE free = {}
  <2>1. ledger' = ledger
    BY <1>5 DEF ClaimFirstFreeInput
  <2>2. \A d \in Calls : Leases(d)' = Leases(d)
    BY <1>1, <1>3, <1>4, <2>1, OthersLeases, OwnLeases
  <2> QED
    BY <1>1, <2>2, LeasesStand
<1>6. CASE free # {}
  <2>1. ledger' = [ledger EXCEPT ![b][o] = clock + TTL]
    BY <1>6, Zenon DEF ClaimFirstFreeInput
  <2>2. i \in DOMAIN utxos /\ table[o] = 0
    <3>1. free \in SUBSET Nat /\ free # {}
      BY <1>1, <1>6
    <3>2. i \in free
      BY <3>1, MinOfNaturals
    <3> HIDE DEF i, utxos, table
    <3> QED
      BY <3>2
  <2>3. o \in Outpoints
    <3> HIDE DEF i
    <3> QED
      BY <1>1, <2>2
  <2> HIDE DEF table, o
  <2>4. ~(resv[o] > clock)
    BY <1>1, <1>2, <2>2, <2>3
  <2> QED
    BY <1>1, <1>3, <1>4, <2>1, <2>3, <2>4, OneOutpointLeased, Zenon
<1> QED
  BY <1>5, <1>6

\* selectInputs leases what it claims, to a time counted from when it read the clock.
LEMMA SelectInputLeases ==
    ASSUME Book, FreeIsUnleased, FreeIsUnleased', NEW b \in Builds, SelectInput(b)
    PROVE  [Lease!Next]_(Lease!vars)
<1> DEFINE i     == Min(Remaining(b))
           o     == build[b].utxos[i]
           stamp == build[b].now + TTL
<1>1. /\ b \in Calls /\ phase[b] = "selecting" /\ phase' = phase /\ clock' = clock
      /\ clock \in Nat /\ resv \in [Outpoints -> Nat]
      /\ build[b] \in BuildState /\ build[b].now <= clock
  BY DEF SelectInput, Calls, Book, Typed, TypeOK, StampsBounded
<1>2. build[b].utxos \in Seq(Outpoints) /\ build[b].pos \in Nat \ {0} /\ build[b].now \in Nat
  BY <1>1 DEF BuildState
<1>3. i \in Remaining(b) /\ o \in Outpoints
  <2>1. Remaining(b) \in SUBSET Nat
    BY <1>2 DEF Remaining
  <2>2. Remaining(b) # {}
    BY DEF SelectInput
  <2>3. i \in Remaining(b)
    BY <2>1, <2>2, MinOfNaturals
  <2>4. i \in 1..Len(build[b].utxos)
    BY <1>2, <2>3 DEF Remaining
  <2> HIDE DEF i
  <2> QED
    BY <1>2, <2>3, <2>4
<1>4. Holding(b) /\ Holding(b)'
  BY <1>1 DEF Holding, InFlight
<1>5. CASE build[b].job.exact \/ o = build[b].first
  <2>1. ledger' = ledger
    BY <1>5 DEF SelectInput
  <2>2. \A d \in Calls : Leases(d)' = Leases(d)
    BY <1>1, <1>4, <2>1, OthersLeases, OwnLeases
  <2> QED
    BY <1>1, <2>2, LeasesStand
<1>6. CASE ~(build[b].job.exact \/ o = build[b].first)
  <2>1. ledger' = [ledger EXCEPT ![b][o] = stamp]
    BY <1>6 DEF SelectInput
  <2>2. resv[o] <= build[b].now
    BY <1>3, <1>6, Zenon DEF Remaining, Takeable
  <2>3. stamp \in 1..(clock + TTL)
    BY <1>1, <1>2, ReservationsAssumption
  <2> HIDE DEF o, stamp
  <2>4. ~(resv[o] > clock)
    BY <1>1, <1>2, <1>3, <2>2
  <2> QED
    BY <1>1, <1>3, <1>4, <2>1, <2>3, <2>4, OneOutpointLeased, Zenon
<1> QED
  BY <1>5, <1>6

\* claimCommitOutpoint shares an outpoint with the cancels that lease it, never with
\* a build.
LEMMA ClaimCommitOutpointLeases ==
    ASSUME Book, FreeIsUnleased, FreeIsUnleased',
           NEW c \in Cancels, NEW o \in Outpoints, ClaimCommitOutpoint(c, o)
    PROVE  [Lease!Next]_(Lease!vars)
<1> DEFINE table == Unexpired(resv, clock)
           own   == EvictOwners(clock)
           m     == MaxLiveCancelOwnerExpiry(own, o, clock)
<1>1. /\ c \in Calls /\ Cancels \subseteq Calls /\ Builds \subseteq Calls /\ phase[c] = "idle" /\ clock' = clock
      /\ clock \in Nat /\ clock + TTL \in Nat /\ clock + TTL \in 1..(clock + TTL)
      /\ phase \in [Calls -> Phases] /\ resv \in [Outpoints -> Nat]
      /\ owners \in [Outpoints -> [Cancels -> Nat]]
  <2>1. phase[c] = "idle" /\ clock' = clock
    BY DEF ClaimCommitOutpoint
  <2>2. clock + TTL \in 1..(clock + TTL)
    BY ReservationsAssumption DEF Book, Typed, TypeOK
  <2> QED
    BY <2>1, <2>2, ReservationsAssumption DEF Calls, Book, Typed, TypeOK
<1>2. table[o] = IF resv[o] > clock THEN resv[o] ELSE 0
  BY SweptTable DEF Book
<1>3. /\ own \in [Outpoints -> [Cancels -> Nat]]
      /\ \A p \in Outpoints, d \in Cancels : own[p][d] = IF owners[p][d] > clock THEN owners[p][d] ELSE 0
      /\ \A p \in Outpoints, d \in Cancels : own[p][d] <= clock + TTL
  BY SweptOwners DEF Book
<1>4. CASE table[o] > 0 /\ m # table[o]
  <2>1. Throw(c, "reserved") /\ ledger' = ledger
    BY <1>4 DEF ClaimCommitOutpoint
  <2>2. phase'[c] = "failing" /\ \A d \in Calls \ {c} : phase'[d] = phase[d]
    BY <1>1, <2>1 DEF Throw
  <2>3. Holding(c)'
    BY <2>2 DEF Holding, InFlight
  <2>4. \A d \in Calls : Leases(d)' = Leases(d)
    BY <1>1, <2>1, <2>2, <2>3, OthersLeases, OwnLeases
  <2> QED
    BY <1>1, <2>4, LeasesStand
<1>5. CASE ~(table[o] > 0 /\ m # table[o])
  <2>1. /\ ledger' = [ledger EXCEPT ![c][o] = clock + TTL]
        /\ phase' = [phase EXCEPT ![c] = "pricing"]
    BY <1>5 DEF ClaimCommitOutpoint
  <2>2. phase'[c] = "pricing" /\ \A d \in Calls \ {c} : phase'[d] = phase[d]
    BY <1>1, <2>1
  <2>3. Holding(c)'
    BY <2>2 DEF Holding, InFlight
  <2> HIDE DEF table, own
  <2>4. ASSUME resv[o] > clock, NEW b \in Builds PROVE ~LiveClaim(b, o)
    <3>1. m = resv[o] /\ m > 0
      BY <1>1, <1>2, <1>5, <2>4
    <3>2. PICK d \in Cancels : own[o][d] = m
      <4> HIDE DEF m
      <4>1. m > 0 => \E d \in Cancels : own[o][d] = m
        BY <1>1, <1>3, MaxLiveType DEF m
      <4> QED
        BY <3>1, <4>1
    <3> HIDE DEF m
    <3>3. owners[o][d] > clock
      BY <1>1, <1>3, <3>1, <3>2
    <3>4. LiveClaim(d, o)
      BY <3>3 DEF Book, ClaimInv, OwnersAreLiveCancels
    <3>5. b \notin Cancels /\ d \in Calls /\ b \in Calls /\ d # b
      BY <1>1, ReservationsAssumption
    <3> QED
      BY <3>4, <3>5 DEF Book, ClaimInv, LiveClaimsExclusive
  <2> DEFINE end == clock + TTL
  <2>5. end \in 1..(clock + TTL) /\ ledger' = [ledger EXCEPT ![c][o] = end]
    BY <1>1, <2>1
  <2> HIDE DEF end
  <2>6. Lease!Next
    BY <1>1, <2>2, <2>3, <2>4, <2>5, OneOutpointLeased
  <2> QED
    BY <2>6
<1> QED
  BY <1>4, <1>5

\* The other steps of a build or of a cancel leave every lease as it is.
LEMMA QuietSteps ==
    ASSUME Book, FreeIsUnleased, FreeIsUnleased', NEW c \in Calls,
           phase[c] \in InFlight, phase'[c] \in InFlight \cup {"returned"}, clock' = clock, ledger' = ledger,
           \A d \in Calls \ {c} : phase'[d] = phase[d]
    PROVE  [Lease!Next]_(Lease!vars)
<1>1. Holding(c) /\ Holding(c)'
  BY DEF Holding
<1>2. \A d \in Calls : Leases(d)' = Leases(d)
  BY <1>1, OthersLeases, OwnLeases
<1> QED
  BY <1>2, LeasesStand

\* Every step of a build is a step of the leases.
LEMMA BuildStepLeases ==
    ASSUME Book, FreeIsUnleased, FreeIsUnleased', NEW b \in Builds, BuildStep(b)
    PROVE  [Lease!Next]_(Lease!vars)
<1>1. b \in Calls /\ phase \in [Calls -> Phases]
  BY DEF Calls, Book, Typed, TypeOK
<1>2. CASE StartSelection(b) \/ EndSelection(b) \/ RefuseShort(b) \/ FinishBuild(b) \/ BuildThrows(b)
  <2>1. phase[b] \in InFlight /\ clock' = clock /\ ledger' = ledger
    BY <1>2 DEF StartSelection, EndSelection, RefuseShort, FinishBuild, BuildThrows, InFlight
  <2>2. \/ \E why : Throw(b, why)
        \/ \E p \in {"selecting", "settling", "returning"} : phase' = [phase EXCEPT ![b] = p]
    BY <1>2 DEF StartSelection, EndSelection, RefuseShort, FinishBuild, BuildThrows
  <2>3. phase'[b] \in InFlight /\ \A d \in Calls \ {b} : phase'[d] = phase[d]
    BY <1>1, <2>2 DEF Throw, InFlight
  <2> QED
    BY <1>1, <2>1, <2>3, QuietSteps
<1> QED
  BY <1>2, ClaimExactInputsLeases, ClaimFirstFreeInputLeases, SelectInputLeases DEF BuildStep

\* So is every step of a cancel.
LEMMA CancelStepLeases ==
    ASSUME Book, FreeIsUnleased, FreeIsUnleased', NEW c \in Cancels, CancelStep(c)
    PROVE  [Lease!Next]_(Lease!vars)
<1>1. c \in Calls /\ phase \in [Calls -> Phases]
  BY DEF Calls, Book, Typed, TypeOK
<1>2. CASE CancelBuilt(c) \/ CancelThrows(c)
  <2>1. phase[c] \in InFlight /\ clock' = clock /\ ledger' = ledger
    BY <1>2 DEF CancelBuilt, CancelThrows, InFlight
  <2>2. Throw(c, "other") \/ phase' = [phase EXCEPT ![c] = "returning"]
    BY <1>2 DEF CancelBuilt, CancelThrows
  <2>3. phase'[c] \in InFlight /\ \A d \in Calls \ {c} : phase'[d] = phase[d]
    BY <1>1, <2>2 DEF Throw, InFlight
  <2> QED
    BY <1>1, <2>1, <2>3, QuietSteps
<1> QED
  BY <1>2, ClaimCommitOutpointLeases DEF CancelStep

\* A failure's clean-up and a release surrender the caller's leases and no other's.
LEMMA GiveBackLeases ==
    ASSUME Book, FreeIsUnleased', NEW c \in Calls, ReleaseFailed(c) \/ ReleaseReservation(c)
    PROVE  Lease!Next
<1>1. phase \in [Calls -> Phases]
  BY DEF Book, Typed, TypeOK
<1>2. /\ clock' = clock /\ ledger' = ledger
      /\ \E p \in {"failed", "released"} : phase' = [phase EXCEPT ![c] = p]
  BY DEF ReleaseFailed, ReleaseReservation
<1>3. phase'[c] \in {"failed", "released"} /\ \A d \in Calls \ {c} : phase'[d] = phase[d]
  BY <1>1, <1>2
<1>4. ~Holding(c)'
  BY <1>3 DEF Holding, InFlight
<1>5. \A d \in Calls \ {c} : Leases(d)' = Leases(d)
  BY <1>2, <1>3, OthersLeases
<1>6. Lease!Surrender(c)
  BY <1>2, <1>4, <1>5, LeasesSurrendered
<1> QED
  BY <1>6 DEF Lease!Next

\* Every step of the book is a step of the leases, or changes none.
LEMMA NextLeases ==
    ASSUME Book, FreeIsUnleased, FreeIsUnleased', [Next]_vars
    PROVE  [Lease!Next]_(Lease!vars)
<1>1. phase \in [Calls -> Phases]
  BY DEF Book, Typed, TypeOK
<1>2. ASSUME NEW c \in Calls, MintTicket(c) PROVE [Lease!Next]_(Lease!vars)
  <2>1. /\ phase[c] = "returning" /\ clock' = clock /\ ledger' = ledger
        /\ phase' = [phase EXCEPT ![c] = "returned"]
    BY <1>2, MintTicketEffect
  <2>2. /\ phase[c] \in InFlight /\ phase'[c] \in InFlight \cup {"returned"}
        /\ \A d \in Calls \ {c} : phase'[d] = phase[d]
    BY <1>1, <2>1 DEF InFlight
  <2> QED
    BY <2>1, <2>2, QuietSteps
<1>3. CASE ReleaseUnknown \/ UNCHANGED vars
  <2>1. clock' = clock /\ UNCHANGED <<phase, ledger>>
    BY <1>3 DEF ReleaseUnknown, vars
  <2>2. \A d \in Calls : Leases(d)' = Leases(d)
    BY <2>1 DEF Leases, Holding
  <2> QED
    BY <2>1, <2>2, LeasesStand
<1>4. CASE Tick
  BY <1>4, TickElapses DEF Lease!Next, Book
<1> QED
  BY <1>2, <1>3, <1>4, BuildStepLeases, CancelStepLeases, GiveBackLeases DEF Next

\* The book implements the leases it stands for: whatever the calls do and however
\* they end, an outpoint has one holder or holders that may share it, and is free
\* exactly when no lease on it runs.
THEOREM BookImplementsLeases == Spec => ImplementsLeases
<1>1. Book /\ FreeIsUnleased /\ FreeIsUnleased' /\ [Next]_vars => [Lease!Next]_(Lease!vars)
  BY NextLeases
<1> QED
  BY <1>1, InitLeases, InitBook, NextBook, BookFrees, PTL DEF Spec, ImplementsLeases, Lease!Spec

-----------------------------------------------------------------------------
(* Builds that wait for nothing.  Whoever claims first keeps the event loop  *)
(* to the end of its walk, so it finds every candidate it needs; a cancel    *)
(* could hold one of them, so the theorem is about builds alone.             *)

\* A job its own candidates can pay for, each of them listed once.
Affordable(j) ==
    /\ j.need <= Len(j.utxos)
    /\ \A i, k \in DOMAIN j.utxos : j.utxos[i] = j.utxos[k] => i = k

\* A build that has not been asked for.
Untried(b) ==
    /\ phase[b] = "idle" /\ err[b] = "none"
    /\ build[b].utxos = build[b].job.utxos /\ build[b].pos = 1 /\ build[b].ins = <<>>

\* Nobody has used the encoder yet.
Quiet ==
    /\ running = NoCall /\ \A b \in Builds : Untried(b)
    /\ \A o \in Outpoints : resv[o] = 0

\* The first build to claim, until its walk is over: it holds the event loop,
\* has skipped nothing, and nobody holds what is left of its order.
Ahead(b) ==
    /\ running = b /\ phase[b] \in {"bound", "selecting"} /\ err[b] = "none"
    /\ build[b].utxos = build[b].job.utxos
    /\ build[b].pos <= Len(build[b].utxos) + 1 /\ Len(build[b].ins) = build[b].pos - 1
    /\ \A i \in build[b].pos .. Len(build[b].utxos) :
          \/ build[b].job.exact \/ build[b].utxos[i] = build[b].first
          \/ resv[build[b].utxos[i]] = 0

\* A build that is not refused for want of inputs, now or later.
Served(b) ==
    \/ phase[b] = "settling" /\ ~Short(b) /\ err[b] = "none"
    \/ phase[b] \in {"returning", "returned", "released"} /\ err[b] = "none"
    \/ phase[b] \in {"failing", "failed"} /\ err[b] \notin {"short", "empty"}

Contention ==
    (\A b \in Builds : NeverSuspends(b)) => Quiet \/ \E b \in Builds : Ahead(b) \/ Served(b)

\* A build keeps the job it was given.
LEMMA JobsStand ==
    ASSUME Typed, [Next]_vars, NEW b \in Builds
    PROVE  build'[b].job = build[b].job
<1>1. build \in [Builds -> BuildState] /\ build[b] \in BuildState
  BY DEF Typed, TypeOK
<1>2. CASE ClaimFirstFreeInput(b)
  <2> DEFINE utxos == build[b].utxos
             free  == {i \in DOMAIN utxos : Unexpired(resv, clock)[utxos[i]] = 0}
             o     == utxos[Min(free)]
             r     == [build[b] EXCEPT !.first = o, !.key = TxOf[o], !.utxos = HeadFirst(utxos, Min(free))]
  <2>1. CASE free = {}
    BY <1>2, <2>1, SMTT(30) DEF ClaimFirstFreeInput
  <2>2. CASE free # {}
    <3>1. build' = [build EXCEPT ![b] = r]
      BY <1>2, <2>2, Zenon DEF ClaimFirstFreeInput
    <3>2. r.job = build[b].job
      BY <1>1 DEF BuildState
    <3> HIDE DEF r
    <3> QED
      BY <1>1, <3>1, <3>2
  <2> QED
    BY <2>1, <2>2
<1>3. CASE StartSelection(b)
  <2>1. build'[b] = [build[b] EXCEPT !.now = clock]
    BY <1>1, <1>3 DEF StartSelection
  <2> QED
    BY <1>1, <2>1 DEF BuildState
<1>4. CASE SelectInput(b)
  <2> DEFINE i == Min(Remaining(b))
             r == [build[b] EXCEPT !.ins = Append(@, build[b].utxos[i]), !.pos = i + 1]
  <2>1. build' = [build EXCEPT ![b] = r]
    BY <1>4 DEF SelectInput
  <2>2. r.job = build[b].job
    BY <1>1 DEF BuildState
  <2> HIDE DEF r
  <2> QED
    BY <1>1, <2>1, <2>2
<1>5. CASE BuildStep(b) /\ ~(ClaimFirstFreeInput(b) \/ StartSelection(b) \/ SelectInput(b))
  BY <1>5, Zenon DEF BuildStep, ClaimExactInputs, EndSelection, RefuseShort, FinishBuild, BuildThrows
<1>6. CASE ReleaseFailed(b) \/ MintTicket(b) \/ ReleaseReservation(b)
  BY <1>6, Zenon DEF ReleaseFailed, MintTicket, ReleaseReservation
<1>7. CASE Apart(b)
  BY <1>7 DEF Apart
<1> QED
  BY <1>2, <1>3, <1>4, <1>5, <1>6, <1>7, StepsApart

\* The splice of the head of the order leaves the order as it is.
LEMMA HeadStays ==
    ASSUME NEW S, NEW s \in Seq(S), s # <<>>
    PROVE  HeadFirst(s, 1) = s
<1>1. Len(s) \in Nat \ {0} /\ s[1] \in S
  OBVIOUS
<1>2. /\ SubSeq(s, 1, 0) = <<>> /\ SubSeq(s, 2, Len(s)) \in Seq(S)
      /\ Len(SubSeq(s, 2, Len(s))) = Len(s) - 1
      /\ \A k \in 1..(Len(s) - 1) : SubSeq(s, 2, Len(s))[k] = s[k + 1]
  <2>1. SubSeq(s, 1, 0) = <<>>
    BY <1>1
  <2>2. \A k \in 2 .. Len(s) : s[k] \in S
    OBVIOUS
  <2>3. /\ SubSeq(s, 2, Len(s)) \in Seq(S)
        /\ Len(SubSeq(s, 2, Len(s))) = IF 2 <= Len(s) THEN Len(s) - 2 + 1 ELSE 0
        /\ \A k \in 1 .. Len(s) - 2 + 1 : SubSeq(s, 2, Len(s))[k] = s[2 + k - 1]
    BY <1>1, <2>2, SubSeqProperties
  <2>4. \A k \in 1..(Len(s) - 1) : SubSeq(s, 2, Len(s))[k] = s[k + 1]
    BY <1>1
  <2>5. Len(SubSeq(s, 2, Len(s))) = Len(s) - 1
    <3> DEFINE m == Len(SubSeq(s, 2, Len(s)))
               n == Len(s)
    <3>1. m = IF 2 <= n THEN n - 2 + 1 ELSE 0
      BY <2>3
    <3>2. n \in Nat \ {0}
      BY <1>1
    <3> HIDE DEF m, n
    <3>3. m = n - 1
      BY <3>1, <3>2
    <3> QED
      BY <3>3 DEF m, n
  <2> QED
    BY <2>1, <2>3, <2>4, <2>5
<1>3. RemoveAt(s, 1) = SubSeq(s, 2, Len(s))
  BY <1>1, <1>2 DEF RemoveAt
<1> DEFINE t == SubSeq(s, 2, Len(s))
           h == <<s[1]>> \o t
<1>4. HeadFirst(s, 1) = h
  BY <1>3 DEF HeadFirst
<1>5. h \in Seq(S) /\ Len(h) = Len(s)
  BY <1>1, <1>2
<1>6. \A k \in 1..Len(s) : h[k] = s[k]
  <2> TAKE k \in 1..Len(s)
  <2>1. CASE k = 1
    BY <2>1, <1>1, <1>2
  <2>2. CASE k # 1
    <3>1. h[k] = t[k - 1]
      BY <1>1, <1>2, <2>2
    <3> QED
      BY <1>1, <1>2, <2>2, <3>1
  <2> QED
    BY <2>1, <2>2
<1> HIDE DEF h, t
<1>7. h = s
  BY <1>5, <1>6
<1> QED
  BY <1>4, <1>7

\* What the assumption on jobs and the type of a build say, field by field.
LEMMA JobFields ==
    ASSUME Typed, NEW b \in Builds
    PROVE  /\ b \in Calls /\ b # NoCall
           /\ build[b] \in BuildState /\ build[b].job \in Jobs
           /\ build[b].utxos \in Seq(Outpoints) /\ build[b].ins \in Seq(Outpoints)
           /\ build[b].pos \in Nat \ {0} /\ build[b].now \in Nat
           /\ build[b].job.utxos \in Seq(Outpoints) \ {<<>>} /\ build[b].job.need \in Nat \ {0}
           /\ build[b].job.exact \in BOOLEAN /\ build[b].job.keyed \in BOOLEAN
<1>1. build[b] \in BuildState
  BY DEF Typed, TypeOK
<1>2. build[b].job \in Jobs
  BY <1>1 DEF BuildState
<1>3. b \in Calls /\ b # NoCall
  BY ReservationsAssumption DEF Calls
<1>4. /\ build[b].utxos \in Seq(Outpoints) /\ build[b].ins \in Seq(Outpoints)
      /\ build[b].pos \in Nat \ {0} /\ build[b].now \in Nat
  BY <1>1 DEF BuildState
<1> QED
  BY <1>1, <1>2, <1>3, <1>4, JobsAssumption

\* A map without an entry has none after a sweep.
LEMMA EmptySwept ==
    ASSUME Typed, \A o \in Outpoints : resv[o] = 0
    PROVE  \A o \in Outpoints : Unexpired(resv, clock)[o] = 0
BY SweptTable, Zenon

\* The first to claim a named set gets it, and keeps the event loop.
LEMMA ExactClaimAhead ==
    ASSUME Typed, Quiet, NEW b \in Builds, NeverSuspends(b), ClaimExactInputs(b)
    PROVE  Ahead(b)'
<1> DEFINE table == Unexpired(resv, clock)
           named == ToSet(build[b].utxos)
<1>1. \A o \in Outpoints : table[o] = 0
  BY EmptySwept DEF Quiet
<1>2. Untried(b) /\ ~build[b].job.keyed
  BY DEF Quiet, NeverSuspends
<1>3. build[b].job.exact /\ build' = build
  BY Zenon DEF ClaimExactInputs
<1>4. named \subseteq Outpoints
  BY JobFields DEF ToSet
<1>5. ~ \E o \in named : table[o] > 0
  <2> HIDE DEF table, named
  <2> QED
    BY <1>1, <1>4
<1>6. AfterBind(b) /\ err' = err
  BY <1>5, Zenon DEF ClaimExactInputs
<1>7. running' = b /\ phase'[b] = "bound" /\ err'[b] = "none"
  <2>1. phase \in [Calls -> Phases] /\ b \in Calls
    BY JobFields DEF Typed, TypeOK
  <2> QED
    BY <1>2, <1>6, <2>1 DEF AfterBind, Untried
<1>8. build[b].pos = 1 /\ Len(build[b].ins) = 0 /\ Len(build[b].utxos) \in Nat
  BY <1>2, JobFields DEF Untried
<1> HIDE DEF table, named
<1> QED
  BY <1>2, <1>3, <1>7, <1>8 DEF Ahead, Untried

\* The first to claim greedily gets the head of its order, and keeps the event loop.
LEMMA GreedyClaimAhead ==
    ASSUME Typed, Quiet, NEW b \in Builds, NeverSuspends(b), ClaimFirstFreeInput(b)
    PROVE  Ahead(b)'
<1> DEFINE table == Unexpired(resv, clock)
           utxos == build[b].utxos
           free  == {i \in DOMAIN utxos : table[utxos[i]] = 0}
           i     == Min(free)
           o     == utxos[i]
           r     == [build[b] EXCEPT !.first = o, !.key = TxOf[o], !.utxos = HeadFirst(utxos, i)]
<1>1. \A p \in Outpoints : table[p] = 0
  BY EmptySwept DEF Quiet
<1>2. Untried(b) /\ ~build[b].job.keyed
  BY DEF Quiet, NeverSuspends
<1>3. /\ b \in Calls /\ build[b] \in BuildState /\ build \in [Builds -> BuildState]
      /\ utxos \in Seq(Outpoints) /\ utxos # <<>> /\ build[b].job.utxos = utxos
      /\ table \in [Outpoints -> Nat] /\ phase \in [Calls -> Phases]
  BY <1>2, JobFields, SweptTable DEF Typed, TypeOK, Untried
<1>4. 1 \in free /\ free \in SUBSET Nat /\ \A k \in free : k >= 1
  <2> HIDE DEF table
  <2>1. 1 \in DOMAIN utxos /\ utxos[1] \in Outpoints /\ DOMAIN utxos = 1..Len(utxos)
    BY <1>3
  <2> QED
    BY <1>1, <2>1
<1>5. i = 1
  <2> HIDE DEF free
  <2>1. i \in free /\ \A k \in free : i <= k
    BY <1>4, MinOfNaturals
  <2> HIDE DEF i
  <2> QED
    BY <1>4, <2>1
<1>6. /\ resv' = [table EXCEPT ![o] = clock + TTL]
      /\ build' = [build EXCEPT ![b] = r]
      /\ AfterBind(b) /\ err' = err
  BY <1>4, Zenon DEF ClaimFirstFreeInput
<1>7. HeadFirst(utxos, i) = utxos
  BY <1>3, <1>5, HeadStays
<1>8. r.first = o /\ r.utxos = utxos /\ r.ins = <<>> /\ r.pos = 1 /\ r.job = build[b].job
  BY <1>2, <1>3, <1>7 DEF BuildState, Untried
<1> HIDE DEF r, i, o, free
<1>9. build'[b] = r
  BY <1>3, <1>6
<1>10. running' = b /\ phase'[b] = "bound" /\ err'[b] = "none"
  BY <1>2, <1>3, <1>6 DEF AfterBind, Untried
<1>11. \A p \in Outpoints : p = o \/ resv'[p] = 0
  <2> HIDE DEF table
  <2> QED
    BY <1>1, <1>3, <1>6
<1>12. \A k \in 1..Len(utxos) : utxos[k] \in Outpoints
  BY <1>3
<1>13. Len(utxos) \in Nat /\ Len(<<>>) = 0
  BY <1>3
<1> HIDE DEF table, utxos
<1> QED
  BY <1>3, <1>8, <1>9, <1>10, <1>11, <1>12, <1>13 DEF Ahead

\* An encoder that nobody has used is left so, or some build is the first to
\* claim and keeps the event loop.
LEMMA QuietMoves ==
    ASSUME Typed, Quiet, Cancels = {}, \A b \in Builds : NeverSuspends(b), [Next]_vars
    PROVE  Quiet' \/ \E b \in Builds : Ahead(b)'
<1>1. \A b \in Builds : phase[b] = "idle"
  BY DEF Quiet, Untried
<1>2. ASSUME NEW b \in Builds, BuildStep(b)
      PROVE  Ahead(b)'
  <2>1. phase[b] = "idle" /\ NeverSuspends(b)
    BY <1>1
  <2>2. ClaimExactInputs(b) \/ ClaimFirstFreeInput(b)
    BY <1>2, <2>1, Zenon DEF BuildStep, StartSelection, SelectInput, EndSelection,
           RefuseShort, FinishBuild, BuildThrows
  <2> QED
    BY <2>1, <2>2, ExactClaimAhead, GreedyClaimAhead
<1>3. ASSUME NEW c \in Calls, ReleaseFailed(c) \/ MintTicket(c) \/ ReleaseReservation(c)
      PROVE  FALSE
  BY <1>1, <1>3 DEF Calls, ReleaseFailed, MintTicket, ReleaseReservation
<1>4. CASE ReleaseUnknown
  <2>1. \A o \in Outpoints : resv'[o] = 0
    BY <1>4, EmptySwept DEF ReleaseUnknown, Quiet
  <2>2. running' = NoCall /\ phase' = phase /\ err' = err /\ build' = build
    BY <1>4 DEF ReleaseUnknown
  <2> QED
    BY <2>1, <2>2 DEF Quiet, Untried
<1>5. CASE Tick \/ UNCHANGED vars
  BY <1>5 DEF Tick, maps, vars, Quiet, Untried
<1> QED
  BY <1>2, <1>3, <1>4, <1>5 DEF Next

\* Reading the clock for the walk takes nothing away.
LEMMA StartSelectionAhead ==
    ASSUME Typed, NEW b \in Builds, Ahead(b), StartSelection(b)
    PROVE  Ahead(b)'
<1> DEFINE r == [build[b] EXCEPT !.now = clock]
<1>1. /\ build \in [Builds -> BuildState] /\ phase \in [Calls -> Phases]
      /\ b \in Calls /\ build[b] \in BuildState /\ build[b].utxos \in Seq(Outpoints)
      /\ resv \in [Outpoints -> Nat] /\ build[b].pos \in Nat \ {0}
  BY JobFields DEF Typed, TypeOK
<1>2. /\ build' = [build EXCEPT ![b] = r] /\ phase' = [phase EXCEPT ![b] = "selecting"]
      /\ running' = b /\ err' = err /\ resv' = Unexpired(resv, clock)
  BY <1>1 DEF StartSelection
<1>3. /\ r.utxos = build[b].utxos /\ r.pos = build[b].pos /\ r.ins = build[b].ins
      /\ r.job = build[b].job /\ r.first = build[b].first
  BY <1>1 DEF BuildState
<1>4. \A o \in Outpoints : resv[o] = 0 => resv'[o] = 0
  <2>1. clock \in Nat
    BY DEF Typed, TypeOK
  <2> QED
    BY <1>2, <2>1, SweptTable
<1>5. \A i \in build[b].pos .. Len(build[b].utxos) : build[b].utxos[i] \in Outpoints
  BY <1>1
<1> HIDE DEF r
<1>6. build'[b] = r /\ phase'[b] = "selecting"
  BY <1>1, <1>2
<1> QED
  BY <1>2, <1>3, <1>4, <1>5, <1>6 DEF Ahead

\* What the build ahead may take: everything that is left of its order.
LEMMA AllRemain ==
    ASSUME Typed, NEW b \in Builds, Ahead(b)
    PROVE  Remaining(b) = build[b].pos .. Len(build[b].utxos)
<1>1. build[b].utxos \in Seq(Outpoints) /\ build[b].now \in Nat /\ build[b].pos \in Nat \ {0}
  BY JobFields
<1>2. \A i \in build[b].pos .. Len(build[b].utxos) : Takeable(b, build[b].utxos[i])
  <2>1. 0 <= build[b].now
    BY <1>1
  <2> QED
    BY <2>1 DEF Ahead, Takeable
<1> QED
  BY <1>2 DEF Remaining

\* It takes the next candidate, and leaves the ones after it free.
LEMMA SelectInputAhead ==
    ASSUME Typed, NEW b \in Builds, Affordable(build[b].job), NeverSuspends(b),
           Ahead(b), SelectInput(b)
    PROVE  Ahead(b)'
<1> DEFINE i     == Min(Remaining(b))
           o     == build[b].utxos[i]
           stamp == build[b].now + TTL
           r     == [build[b] EXCEPT !.ins = Append(@, o), !.pos = i + 1]
<1>1. /\ build \in [Builds -> BuildState] /\ build[b] \in BuildState
      /\ build[b].utxos \in Seq(Outpoints) /\ build[b].ins \in Seq(Outpoints)
      /\ build[b].pos \in Nat \ {0} /\ resv \in [Outpoints -> Nat]
      /\ build[b].utxos = build[b].job.utxos
  BY JobFields DEF Typed, TypeOK, Ahead
<1>2. /\ build' = [build EXCEPT ![b] = r] /\ phase' = phase /\ err' = err
      /\ running' = IF o \in LegacyInputs THEN NoCall ELSE b
  BY DEF SelectInput
<1>3. resv' = resv \/ resv' = [resv EXCEPT ![o] = stamp]
  BY DEF SelectInput
<1>4. build[b].pos <= Len(build[b].utxos) /\ i = build[b].pos
  <2>1. Remaining(b) = build[b].pos .. Len(build[b].utxos) /\ Remaining(b) # {}
    BY AllRemain DEF SelectInput
  <2>2. build[b].pos <= Len(build[b].utxos)
    BY <1>1, <2>1
  <2>3. i \in Remaining(b) /\ \A k \in Remaining(b) : i <= k
    <3>1. Remaining(b) \in SUBSET Nat
      BY <1>1, <2>1
    <3> QED
      BY <2>1, <3>1, MinOfNaturals
  <2>4. build[b].pos \in Remaining(b)
    BY <1>1, <2>1, <2>2
  <2> HIDE DEF i
  <2> QED
    BY <1>1, <2>1, <2>2, <2>3, <2>4
<1>5. o \in Outpoints /\ o \notin LegacyInputs
  <2>1. i \in DOMAIN build[b].utxos
    <3> HIDE DEF i
    <3> QED
      BY <1>1, <1>4
  <2>2. o \in Outpoints /\ o \in ToSet(build[b].job.utxos)
    <3> HIDE DEF i
    <3> QED
      BY <1>1, <2>1 DEF ToSet
  <2> QED
    BY <2>2 DEF NeverSuspends
<1>6. /\ r.ins = Append(build[b].ins, o) /\ r.pos = i + 1 /\ r.first = build[b].first
      /\ r.utxos = build[b].utxos /\ r.job = build[b].job
  BY <1>1 DEF BuildState
<1> HIDE DEF i, r, stamp
<1>7. build'[b] = r
  BY <1>1, <1>2
<1>8. Len(r.ins) = r.pos - 1 /\ r.pos <= Len(r.utxos) + 1
  <2>1. Len(Append(build[b].ins, o)) = Len(build[b].ins) + 1 /\ Len(build[b].ins) \in Nat
    BY <1>1, <1>5
  <2>2. Len(build[b].ins) = build[b].pos - 1 /\ Len(build[b].utxos) \in Nat
    BY <1>1 DEF Ahead
  <2> QED
    BY <1>1, <1>4, <1>6, <2>1, <2>2
<1>9. ASSUME NEW k \in r.pos .. Len(r.utxos)
      PROVE  r.job.exact \/ r.utxos[k] = r.first \/ resv'[r.utxos[k]] = 0
  <2>1. /\ k \in build[b].pos .. Len(build[b].utxos) /\ k # i
        /\ k \in DOMAIN build[b].utxos /\ i \in DOMAIN build[b].utxos
    BY <1>1, <1>4, <1>6, <1>9
  <2>2. build[b].utxos[k] # o /\ build[b].utxos[k] \in Outpoints
    BY <1>1, <2>1 DEF Affordable
  <2>3. resv'[build[b].utxos[k]] = resv[build[b].utxos[k]]
    BY <1>1, <1>3, <2>2
  <2> QED
    BY <1>6, <2>1, <2>3 DEF Ahead
<1>10. running' = b /\ phase'[b] \in {"bound", "selecting"} /\ err'[b] = "none"
  BY <1>2, <1>5 DEF Ahead
<1> QED
  BY <1>1, <1>6, <1>7, <1>8, <1>9, <1>10 DEF Ahead

\* Its walk ends with enough.
LEMMA EndSelectionServes ==
    ASSUME Typed, NEW b \in Builds, Affordable(build[b].job), NeverSuspends(b),
           Ahead(b), EndSelection(b)
    PROVE  Served(b)'
<1>1. /\ build[b].utxos \in Seq(Outpoints) /\ build[b].ins \in Seq(Outpoints)
      /\ build[b].pos \in Nat \ {0} /\ build[b].job.need \in Nat \ {0}
      /\ build[b].utxos = build[b].job.utxos
      /\ b \in Calls /\ phase \in [Calls -> Phases]
  BY JobFields DEF Typed, TypeOK, Ahead
<1>2. Len(build[b].ins) >= build[b].job.need
  <2>1. CASE Funded(b)
    BY <2>1 DEF Funded
  <2>2. CASE Remaining(b) = {}
    <3>1. build[b].pos .. Len(build[b].utxos) = {}
      BY <2>2, AllRemain
    <3>2. build[b].pos > Len(build[b].utxos)
      BY <1>1, <3>1
    <3>3. Len(build[b].ins) = Len(build[b].utxos)
      BY <1>1, <3>2 DEF Ahead
    <3> QED
      BY <1>1, <3>3 DEF Affordable
  <2> QED
    BY <2>1, <2>2 DEF EndSelection
<1>3. build[b].ins # <<>> /\ ~Short(b)
  BY <1>1, <1>2 DEF Short
<1>4. ~build[b].job.keyed
  BY DEF NeverSuspends
<1>5. build' = build /\ err' = err /\ phase' = [phase EXCEPT ![b] = "settling"]
  BY <1>3, <1>4, Zenon DEF EndSelection
<1>6. phase'[b] = "settling"
  BY <1>1, <1>5
<1>7. Short(b)' <=> Short(b)
  BY <1>5 DEF Short
<1> QED
  BY <1>3, <1>5, <1>6, <1>7 DEF Served, Ahead

\* A build that is ahead stays ahead until it is served, whatever the clock does.
LEMMA AheadMoves ==
    ASSUME Typed, NEW b \in Builds, Affordable(build[b].job), NeverSuspends(b),
           Ahead(b), [Next]_vars
    PROVE  Ahead(b)' \/ Served(b)'
<1>1. /\ b \in Calls /\ b # NoCall /\ running = b /\ phase[b] \in {"bound", "selecting"}
      /\ phase \in [Calls -> Phases] /\ err \in [Calls -> Errors]
  BY JobFields DEF Typed, TypeOK, Ahead
<1>2. ASSUME NEW d \in Builds, BuildStep(d), d # b PROVE FALSE
  BY <1>1, <1>2, Zenon DEF BuildStep, ClaimExactInputs, ClaimFirstFreeInput, StartSelection,
         SelectInput, EndSelection, RefuseShort, FinishBuild, BuildThrows, Turn
<1>3. CASE BuildStep(b)
  <2>1. StartSelection(b) \/ SelectInput(b) \/ EndSelection(b) \/ BuildThrows(b)
    BY <1>1, <1>3 DEF BuildStep, ClaimExactInputs, ClaimFirstFreeInput, RefuseShort, FinishBuild
  <2>2. CASE BuildThrows(b)
    <3>1. phase'[b] = "failing" /\ err'[b] = "other"
      BY <1>1, <2>2 DEF BuildThrows, Throw
    <3> QED
      BY <3>1 DEF Served
  <2> QED
    BY <2>1, <2>2, StartSelectionAhead, SelectInputAhead, EndSelectionServes
<1>4. ASSUME NEW c \in Cancels, CancelStep(c) PROVE FALSE
  BY <1>1, <1>4, Zenon DEF CancelStep, ClaimCommitOutpoint, CancelBuilt, CancelThrows
<1>5. ASSUME NEW c \in Calls, ReleaseFailed(c) \/ MintTicket(c) \/ ReleaseReservation(c) PROVE FALSE
  BY <1>1, <1>5, Zenon DEF ReleaseFailed, MintTicket, ReleaseReservation
<1>6. ~ReleaseUnknown
  BY <1>1 DEF ReleaseUnknown
<1>7. CASE Tick \/ UNCHANGED vars
  BY <1>7 DEF Tick, maps, vars, Ahead
<1> QED
  BY <1>2, <1>3, <1>4, <1>5, <1>6, <1>7 DEF Next

\* A build that has enough is never refused for want of inputs.
LEMMA ServedStays ==
    ASSUME Typed, NEW b \in Builds, Served(b), [Next]_vars
    PROVE  Served(b)'
<1>1. b \in Calls /\ phase \in [Calls -> Phases] /\ err \in [Calls -> Errors]
  BY JobFields DEF Typed, TypeOK
<1>2. CASE BuildStep(b)
  <2>1. phase[b] = "settling" /\ ~Short(b) /\ err[b] = "none" /\ (FinishBuild(b) \/ BuildThrows(b))
    BY <1>2, Zenon DEF Served, BuildStep, ClaimExactInputs, ClaimFirstFreeInput, StartSelection,
           SelectInput, EndSelection, RefuseShort, FinishBuild, BuildThrows
  <2>2. \/ Throw(b, "duplicate") \/ Throw(b, "other")
        \/ phase' = [phase EXCEPT ![b] = "returning"] /\ err' = err
    BY <2>1, Zenon DEF FinishBuild, BuildThrows
  <2> QED
    BY <1>1, <2>1, <2>2 DEF Served, Throw
<1>3. CASE ReleaseFailed(b)
  <2>1. phase[b] = "failing" /\ phase'[b] = "failed" /\ err' = err
    BY <1>1, <1>3 DEF ReleaseFailed
  <2> QED
    BY <2>1 DEF Served
<1>4. CASE MintTicket(b)
  <2>1. phase[b] = "returning" /\ phase'[b] = "returned" /\ err' = err
    BY <1>1, <1>4 DEF MintTicket
  <2> QED
    BY <2>1 DEF Served
<1>5. CASE ReleaseReservation(b)
  <2>1. phase[b] = "returned" /\ phase'[b] = "released" /\ err' = err
    BY <1>1, <1>5 DEF ReleaseReservation
  <2> QED
    BY <2>1 DEF Served
<1>6. CASE Apart(b)
  BY <1>6 DEF Apart, Served, Short
<1> QED
  BY <1>2, <1>3, <1>4, <1>5, <1>6, StepsApart

\* At first nobody has used the builder.
LEMMA InitContention == Init => Contention
<1> SUFFICES ASSUME Init PROVE Quiet
  BY DEF Contention
<1>1. ASSUME NEW b \in Builds PROVE Untried(b)
  <2>1. phase[b] = "idle" /\ err[b] = "none" /\ \E j \in Jobs : build[b] = EmptyBuild(j)
    BY DEF Init, Calls
  <2> QED
    BY <2>1 DEF EmptyBuild, Untried
<1> QED
  BY <1>1 DEF Init, Quiet

\* Every step keeps one build ahead or served, once some build has claimed.
LEMMA NextContention ==
    ASSUME Cancels = {}, \A j \in Jobs : Affordable(j)
    PROVE  Typed /\ Contention /\ [Next]_vars => Contention'
<1> SUFFICES ASSUME Typed, Contention, [Next]_vars, (\A b \in Builds : NeverSuspends(b))'
             PROVE  Quiet' \/ \E b \in Builds : Ahead(b)' \/ Served(b)'
  BY DEF Contention
<1>1. \A b \in Builds : NeverSuspends(b)
  BY JobsStand DEF NeverSuspends
<1>2. \A b \in Builds : Affordable(build[b].job)
  BY JobFields
<1>3. CASE Quiet
  BY <1>1, <1>3, QuietMoves
<1>4. ASSUME NEW b \in Builds, Ahead(b) PROVE Ahead(b)' \/ Served(b)'
  BY <1>1, <1>2, <1>4, AheadMoves
<1>5. ASSUME NEW b \in Builds, Served(b) PROVE Served(b)'
  BY <1>5, ServedStays
<1> QED
  BY <1>1, <1>3, <1>4, <1>5 DEF Contention

\* Builds that wait for nothing between their first claim and the end of their
\* selection (_buildTransaction suspends only where a step yields) never all come
\* up short: each can pay for itself, no cancel competes, and the first to claim
\* is not refused for want of inputs.
THEOREM SomeBuildServed ==
    ASSUME Builds # {}, Cancels = {}, \A j \in Jobs : Affordable(j)
    PROVE  Spec => []NoMutualStarvation
<1>1. Init => Typed /\ Contention
  BY InitTyped, InitContention
<1>2. Typed /\ Contention /\ [Next]_vars => Typed' /\ Contention'
  BY NextTyped, NextContention
<1>3. Contention => NoMutualStarvation
  BY DEF Contention, NoMutualStarvation, Quiet, Untried, Ahead, Served
<1> QED
  BY <1>1, <1>2, <1>3, PTL DEF Spec
=============================================================================
