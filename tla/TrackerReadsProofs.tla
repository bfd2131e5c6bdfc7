------------------------- MODULE TrackerReadsProofs -------------------------
(***************************************************************************)
(* What a paged read of the UTXO tracker guarantees, for any chains, any   *)
(* outputs on them, any page limit and cap: its bounds under whatever      *)
(* fields a tracker release publishes, and, when the release names its     *)
(* chain and its mempool commits, that a read which is accepted is one     *)
(* moment of the address, from a tracker fit to serve it.                  *)
(***************************************************************************)
EXTENDS TrackerReads, FiniteSetTheorems, WellFoundedInduction, TLAPS

\* The fields a release must put on a page for the snapshot and the freshness
\* to be decided from it.  An older tracker leaves some out, and the encoder
\* then passes what it cannot judge.
NamesItsState == {"lag", "halted", "ready", "epoch", "hash"} \subseteq Published

-----------------------------------------------------------------------------
(* Sets of numbers.                                                        *)

\* A set of naturals that is not empty has a least element.
LEMMA LeastOf ==
    ASSUME NEW S \in SUBSET Nat, S # {}
    PROVE  \E x \in S : \A y \in S : x <= y
<1>1. IsWellFoundedOn(OpToRel(<, Nat), Nat)
  BY NatLessThanWellFounded
<1>2. PICK x \in S : \A y \in S : ~(<<y, x>> \in OpToRel(<, Nat))
  BY <1>1, WFMin
<1>3. \A y \in S : ~(y < x)
  BY <1>2 DEF OpToRel
<1>. QED
  BY <1>3

\* Max chooses a greatest element of a set of naturals that is bounded.
LEMMA MaxOf ==
    ASSUME NEW S \in SUBSET Nat, S # {}, NEW b \in Nat, \A x \in S : x <= b
    PROVE  Max(S) \in S /\ \A y \in S : y <= Max(S)
<1>. DEFINE Above == {n \in Nat : \A x \in S : x <= n}
<1>1. PICK m \in Above : \A n \in Above : m <= n
  <2>1. Above \in SUBSET Nat /\ Above # {}
    OBVIOUS
  <2>. QED
    BY <2>1, LeastOf
<1>2. m \in S
  <2>1. SUFFICES ASSUME m \notin S PROVE FALSE
    OBVIOUS
  <2>2. \A x \in S : x < m
    BY <1>1, <2>1
  <2>3. m # 0
    <3>1. PICK x \in S : TRUE
      OBVIOUS
    <3>. QED
      BY <1>1, <2>2, <3>1
  <2>4. m - 1 \in Above
    BY <1>1, <2>2, <2>3
  <2>. QED
    BY <1>1, <2>4
<1>3. \E x \in S : \A y \in S : x >= y
  BY <1>1, <1>2
<1>. QED
  BY <1>3 DEF Max

\* Two finite sets with nothing in common are counted apart.
LEMMA CountedApart ==
    ASSUME NEW S, NEW T, IsFiniteSet(S), IsFiniteSet(T), S \cap T = {}
    PROVE  Cardinality(S \cup T) = Cardinality(S) + Cardinality(T)
<1>1. Cardinality(S \cup T) = Cardinality(S) + Cardinality(T) - Cardinality(S \cap T)
  BY FS_Union
<1>2. Cardinality(S \cap T) = 0
  BY FS_EmptySet
<1>3. Cardinality(S) \in Nat /\ Cardinality(T) \in Nat
  BY FS_CardinalityType
<1>. QED
  BY <1>1, <1>2, <1>3

\* A union is no larger than its parts together.
LEMMA UnionIsBounded ==
    ASSUME NEW S, NEW T, IsFiniteSet(S), IsFiniteSet(T)
    PROVE  /\ IsFiniteSet(S \cup T)
           /\ Cardinality(S \cup T) <= Cardinality(S) + Cardinality(T)
<1>1. /\ IsFiniteSet(S \cup T)
      /\ Cardinality(S \cup T) = Cardinality(S) + Cardinality(T) - Cardinality(S \cap T)
  BY FS_Union
<1>2. IsFiniteSet(S \cap T)
  BY FS_Subset, S \cap T \in SUBSET S
<1>3. Cardinality(S) \in Nat /\ Cardinality(T) \in Nat /\ Cardinality(S \cap T) \in Nat
  BY <1>2, FS_CardinalityType
<1>. QED
  BY <1>1, <1>3

-----------------------------------------------------------------------------
(* The tracker's chains and pages.                                         *)

TrackerStates ==
    [chain : Chains, node : Nat, spent : SUBSET Nat, reorgs : Nat, epoch : Nat,
     halted : BOOLEAN, ready : BOOLEAN, syncedWhenEmpty : BOOLEAN]

Constants ==
    /\ PageLimit \in Nat \ {0} /\ Cap \in Nat \ {0} /\ MaxPages \in Nat \ {0}
    /\ MaxHeight \in Nat

LEMMA ConstantsAreNatural == Constants
BY TrackerAssumption DEF Constants

LEMMA ChainIsSequence ==
    ASSUME NEW c \in Chains
    PROVE  c \in Seq(Blocks) /\ Len(c) \in 0 .. MaxHeight /\ c \in [1 .. Len(c) -> Blocks]
<1>1. PICK n \in 0 .. MaxHeight : c \in [1 .. n -> Blocks]
  BY DEF Chains
<1>2. c \in Seq(Blocks) /\ Len(c) = n
  BY <1>1, ConstantsAreNatural DEF Constants
<1>. QED
  BY <1>1, <1>2

LEMMA SequenceIsChain ==
    ASSUME NEW c \in Seq(Blocks), Len(c) <= MaxHeight
    PROVE  c \in Chains
<1>1. Len(c) \in 0 .. MaxHeight /\ c \in [1 .. Len(c) -> Blocks]
  BY ConstantsAreNatural DEF Constants
<1>. QED
  BY <1>1 DEF Chains

\* What an address holds is finite, and numbered from 1.
LEMMA HeldIsFinite ==
    ASSUME NEW t \in TrackerStates
    PROVE  Held(t) \in SUBSET (Nat \ {0}) /\ IsFiniteSet(Held(t))
<1>1. t.chain \in Chains
  BY DEF TrackerStates
<1>2. OutputsOf[t.chain] \in SUBSET (Nat \ {0}) /\ IsFiniteSet(OutputsOf[t.chain])
  BY <1>1, TrackerAssumption
<1>3. Held(t) \in SUBSET OutputsOf[t.chain]
  BY DEF Held
<1>4. IsFiniteSet(Held(t))
  BY <1>2, <1>3, FS_Subset
<1>. QED
  BY <1>2, <1>3, <1>4

LEMMA NothingBeforeTheFirstBlock ==
    ASSUME NEW t \in TrackerStates, t.chain = <<>>
    PROVE  Held(t) = {}
BY TrackerAssumption DEF Held

\* A page's rows are outputs the address holds past the cursor.
LEMMA PageRows ==
    ASSUME NEW t \in TrackerStates, NEW limit \in Int
    PROVE  /\ Page(t, limit).rows \in SUBSET {o \in Held(t) : o > cursor}
           /\ IsFiniteSet(Page(t, limit).rows)
<1>1. Page(t, limit).rows \in SUBSET {o \in Held(t) : o > cursor}
  BY DEF Page
<1>2. Page(t, limit).rows \in SUBSET Held(t)
  BY <1>1
<1>. QED
  BY <1>1, <1>2, HeldIsFinite, FS_Subset

\* A page is what lies past the cursor up to its next one: with no next, all
\* that is left; else the first rows, of which the last names the next page.
LEMMA PageIsAStretch ==
    ASSUME NEW t \in TrackerStates, NEW limit \in Nat \ {0}, cursor \in Nat
    PROVE  /\ Page(t, limit).next \in Nat
           /\ Page(t, limit).next = 0 => Page(t, limit).rows = {o \in Held(t) : o > cursor}
           /\ Page(t, limit).next # 0 =>
                 /\ Page(t, limit).next > cursor
                 /\ Page(t, limit).rows =
                       {o \in Held(t) : o > cursor /\ o <= Page(t, limit).next}
<1>. DEFINE left == {o \in Held(t) : o > cursor}
            upTo(o) == {q \in left : q <= o}
            taken == {o \in left : Cardinality(upTo(o)) <= limit}
<1>1. Page(t, limit) = [rows |-> taken, next |-> IF taken = left THEN 0 ELSE Max(taken)]
  BY DEF Page
<1>2. left \in SUBSET (Nat \ {0}) /\ IsFiniteSet(left)
  <2>1. left \in SUBSET Held(t)
    OBVIOUS
  <2>. QED
    BY <2>1, HeldIsFinite, FS_Subset
<1>3. ASSUME NEW o \in left
      PROVE  IsFiniteSet(upTo(o)) /\ Cardinality(upTo(o)) \in Nat
  <2>1. upTo(o) \in SUBSET left
    OBVIOUS
  <2>. QED
    BY <1>2, <2>1, FS_Subset, FS_CardinalityType
<1>4. ASSUME NEW o \in taken, NEW q \in left, q <= o
      PROVE  q \in taken
  <2>1. upTo(q) \in SUBSET upTo(o)
    BY <1>2, <1>4
  <2>2. o \in left
    OBVIOUS
  <2>3. Cardinality(upTo(q)) <= Cardinality(upTo(o))
    <3>1. IsFiniteSet(upTo(o))
      BY <1>3, <2>2
    <3>. QED
      BY <2>1, <3>1, FS_Subset
  <2>4. Cardinality(upTo(o)) <= limit
    OBVIOUS
  <2>5. Cardinality(upTo(q)) \in Nat /\ Cardinality(upTo(o)) \in Nat
    BY <1>3, <2>2
  <2>6. Cardinality(upTo(q)) <= limit
    BY <2>3, <2>4, <2>5
  <2>. QED
    BY <2>6
<1>5. CASE taken = left
  <2>1. Page(t, limit).next = 0 /\ Page(t, limit).rows = left
    BY <1>1, <1>5
  <2>. QED
    BY <2>1
<1>6. CASE taken # left
  <2>1. PICK u \in left : u \notin taken
    BY <1>6
  <2>2. \A o \in taken : o <= u
    BY <1>2, <1>4, <2>1
  <2>3. taken # {}
    <3>1. PICK m \in left : \A q \in left : m <= q
      BY <1>2, <2>1, LeastOf
    <3>2. upTo(m) = {m}
      BY <1>2, <3>1
    <3>3. Cardinality(upTo(m)) = 1
      BY <3>2, FS_Singleton
    <3>4. Cardinality(upTo(m)) <= limit
      BY <3>3
    <3>. QED
      BY <3>4
  <2>4. taken \in SUBSET Nat /\ u \in Nat
    BY <1>2
  <2>5. Max(taken) \in taken /\ \A o \in taken : o <= Max(taken)
    <3>. HIDE DEF taken
    <3>. QED
      BY <2>2, <2>3, <2>4, MaxOf
  <2>6. taken = {o \in left : o <= Max(taken)}
    <3>1. Max(taken) \in left
      BY <2>5
    <3>2. taken \in SUBSET left
      OBVIOUS
    <3>. HIDE DEF taken, left
    <3>. QED
      BY <1>4, <2>5, <3>1, <3>2
  <2>7. Page(t, limit).next = Max(taken) /\ Page(t, limit).rows = taken
    BY <1>1, <1>6
  <2>8. Max(taken) \in Nat /\ Max(taken) > cursor /\ Max(taken) # 0
    BY <1>2, <2>5
  <2>9. {o \in left : o <= Max(taken)} = {o \in Held(t) : o > cursor /\ o <= Max(taken)}
    OBVIOUS
  <2>. HIDE DEF taken, left
  <2>. QED
    BY <2>6, <2>7, <2>8, <2>9
<1>. QED
  BY <1>5, <1>6
\* The cap leaves room for one row more, so every page asks for at least one.
LEMMA LimitIsPositive ==
    ASSUME IsFiniteSet(rows), Cardinality(rows) <= Cap
    PROVE  NextLimit \in Nat \ {0}
<1>1. Cardinality(rows) \in Nat
  BY FS_CardinalityType
<1>. QED
  BY <1>1, ConstantsAreNatural DEF NextLimit, Constants

-----------------------------------------------------------------------------
(* The invariant.                                                          *)

\* The states of the tracker and of the fetch.
TypesKept ==
    /\ tracker \in TrackerStates
    /\ pc \in {"idle", "page", "gate", "accepted"} \cup Refusals
    /\ pages \in 0 .. MaxPages
    /\ cursor \in Nat /\ cursors \in SUBSET Nat /\ cursor \in cursors \cup {0}
    /\ rows \in SUBSET Nat /\ IsFiniteSet(rows) /\ Cardinality(rows) <= Cap
    /\ DOMAIN sync \in {{}, Published} /\ DOMAIN firstSync \in {{}, Published}
    /\ views \in Seq(TrackerStates)

\* The history holds one view for each page merged, and at most the one that
\* ended the fetch.
ViewsCounted ==
    /\ Len(views) \in pages .. (pages + 1)
    /\ pc \in {"page", "gate", "accepted"} => Len(views) = pages
    /\ pc \in {"gate", "accepted"} => pages > 0
    /\ pc = "UTXO_SET_TOO_LARGE" => Len(views) > 0

\* The tracker's epoch never goes back, and names what its mempool spends.
EpochNamesMempool ==
    \A i \in 1 .. Len(views) :
        /\ views[i].epoch <= tracker.epoch
        /\ views[i].epoch = tracker.epoch => views[i].spent = tracker.spent

\* What the fetch compares against is page 1's; what the gate judges is the last's.
SyncsRemembered ==
    pc \in {"page", "gate", "accepted"} /\ pages > 0 =>
        firstSync = PageSync(views[1]) /\ sync = PageSync(views[Len(views)])

\* The rows of a fetch under way are the first state's, up to the cursor.
RowsAreAPrefix ==
    pc = "page" =>
        /\ pages = 0 => rows = {} /\ cursor = 0
        /\ pages > 0 => rows = {o \in Held(views[1]) : o <= cursor}

\* The rows of a complete fetch are the first state's, on a chain that stood.
RowsAreComplete ==
    pc \in {"gate", "accepted"} =>
        /\ rows = Held(views[1])
        /\ views[Len(views)].chain = views[1].chain

JudgedByTheLast == pc = "accepted" => ~GateRefuses(sync) /\ rows # {}

FetchInv == TypesKept /\ ViewsCounted
SnapshotInv ==
    /\ EpochNamesMempool /\ SyncsRemembered /\ RowsAreAPrefix
    /\ RowsAreComplete /\ JudgedByTheLast /\ TooLargeIsTrue

-----------------------------------------------------------------------------
(* The tracker's steps leave the fetch alone.                              *)

\* A step of the tracker keeps its states, and its epoch moves whenever what
\* its mempool spends does.
Forward ==
    /\ tracker' \in TrackerStates
    /\ tracker'.epoch >= tracker.epoch
    /\ tracker'.epoch = tracker.epoch => tracker'.spent = tracker.spent
    /\ UNCHANGED <<profile, pc, fetch>>

\* The tracker after its mempool was read again, or forgotten.
LEMMA MempoolMoves ==
    ASSUME NEW t \in TrackerStates, NEW S \in SUBSET Nat, NEW n \in Nat, NEW b \in BOOLEAN
    PROVE  [chain |-> t.chain, node |-> t.node, spent |-> S, reorgs |-> n, epoch |-> t.epoch + 1,
            halted |-> t.halted, ready |-> b, syncedWhenEmpty |-> t.syncedWhenEmpty] \in TrackerStates
<1>1. /\ t.chain \in Chains /\ t.node \in Nat /\ t.epoch + 1 \in Nat
      /\ t.halted \in BOOLEAN /\ t.syncedWhenEmpty \in BOOLEAN
  BY DEF TrackerStates
<1>. QED
  BY <1>1, Zenon DEF TrackerStates

LEMMA TrackerGoesForward ==
    ASSUME tracker \in TrackerStates, TrackerMoves
    PROVE  Forward
<1>. USE DEF Forward, Move
<1>0. tracker.chain \in Chains
  BY DEF TrackerStates
<1>1. CASE ConnectBlock
  <2>1. PICK b \in Blocks : Move([tracker EXCEPT !.chain = Append(@, b)])
    BY <1>1 DEF ConnectBlock
  <2>2. tracker.chain \in Seq(Blocks) /\ Len(tracker.chain) < MaxHeight
    BY <1>0, <1>1, ChainIsSequence DEF ConnectBlock
  <2>3. Append(tracker.chain, b) \in Seq(Blocks) /\ Len(Append(tracker.chain, b)) = Len(tracker.chain) + 1
    BY <2>2
  <2>4. Append(tracker.chain, b) \in Chains
    <3>1. MaxHeight \in Nat /\ Len(tracker.chain) \in Nat
      BY <2>2, ConstantsAreNatural DEF Constants
    <3>2. Len(Append(tracker.chain, b)) <= MaxHeight
      BY <2>2, <2>3, <3>1
    <3>. QED
      BY <2>3, <3>2, SequenceIsChain
  <2>5. tracker' = [tracker EXCEPT !.chain = Append(tracker.chain, b)]
    BY <2>1
  <2>6. tracker' \in TrackerStates
    BY <2>4, <2>5 DEF TrackerStates
  <2>7. tracker'.epoch = tracker.epoch /\ tracker'.spent = tracker.spent /\ tracker.epoch \in Nat
    BY <2>5 DEF TrackerStates
  <2>. QED
    BY <2>1, <2>6, <2>7
<1>2. CASE DisconnectBlock
  <2>1. PICK n \in {tracker.reorgs, tracker.reorgs + 1} :
            Move([tracker EXCEPT !.chain = Front(@), !.reorgs = n])
    BY <1>2 DEF DisconnectBlock
  <2>2. tracker.chain \in Seq(Blocks) /\ Len(tracker.chain) \in 1 .. MaxHeight
    <3>1. tracker.chain # <<>>
      BY <1>2 DEF DisconnectBlock
    <3>2. tracker.chain \in Seq(Blocks) /\ Len(tracker.chain) \in 0 .. MaxHeight
      BY <1>0, ChainIsSequence
    <3>. QED
      BY <3>1, <3>2, ConstantsAreNatural DEF Constants
  <2>3. Front(tracker.chain) \in Seq(Blocks) /\ Len(Front(tracker.chain)) = Len(tracker.chain) - 1
    BY <2>2 DEF Front
  <2>4. Front(tracker.chain) \in Chains
    BY <2>2, <2>3, SequenceIsChain, ConstantsAreNatural DEF Constants
  <2>5. tracker' = [tracker EXCEPT !.chain = Front(tracker.chain), !.reorgs = n]
    BY <2>1
  <2>6. n \in Nat
    BY DEF TrackerStates
  <2>7. tracker' \in TrackerStates
    BY <2>4, <2>5, <2>6 DEF TrackerStates
  <2>8. tracker'.epoch = tracker.epoch /\ tracker'.spent = tracker.spent /\ tracker.epoch \in Nat
    BY <2>5 DEF TrackerStates
  <2>. QED
    BY <2>1, <2>7, <2>8
<1>3. CASE CommitMempool
  <2>1. PICK S \in {{}} \cup {{o} : o \in OutputsOf[tracker.chain]} :
            Move([tracker EXCEPT !.spent = S, !.epoch = @ + 1, !.ready = TRUE])
    BY <1>3 DEF CommitMempool
  <2>2. S \in SUBSET Nat
    BY <1>0, TrackerAssumption
  <2>3. tracker' = [tracker EXCEPT !.spent = S, !.epoch = tracker.epoch + 1, !.ready = TRUE]
    BY <2>1
  <2>4. tracker' \in TrackerStates
    <3>1. tracker' =
            [chain |-> tracker.chain, node |-> tracker.node, spent |-> S, reorgs |-> tracker.reorgs,
             epoch |-> tracker.epoch + 1, halted |-> tracker.halted, ready |-> TRUE,
             syncedWhenEmpty |-> tracker.syncedWhenEmpty]
      BY <2>3, Zenon DEF TrackerStates
    <3>2. tracker.reorgs \in Nat
      BY DEF TrackerStates
    <3>. QED
      BY <2>2, <3>1, <3>2, MempoolMoves
  <2>5. tracker'.epoch = tracker.epoch + 1 /\ tracker.epoch \in Nat
    BY <2>3 DEF TrackerStates
  <2>. QED
    BY <2>1, <2>4, <2>5
<1>4. CASE Restart
  <2>1. tracker' = [tracker EXCEPT !.reorgs = 0, !.spent = {}, !.epoch = tracker.epoch + 1, !.ready = FALSE]
    BY <1>4 DEF Restart
  <2>2. tracker' \in TrackerStates
    <3>1. tracker' =
            [chain |-> tracker.chain, node |-> tracker.node, spent |-> {}, reorgs |-> 0,
             epoch |-> tracker.epoch + 1, halted |-> tracker.halted, ready |-> FALSE,
             syncedWhenEmpty |-> tracker.syncedWhenEmpty]
      BY <2>1, Zenon DEF TrackerStates
    <3>. QED
      BY <3>1, MempoolMoves
  <2>3. tracker'.epoch = tracker.epoch + 1 /\ tracker.epoch \in Nat
    BY <2>1 DEF TrackerStates
  <2>. QED
    BY <1>4, <2>2, <2>3 DEF Restart
<1>5. CASE Halt
  <2>1. tracker' = [tracker EXCEPT !.halted = TRUE]
    BY <1>5 DEF Halt
  <2>2. tracker' \in TrackerStates
    BY <2>1 DEF TrackerStates
  <2>3. tracker'.epoch = tracker.epoch /\ tracker'.spent = tracker.spent /\ tracker.epoch \in Nat
    BY <2>1 DEF TrackerStates
  <2>. QED
    BY <1>5, <2>2, <2>3 DEF Halt
<1>6. CASE NodeMoves
  <2>1. PICK h \in {tracker.node - 1, tracker.node + 1} :
            h >= 0 /\ Move([tracker EXCEPT !.node = h])
    BY <1>6 DEF NodeMoves
  <2>2. h \in Nat
    BY <2>1 DEF TrackerStates
  <2>3. tracker' = [tracker EXCEPT !.node = h]
    BY <2>1
  <2>4. tracker' \in TrackerStates
    BY <2>2, <2>3 DEF TrackerStates
  <2>5. tracker'.epoch = tracker.epoch /\ tracker'.spent = tracker.spent /\ tracker.epoch \in Nat
    BY <2>3 DEF TrackerStates
  <2>. QED
    BY <2>1, <2>4, <2>5
<1>. QED
  BY <1>1, <1>2, <1>3, <1>4, <1>5, <1>6 DEF TrackerMoves

\* A view of the history is a tracker.
LEMMA MemberOfViews ==
    ASSUME views \in Seq(TrackerStates), NEW i \in 1 .. Len(views)
    PROVE  views[i] \in TrackerStates
OBVIOUS

LEMMA ForwardKeepsFetch ==
    ASSUME FetchInv, Forward
    PROVE  FetchInv'
BY DEF FetchInv, TypesKept, ViewsCounted, Forward, fetch

LEMMA ForwardKeepsSnapshot ==
    ASSUME FetchInv, SnapshotInv, Forward
    PROVE  SnapshotInv'
<1>0. UNCHANGED <<profile, pc, pages, cursor, cursors, rows, firstSync, sync, views>>
  BY DEF Forward, fetch
<1>1. EpochNamesMempool'
  <2>1. SUFFICES ASSUME NEW i \in 1 .. Len(views)
                 PROVE  /\ views[i].epoch <= tracker'.epoch
                        /\ views[i].epoch = tracker'.epoch => views[i].spent = tracker'.spent
    BY <1>0 DEF EpochNamesMempool
  <2>2. views[i] \in TrackerStates
    BY MemberOfViews DEF FetchInv, TypesKept
  <2>3. views[i].epoch \in Nat /\ tracker.epoch \in Nat /\ tracker'.epoch \in Nat
    BY <2>2 DEF FetchInv, TypesKept, Forward, TrackerStates
  <2>4. views[i].epoch <= tracker.epoch /\ (views[i].epoch = tracker.epoch => views[i].spent = tracker.spent)
    BY DEF SnapshotInv, EpochNamesMempool
  <2>5. tracker'.epoch >= tracker.epoch /\ (tracker'.epoch = tracker.epoch => tracker'.spent = tracker.spent)
    BY DEF Forward
  <2>. QED
    BY <2>3, <2>4, <2>5
<1>2. SyncsRemembered'
  BY <1>0 DEF SnapshotInv, SyncsRemembered
<1>3. RowsAreAPrefix' /\ RowsAreComplete' /\ TooLargeIsTrue'
  BY <1>0 DEF SnapshotInv, RowsAreAPrefix, RowsAreComplete, TooLargeIsTrue, Held, Last
<1>4. JudgedByTheLast'
  BY <1>0 DEF SnapshotInv, JudgedByTheLast, GateRefuses, Unfresh, Has, KnownLag, SyncedClaimed
<1>. QED
  BY <1>1, <1>2, <1>3, <1>4 DEF SnapshotInv
-----------------------------------------------------------------------------
(* The steps that only change where the caller is.                         *)

\* A refusal keeps the fetch as it was; only the page that found the address
\* too large may claim so.
LEMMA Stopped ==
    ASSUME FetchInv,
           pc' \in ({"idle"} \cup Refusals) \ {"UTXO_SET_TOO_LARGE"},
           UNCHANGED <<tracker, profile, fetch>>
    PROVE  FetchInv' /\ (SnapshotInv => SnapshotInv')
<1>0. UNCHANGED <<pages, cursor, cursors, rows, firstSync, sync, views>>
  BY DEF fetch
<1>1. pc' \notin {"page", "gate", "accepted", "UTXO_SET_TOO_LARGE"}
  BY DEF Refusals
<1>2. FetchInv'
  BY <1>0, <1>1 DEF FetchInv, TypesKept, ViewsCounted
<1>3. SnapshotInv => EpochNamesMempool'
  BY <1>0 DEF SnapshotInv, EpochNamesMempool
<1>. QED
  BY <1>1, <1>2, <1>3
  DEF SnapshotInv, SyncsRemembered, RowsAreAPrefix, RowsAreComplete, JudgedByTheLast, TooLargeIsTrue

LEMMA CheckStatusKeeps ==
    ASSUME FetchInv, CheckStatus
    PROVE  FetchInv' /\ (SnapshotInv => SnapshotInv')
<1>1. CASE PreflightRefuses(Status(tracker))
  <2>1. Refuse("NOT_READY")
    BY <1>1 DEF CheckStatus
  <2>2. pc' \in ({"idle"} \cup Refusals) \ {"UTXO_SET_TOO_LARGE"} /\ UNCHANGED <<tracker, profile, fetch>>
    BY <2>1 DEF Refuse, Refusals, settings
  <2>. QED
    BY <2>2, Stopped
<1>2. CASE ~PreflightRefuses(Status(tracker))
  <2>1. StartFetch /\ pc' = "page" /\ UNCHANGED <<tracker, settings>>
    BY <1>2 DEF CheckStatus
  <2>2. views' = <<>> /\ Len(views') = 0 /\ pages' = 0 /\ rows' = {} /\ cursor' = 0 /\ cursors' = {}
    BY <2>1 DEF StartFetch
  <2>3. DOMAIN sync' = {} /\ DOMAIN firstSync' = {}
    BY <2>1 DEF StartFetch
  <2>4. IsFiniteSet(rows') /\ Cardinality(rows') = 0
    BY <2>2, FS_EmptySet
  <2>5. TypesKept'
    <3>1. 0 \in 0 .. MaxPages /\ 0 <= Cap
      BY ConstantsAreNatural DEF Constants
    <3>2. views' \in Seq(TrackerStates)
      BY <2>2
    <3>3. pages' \in 0 .. MaxPages /\ Cardinality(rows') <= Cap
      BY <2>2, <2>4, <3>1
    <3>. QED
      BY <2>1, <2>2, <2>3, <2>4, <3>2, <3>3 DEF FetchInv, TypesKept
  <2>6. ViewsCounted'
    BY <2>1, <2>2 DEF ViewsCounted
  <2>7. EpochNamesMempool'
    BY <2>2 DEF EpochNamesMempool
  <2>. QED
    BY <2>1, <2>2, <2>5, <2>6, <2>7
    DEF FetchInv, SnapshotInv, SyncsRemembered, RowsAreAPrefix, RowsAreComplete, JudgedByTheLast, TooLargeIsTrue
<1>. QED
  BY <1>1, <1>2

LEMMA JudgeKeeps ==
    ASSUME FetchInv, Judge
    PROVE  FetchInv' /\ (SnapshotInv => SnapshotInv')
<1>1. CASE ~GatePasses
  <2>1. pc' = "REFUSED_BY_GATE" /\ UNCHANGED <<tracker, profile, fetch>>
    BY <1>1 DEF Judge, Refuse, settings
  <2>2. pc' \in ({"idle"} \cup Refusals) \ {"UTXO_SET_TOO_LARGE"}
    BY <2>1 DEF Refusals
  <2>. QED
    BY <2>1, <2>2, Stopped
<1>2. CASE GatePasses /\ rows = {}
  <2>1. pc' = "NO_UTXOS" /\ UNCHANGED <<tracker, profile, fetch>>
    BY <1>2 DEF Judge, Refuse, settings
  <2>2. pc' \in ({"idle"} \cup Refusals) \ {"UTXO_SET_TOO_LARGE"}
    BY <2>1 DEF Refusals
  <2>. QED
    BY <2>1, <2>2, Stopped
<1>3. CASE GatePasses /\ rows # {}
  <2>1. pc = "gate" /\ pc' = "accepted" /\ UNCHANGED <<tracker, profile, fetch>>
    BY <1>3 DEF Judge, settings
  <2>2. UNCHANGED <<pages, cursor, cursors, rows, firstSync, sync, views>>
    BY <2>1 DEF fetch
  <2>3. FetchInv'
    BY <2>1, <2>2 DEF FetchInv, TypesKept, ViewsCounted
  <2>4. SnapshotInv => EpochNamesMempool' /\ SyncsRemembered'
    BY <2>1, <2>2 DEF SnapshotInv, EpochNamesMempool, SyncsRemembered
  <2>5. SnapshotInv => RowsAreAPrefix' /\ RowsAreComplete' /\ TooLargeIsTrue'
    BY <2>1, <2>2 DEF SnapshotInv, RowsAreAPrefix, RowsAreComplete, TooLargeIsTrue, Held
  <2>6. JudgedByTheLast'
    BY <1>3, <2>1, <2>2
    DEF JudgedByTheLast, GatePasses, GateRefuses, Unfresh, Has, KnownLag, SyncedClaimed
  <2>. QED
    BY <2>3, <2>4, <2>5, <2>6 DEF SnapshotInv
<1>. QED
  BY <1>1, <1>2, <1>3

LEMMA RequestFailsKeeps ==
    ASSUME FetchInv, RequestFails
    PROVE  FetchInv' /\ (SnapshotInv => SnapshotInv')
<1>1. pc' \in ({"idle"} \cup Refusals) \ {"UTXO_SET_TOO_LARGE"} /\ UNCHANGED <<tracker, profile, fetch>>
  BY DEF RequestFails, Refusals
<1>. QED
  BY <1>1, Stopped

LEMMA RetryKeeps ==
    ASSUME FetchInv, Retry
    PROVE  FetchInv' /\ (SnapshotInv => SnapshotInv')
<1>1. pc' \in ({"idle"} \cup Refusals) \ {"UTXO_SET_TOO_LARGE"} /\ UNCHANGED <<tracker, profile, fetch>>
  BY DEF Retry, Refusals, settings
<1>. QED
  BY <1>1, Stopped

-----------------------------------------------------------------------------
(* A page.                                                                 *)

\* The page a request fetches, and the `sync' that comes with it.
ThePage == Page(tracker, NextLimit)
TheSync == PageSync(tracker)

LEMMA LimitOfFetch ==
    ASSUME FetchInv
    PROVE  NextLimit \in Nat \ {0}
BY LimitIsPositive DEF FetchInv, TypesKept

LEMMA FetchPageKeepsTypes ==
    ASSUME FetchInv, FetchPage
    PROVE  FetchInv'
<1>0. /\ pages \in Nat /\ pages <= MaxPages /\ Len(views) = pages /\ views \in Seq(TrackerStates)
      /\ tracker \in TrackerStates /\ cursor \in Nat
  BY ConstantsAreNatural DEF FetchInv, TypesKept, ViewsCounted, FetchPage, Constants
<1>1. ThePage.rows \in SUBSET {o \in Held(tracker) : o > cursor} /\ IsFiniteSet(ThePage.rows)
  BY <1>0, LimitOfFetch, PageRows DEF ThePage
<1>2. views' = Append(views, tracker) /\ UNCHANGED <<tracker, profile>>
  BY DEF FetchPage, settings
<1>3. views' \in Seq(TrackerStates) /\ Len(views') = pages + 1
  BY <1>0, <1>2
<1>4. CASE PageRefusal(ThePage, TheSync) # "page"
  <2>1. /\ pc' = PageRefusal(ThePage, TheSync)
        /\ UNCHANGED <<tracker, settings, pages, cursor, cursors, rows, firstSync, sync>>
    BY <1>4 DEF FetchPage, ThePage, TheSync
  <2>2. pc' \in {"UTXO_TRACKER_ERROR", "UTXO_SET_TOO_LARGE"}
    BY <1>4, <2>1 DEF PageRefusal
  <2>3. TypesKept'
    BY <1>3, <2>1, <2>2 DEF FetchInv, TypesKept, Refusals
  <2>4. ViewsCounted'
    BY <1>0, <1>3, <2>1, <2>2 DEF ViewsCounted
  <2>. QED
    BY <2>3, <2>4 DEF FetchInv
<1>5. CASE PageRefusal(ThePage, TheSync) = "page"
  <2>1. /\ pages' = pages + 1
        /\ firstSync' = IF pages = 0 THEN TheSync ELSE firstSync
        /\ sync' = TheSync
        /\ rows' = rows \cup ThePage.rows
        /\ cursor' = ThePage.next
        /\ cursors' = IF ThePage.next = 0 THEN cursors ELSE cursors \cup {ThePage.next}
        /\ pc' = IF ThePage.next = 0 THEN "gate" ELSE "page"
    BY <1>5 DEF FetchPage, ThePage, TheSync
  <2>2. pages < MaxPages /\ ~TooMany(ThePage)
    BY <1>0, <1>5, ConstantsAreNatural DEF PageRefusal, Constants
  <2>3. ThePage.next \in Nat
    BY <1>0, LimitOfFetch, PageIsAStretch DEF ThePage
  <2>4. IsFiniteSet(rows') /\ Cardinality(rows') <= Cap
    <3>1. IsFiniteSet(rows)
      BY DEF FetchInv, TypesKept
    <3>2. IsFiniteSet(rows') /\ Cardinality(rows') <= Cardinality(rows) + Cardinality(ThePage.rows)
      BY <1>1, <2>1, <3>1, UnionIsBounded
    <3>3. Cardinality(rows') \in Nat /\ Cardinality(rows) + Cardinality(ThePage.rows) \in Nat
      BY <1>1, <3>1, <3>2, FS_CardinalityType
    <3>4. Cardinality(rows) + Cardinality(ThePage.rows) <= Cap
      BY <2>2, <3>3, ConstantsAreNatural DEF TooMany, Constants
    <3>. QED
      BY <3>2, <3>3, <3>4, ConstantsAreNatural DEF Constants
  <2>5. rows' \in SUBSET Nat
    <3>1. Held(tracker) \in SUBSET Nat
      BY <1>0, HeldIsFinite
    <3>. QED
      BY <1>1, <2>1, <3>1 DEF FetchInv, TypesKept
  <2>6. DOMAIN sync' = Published /\ DOMAIN firstSync' \in {{}, Published}
    BY <2>1 DEF FetchInv, TypesKept, TheSync, PageSync
  <2>7. cursor' \in Nat /\ cursors' \in SUBSET Nat /\ cursor' \in cursors' \cup {0}
    BY <2>1, <2>3 DEF FetchInv, TypesKept
  <2>8. pages' \in 0 .. MaxPages /\ pages' > 0
    BY <1>0, <2>1, <2>2, ConstantsAreNatural DEF Constants
  <2>9. TypesKept'
    BY <1>2, <1>3, <2>1, <2>4, <2>5, <2>6, <2>7, <2>8 DEF FetchInv, TypesKept
  <2>10. ViewsCounted'
    BY <1>0, <1>3, <2>1, <2>8 DEF ViewsCounted
  <2>. QED
    BY <2>9, <2>10 DEF FetchInv
<1>. QED
  BY <1>4, <1>5
\* While nothing in the answer contradicts page 1, the address holds what it
\* held then: the chain is named by its hash, the mempool by its epoch.
LEMMA SameStateSameOutputs ==
    ASSUME NamesItsState, FetchInv, SnapshotInv, pc = "page", pages > 0, ~Mixed(TheSync)
    PROVE  views[1].chain = tracker.chain /\ Held(views[1]) = Held(tracker)
<1>1. firstSync = PageSync(views[1]) /\ ~Diverged(firstSync, TheSync)
  BY DEF SnapshotInv, SyncsRemembered, Mixed
<1>2. "hash" \in Published /\ "epoch" \in Published
  BY DEF NamesItsState
<1>3. firstSync["hash"] = TheSync["hash"] /\ firstSync["epoch"] = TheSync["epoch"]
  <2>1. Has(firstSync, "hash") /\ Has(TheSync, "hash") /\ Has(firstSync, "epoch") /\ Has(TheSync, "epoch")
    BY <1>1, <1>2 DEF Has, TheSync, PageSync
  <2>. QED
    BY <1>1, <2>1 DEF Diverged, Differ
<1>4. firstSync["hash"] = views[1].chain /\ TheSync["hash"] = tracker.chain
  BY <1>1, <1>2 DEF TheSync, PageSync, Field
<1>5. firstSync["epoch"] = views[1].epoch /\ TheSync["epoch"] = tracker.epoch
  BY <1>1, <1>2 DEF TheSync, PageSync, Field
<1>6. 1 \in 1 .. Len(views)
  BY DEF FetchInv, TypesKept, ViewsCounted
<1>7. views[1].spent = tracker.spent
  BY <1>3, <1>5, <1>6 DEF SnapshotInv, EpochNamesMempool
<1>. QED
  BY <1>3, <1>4, <1>7 DEF Held

\* The rows merged so far are what the address holds up to the cursor, whether
\* this page is the first or a later one.
LEMMA RowsBeforeThePage ==
    ASSUME NamesItsState, FetchInv, SnapshotInv, pc = "page", ~Mixed(TheSync)
    PROVE  rows = {o \in Held(tracker) : o <= cursor}
<1>0. tracker \in TrackerStates /\ pages \in Nat
  BY ConstantsAreNatural DEF FetchInv, TypesKept, Constants
<1>1. CASE pages = 0
  <2>1. rows = {} /\ cursor = 0
    BY <1>1 DEF SnapshotInv, RowsAreAPrefix
  <2>2. Held(tracker) \in SUBSET (Nat \ {0})
    BY <1>0, HeldIsFinite
  <2>. QED
    BY <2>1, <2>2
<1>2. CASE pages > 0
  BY <1>2, SameStateSameOutputs DEF SnapshotInv, RowsAreAPrefix
<1>. QED
  BY <1>0, <1>1, <1>2

\* A page that overflows the cap shows an address that really holds more.
LEMMA OverflowIsReal ==
    ASSUME NamesItsState, FetchInv, SnapshotInv, pc = "page", ~Mixed(TheSync), TooMany(ThePage)
    PROVE  Cardinality(Held(tracker)) > Cap
<1>0. tracker \in TrackerStates /\ cursor \in Nat /\ IsFiniteSet(rows)
  BY DEF FetchInv, TypesKept
<1>1. rows = {o \in Held(tracker) : o <= cursor}
  BY RowsBeforeThePage
<1>2. ThePage.rows \in SUBSET {o \in Held(tracker) : o > cursor} /\ IsFiniteSet(ThePage.rows)
  BY <1>0, LimitOfFetch, PageRows DEF ThePage
<1>3. Held(tracker) \in SUBSET Nat /\ IsFiniteSet(Held(tracker))
  BY <1>0, HeldIsFinite
<1>4. rows \cap ThePage.rows = {}
  BY <1>0, <1>1, <1>2, <1>3
<1>5. rows \cup ThePage.rows \in SUBSET Held(tracker)
  BY <1>1, <1>2
<1>6. Cardinality(rows \cup ThePage.rows) = Cardinality(rows) + Cardinality(ThePage.rows)
  BY <1>0, <1>2, <1>4, CountedApart
<1>7. Cardinality(rows \cup ThePage.rows) <= Cardinality(Held(tracker))
  BY <1>3, <1>5, FS_Subset
<1>8. Cardinality(rows) \in Nat /\ Cardinality(ThePage.rows) \in Nat /\ Cardinality(Held(tracker)) \in Nat
  BY <1>0, <1>2, <1>3, FS_CardinalityType
<1>. QED
  BY <1>6, <1>7, <1>8, ConstantsAreNatural DEF TooMany, Constants

LEMMA FetchPageKeepsSnapshot ==
    ASSUME NamesItsState, FetchInv, SnapshotInv, FetchPage
    PROVE  SnapshotInv'
<1>0. /\ pc = "page" /\ pages \in Nat /\ Len(views) = pages /\ views \in Seq(TrackerStates)
      /\ tracker \in TrackerStates /\ cursor \in Nat /\ tracker.epoch \in Nat
  BY ConstantsAreNatural DEF FetchInv, TypesKept, ViewsCounted, FetchPage, Constants, TrackerStates
<1>1. views' = Append(views, tracker) /\ UNCHANGED <<tracker, profile>>
  BY DEF FetchPage, settings
<1>2. /\ Len(views') = pages + 1
      /\ views'[pages + 1] = tracker
      /\ \A i \in 1 .. pages : views'[i] = views[i]
  BY <1>0, <1>1
<1>3. EpochNamesMempool'
  <2>1. ASSUME NEW i \in 1 .. (pages + 1)
        PROVE  /\ views'[i].epoch <= tracker.epoch
               /\ views'[i].epoch = tracker.epoch => views'[i].spent = tracker.spent
    <3>1. CASE i = pages + 1
      BY <1>0, <1>2, <3>1
    <3>2. CASE i # pages + 1
      <4>1. i \in 1 .. Len(views) /\ views'[i] = views[i]
        BY <1>0, <1>2, <3>2
      <4>. QED
        BY <4>1 DEF SnapshotInv, EpochNamesMempool
    <3>. QED
      BY <3>1, <3>2
  <2>. QED
    BY <1>1, <1>2, <2>1 DEF EpochNamesMempool
<1>4. Last(views') = tracker
  BY <1>0, <1>2 DEF Last
<1>5. CASE PageRefusal(ThePage, TheSync) # "page"
  <2>1. /\ pc' = PageRefusal(ThePage, TheSync)
        /\ UNCHANGED <<pages, cursor, cursors, rows, firstSync, sync>>
    BY <1>5 DEF FetchPage, ThePage, TheSync
  <2>2. pc' \in {"UTXO_TRACKER_ERROR", "UTXO_SET_TOO_LARGE"}
    BY <1>5, <2>1 DEF PageRefusal
  <2>3. TooLargeIsTrue'
    <3>1. SUFFICES ASSUME pc' = "UTXO_SET_TOO_LARGE"
                   PROVE  Cardinality(Held(tracker)) > Cap
      BY <1>1, <1>4 DEF TooLargeIsTrue, Held
    <3>2. ~Mixed(TheSync) /\ TooMany(ThePage)
      BY <2>1, <3>1 DEF PageRefusal
    <3>. QED
      BY <1>0, <3>2, OverflowIsReal
  <2>. QED
    BY <1>3, <2>2, <2>3
    DEF SnapshotInv, SyncsRemembered, RowsAreAPrefix, RowsAreComplete, JudgedByTheLast
<1>6. CASE PageRefusal(ThePage, TheSync) = "page"
  <2>1. /\ pages' = pages + 1
        /\ firstSync' = IF pages = 0 THEN TheSync ELSE firstSync
        /\ sync' = TheSync
        /\ rows' = rows \cup ThePage.rows
        /\ cursor' = ThePage.next
        /\ pc' = IF ThePage.next = 0 THEN "gate" ELSE "page"
    BY <1>6 DEF FetchPage, ThePage, TheSync
  <2>2. ~Mixed(TheSync)
    BY <1>6 DEF PageRefusal
  <2>3. views'[1].chain = tracker.chain /\ Held(views'[1]) = Held(tracker)
    <3>1. CASE pages = 0
      BY <1>2, <3>1
    <3>2. CASE pages > 0
      BY <1>0, <1>2, <2>2, <3>2, SameStateSameOutputs
    <3>. QED
      BY <1>0, <3>1, <3>2
  <2>4. firstSync' = PageSync(views'[1])
    <3>1. CASE pages = 0
      BY <1>2, <2>1, <3>1 DEF TheSync
    <3>2. CASE pages > 0
      BY <1>0, <1>2, <2>1, <3>2 DEF SnapshotInv, SyncsRemembered
    <3>. QED
      BY <1>0, <3>1, <3>2
  <2>5. sync' = PageSync(views'[Len(views')])
    BY <1>2, <2>1 DEF TheSync
  <2>6. rows = {o \in Held(tracker) : o <= cursor}
    BY <1>0, <2>2, RowsBeforeThePage
  <2>7. /\ ThePage.next \in Nat
        /\ ThePage.next = 0 => ThePage.rows = {o \in Held(tracker) : o > cursor}
        /\ ThePage.next # 0 =>
              /\ ThePage.next > cursor
              /\ ThePage.rows = {o \in Held(tracker) : o > cursor /\ o <= ThePage.next}
    BY <1>0, LimitOfFetch, PageIsAStretch DEF ThePage
  <2>8. Held(tracker) \in SUBSET Nat
    BY <1>0, HeldIsFinite
  <2>9. CASE ThePage.next = 0
    <3>1. rows' = Held(tracker)
      BY <1>0, <2>1, <2>6, <2>7, <2>8, <2>9
    <3>2. pc' = "gate"
      BY <2>1, <2>9
    <3>3. RowsAreComplete'
      BY <1>2, <2>3, <3>1, <3>2 DEF RowsAreComplete, Held
    <3>4. SyncsRemembered'
      BY <2>4, <2>5 DEF SyncsRemembered
    <3>. QED
      BY <1>3, <3>2, <3>3, <3>4 DEF SnapshotInv, RowsAreAPrefix, JudgedByTheLast, TooLargeIsTrue
  <2>10. CASE ThePage.next # 0
    <3>1. rows' = {o \in Held(tracker) : o <= ThePage.next}
      BY <1>0, <2>1, <2>6, <2>7, <2>8, <2>10
    <3>2. pc' = "page"
      BY <2>1, <2>10
    <3>3. RowsAreAPrefix'
      BY <1>0, <2>1, <2>3, <3>1 DEF RowsAreAPrefix, Held
    <3>4. SyncsRemembered'
      BY <2>4, <2>5 DEF SyncsRemembered
    <3>. QED
      BY <1>3, <3>2, <3>3, <3>4 DEF SnapshotInv, RowsAreComplete, JudgedByTheLast, TooLargeIsTrue
  <2>. QED
    BY <2>9, <2>10
<1>. QED
  BY <1>5, <1>6

-----------------------------------------------------------------------------
(* The theorems.                                                           *)

LEMMA InitKeeps == Init => FetchInv /\ SnapshotInv
<1>. SUFFICES ASSUME Init PROVE FetchInv /\ SnapshotInv
  OBVIOUS
<1>1. tracker \in TrackerStates
  <2>1. PICK c \in Chains, h \in 0 .. (MaxHeight + SyncedThreshold + 1), s \in BOOLEAN :
          tracker = [chain |-> c, node |-> h, spent |-> {}, reorgs |-> 1, epoch |-> 0,
                     halted |-> FALSE, ready |-> TRUE, syncedWhenEmpty |-> s]
    BY DEF Init
  <2>2. h \in Nat
    BY TrackerAssumption
  <2>. QED
    BY <2>1, <2>2, Zenon DEF TrackerStates
<1>2. pages = 0 /\ cursor = 0 /\ cursors = {} /\ rows = {} /\ firstSync = <<>> /\ sync = <<>> /\ views = <<>> /\ pc = "idle"
  BY DEF Init
<1>3. IsFiniteSet(rows) /\ Cardinality(rows) = 0
  BY <1>2, FS_EmptySet
<1>4. TypesKept
  BY <1>1, <1>2, <1>3, ConstantsAreNatural DEF TypesKept, Constants
<1>5. ViewsCounted /\ EpochNamesMempool
  BY <1>2 DEF ViewsCounted, EpochNamesMempool
<1>. QED
  BY <1>2, <1>4, <1>5
  DEF FetchInv, SnapshotInv, SyncsRemembered, RowsAreAPrefix, RowsAreComplete, JudgedByTheLast, TooLargeIsTrue

\* The invariant: the bounds whatever is published, the snapshot when the
\* release names its state.
ReadInv == FetchInv /\ (NamesItsState => SnapshotInv)

LEMMA StutterKeeps ==
    ASSUME FetchInv, UNCHANGED vars
    PROVE  FetchInv' /\ (SnapshotInv => SnapshotInv')
<1>0. UNCHANGED <<tracker, profile, pc, pages, cursor, cursors, rows, firstSync, sync, views>>
  BY DEF vars, settings, fetch
<1>1. FetchInv'
  BY <1>0 DEF FetchInv, TypesKept, ViewsCounted
<1>2. SnapshotInv => EpochNamesMempool' /\ SyncsRemembered'
  BY <1>0 DEF SnapshotInv, EpochNamesMempool, SyncsRemembered
<1>3. SnapshotInv => RowsAreAPrefix' /\ RowsAreComplete' /\ TooLargeIsTrue'
  BY <1>0 DEF SnapshotInv, RowsAreAPrefix, RowsAreComplete, TooLargeIsTrue, Held, Last
<1>4. SnapshotInv => JudgedByTheLast'
  BY <1>0 DEF SnapshotInv, JudgedByTheLast, GateRefuses, Unfresh, Has, KnownLag, SyncedClaimed
<1>. QED
  BY <1>1, <1>2, <1>3, <1>4 DEF SnapshotInv

\* Every step of the tracker, the read and the caller keeps the read's
\* invariant: one state of the address behind the rows of a fetch under way,
\* the `sync' of its first and last page beside them (utxo_tracker.js:294-312).
THEOREM ReadInvariant == Spec => []ReadInv
<1>1. Init => ReadInv
  BY InitKeeps DEF ReadInv
<1>2. ReadInv /\ [Next]_vars => ReadInv'
  <2>. SUFFICES ASSUME ReadInv, [Next]_vars PROVE ReadInv'
    OBVIOUS
  <2>0. FetchInv /\ (NamesItsState => SnapshotInv) /\ (NamesItsState' <=> NamesItsState)
    BY DEF ReadInv, NamesItsState
  <2>1. CASE TrackerMoves
    <3>1. Forward
      BY <2>0, <2>1, TrackerGoesForward DEF FetchInv, TypesKept
    <3>. QED
      BY <2>0, <3>1, ForwardKeepsFetch, ForwardKeepsSnapshot DEF ReadInv
  <2>2. CASE CheckStatus
    BY <2>0, <2>2, CheckStatusKeeps DEF ReadInv
  <2>3. CASE FetchPage
    BY <2>0, <2>3, FetchPageKeepsTypes, FetchPageKeepsSnapshot DEF ReadInv
  <2>4. CASE Judge
    BY <2>0, <2>4, JudgeKeeps DEF ReadInv
  <2>5. CASE RequestFails
    BY <2>0, <2>5, RequestFailsKeeps DEF ReadInv
  <2>6. CASE Retry
    BY <2>0, <2>6, RetryKeeps DEF ReadInv
  <2>7. CASE UNCHANGED vars
    BY <2>0, <2>7, StutterKeeps DEF ReadInv
  <2>. QED
    BY <2>1, <2>2, <2>3, <2>4, <2>5, <2>6, <2>7 DEF Next, Read
<1>. QED
  BY <1>1, <1>2, PTL DEF Spec

\* Whatever a tracker release publishes, a read holds no more rows than the cap
\* and asks for no more pages than its bound (assertWithinUtxoCap).
THEOREM ReadsAreBounded == Spec => []TypeOK
<1>1. ReadInv => TypeOK
  BY DEF ReadInv, FetchInv, TypesKept, ViewsCounted, TypeOK, TrackerStates
<1>. QED
  BY <1>1, ReadInvariant, PTL

\* A read that is accepted is everything the address held at one moment, and
\* the last answer it rests on came from a tracker fit to serve it, when the
\* tracker's release names its chain and its mempool commits
\* (utxo_tracker.js:52-73, input_candidates.js:141-157).
THEOREM AcceptedReadsAreOneFreshSnapshot ==
    ASSUME NamesItsState
    PROVE  Spec => []OneFreshSnapshot
<1>1. ReadInv => OneFreshSnapshot
  <2>. SUFFICES ASSUME ReadInv PROVE OneFreshSnapshot
    OBVIOUS
  <2>1. FetchInv /\ SnapshotInv
    BY DEF ReadInv
  <2>2. TypeOK
    BY <2>1 DEF FetchInv, TypesKept, ViewsCounted, TypeOK, TrackerStates
  <2>3. OneSnapshot
    BY <2>1, <2>2 DEF OneSnapshot, SnapshotInv, RowsAreComplete
  <2>4. AcceptedWhileFresh
    <3>. SUFFICES ASSUME pc = "accepted"
                  PROVE  ~Last(views).halted /\ Last(views).ready /\ Lag(Last(views)) \in 0 .. MaxLag
      BY DEF AcceptedWhileFresh
    <3>. DEFINE t == views[Len(views)]
    <3>1. Last(views) = t
      BY DEF Last
    <3>2. Len(views) = pages /\ pages > 0 /\ Len(views) \in Nat
      BY <2>1, ConstantsAreNatural DEF FetchInv, TypesKept, ViewsCounted, Constants
    <3>3. t \in TrackerStates /\ views[1] \in TrackerStates
      BY <2>1, <3>2, MemberOfViews, ConstantsAreNatural DEF FetchInv, TypesKept, Constants
    <3>4. sync = PageSync(t) /\ ~GateRefuses(sync) /\ rows # {} /\ rows = Held(views[1]) /\ t.chain = views[1].chain
      BY <2>1, <3>2 DEF SnapshotInv, SyncsRemembered, JudgedByTheLast, RowsAreComplete
    <3>5. t.chain # <<>>
      BY <3>3, <3>4, NothingBeforeTheFirstBlock
    <3>6. Lag(t) \in Int /\ Lag(t) # NoLag
      <4>1. t.chain \in Chains /\ t.node \in Nat
        BY <3>3 DEF TrackerStates
      <4>2. Len(t.chain) \in Int
        BY <4>1, ChainIsSequence, ConstantsAreNatural DEF Constants
      <4>3. t.node - Len(t.chain) \in Int
        BY <4>1, <4>2
      <4>. HIDE DEF t
      <4>. QED
        BY <3>5, <4>3, TrackerAssumption DEF Lag
    <3>. HIDE DEF t
    <3>7. /\ Has(sync, "lag") /\ sync["lag"] = Lag(t)
          /\ Has(sync, "halted") /\ sync["halted"] = t.halted
          /\ Has(sync, "ready") /\ sync["ready"] = t.ready
      BY <3>4 DEF NamesItsState, Has, PageSync, Field
    <3>8. ~Unfresh(sync)
      BY <3>4 DEF GateRefuses
    <3>9. KnownLag(sync)
      BY <3>6, <3>7 DEF KnownLag
    <3>. QED
      BY <3>1, <3>7, <3>8, <3>9 DEF Unfresh
  <2>. QED
    BY <2>3, <2>4 DEF OneFreshSnapshot
<1>. QED
  BY <1>1, ReadInvariant, PTL

\* An address is called too large only if it is: the refusal that tells the
\* caller not to retry never comes from pages of two states, when the release
\* names its state (utxo_tracker.js:277-292).
THEOREM TooLargeMeansTooLarge ==
    ASSUME NamesItsState
    PROVE  Spec => []TooLargeIsTrue
<1>1. ReadInv => TooLargeIsTrue
  BY DEF ReadInv, SnapshotInv
<1>. QED
  BY <1>1, ReadInvariant, PTL
=============================================================================
