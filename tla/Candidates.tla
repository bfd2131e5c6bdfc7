----------------------------- MODULE Candidates -----------------------------
(***************************************************************************)
(* From the UTXO rows a build is given, or the tracker serves it, to the   *)
(* candidates it selects from: the exact-input checks, the mempool filter, *)
(* the deduplication and the order.  Drafts that name the same rows in     *)
(* different listings are followed side by side.                           *)
(*                                                                         *)
(* A row lists an outpoint; two rows of one outpoint may differ in the     *)
(* spelling of its txid and, listed around a block, in its confirmations.  *)
(***************************************************************************)
EXTENDS Naturals, Sequences, FiniteSets, SequencesExt

CONSTANTS
    Drafts,
    Outpoints,
    Value,      \* outpoint -> its value
    Rank,       \* outpoint -> its place by txid and vout
    Listings,   \* sequences of rows
    Options,    \* [exactInputs, unconfirmed : BOOLEAN, reveal : {"no", "hex", "bare"}]
    Absent      \* a confirmations field that is missing

Rows == [out : Outpoints, spelt : {"lower", "upper"}, confirmations : {Absent, 0, 1}]

ASSUME CandidatesAssumption ==
    /\ Value \in [Outpoints -> Nat]
    /\ Rank \in [Outpoints -> Nat]
    /\ \A o, p \in Outpoints : Rank[o] = Rank[p] => o = p
    /\ Listings \subseteq Seq(Rows)
    /\ Absent \notin Nat

VARIABLES
    options,            \* what every build asks for
    caller,             \* build -> the utxos it came with
    tracker,            \* build -> the utxos the tracker would list for it
    step,               \* build -> where it is, or its refusal
    utxos,              \* build -> the candidates
    fetchedFromTracker  \* build -> whether they are the tracker's

given == <<options, caller, tracker>>
candidateVars == <<given, step, utxos, fetchedFromTracker>>

\* The rows a build is to choose from.
Source(b) == IF fetchedFromTracker[b] THEN tracker[b] ELSE caller[b]

CandidatesInit ==
    /\ options \in Options
    /\ \E some \in Listings : \E rows \in [Drafts -> {l \in Listings : ToSet(l) = ToSet(some)}] :
        \/ caller = rows /\ tracker = [b \in Drafts |-> <<>>]
        \/ caller = [b \in Drafts |-> <<>>] /\ tracker = rows
    /\ step = [b \in Drafts |-> "start"]
    /\ utxos = caller
    /\ fetchedFromTracker = [b \in Drafts |-> FALSE]

-----------------------------------------------------------------------------

IsUnconfirmedUtxo(row) == row.confirmations \in {Absent, 0}

\* Fault variant: the key is the txid as it is spelt.
OutpointKeyAsSpelt(row) == <<row.out, row.spelt>>

OutpointKey(row) == row.out

StepTo(b, next) == step' = [step EXCEPT ![b] = next]

\* Exact inputs need a list, and a call whose inputs are selected at all.
CheckExactInputs(b) ==
    /\ step[b] = "start"
    /\ StepTo(b, IF options.exactInputs /\ (options.reveal # "no" \/ caller[b] = <<>>)
               THEN "INVALID_PARAMS" ELSE "gather")
    /\ UNCHANGED <<given, utxos, fetchedFromTracker>>

\* The caller's list, none for a reveal, or the tracker's.
GatherUtxos(b) ==
    /\ step[b] = "gather"
    /\ StepTo(b, IF caller[b] = <<>> /\ options.reveal # "hex" THEN "fetch" ELSE "shrunk")
    /\ UNCHANGED <<given, utxos, fetchedFromTracker>>

\* fetchTrackerUtxos, after the reading TrackerReads has: the rows are taken as
\* validateUtxoEntry leaves them, none of them is NO_UTXOS, and a failure is typed.
FetchTrackerUtxos(b) ==
    /\ step[b] = "fetch"
    /\ \/ /\ tracker[b] # <<>>
          /\ StepTo(b, "shrunk")
          /\ fetchedFromTracker' = [fetchedFromTracker EXCEPT ![b] = TRUE]
          /\ utxos' = [utxos EXCEPT ![b] =
               [i \in DOMAIN tracker[b] |-> [tracker[b][i] EXCEPT
                   !.spelt = "lower", !.confirmations = IF @ = Absent THEN 0 ELSE @]]]
       \/ /\ tracker[b] = <<>>
          /\ StepTo(b, "NO_UTXOS")
          /\ UNCHANGED <<utxos, fetchedFromTracker>>
       \/ /\ StepTo(b, "UTXO_TRACKER_ERROR")
          /\ UNCHANGED <<utxos, fetchedFromTracker>>
    /\ UNCHANGED given

Names(rows) == \A i, j \in DOMAIN rows : OutpointKey(rows[i]) = OutpointKey(rows[j]) => i = j

\* Fault variant: only the repeated outpoints are refused.
RefuseRepeatedInputs(b) ==
    /\ step[b] = "shrunk"
    /\ StepTo(b, IF options.exactInputs /\ ~Names(utxos[b]) THEN "INVALID_PARAMS" ELSE "filter")
    /\ UNCHANGED <<given, utxos, fetchedFromTracker>>

\* What the filter below would drop from an exact list is refused instead.
RefuseShrunkExactInputs(b) ==
    /\ step[b] = "shrunk"
    /\ LET shrinks == \/ ~options.unconfirmed /\ \E row \in ToSet(utxos[b]) : IsUnconfirmedUtxo(row)
                      \/ ~Names(utxos[b])
       IN  StepTo(b, IF options.exactInputs /\ shrinks THEN "INVALID_PARAMS" ELSE "filter")
    /\ UNCHANGED <<given, utxos, fetchedFromTracker>>

\* The n-th of a set: as many of its members are before it as n counts before.
Nth(I, order, n) == CHOOSE i \in I : Cardinality({j \in I : <<j, i>> \in order}) = n - 1

\* The rows at these places, in this order of the places.
RowsAt(rows, I, order) == [n \in 1 .. Cardinality(I) |-> rows[Nth(I, order, n)]]

Stays(row) == options.unconfirmed \/ ~IsUnconfirmedUtxo(row)

AsListed(I) == {p \in I \X I : p[1] < p[2]}

\* Fault variant: the mempool filter comes after the deduplication.
SurvivorsDedupedFirst(rows) ==
    LET kept == {i \in DOMAIN rows :
                   /\ Stays(rows[i])
                   /\ \A j \in DOMAIN rows : j < i => OutpointKey(rows[j]) # OutpointKey(rows[i])}
    IN  RowsAt(rows, kept, AsListed(kept))

\* The rows the mempool filter leaves, of those the first of every outpoint.
Survives(rows, i) ==
    /\ Stays(rows[i])
    /\ \A j \in DOMAIN rows : j < i /\ Stays(rows[j]) => OutpointKey(rows[j]) # OutpointKey(rows[i])

Survivors(rows) ==
    LET kept == {i \in DOMAIN rows : Survives(rows, i)}
    IN  RowsAt(rows, kept, AsListed(kept))

\* Fault variant: by value alone, with the listing's order among equals.
OrderedByValue(rows) ==
    LET before == {p \in (DOMAIN rows) \X (DOMAIN rows) :
                     \/ Value[rows[p[1]].out] > Value[rows[p[2]].out]
                     \/ Value[rows[p[1]].out] = Value[rows[p[2]].out] /\ p[1] < p[2]}
    IN  RowsAt(rows, DOMAIN rows, before)

\* compareCandidates: value descending, then txid and vout.
Before(o, p) == Value[o] > Value[p] \/ (Value[o] = Value[p] /\ Rank[o] < Rank[p])

Ordered(rows) ==
    RowsAt(rows, DOMAIN rows, {p \in (DOMAIN rows) \X (DOMAIN rows) : Before(rows[p[1]].out, rows[p[2]].out)})

FilterAndOrderUtxos(b) ==
    /\ step[b] = "filter"
    /\ LET left == Survivors(utxos[b])
       IN  /\ utxos' = [utxos EXCEPT ![b] = IF options.exactInputs THEN left ELSE Ordered(left)]
           /\ StepTo(b, IF left = <<>> /\ options.reveal = "no" THEN "NO_UTXOS" ELSE "selecting")
    /\ UNCHANGED <<given, fetchedFromTracker>>

CandidatesNext ==
    \E b \in Drafts :
        \/ CheckExactInputs(b) \/ GatherUtxos(b) \/ FetchTrackerUtxos(b)
        \/ RefuseShrunkExactInputs(b) \/ FilterAndOrderUtxos(b)

CandidatesSpec == CandidatesInit /\ [][CandidatesNext]_candidateVars

-----------------------------------------------------------------------------

DraftSteps == {"start", "gather", "fetch", "shrunk", "filter", "selecting",
               "INVALID_PARAMS", "NO_UTXOS", "UTXO_TRACKER_ERROR"}

CandidatesTypeOK ==
    /\ options \in Options
    /\ {caller, tracker} \subseteq [Drafts -> Listings \cup {<<>>}]
    /\ step \in [Drafts -> DraftSteps]
    /\ \A b \in Drafts : ToSet(utxos[b]) \subseteq Rows
    /\ fetchedFromTracker \in [Drafts -> BOOLEAN]

OutpointsOf(rows) == [i \in DOMAIN rows |-> rows[i].out]

\* Drafts that name the same rows select from the same outpoints in the same order,
\* so they build one transaction, whatever the order of the listing, how often or in
\* which spelling it repeats an outpoint, and whether a block confirmed it between
\* two of its rows (input_candidates.js:289-291).
ListingOrderIrrelevant ==
    \A b, c \in Drafts :
        /\ ~options.exactInputs
        /\ {step[b], step[c]} \subseteq {"selecting", "NO_UTXOS"}
        => /\ step[b] = step[c]
           /\ OutpointsOf(utxos[b]) = OutpointsOf(utxos[c])

\* Exact inputs are all of the caller's list in the caller's order, or refused
\* (input_candidates.js:80-81, 207-211).
ExactIsExact ==
    \A b \in Drafts : options.exactInputs /\ step[b] \notin {"start", "INVALID_PARAMS"} =>
        caller[b] # <<>> /\ ~fetchedFromTracker[b] /\ utxos[b] = caller[b]

\* Exactly the spendable outpoints of the rows are candidates, each once: no row
\* hides another's outpoint, and an address is out of UTXOs only when it has none
\* that may be spent (input_candidates.js:248-251, 269-273).
SpendableAreCandidates ==
    /\ CandidatesTypeOK
    /\ ExactIsExact
    /\ \A b \in Drafts : step[b] \in {"selecting", "NO_UTXOS"} =>
        LET outs == OutpointsOf(utxos[b])
        IN  /\ IsInjective(outs)
            /\ ToSet(outs) = {row.out : row \in {r \in ToSet(Source(b)) : options.unconfirmed \/ r.confirmations = 1}}
            /\ step[b] = "NO_UTXOS" => outs = <<>>
=============================================================================
