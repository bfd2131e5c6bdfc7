--------------------------- MODULE AncestorPackage ---------------------------
(***************************************************************************)
(* getUnconfirmedAncestorPackage: the unconfirmed transactions a build     *)
(* would descend from, gathered branch by branch with two calls to the     *)
(* node for each of its inputs' transactions, while blocks confirm them,   *)
(* the mempool drops them and a reorganisation brings them back.           *)
(*                                                                         *)
(* A txid stands for its entry, the bytes and the fee it is priced with;   *)
(* the map of entries is the set of its keys, the sum over it is data.     *)
(***************************************************************************)
EXTENDS Naturals, Sequences

CONSTANTS
    Txids,
    Spends,     \* the pairs of a transaction and one whose outputs it spends
    RootLists   \* the inputs' transactions of a build, uniqueTxids

\* uniqueTxids keeps the first of each.
UniqueTxids(txids) == \A i, j \in DOMAIN txids : txids[i] = txids[j] => i = j

ASSUME PackageAssumption ==
    /\ Spends \subseteq Txids \X Txids
    /\ \A txids \in RootLists : txids \in Seq(Txids) /\ UniqueTxids(txids)

VARIABLES
    place,          \* txid -> "mempool", "chain" or "gone"
    unreadable,     \* the entries without a usable size or fee
    roots, pos,     \* the loop over the roots
    awaited,        \* the call awaited, "done" or "null"
    packageEntries,
    staged,
    base,           \* history: packageEntries when the branch was begun
    stuck           \* history: what has been in the mempool ever since

mempoolVars == <<place, unreadable>>
packageVars == <<mempoolVars, roots, pos, awaited, packageEntries, staged, base, stuck>>

InMempool == {t \in Txids : place[t] = "mempool"}

SpentBy(t) == {a \in Txids : <<t, a>> \in Spends}

\* The least set that holds what t spends and what each of its members spends.
AncestorsOf ==
    LET Above(t) == {S \in SUBSET Txids : SpentBy(t) \subseteq S /\ \A s \in S : SpentBy(s) \subseteq S}
    IN  [t \in Txids |-> {a \in Txids : \A S \in Above(t) : a \in S}]

Ancestors(t) == AncestorsOf[t]

Descendants(t) == {d \in Txids : t \in Ancestors(d)}

\* What a node can hold: nothing spends what is gone, or confirms before it.
Consistent(where) ==
    \A t \in Txids : \A a \in Ancestors(t) :
        /\ where[t] = "chain" => where[a] = "chain"
        /\ where[t] = "mempool" => where[a] # "gone"

PackageInit ==
    /\ place \in {w \in [Txids -> {"mempool", "chain", "gone"}] : Consistent(w)}
    /\ unreadable \in {{}} \cup {{t} : t \in Txids}
    /\ roots \in RootLists
    /\ pos = 1
    /\ awaited = IF roots = <<>> THEN "done" ELSE "entry"
    /\ packageEntries = {} /\ staged = {} /\ base = {}
    /\ stuck = InMempool

-----------------------------------------------------------------------------
(* collectAncestorBranch                                                    *)

Root == roots[pos]

\* entrySize and entryFee read the entry of either kind of node.
Priced(t) == t \notin unreadable

\* recordPackageEntry fails on a new entry it cannot price.
Recordable(entries) == \A t \in entries \ (packageEntries \cup staged) : Priced(t)

ReturnNull ==
    /\ awaited' = "null"
    /\ UNCHANGED <<pos, packageEntries, staged, base>>

\* Fault variant: a root the mempool does not hold ends the query.
AbsentEndsQuery(entries) ==
    /\ packageEntries' = entries
    /\ staged' = {} /\ base' = entries
    /\ pos' = pos + 1
    /\ awaited' = IF pos = Len(roots) \/ entries = packageEntries THEN "done" ELSE "entry"

\* On to the next root with these entries, or to the sum.
EndBranch(entries) ==
    /\ packageEntries' = entries
    /\ staged' = {} /\ base' = entries
    /\ pos' = pos + 1
    /\ awaited' = IF pos = Len(roots) THEN "done" ELSE "entry"

\* Fault variant: the root's entry goes to the package at once.
EntryUnstaged ==
    /\ awaited = "entry"
    /\ \/ Root \notin InMempool /\ EndBranch(packageEntries)
       \/ /\ Root \in InMempool /\ Recordable({Root})
          /\ packageEntries' = packageEntries \cup {Root}
          /\ awaited' = "ancestors"
          /\ UNCHANGED <<pos, staged, base>>
       \/ Root \in InMempool /\ ~Recordable({Root}) /\ ReturnNull
    /\ UNCHANGED <<mempoolVars, roots, stuck>>

\* getmempoolentry: a root the mempool does not hold has nothing to carry.
ReadEntry ==
    /\ awaited = "entry"
    /\ \/ Root \notin InMempool /\ EndBranch(packageEntries)
       \/ /\ Root \in InMempool /\ Recordable({Root})
          /\ staged' = {Root} \ packageEntries
          /\ awaited' = "ancestors"
          /\ UNCHANGED <<pos, packageEntries, base>>
       \/ Root \in InMempool /\ ~Recordable({Root}) /\ ReturnNull
    /\ UNCHANGED <<mempoolVars, roots, stuck>>

\* getmempoolancestors: a root that is absent by now takes its branch with it.
ReadAncestors ==
    /\ awaited = "ancestors"
    /\ LET above == Ancestors(Root) \cap InMempool
       IN  \/ Root \notin InMempool /\ EndBranch(packageEntries)
           \/ Root \in InMempool /\ Recordable(above) /\ EndBranch(packageEntries \cup staged \cup above)
           \/ Root \in InMempool /\ ~Recordable(above) /\ ReturnNull
    /\ UNCHANGED <<mempoolVars, roots, stuck>>

\* A timeout, an error body other than -5, an answer without sizes and fees.
CallFails ==
    /\ awaited \in {"entry", "ancestors"}
    /\ ReturnNull
    /\ UNCHANGED <<mempoolVars, roots, stuck>>

-----------------------------------------------------------------------------
(* The node.                                                                *)

Moves(ts, from, to) ==
    /\ \A t \in ts : place[t] \in from
    /\ place' = [t \in Txids |-> IF t \in ts THEN to ELSE place[t]]
    /\ Consistent(place')
    /\ stuck' = stuck \ ts
    /\ awaited \in {"entry", "ancestors"}
    /\ UNCHANGED <<unreadable, roots, pos, awaited, packageEntries, staged, base>>

\* A block; more of its transactions are more of these steps.
Confirms == \E t \in InMempool : Moves({t}, {"mempool"}, "chain")

\* An eviction or a replacement takes what descends from it along.
Drops == \E t \in InMempool : Moves({t} \cup (Descendants(t) \cap InMempool), {"mempool"}, "gone")

\* A new transaction, a rebroadcast, a reorganisation.
Returns == \E t \in Txids \ InMempool : Moves({t}, {"chain", "gone"}, "mempool")

PackageNext == ReadEntry \/ ReadAncestors \/ CallFails \/ Confirms \/ Drops \/ Returns

PackageSpec == PackageInit /\ [][PackageNext]_packageVars

-----------------------------------------------------------------------------

PackageTypeOK ==
    /\ place \in [Txids -> {"mempool", "chain", "gone"}] /\ Consistent(place)
    /\ unreadable \subseteq Txids
    /\ roots \in RootLists /\ pos \in 1 .. (Len(roots) + 1)
    /\ awaited \in {"entry", "ancestors", "done", "null"}
    /\ {packageEntries, staged, base, stuck} \subseteq SUBSET Txids
    /\ packageEntries \cap (staged \cup unreadable) = {}

\* What has been stuck since the query began is carried, with every ancestor
\* that has been stuck as long, whatever confirmed, dropped or returned around it
\* and however often two inputs share it: the child of an operator's rescue is
\* priced for the whole chain it descends from (fee_estimation.js:220-233).
StuckChainCarried ==
    /\ PackageTypeOK
    /\ awaited = "done" =>
        \A i \in DOMAIN roots : roots[i] \in stuck =>
            {roots[i]} \cup (Ancestors(roots[i]) \cap stuck) \subseteq packageEntries

\* A branch is taken from one mempool: what it adds was unconfirmed, with all its
\* unconfirmed ancestors, when the branch was finished, so that a root confirmed
\* between the two calls leaves nothing (fee_estimation.js:55-58, 71-74).
BranchIsOneMempool ==
    [][pos' # pos =>
        \A t \in packageEntries' \ base :
            t \in InMempool /\ Ancestors(t) \cap InMempool \subseteq packageEntries']_packageVars

\* The package is neither short of what the child must carry nor padded with what
\* confirmed while it was gathered.
BranchesCarried == []StuckChainCarried /\ BranchIsOneMempool
=============================================================================
