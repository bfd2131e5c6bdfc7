---------------------------- MODULE MCBuildReads ----------------------------
(***************************************************************************)
(* What a build reads before it selects: the rate of FeeQuotes, the        *)
(* ancestors of AncestorPackage and the candidates of Candidates.  They    *)
(* share no state, so a behaviour is of one of them, its part, and the     *)
(* others stay as they started.                                            *)
(*                                                                         *)
(* Fees: one quote and one build, with estimates one below and one at the  *)
(* middle, one that the test chains' ceiling on quotes cuts and one beyond *)
(* sanity, and a floor that is reported or not.  Ancestors: a grandparent, *)
(* a parent of two roots, and the roots.  Candidates: three outpoints, two *)
(* of one value, in the listings of at most three of six rows: one         *)
(* outpoint in both spellings, one listed before and after its block, one  *)
(* with no confirmations.                                                  *)
(***************************************************************************)
EXTENDS FeeQuotes, AncestorPackage, Candidates

CONSTANTS quote, build, grandparent, parent, first, second, a, b, c

MCNodes == [chain : {"main", "test", "regtest"}, relayfee : {3, None}]
MCEstimates == {2, 15, 48, 90}

MCTxids == {grandparent, parent, first, second}
MCSpends == {<<parent, grandparent>>, <<first, parent>>, <<second, parent>>, <<second, grandparent>>}
MCRootLists ==
    {<<>>, <<first, second>>, <<first, parent>>, <<parent, second>>, <<second, parent, first>>}

Row(o, s, n) == [out |-> o, spelt |-> s, confirmations |-> n]

MCRows == {Row(a, "lower", 1), Row(a, "upper", 1), Row(a, "lower", Absent),
           Row(b, "lower", 0), Row(b, "upper", 1), Row(c, "lower", 1)}
MCListings == UNION {[1 .. n -> MCRows] : n \in 0 .. 3}
MCValue == [o \in Outpoints |-> IF o = c THEN 9 ELSE 5]
MCRank == [o \in Outpoints |-> CASE o = a -> 2 [] o = b -> 1 [] o = c -> 3]
MCOptions == [exactInputs : BOOLEAN, unconfirmed : BOOLEAN, reveal : {"no", "hex", "bare"}]

VARIABLE part

\* One of the initial states of each, for the parts a behaviour is not of.
FeesRest ==
    /\ node = [chain |-> "main", relayfee |-> None]
    /\ nodeTierOk = FALSE /\ nodeGenesisOk = FALSE
    /\ Init

PackageRest ==
    /\ place = [t \in Txids |-> "gone"] /\ unreadable = {} /\ roots = <<>>
    /\ PackageInit

\* CandidatesInit of no rows.
CandidatesRest ==
    /\ options = [exactInputs |-> FALSE, unconfirmed |-> FALSE, reveal |-> "no"]
    /\ caller = [d \in Drafts |-> <<>>] /\ tracker = caller /\ utxos = caller
    /\ step = [d \in Drafts |-> "start"]
    /\ fetchedFromTracker = [d \in Drafts |-> FALSE]

MCInit ==
    \/ part = "fees" /\ Init /\ PackageRest /\ CandidatesRest
    \/ part = "ancestors" /\ FeesRest /\ PackageInit /\ CandidatesRest
    \/ part = "candidates" /\ FeesRest /\ PackageRest /\ CandidatesInit

MCNext ==
    /\ \/ part = "fees" /\ Next /\ UNCHANGED <<packageVars, candidateVars>>
       \/ part = "ancestors" /\ PackageNext /\ UNCHANGED <<vars, candidateVars>>
       \/ part = "candidates" /\ CandidatesNext /\ UNCHANGED <<vars, packageVars>>
    /\ UNCHANGED part

MCSpec == MCInit /\ [][MCNext]_<<vars, packageVars, candidateVars, part>>
=============================================================================
