------------------------------ MODULE NodeCalls ------------------------------
(***************************************************************************)
(* What the calls behind the request gate do with the coin node: a wallet  *)
(* that broadcasts one transaction, hangs up, asks again and looks up its  *)
(* status, while the node mines, drops and reorganises, and replies get    *)
(* lost; and the node-tier check that broadcasts and readiness probes      *)
(* share, with what the connector remembers of it.                         *)
(*                                                                         *)
(* ConcurrencyGate says which call runs; a call modelled here ends when    *)
(* the method returns or throws.  Batch entries and the methods without a  *)
(* part here stay the gate's plain calls.                                  *)
(***************************************************************************)
EXTENDS ConcurrencyGate

CONSTANTS
    Worlds      \* configurations of an encoder, a node and the transaction

\* chain and network: the tier the node serves and the one configured ("none"
\* where it is not); coin: whether block 0 is the pinned one; pinned: whether a
\* hash is pinned at all; policy: what the node thinks of the transaction.
WorldShape ==
    [chain : {"mainnet", "testnet", "regtest", "unrecognised"}, network : {"mainnet", "testnet", "regtest", "none"},
     coin : {"ours", "other"}, pinned : BOOLEAN, policy : {"valid", "over the cap", "invalid"}]

ASSUME NodeCallsAssumption == Worlds \subseteq WorldShape

VARIABLES
    world,              \* the configuration of this behaviour
    place,              \* the node's transaction: "absent", "mempool", "chain" or "spent"
    indexed,            \* whether the tracker has it in its chain index
    adrift,             \* submissions given up on that the node may still take
    chainNameCache, nodeTierOk, nodeTierMismatch, nodeGenesisOk,    \* the connector's
    stage,              \* request -> the RPC its call awaits, "none" or "over"
    reply,              \* request -> the node's verdict under way to it
    answer,             \* request -> how its call ended
    since               \* history: request -> facts true ever since it was admitted

node == <<place, indexed, adrift>>
memo == <<chainNameCache, nodeTierOk, nodeTierMismatch, nodeGenesisOk>>
call == <<stage, reply, answer, since>>
nodeVars == <<world, node, memo, call>>
allVars == <<vars, nodeVars>>

NodeInit ==
    /\ Init
    /\ world \in Worlds
    /\ place = "absent" /\ indexed = FALSE /\ adrift = {}
    /\ chainNameCache = "unread" /\ nodeTierOk = FALSE /\ nodeTierMismatch = "none" /\ nodeGenesisOk = FALSE
    /\ stage = [r \in Requests |-> "none"]
    /\ reply = [r \in Requests |-> "none"]
    /\ answer = [r \in Requests |-> "none"]
    /\ since = [r \in Requests |-> {}]

FactNames == {"held", "in mempool", "indexed", "shut"}

\* What a caller could know of the transaction and of the encoder.
Facts(where, known, shut) ==
    {f \in FactNames :
        CASE f = "held"       -> where \in {"mempool", "chain"}
          [] f = "in mempool" -> where = "mempool"
          [] f = "indexed"    -> known
          [] f = "shut"       -> shut = "wrong tier"}

\* The node or the tracker moves: a history keeps what is still true.
Remember ==
    since' = [r \in Requests |-> since[r] \cap Facts(place', indexed', nodeTierMismatch')]

-----------------------------------------------------------------------------
(* The tier check: chainName, chainTierMismatch, assertNodeGenesis.         *)

Recognised == {"mainnet", "testnet", "regtest"}

ChainTierMismatch(chain) == chain \in Recognised /\ world.network # chain

\* Fault variant: the name of the chain is asked for anew by every check.
ChainNameUncached == "unread"

ChainName == chainNameCache

\* Where a check goes once the tier is settled: to the block-0 hash, or through.
AfterTier == IF ~world.pinned \/ nodeGenesisOk THEN "checked" ELSE "genesis"

\* How far a check gets in the turn it starts in.
FirstStage ==
    IF world.network = "none" \/ nodeTierOk
    THEN AfterTier
    ELSE CASE ChainName = "unread"         -> "tier"
           [] ChainTierMismatch(ChainName) -> "refused"
           [] OTHER                        -> AfterTier

IsStatus(r) == target[r] \in {"GET /status", "HEAD /status"}

\* A call leaves stage and reply behind when its method settles.
Settle(r, how) ==
    /\ stage' = [stage EXCEPT ![r] = "over"]
    /\ reply' = [reply EXCEPT ![r] = "none"]
    /\ answer' = [answer EXCEPT ![r] = how]
    /\ since' = [since EXCEPT ![r] = {}]

\* ... in a turn of its own: the router's call ends with it.
Answer(r, how) == CallEnds(r) /\ Settle(r, how)

Await(r, next) ==
    /\ stage' = [stage EXCEPT ![r] = next]
    /\ UNCHANGED <<vars, reply, answer, since>>

\* A readiness probe that has its verdict waits for the tracker; a late one has
\* nobody left to tell.
Pass(r) == IF IsStatus(r) THEN Await(r, "over") ELSE Await(r, "send")

Refuse(r) == IF IsStatus(r) THEN Await(r, "over") ELSE Answer(r, "NODE_CHAIN_MISMATCH")

Proceed(r, next) == IF next = "checked" THEN Pass(r) ELSE Await(r, next)

\* getblockchaininfo answers: a mismatch refuses, anything else is remembered as a pass.
TierRead(r) ==
    /\ stage[r] = "tier"
    /\ chainNameCache' = world.chain
    /\ IF ChainTierMismatch(world.chain)
       THEN Refuse(r) /\ nodeTierMismatch' = "wrong tier" /\ UNCHANGED nodeTierOk
       ELSE Proceed(r, AfterTier) /\ nodeTierOk' = TRUE /\ UNCHANGED nodeTierMismatch
    /\ UNCHANGED <<world, node, nodeGenesisOk>>

\* An unreadable chain name fails open, and is not remembered.
TierUnread(r) ==
    /\ stage[r] = "tier"
    /\ Proceed(r, AfterTier)
    /\ UNCHANGED <<world, node, memo>>

GenesisRead(r) ==
    /\ stage[r] = "genesis"
    /\ IF world.coin = "other"
       THEN Refuse(r) /\ nodeTierMismatch' = "wrong genesis" /\ UNCHANGED nodeGenesisOk
       ELSE Pass(r) /\ nodeTierMismatch' = "none" /\ nodeGenesisOk' = TRUE
    /\ UNCHANGED <<world, node, chainNameCache, nodeTierOk>>

GenesisUnread(r) ==
    /\ stage[r] = "genesis"
    /\ Pass(r)
    /\ UNCHANGED <<world, node, memo>>

\* A check of call r starts in the turn that admits it.  An earlier read of the
\* chain may settle the tier at once, for good or for bad.
StartCheck(r, passed, refused) ==
    LET first == FirstStage
        next  == CASE first = "checked" -> passed
                   [] first = "refused" -> refused
                   [] OTHER             -> first
    IN  /\ stage' = [stage EXCEPT ![r] = next]
        /\ nodeTierMismatch' = IF first = "refused" THEN "wrong tier" ELSE nodeTierMismatch
        /\ nodeTierOk' = (nodeTierOk \/ (ChainName # "unread" /\ first # "refused" /\ world.network # "none"))
        /\ UNCHANGED <<world, node, chainNameCache, nodeGenesisOk, reply>>

-----------------------------------------------------------------------------
(* broadcast_tx and get_tx_status.                                          *)

Begins(r) == since' = [since EXCEPT ![r] = Facts(place, indexed, nodeTierMismatch)]

\* A check that is refused in its first turn answers in that turn.
Broadcast(r) ==
    LET refused == FirstStage = "refused"
    IN  /\ AdmitCall(r, IF refused THEN 0 ELSE 1)
        /\ StartCheck(r, "send", "over")
        /\ answer' = [answer EXCEPT ![r] = IF refused THEN "NODE_CHAIN_MISMATCH" ELSE @]
        /\ IF refused THEN UNCHANGED since ELSE Begins(r)

GetTxStatus(r) ==
    /\ AdmitCall(r, 1)
    /\ stage' = [stage EXCEPT ![r] = "mempool"]
    /\ Begins(r)
    /\ UNCHANGED <<world, node, memo, reply, answer>>

\* /status: health runs the same check beside the tracker's.
Probe(r, t) ==
    /\ AdmitSingle(r, t)
    /\ StartCheck(r, "over", "over")
    /\ UNCHANGED <<answer, since>>

\* The other requests; a method without a part here is a plain call.
Others(r) ==
    /\ \/ \E t \in Targets : Shed(r, t)
       \/ \E t \in {"GET /openrpc.json", "GET /metrics", "no method"} : AdmitSingle(r, t)
       \/ \E started \in {0, 1} : AdmitCall(r, started)
       \/ \E n \in 0 .. (MaxBatch + 1) : \E k \in 0 .. n : AdmitBatch(r, n, k) \/ RefuseBatch(r, n, k)
    /\ UNCHANGED nodeVars

\* The node's verdict on one submission.  What it holds it does not judge again;
\* outputs in the chain have the code -27 and a wording of the node's own, and
\* once they are spent the node no longer knows the transaction.
Verdicts(capped) ==
    CASE place = "mempool" -> {"txid", "txn-already-known"}
      [] place = "chain"   -> {"-27"}
      [] place = "spent"   -> {"rejected"}
      [] place = "absent"  ->
           CASE world.policy = "invalid"               -> {"rejected"}
             [] world.policy = "over the cap" /\ capped -> {"over the cap"}
             [] OTHER                                  -> {"txid"}

Judges(capped, verdict) ==
    /\ verdict \in Verdicts(capped)
    /\ place' = IF verdict = "txid" THEN "mempool" ELSE place

\* The node takes the submission of a call; its verdict is under way.
NodeJudges(r) ==
    /\ stage[r] \in {"send", "resend"}
    /\ \E v \in Verdicts(stage[r] = "send") :
        /\ Judges(stage[r] = "send", v)
        /\ reply' = [reply EXCEPT ![r] = v]
    /\ stage' = [stage EXCEPT ![r] = "reply"]
    /\ UNCHANGED <<vars, world, indexed, adrift, memo, answer, since>>

\* Fault variant: the duplicate is known by its wording alone.
IsAlreadyKnownByText(verdict) == verdict = "txn-already-known"

IsAlreadyKnown(verdict) == verdict \in {"-27", "txn-already-known"}

Rejection(verdict) == IF IsAlreadyKnown(verdict) THEN "TX_ALREADY_IN_CHAIN" ELSE "NODE_REJECTED"

\* The fee cap is lifted once, for a node that proves it is a regtest node.
LiftCap(r) ==
    CASE ChainName = "unread"  -> Await(r, "regtest")
      [] ChainName = "regtest" -> stage' = [stage EXCEPT ![r] = "resend"]
                                  /\ reply' = [reply EXCEPT ![r] = "none"]
                                  /\ UNCHANGED <<vars, answer, since>>
      [] OTHER                 -> Answer(r, "NODE_REJECTED")

ReplyArrives(r) ==
    /\ stage[r] = "reply"
    /\ CASE reply[r] = "txid"         -> Answer(r, "txid")
         [] reply[r] = "over the cap" -> LiftCap(r)
         [] OTHER                     -> Answer(r, Rejection(reply[r]))
    /\ UNCHANGED <<world, node, memo>>

RegtestRead(r) ==
    /\ stage[r] = "regtest"
    /\ chainNameCache' = world.chain
    /\ IF world.chain = "regtest"
       THEN stage' = [stage EXCEPT ![r] = "resend"]
            /\ reply' = [reply EXCEPT ![r] = "none"]
            /\ UNCHANGED <<vars, answer, since>>
       ELSE Answer(r, "NODE_REJECTED")
    /\ UNCHANGED <<world, node, nodeTierOk, nodeTierMismatch, nodeGenesisOk>>

\* The original error is kept when the node will not say.
RegtestUnread(r) ==
    /\ stage[r] = "regtest"
    /\ Answer(r, "NODE_REJECTED")
    /\ UNCHANGED <<world, node, memo>>

\* Fault variant: every failure of the mempool lookup reads as an absent entry.
MempoolEntryAbsentAlways(body) == body # "entry"

MempoolEntryAbsent(body) == body = "-5"

\* getmempoolentry answers, or fails in some other way.
MempoolRead(r) ==
    /\ stage[r] = "mempool"
    /\ \E body \in {IF place = "mempool" THEN "entry" ELSE "-5", "failure"} :
        CASE body = "entry"            -> Answer(r, "mempool")
          [] MempoolEntryAbsent(body)  -> Await(r, "tracker")
          [] OTHER                     -> Answer(r, "internal error")
    /\ UNCHANGED <<world, node, memo>>

\* getTxBlock answers a block or null, or fails: unready, unreachable.
TrackerRead(r) ==
    /\ stage[r] = "tracker"
    /\ \E how \in {IF indexed THEN "chain" ELSE "unknown", "internal error"} : Answer(r, how)
    /\ UNCHANGED <<world, node, memo>>

\* RPC_TIMEOUT, or a dead connection: the caller cannot tell whether the node
\* took the submission, and one it has not judged yet may still reach it.
SendFails(r) ==
    /\ stage[r] \in {"send", "resend", "reply"}
    /\ Answer(r, "internal error")
    /\ \/ UNCHANGED adrift
       \/ stage[r] # "reply" /\ adrift' = adrift \cup {stage[r]}
    /\ UNCHANGED <<world, place, indexed, memo>>

-----------------------------------------------------------------------------
(* The node and the tracker.                                                *)

JudgesAdrift ==
    /\ \E s \in adrift :
        /\ \E v \in Verdicts(s = "send") : Judges(s = "send", v)
        /\ adrift' = adrift \ {s}
    /\ UNCHANGED <<vars, world, indexed, memo, stage, reply, answer>>
    /\ Remember

Moves(from, to) ==
    /\ place = from
    /\ place' = to
    /\ UNCHANGED <<vars, world, indexed, adrift, memo, stage, reply, answer>>
    /\ Remember

Mines == Moves("mempool", "chain")

\* A restart, an eviction, a conflicting transaction.
Drops == Moves("mempool", "absent")

Reorganises == Moves("chain", "mempool")

OutputsSpent == Moves("chain", "spent")

TrackerFollows ==
    /\ indexed # (place \in {"chain", "spent"})
    /\ indexed' = ~indexed
    /\ UNCHANGED <<vars, world, place, adrift, memo, stage, reply, answer>>
    /\ Remember

NodeMoves == JudgesAdrift \/ Mines \/ Drops \/ Reorganises \/ OutputsSpent \/ TrackerFollows

Arrival(r) ==
    \/ Broadcast(r) \/ GetTxStatus(r) \/ Others(r)
    \/ \E t \in {"GET /status", "HEAD /status"} : Probe(r, t)

\* Every RPC ends in an answer or, by its timeout, in a failure.
Returns(r) ==
    \/ TierRead(r) \/ TierUnread(r) \/ GenesisRead(r) \/ GenesisUnread(r)
    \/ ReplyArrives(r) \/ SendFails(r) \/ RegtestRead(r) \/ RegtestUnread(r)
    \/ MempoolRead(r) \/ TrackerRead(r)

\* A plain call ends; a readiness probe when both its checks have settled or the
\* deadline of the node's has passed.
PlainCallEnds(r) == (stage[r] = "none" \/ IsStatus(r)) /\ CallEnds(r) /\ UNCHANGED nodeVars

ClientOrSocket(r) == (Finish(r) \/ Close(r)) /\ UNCHANGED nodeVars

NodeNext ==
    \/ \E r \in Requests : Arrival(r) \/ NodeJudges(r) \/ Returns(r) \/ PlainCallEnds(r) \/ ClientOrSocket(r)
    \/ NodeMoves

NodeSpec == NodeInit /\ [][NodeNext]_allVars

\* Every outgoing RPC carries a timeout, so an awaited one returns, and so does a
\* method without a part here; a response that was written is sent or its
\* connection closes.  No client has to hang up.
FairNodeSpec ==
    /\ NodeSpec
    /\ \A r \in Requests :
        /\ WF_allVars(Returns(r))
        /\ WF_allVars(PlainCallEnds(r))
        /\ WF_allVars((Finish(r) \/ (response[r] = "sent" /\ Close(r))) /\ UNCHANGED nodeVars)

-----------------------------------------------------------------------------

Stages == {"none", "tier", "genesis", "send", "resend", "reply", "regtest", "mempool", "tracker", "over"}
Replies == {"none", "txid", "txn-already-known", "-27", "rejected", "over the cap"}
Answers ==
    {"none", "NODE_CHAIN_MISMATCH", "txid", "TX_ALREADY_IN_CHAIN", "NODE_REJECTED", "internal error",
     "mempool", "chain", "unknown"}

NodeTypeOK ==
    /\ world \in Worlds
    /\ place \in {"absent", "mempool", "chain", "spent"} /\ indexed \in BOOLEAN
    /\ adrift \subseteq {"send", "resend"}
    /\ chainNameCache \in {"unread", world.chain}
    /\ nodeTierOk \in BOOLEAN /\ nodeGenesisOk \in BOOLEAN
    /\ nodeTierMismatch \in {"none", "wrong tier", "wrong genesis"}
    /\ stage \in [Requests -> Stages]
    /\ reply \in [Requests -> Replies]
    /\ answer \in [Requests -> Answers]
    /\ since \in [Requests -> SUBSET FactNames]

\* A repeated broadcast and a lookup tell the truth about a transaction the node
\* took all the same: a caller whose first answer was lost, or late, is never
\* told that the node rejected what it holds, and an outage of either service
\* never makes it an unknown one (json_rpc_methods.js:224-232, 290-298).
RepeatTellsTheTruth ==
    [][\A r \in Requests : answer'[r] # answer[r] =>
          /\ "held" \in since[r] => answer'[r] # "NODE_REJECTED"
          /\ {"in mempool", "indexed"} \cap since[r] # {} => answer'[r] # "unknown"]_allVars

\* The check fails open, but not twice: once any call, broadcast or probe, has
\* read that the node serves another tier, no later broadcast reaches the node,
\* and readiness and the money methods agree on it (node_queries.js:50-70,
\* serve_readiness.js:58-63).
WrongTierStaysShut ==
    /\ NodeTypeOK
    /\ nodeTierMismatch = "wrong tier" => FirstStage = "refused"
    /\ \A r \in Requests : "shut" \in since[r] => stage[r] \notin {"send", "reply", "regtest", "resend"}
=============================================================================
