------------------------------ MODULE FeeQuotes ------------------------------
(***************************************************************************)
(* getFeePerKilobyte with its fallbacks, as estimate_fee asks for three    *)
(* tiers in a row and a build for one, each behind the node-tier check, of *)
(* a node that answers, answers with an error or does not answer, each     *)
(* call anew.  The two share the chain's name and what the check passed.   *)
(* The node is the configured one: what the check refuses is NodeCalls's.  *)
(*                                                                         *)
(* Rates are for a kilobyte, in a unit of which PerVbyte make one base     *)
(* unit for a byte.                                                        *)
(***************************************************************************)
EXTENDS Integers, Sequences, FiniteSetsExt

CONSTANTS
    Quotes, Builds,         \* callers: estimate_fee, and a build
    Nodes,                  \* what a node's chain and relay floor may be
    Estimates,              \* what estimatesmartfee may say
    DefaultRelay,           \* 0.00001, where regtest reports no floor
    RelayMultiplier,        \* FEE_NO_ESTIMATE_RELAY_MULTIPLIER
    SanityCeiling,          \* FEE_ESTIMATE_SANITY_CEILING
    PerVbyte,
    SuggestedCap,           \* the test chains' ceiling on a quote, for a byte
    None

Callers == Quotes \cup Builds

\* A floor of None stands for every relayfee that is not a positive number.
ASSUME QuotesAssumption ==
    /\ Quotes \cap Builds = {}
    /\ \A n \in Nodes : n.chain \in {"main", "test", "regtest"} /\ n.relayfee \in (Nat \ {0}) \cup {None}
    /\ Estimates \subseteq Nat \ {0}
    /\ {DefaultRelay, RelayMultiplier, SanityCeiling, PerVbyte, SuggestedCap} \subseteq Nat \ {0}
    /\ None \notin Nat

VARIABLES
    node,
    chainNameCache,     \* "unread" until getblockchaininfo has answered
    nodeTierOk, nodeGenesisOk,  \* passed, or nothing is configured to check
    stage,              \* caller -> the RPC it awaits, "idle" or "over"
    out,                \* caller -> the tiers quoted so far, for a byte
    answer,             \* caller -> "none", "quoted" or its error
    fees,               \* history: caller -> each fee with what the node said
    told, heard,        \* history: caller -> in this lookup, the node's estimate,
                        \* and whether it has answered at all
    waited              \* history: caller -> the RPCs it has timed out on

memo == <<chainNameCache, nodeTierOk, nodeGenesisOk>>
call == <<stage, out, answer>>
history == <<fees, told, heard, waited>>
vars == <<node, memo, call, history>>

Init ==
    /\ node \in Nodes
    /\ chainNameCache = "unread"
    /\ nodeTierOk \in BOOLEAN /\ nodeGenesisOk \in BOOLEAN
    /\ stage = [c \in Callers |-> "idle"]
    /\ out = [c \in Callers |-> <<>>]
    /\ answer = [c \in Callers |-> "none"]
    /\ fees = [c \in Callers |-> <<>>]
    /\ told = [c \in Callers |-> None]
    /\ heard = [c \in Callers |-> FALSE]
    /\ waited = [c \in Callers |-> 0]

-----------------------------------------------------------------------------
(* Where a lookup goes.  A stage under "re..." is the same RPC sent from   *)
(* recoverFeeEstimate, which keeps the error it was called with.           *)

\* isRegtest, and what is asked of the chain it tells.
Ask(chain) == IF chain = "regtest" THEN "relay" ELSE "smart"

FirstRpc == IF chainNameCache = "unread" THEN "chain" ELSE Ask(chainNameCache)

\* noEstimateRelayFallback does not apply to mainnet.
Fallback(chain, rpc) == IF chain = "main" THEN "fail" ELSE rpc

\* Fault variant: recoverFeeEstimate prices mainnet off the relay floor too.
RecoverAnyChain(chain) == IF chain = "regtest" THEN "rerelay" ELSE "refallback"

RecoverOn(chain) == IF chain = "regtest" THEN "rerelay" ELSE Fallback(chain, "refallback")

Recover == IF chainNameCache = "unread" THEN "rechain" ELSE RecoverOn(chainNameCache)

Ends(c, how) ==
    /\ stage' = [stage EXCEPT ![c] = "over"]
    /\ answer' = [answer EXCEPT ![c] = how]

\* estimate_fee maps what is thrown; "fail" is the error recovery was entered with.
Goto(c, next) ==
    /\ IF next = "fail" THEN Ends(c, "Fee estimation failed")
       ELSE stage' = [stage EXCEPT ![c] = next] /\ UNCHANGED answer
    /\ UNCHANGED out

\* suggestedFeeCeilingPerByte: mainnet has none.
Clamped(perVbyte) == IF node.chain = "main" THEN perVbyte ELSE Min({perVbyte, SuggestedCap})

\* Fault variant: a tier is what the node says of it.
TierAsTold(tiers, feerate) == Append(tiers, Max({1, (feerate + PerVbyte \div 2) \div PerVbyte}))

\* estimate_fee: rounded, at least 1, capped on a test chain, and never under a
\* slower tier.
WithTier(tiers, feerate) ==
    LET perVbyte == Max({1, (feerate + PerVbyte \div 2) \div PerVbyte})
    IN  Append(tiers, Max({Clamped(perVbyte)} \cup {tiers[i] : i \in DOMAIN tiers}))

Hear(c) == heard' = [heard EXCEPT ![c] = TRUE]

\* A lookup has its fee: the next tier is asked for, or the caller goes on with it.
Fee(c, feerate, estimate) ==
    /\ fees' = [fees EXCEPT ![c] = Append(@, [feerate |-> feerate, told |-> estimate])]
    /\ out' = [out EXCEPT ![c] = WithTier(@, feerate)]
    /\ told' = [told EXCEPT ![c] = None]
    /\ heard' = [heard EXCEPT ![c] = FALSE]
    /\ IF c \in Quotes /\ Len(out[c]) < 2
       THEN stage' = [stage EXCEPT ![c] = Ask(node.chain)] /\ UNCHANGED answer
       ELSE Ends(c, "quoted")

\* Where the tier check goes after its first step, and a call from the start.
AfterTier == IF nodeGenesisOk THEN FirstRpc ELSE "genesis"

Begin(c) ==
    /\ stage[c] = "idle"
    /\ Goto(c, IF ~nodeTierOk /\ chainNameCache = "unread" THEN "tier" ELSE AfterTier)
    /\ nodeTierOk' = (nodeTierOk \/ chainNameCache # "unread")
    /\ UNCHANGED <<node, chainNameCache, nodeGenesisOk, history>>

\* The check's getblockchaininfo and getblockhash answer.
TierRead(c) ==
    /\ stage[c] = "tier"
    /\ chainNameCache' = node.chain
    /\ nodeTierOk' = TRUE
    /\ Goto(c, IF nodeGenesisOk THEN Ask(node.chain) ELSE "genesis")
    /\ UNCHANGED <<node, nodeGenesisOk, history>>

GenesisRead(c) ==
    /\ stage[c] = "genesis"
    /\ nodeGenesisOk' = TRUE
    /\ Goto(c, FirstRpc)
    /\ UNCHANGED <<node, chainNameCache, nodeTierOk, history>>

\* Either step of the check that gets no usable answer is passed over.
CheckFails(c) ==
    /\ stage[c] \in {"tier", "genesis"}
    /\ Goto(c, IF stage[c] = "tier" THEN AfterTier ELSE FirstRpc)
    /\ waited' \in {waited, [waited EXCEPT ![c] = @ + 1]}
    /\ UNCHANGED <<node, memo, fees, told, heard>>

\* getblockchaininfo answers.
ChainRead(c) ==
    /\ stage[c] \in {"chain", "rechain"}
    /\ chainNameCache' = node.chain
    /\ Goto(c, IF stage[c] = "chain" THEN Ask(node.chain) ELSE RecoverOn(node.chain))
    /\ Hear(c)
    /\ UNCHANGED <<node, nodeTierOk, nodeGenesisOk, fees, told, waited>>

\* getnetworkinfo answers a regtest lookup: the floor, or the default for none.
RelayRead(c) ==
    /\ stage[c] \in {"relay", "rerelay"}
    /\ Fee(c, IF node.relayfee = None THEN DefaultRelay ELSE node.relayfee, told[c])
    /\ UNCHANGED <<node, memo, waited>>

\* Fault variant: the estimate is taken as it comes.
UsableUnbounded(estimate) == estimate

\* usableSmartFee: above the ceiling it is the ceiling on mainnet, else no estimate.
UsableSmartFee(estimate) ==
    IF estimate # None /\ estimate > SanityCeiling
    THEN IF node.chain = "main" THEN SanityCeiling ELSE None
    ELSE estimate

\* estimatesmartfee answers, with an estimate or without; what is missing is asked
\* of the relay floor, or throws into the recovery.
SmartRead(c) ==
    /\ stage[c] = "smart"
    /\ \E estimate \in Estimates \cup {None} :
        LET feerate == UsableSmartFee(estimate)
        IN  IF feerate # None
            THEN Fee(c, feerate, estimate)
            ELSE /\ Goto(c, Fallback(node.chain, "fallback"))
                 /\ told' = [told EXCEPT ![c] = estimate]
                 /\ Hear(c)
                 /\ UNCHANGED fees
    /\ UNCHANGED <<node, memo, waited>>

\* getnetworkinfo answers for the missing estimate.
FallbackRead(c) ==
    /\ stage[c] \in {"fallback", "refallback"}
    /\ \/ node.relayfee # None /\ Fee(c, node.relayfee * RelayMultiplier, told[c])
       \/ /\ node.relayfee = None
          /\ Goto(c, IF stage[c] = "fallback" THEN Recover ELSE "fail")
          /\ Hear(c)
          /\ UNCHANGED <<fees, told>>
    /\ UNCHANGED <<node, memo, waited>>

Awaited == {"chain", "rechain", "relay", "rerelay", "smart", "fallback", "refallback"}

\* The node answers with an error body.  On regtest's own query every failure is
\* a node that did not answer.
Refused(c) ==
    /\ stage[c] \in Awaited
    /\ CASE stage[c] = "relay"                          -> Ends(c, "NODE_UNREACHABLE") /\ UNCHANGED out
         [] stage[c] \in {"chain", "smart", "fallback"} -> Goto(c, Recover)
         [] OTHER                                       -> Goto(c, "fail")
    /\ Hear(c)
    /\ UNCHANGED <<node, memo, fees, told, waited>>

\* Fault variant: a typed failure goes through the recovery like any other.
TimeoutRecovered(c) ==
    /\ stage[c] \in Awaited
    /\ IF stage[c] \in {"chain", "relay", "smart", "fallback"}
       THEN Goto(c, Recover)
       ELSE Goto(c, "fail")
    /\ waited' = [waited EXCEPT ![c] = @ + 1]
    /\ UNCHANGED <<node, memo, fees, told, heard>>

\* RPC_TIMEOUT: typed, and rethrown; inside the recovery the first error is kept.
Timeout(c) ==
    /\ stage[c] \in Awaited
    /\ IF stage[c] \in {"chain", "relay", "smart", "fallback"}
       THEN Ends(c, "NODE_UNREACHABLE") /\ UNCHANGED out
       ELSE Goto(c, "fail")
    /\ waited' = [waited EXCEPT ![c] = @ + 1]
    /\ UNCHANGED <<node, memo, fees, told, heard>>

Next ==
    \E c \in Callers :
        \/ Begin(c) \/ TierRead(c) \/ GenesisRead(c) \/ CheckFails(c)
        \/ ChainRead(c) \/ RelayRead(c) \/ SmartRead(c) \/ FallbackRead(c)
        \/ Refused(c) \/ Timeout(c)

Spec == Init /\ [][Next]_vars

-----------------------------------------------------------------------------

TypeOK ==
    /\ node \in Nodes
    /\ chainNameCache \in {"unread", node.chain}
    /\ {nodeTierOk, nodeGenesisOk} \subseteq BOOLEAN
    /\ stage \in [Callers -> Awaited \cup {"tier", "genesis", "idle", "over"}]
    /\ \A c \in Callers : Len(out[c]) = Len(fees[c]) /\ Len(out[c]) <= 3
    /\ answer \in [Callers -> {"none", "quoted", "NODE_UNREACHABLE", "Fee estimation failed"}]
    /\ told \in [Callers -> Estimates \cup {None}]
    /\ heard \in [Callers -> BOOLEAN]
    /\ waited \in [Callers -> Nat]

\* Whichever way round the fallbacks a lookup took, and whatever failed on it, a
\* fee has the source its chain allows: mainnet never pays the relay fallback and
\* nothing above the ceiling, regtest never an estimate, and a test chain's missing
\* or absurd estimate is the multiple of the floor (fee_estimation.js:100-110,
\* 159-164, 169-172).
FeeHasItsSource ==
    /\ TypeOK
    /\ \A c \in Callers : \A i \in DOMAIN fees[c] :
        LET fee == fees[c][i]
        IN  CASE node.chain = "main"    -> fee.told # None /\ fee.feerate = Min({fee.told, SanityCeiling})
              [] node.chain = "regtest" -> /\ fee.told = None
                                           /\ fee.feerate \in {node.relayfee, DefaultRelay}
              [] OTHER -> \/ fee.told # None /\ fee.feerate = fee.told /\ fee.told <= SanityCeiling
                          \/ node.relayfee # None /\ fee.feerate = node.relayfee * RelayMultiplier

\* A node that does not answer is waited for once by each step of the tier check
\* and once by the fees, in all the tiers of a quote and all the fallbacks of a
\* lookup, and a lookup it answered nothing of is reported as the node's outage
\* and never as the encoder's fault (fee_estimation.js:111-114, 266-268,
\* json_rpc_methods.js:82-84).
DeadNodeIsWaitedForOnce ==
    \A c \in Callers :
        /\ waited[c] <= 3
        /\ answer[c] = "Fee estimation failed" => heard[c]
        /\ answer[c] = "NODE_UNREACHABLE" /\ ~heard[c] => waited[c] > 0

\* A quote is all three tiers or an error, a faster one is never cheaper, however
\* the estimates move between them, and on a test chain none is above what a build
\* would be charged (json_rpc_methods.js:66-80).
QuoteIsOrdered ==
    \A c \in Quotes : answer[c] = "quoted" =>
        /\ Len(out[c]) = 3
        /\ 1 <= out[c][1] /\ out[c][1] <= out[c][2] /\ out[c][2] <= out[c][3]
        /\ node.chain # "main" => out[c][3] <= SuggestedCap
=============================================================================
