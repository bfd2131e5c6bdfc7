-------------------------- MODULE BuildReadsProofs --------------------------
(***************************************************************************)
(* Proofs about what a build reads before it selects: the rate of          *)
(* FeeQuotes, for any callers, nodes, estimates and bounds; the ancestors  *)
(* of AncestorPackage, for any transactions, spends and lists of roots;    *)
(* and the candidates of Candidates, for any rows, values and ranks.       *)
(*                                                                         *)
(* That a fee has its source and a dead node is waited for once are facts  *)
(* about where a lookup may be: LookupOK says on which chain each RPC is   *)
(* awaited, which of them follow an answer of the node, and how many       *)
(* timeouts lie behind.  That a quote is ordered needs it of the tiers so  *)
(* far.  That a branch is carried needs what the loop over the roots has   *)
(* put behind it.  That the order of a listing is forgotten needs that     *)
(* counting what comes before a row numbers the rows one by one            *)
(* (NthGoesThrough), and that the count is the same among the outpoints    *)
(* as among their places (OrderedIsCanonical).                             *)
(***************************************************************************)
EXTENDS FeeQuotes, AncestorPackage, Candidates, FiniteSetTheorems,
        WellFoundedInduction, TLAPS

-----------------------------------------------------------------------------
(* The rate.                                                               *)

Stages == Awaited \cup {"tier", "genesis", "idle", "over"}

Answers == {"none", "quoted", "NODE_UNREACHABLE", "Fee estimation failed"}

Fees == [feerate : Nat, told : Estimates \cup {None}]

TypesOK ==
    /\ node \in Nodes
    /\ chainNameCache \in {"unread", node.chain}
    /\ nodeTierOk \in BOOLEAN /\ nodeGenesisOk \in BOOLEAN
    /\ stage \in [Callers -> Stages]
    /\ out \in [Callers -> Seq(Nat)]
    /\ answer \in [Callers -> Answers]
    /\ fees \in [Callers -> Seq(Fees)]
    /\ told \in [Callers -> Estimates \cup {None}]
    /\ heard \in [Callers -> BOOLEAN]
    /\ waited \in [Callers -> Nat]

LookupOK(c) ==
    /\ stage[c] \in {"relay", "rerelay"} => node.chain = "regtest"
    /\ stage[c] = "smart" => node.chain # "regtest"
    /\ stage[c] \in {"fallback", "refallback"} => node.chain = "test"
    /\ told[c] # None => node.chain = "test"
    /\ stage[c] \in {"rechain", "rerelay", "refallback", "fallback"} => heard[c]
    /\ stage[c] \in {"idle", "tier"} => waited[c] = 0
    /\ stage[c] = "genesis" => waited[c] <= 1
    /\ stage[c] # "over" => waited[c] <= 2
    /\ waited[c] <= 3
    /\ answer[c] # "none" => stage[c] = "over"
    /\ answer[c] = "Fee estimation failed" => heard[c]
    /\ answer[c] = "NODE_UNREACHABLE" /\ ~heard[c] => waited[c] > 0

TiersOK(tiers) ==
    /\ \A i \in 1 .. Len(tiers) : 1 <= tiers[i] /\ (node.chain # "main" => tiers[i] <= SuggestedCap)
    /\ \A i, j \in 1 .. Len(tiers) : i <= j => tiers[i] <= tiers[j]

OutOK(c) ==
    /\ Len(out[c]) = Len(fees[c]) /\ Len(out[c]) <= 3
    /\ stage[c] # "over" => Len(out[c]) <= 2
    /\ c \in Quotes /\ answer[c] = "quoted" => Len(out[c]) = 3
    /\ TiersOK(out[c])

SourceOK(fee) ==
    CASE node.chain = "main"    -> fee.told # None /\ fee.feerate = Min({fee.told, SanityCeiling})
      [] node.chain = "regtest" -> /\ fee.told = None
                                   /\ fee.feerate \in {node.relayfee, DefaultRelay}
      [] OTHER -> \/ fee.told # None /\ fee.feerate = fee.told /\ fee.told <= SanityCeiling
                  \/ node.relayfee # None /\ fee.feerate = node.relayfee * RelayMultiplier

CallerOK(c) ==
    /\ LookupOK(c)
    /\ OutOK(c)
    /\ \A i \in 1 .. Len(fees[c]) : SourceOK(fees[c][i])

\* The inductive invariant.
FeesInv == TypesOK /\ \A c \in Callers : CallerOK(c)

-----------------------------------------------------------------------------
(* The largest and the smallest.                                            *)

LEMMA MaxOf ==
  ASSUME NEW S \in SUBSET Nat, NEW w \in S, \A y \in S : y <= w
  PROVE  Max(S) = w
<1>1. w \in S /\ \A y \in S : w >= y
  OBVIOUS
<1>2. Max(S) \in S /\ \A y \in S : Max(S) >= y
  BY <1>1 DEF Max
<1>. DEFINE m == Max(S)
<1>3. m \in S /\ m >= w
  BY <1>2
<1>. HIDE DEF m
<1>4. m = w
  BY <1>3
<1>. QED
  BY <1>4 DEF m

LEMMA MinOf ==
  ASSUME NEW S \in SUBSET Nat, NEW w \in S, \A y \in S : w <= y
  PROVE  Min(S) = w
<1>1. w \in S /\ \A y \in S : w <= y
  OBVIOUS
<1>2. Min(S) \in S /\ \A y \in S : Min(S) <= y
  BY <1>1 DEF Min
<1>. DEFINE m == Min(S)
<1>3. m \in S /\ m <= w
  BY <1>2
<1>. HIDE DEF m
<1>4. m = w
  BY <1>3
<1>. QED
  BY <1>4 DEF m

\* A tier added keeps them in order and in bounds.
LEMMA TierAdded ==
  ASSUME NEW tiers \in Seq(Nat), Len(tiers) <= 2, TiersOK(tiers), NEW feerate \in Nat
  PROVE  /\ WithTier(tiers, feerate) \in Seq(Nat)
         /\ Len(WithTier(tiers, feerate)) = Len(tiers) + 1
         /\ TiersOK(WithTier(tiers, feerate))
<1>. DEFINE q == (feerate + PerVbyte \div 2) \div PerVbyte
            p == Max({1, q})
            k == Clamped(p)
            S == {k} \cup {tiers[i] : i \in DOMAIN tiers}
            w == IF Len(tiers) = 0 \/ k >= tiers[Len(tiers)] THEN k ELSE tiers[Len(tiers)]
<1>0. PerVbyte \in Nat \ {0} /\ SuggestedCap \in Nat \ {0}
  BY QuotesAssumption DEF QuotesAssumption
<1>1. q \in Nat
  <2>1. ASSUME NEW x \in Nat, NEW y \in Nat \ {0} PROVE x \div y \in Nat
    BY <2>1
  <2>2. PerVbyte \div 2 \in Nat
    BY <1>0, <2>1
  <2>3. feerate + PerVbyte \div 2 \in Nat
    BY <2>2
  <2>. QED
    BY <1>0, <2>1, <2>3
<1>. HIDE DEF q
<1>2. p \in Nat /\ p >= 1
  <2>1. CASE q >= 1
    BY <1>1, <2>1, MaxOf, SMTT(30)
  <2>2. CASE q < 1
    BY <1>1, <2>2, MaxOf
  <2>. QED
    BY <1>1, <2>1, <2>2
<1>. HIDE DEF p
<1>3. k \in Nat /\ k >= 1 /\ (node.chain # "main" => k <= SuggestedCap)
  <2>1. CASE node.chain = "main"
    BY <1>2, <2>1 DEF Clamped
  <2>2. CASE node.chain # "main" /\ p <= SuggestedCap
    <3>1. Min({p, SuggestedCap}) = p
      BY <1>0, <1>2, <2>2, MinOf
    <3>. QED
      BY <1>2, <2>2, <3>1 DEF Clamped
  <2>3. CASE node.chain # "main" /\ p > SuggestedCap
    <3>1. Min({p, SuggestedCap}) = SuggestedCap
      BY <1>0, <1>2, <2>3, MinOf
    <3>. QED
      BY <1>0, <2>3, <3>1 DEF Clamped
  <2>. QED
    BY <1>0, <1>2, <2>1, <2>2, <2>3
<1>. HIDE DEF k
<1>4. DOMAIN tiers = 1 .. Len(tiers) /\ Len(tiers) \in Nat /\ \A i \in 1 .. Len(tiers) : tiers[i] \in Nat
  OBVIOUS
<1>5. w \in S /\ w \in Nat /\ \A y \in S : y <= w
  BY <1>3, <1>4, SMTT(30) DEF TiersOK
<1>6. Max(S) = w
  <2>1. S \in SUBSET Nat
    BY <1>3, <1>4
  <2>. QED
    BY <1>5, <2>1, MaxOf
<1>7. WithTier(tiers, feerate) = Append(tiers, w)
  BY <1>6 DEF WithTier, q, p, k
<1>8. TiersOK(Append(tiers, w))
  BY <1>3, <1>4, <1>5, SMTT(30) DEF TiersOK
<1>. QED
  BY <1>4, <1>5, <1>7, <1>8

-----------------------------------------------------------------------------
(* One caller moves; the others' lookups stand.                             *)

OnlyFor(c) ==
    /\ node' = node
    /\ \A d \in Callers \ {c} :
        /\ stage'[d] = stage[d] /\ out'[d] = out[d] /\ answer'[d] = answer[d]
        /\ fees'[d] = fees[d] /\ told'[d] = told[d] /\ heard'[d] = heard[d] /\ waited'[d] = waited[d]

LEMMA OthersKept ==
  ASSUME FeesInv, NEW c \in Callers, OnlyFor(c), TypesOK', CallerOK(c)'
  PROVE  FeesInv'
<1>1. ASSUME NEW d \in Callers PROVE CallerOK(d)'
  <2>1. CASE d = c
    BY <2>1
  <2>2. CASE d # c
    <3>1. CallerOK(d)
      BY DEF FeesInv
    <3>2. LookupOK(d)'
      BY <2>2, <3>1 DEF CallerOK, OnlyFor, LookupOK
    <3>3. OutOK(d)'
      BY <2>2, <3>1 DEF CallerOK, OnlyFor, OutOK, TiersOK
    <3>4. (\A i \in 1 .. Len(fees[d]) : SourceOK(fees[d][i]))'
      <4>1. fees'[d] = fees[d] /\ node' = node
        BY <2>2 DEF OnlyFor
      <4>2. \A i \in 1 .. Len(fees[d]) : SourceOK(fees[d][i])
        BY ONLY <3>1 DEF CallerOK
      <4>. QED
        BY ONLY <4>1, <4>2, Zenon DEF SourceOK
    <3>. QED
      BY <3>2, <3>3, <3>4 DEF CallerOK
  <2>. QED
    BY <2>1, <2>2
<1>. QED
  BY <1>1 DEF FeesInv

\* A step that adds no fee has only the lookup to answer for.
LEMMA LookupGoesOn ==
  ASSUME FeesInv, NEW c \in Callers, UNCHANGED <<node, out, fees>>, TypesOK', LookupOK(c)',
         stage[c] # "over", answer'[c] # "quoted"
  PROVE  CallerOK(c)'
<1>1. CallerOK(c)
  BY DEF FeesInv
<1>2. OutOK(c)'
  BY <1>1 DEF CallerOK, OutOK, TiersOK
<1>3. (\A i \in 1 .. Len(fees[c]) : SourceOK(fees[c][i]))'
  BY <1>1, ZenonT(60) DEF CallerOK, SourceOK
<1>. QED
  BY <1>2, <1>3 DEF CallerOK

\* A caller under way has no answer yet, and the chain is one of three.
LEMMA UnderWay ==
  ASSUME FeesInv, NEW c \in Callers, stage[c] # "over"
  PROVE  /\ answer[c] = "none"
         /\ LookupOK(c)
         /\ node.chain \in {"main", "test", "regtest"}
         /\ chainNameCache # "unread" => chainNameCache = node.chain
<1>1. LookupOK(c) /\ TypesOK
  BY DEF FeesInv, CallerOK
<1>. QED
  BY <1>1, QuotesAssumption DEF LookupOK, TypesOK, Answers, QuotesAssumption

\* Where a lookup is sent, or its end.
LEMMA Sent ==
  ASSUME FeesInv, NEW c \in Callers, stage[c] # "over", NEW next \in Stages \cup {"fail"}, Goto(c, next)
  PROVE  /\ out' = out
         /\ stage' \in [Callers -> Stages] /\ answer' \in [Callers -> Answers]
         /\ \A d \in Callers \ {c} : stage'[d] = stage[d] /\ answer'[d] = answer[d]
         /\ next # "fail" => stage'[c] = next /\ answer'[c] = "none"
         /\ next = "fail" => stage'[c] = "over" /\ answer'[c] = "Fee estimation failed"
<1>1. TypesOK /\ answer[c] = "none"
  BY UnderWay DEF FeesInv
<1>2. CASE next = "fail"
  BY <1>1, <1>2, Zenon DEF Goto, Ends, TypesOK, Stages, Answers
<1>3. CASE next # "fail"
  BY <1>1, <1>3 DEF Goto, TypesOK, Stages, Answers
<1>. QED
  BY <1>2, <1>3

\* The first RPC of a lookup, and what a check leads to, fit the chain.
LEMMA FirstFits ==
  ASSUME FeesInv, NEW c \in Callers, stage[c] # "over"
  PROVE  /\ FirstRpc \in {"chain", "relay", "smart"}
         /\ FirstRpc = "relay" => node.chain = "regtest"
         /\ FirstRpc = "smart" => node.chain # "regtest"
         /\ AfterTier \in {FirstRpc, "genesis"}
BY UnderWay DEF FirstRpc, Ask, AfterTier

\* A recovery is sent where its chain allows, or gives up.
LEMMA RecoveryFits ==
  ASSUME FeesInv, NEW c \in Callers, stage[c] # "over"
  PROVE  /\ RecoverOn(node.chain) \in {"rerelay", "refallback", "fail"}
         /\ RecoverOn(node.chain) = "rerelay" => node.chain = "regtest"
         /\ RecoverOn(node.chain) = "refallback" => node.chain = "test"
         /\ Recover \in {"rechain", RecoverOn(node.chain)}
BY UnderWay DEF RecoverOn, Recover, Fallback

-----------------------------------------------------------------------------
(* The tier check.                                                          *)

LEMMA BeginOK ==
  ASSUME FeesInv, NEW c \in Callers, Begin(c)
  PROVE  FeesInv'
<1>. DEFINE next == IF ~nodeTierOk /\ chainNameCache = "unread" THEN "tier" ELSE AfterTier
<1>0. stage[c] = "idle" /\ TypesOK
  BY DEF Begin, FeesInv
<1>1. next \in {"tier", AfterTier}
  OBVIOUS
<1>2. Goto(c, next)
  BY DEF Begin
<1>. HIDE DEF next
<1>3. /\ next \in {"tier", "genesis", "chain", "relay", "smart"}
      /\ next = "relay" => node.chain = "regtest"
      /\ next = "smart" => node.chain # "regtest"
  BY <1>0, <1>1, FirstFits
<1>4. /\ out' = out /\ stage' \in [Callers -> Stages] /\ answer' \in [Callers -> Answers]
      /\ \A d \in Callers \ {c} : stage'[d] = stage[d] /\ answer'[d] = answer[d]
      /\ stage'[c] = next /\ answer'[c] = "none"
  <2>1. next \in Stages \cup {"fail"} /\ next # "fail"
    BY <1>3 DEF Stages, Awaited
  <2>. QED
    BY <1>0, <1>2, <2>1, Sent
<1>5. OnlyFor(c)
  BY <1>4 DEF Begin, history, OnlyFor
<1>6. TypesOK'
  BY <1>0, <1>4 DEF Begin, history, TypesOK
<1>7. LookupOK(c) /\ answer[c] = "none" /\ node.chain \in {"main", "test", "regtest"} /\ waited[c] \in Nat
  BY <1>0, UnderWay DEF TypesOK
<1>8. LookupOK(c)'
  BY <1>0, <1>3, <1>4, <1>7 DEF Begin, history, LookupOK
<1>9. CallerOK(c)'
  BY <1>0, <1>4, <1>6, <1>8, LookupGoesOn DEF Begin, history
<1>. QED
  BY <1>5, <1>6, <1>9, OthersKept

LEMMA TierReadOK ==
  ASSUME FeesInv, NEW c \in Callers, TierRead(c)
  PROVE  FeesInv'
<1>. DEFINE next == IF nodeGenesisOk THEN Ask(node.chain) ELSE "genesis"
<1>0. stage[c] = "tier" /\ TypesOK
  BY DEF TierRead, FeesInv
<1>2. Goto(c, next)
  BY DEF TierRead
<1>3. /\ next \in {"genesis", "relay", "smart"}
      /\ next = "relay" => node.chain = "regtest"
      /\ next = "smart" => node.chain # "regtest"
  BY DEF Ask
<1>. HIDE DEF next
<1>4. /\ out' = out /\ stage' \in [Callers -> Stages] /\ answer' \in [Callers -> Answers]
      /\ \A d \in Callers \ {c} : stage'[d] = stage[d] /\ answer'[d] = answer[d]
      /\ stage'[c] = next /\ answer'[c] = "none"
  <2>1. next \in Stages \cup {"fail"} /\ next # "fail"
    BY <1>3 DEF Stages, Awaited
  <2>. QED
    BY <1>0, <1>2, <2>1, Sent
<1>5. OnlyFor(c)
  BY <1>4 DEF TierRead, history, OnlyFor
<1>6. TypesOK'
  BY <1>0, <1>4 DEF TierRead, history, TypesOK
<1>7. LookupOK(c) /\ answer[c] = "none" /\ node.chain \in {"main", "test", "regtest"} /\ waited[c] \in Nat
  BY <1>0, UnderWay DEF TypesOK
<1>8. LookupOK(c)'
  BY <1>0, <1>3, <1>4, <1>7 DEF TierRead, history, LookupOK
<1>9. CallerOK(c)'
  BY <1>0, <1>4, <1>6, <1>8, LookupGoesOn DEF TierRead, history
<1>. QED
  BY <1>5, <1>6, <1>9, OthersKept

LEMMA GenesisReadOK ==
  ASSUME FeesInv, NEW c \in Callers, GenesisRead(c)
  PROVE  FeesInv'
<1>0. stage[c] = "genesis" /\ TypesOK
  BY DEF GenesisRead, FeesInv
<1>3. /\ FirstRpc \in {"chain", "relay", "smart"}
      /\ FirstRpc = "relay" => node.chain = "regtest"
      /\ FirstRpc = "smart" => node.chain # "regtest"
  BY <1>0, FirstFits
<1>4. /\ out' = out /\ stage' \in [Callers -> Stages] /\ answer' \in [Callers -> Answers]
      /\ \A d \in Callers \ {c} : stage'[d] = stage[d] /\ answer'[d] = answer[d]
      /\ stage'[c] = FirstRpc /\ answer'[c] = "none"
  <2>1. FirstRpc \in Stages \cup {"fail"} /\ FirstRpc # "fail"
    BY <1>3 DEF Stages, Awaited
  <2>2. Goto(c, FirstRpc)
    BY DEF GenesisRead
  <2>. QED
    BY <1>0, <2>1, <2>2, Sent
<1>5. OnlyFor(c)
  BY <1>4 DEF GenesisRead, history, OnlyFor
<1>6. TypesOK'
  BY <1>0, <1>4 DEF GenesisRead, history, TypesOK
<1>7. LookupOK(c) /\ answer[c] = "none" /\ node.chain \in {"main", "test", "regtest"} /\ waited[c] \in Nat
  BY <1>0, UnderWay DEF TypesOK
<1>8. LookupOK(c)'
  BY <1>0, <1>3, <1>4, <1>7 DEF GenesisRead, history, LookupOK
<1>9. CallerOK(c)'
  BY <1>0, <1>4, <1>6, <1>8, LookupGoesOn DEF GenesisRead, history
<1>. QED
  BY <1>5, <1>6, <1>9, OthersKept

\* A step that may have been waited for in vain.
LEMMA Waited ==
  ASSUME TypesOK, NEW c \in Callers, waited' \in {waited, [waited EXCEPT ![c] = @ + 1]}
  PROVE  /\ waited' \in [Callers -> Nat]
         /\ \A d \in Callers \ {c} : waited'[d] = waited[d]
         /\ waited'[c] \in {waited[c], waited[c] + 1}
<1>0. waited \in [Callers -> Nat]
  BY DEF TypesOK
<1>1. CASE waited' = waited
  BY <1>0, <1>1
<1>2. CASE waited' = [waited EXCEPT ![c] = @ + 1]
  BY <1>0, <1>2
<1>. QED
  BY <1>1, <1>2

LEMMA CheckFailsOK ==
  ASSUME FeesInv, NEW c \in Callers, CheckFails(c)
  PROVE  FeesInv'
<1>. DEFINE next == IF stage[c] = "tier" THEN AfterTier ELSE FirstRpc
<1>0. stage[c] \in {"tier", "genesis"} /\ TypesOK
  BY DEF CheckFails, FeesInv
<1>1. /\ next \in {"genesis", "chain", "relay", "smart"}
      /\ next = "genesis" => stage[c] = "tier"
      /\ next = "relay" => node.chain = "regtest"
      /\ next = "smart" => node.chain # "regtest"
  BY <1>0, FirstFits
<1>2. Goto(c, next)
  BY DEF CheckFails
<1>. HIDE DEF next
<1>3. /\ waited' \in [Callers -> Nat]
      /\ \A d \in Callers \ {c} : waited'[d] = waited[d]
      /\ waited'[c] \in {waited[c], waited[c] + 1} /\ waited[c] \in Nat
  BY <1>0, Waited DEF CheckFails, TypesOK
<1>4. /\ out' = out /\ stage' \in [Callers -> Stages] /\ answer' \in [Callers -> Answers]
      /\ \A d \in Callers \ {c} : stage'[d] = stage[d] /\ answer'[d] = answer[d]
      /\ stage'[c] = next /\ answer'[c] = "none"
  <2>1. next \in Stages \cup {"fail"} /\ next # "fail"
    BY <1>1 DEF Stages, Awaited
  <2>. QED
    BY <1>0, <1>2, <2>1, Sent
<1>5. OnlyFor(c)
  BY <1>3, <1>4 DEF CheckFails, OnlyFor
<1>6. TypesOK'
  BY <1>0, <1>3, <1>4 DEF CheckFails, memo, TypesOK
<1>7. LookupOK(c) /\ answer[c] = "none" /\ node.chain \in {"main", "test", "regtest"} /\ waited[c] \in Nat
  BY <1>0, UnderWay DEF TypesOK
<1>8. LookupOK(c)'
  BY <1>0, <1>1, <1>3, <1>4, <1>7 DEF CheckFails, LookupOK
<1>9. CallerOK(c)'
  BY <1>0, <1>4, <1>6, <1>8, LookupGoesOn DEF CheckFails
<1>. QED
  BY <1>5, <1>6, <1>9, OthersKept

-----------------------------------------------------------------------------
(* The lookup, short of a fee.                                              *)

LEMMA Heard ==
  ASSUME TypesOK, NEW c \in Callers, Hear(c)
  PROVE  /\ heard' \in [Callers -> BOOLEAN]
         /\ \A d \in Callers \ {c} : heard'[d] = heard[d]
         /\ heard'[c]
BY DEF TypesOK, Hear

LEMMA ChainReadOK ==
  ASSUME FeesInv, NEW c \in Callers, ChainRead(c)
  PROVE  FeesInv'
<1>. DEFINE next == IF stage[c] = "chain" THEN Ask(node.chain) ELSE RecoverOn(node.chain)
<1>0. stage[c] \in {"chain", "rechain"} /\ TypesOK
  BY DEF ChainRead, FeesInv
<1>1. /\ next \in {"relay", "smart", "rerelay", "refallback", "fail"}
      /\ next \in {"relay", "rerelay"} => node.chain = "regtest"
      /\ next = "smart" => node.chain # "regtest"
      /\ next = "refallback" => node.chain = "test"
  BY <1>0, RecoveryFits DEF Ask
<1>2. Goto(c, next)
  BY DEF ChainRead
<1>. HIDE DEF next
<1>3. /\ heard' \in [Callers -> BOOLEAN]
      /\ \A d \in Callers \ {c} : heard'[d] = heard[d]
      /\ heard'[c]
  BY <1>0, Heard DEF ChainRead
<1>4. /\ out' = out /\ stage' \in [Callers -> Stages] /\ answer' \in [Callers -> Answers]
      /\ \A d \in Callers \ {c} : stage'[d] = stage[d] /\ answer'[d] = answer[d]
      /\ next # "fail" => stage'[c] = next /\ answer'[c] = "none"
      /\ next = "fail" => stage'[c] = "over" /\ answer'[c] = "Fee estimation failed"
  <2>1. next \in Stages \cup {"fail"}
    BY <1>1 DEF Stages, Awaited
  <2>. QED
    BY <1>0, <1>2, <2>1, Sent
<1>5. OnlyFor(c)
  BY <1>3, <1>4 DEF ChainRead, OnlyFor
<1>6. TypesOK'
  BY <1>0, <1>3, <1>4 DEF ChainRead, TypesOK
<1>7. LookupOK(c) /\ answer[c] = "none" /\ node.chain \in {"main", "test", "regtest"} /\ waited[c] \in Nat
  BY <1>0, UnderWay DEF TypesOK
<1>8. LookupOK(c)'
  BY <1>0, <1>1, <1>3, <1>4, <1>7 DEF ChainRead, LookupOK
<1>9. CallerOK(c)'
  BY <1>0, <1>4, <1>6, <1>8, LookupGoesOn DEF ChainRead
<1>. QED
  BY <1>5, <1>6, <1>9, OthersKept

\* An outage ends a call, unless the recovery has an error to report.
LEMMA TimeoutOK ==
  ASSUME FeesInv, NEW c \in Callers, Timeout(c)
  PROVE  FeesInv'
<1>0. stage[c] \in Awaited /\ stage[c] # "over" /\ TypesOK
  BY DEF Timeout, FeesInv, Awaited
<1>3. /\ waited' \in [Callers -> Nat]
      /\ \A d \in Callers \ {c} : waited'[d] = waited[d]
      /\ waited'[c] = waited[c] + 1
  BY <1>0 DEF Timeout, TypesOK
<1>4. /\ out' = out /\ stage' \in [Callers -> Stages] /\ answer' \in [Callers -> Answers]
      /\ \A d \in Callers \ {c} : stage'[d] = stage[d] /\ answer'[d] = answer[d]
      /\ stage'[c] = "over"
      /\ \/ answer'[c] = "NODE_UNREACHABLE"
         \/ answer'[c] = "Fee estimation failed" /\ stage[c] \in {"rechain", "rerelay", "refallback"}
  <2>1. CASE stage[c] \in {"chain", "relay", "smart", "fallback"}
    BY <1>0, <2>1 DEF Timeout, Ends, TypesOK, Stages, Answers
  <2>2. CASE stage[c] \notin {"chain", "relay", "smart", "fallback"}
    <3>1. Goto(c, "fail")
      BY <2>2 DEF Timeout
    <3>. QED
      BY <1>0, <2>2, <3>1, Sent DEF Awaited
  <2>. QED
    BY <2>1, <2>2
<1>5. OnlyFor(c)
  BY <1>3, <1>4 DEF Timeout, OnlyFor
<1>6. TypesOK'
  BY <1>0, <1>3, <1>4 DEF Timeout, memo, TypesOK
<1>7. LookupOK(c) /\ answer[c] = "none" /\ waited[c] \in Nat
  BY <1>0, UnderWay DEF TypesOK
<1>8. LookupOK(c)'
  <2>1. told' = told /\ heard' = heard /\ node' = node
    BY DEF Timeout
  <2>2. waited[c] <= 2 /\ (stage[c] \in {"rechain", "rerelay", "refallback"} => heard[c])
    BY <1>0, <1>7 DEF LookupOK
  <2>3. waited'[c] <= 3 /\ waited'[c] > 0
    BY <1>3, <1>7, <2>2
  <2>4. told[c] # None => node.chain = "test"
    BY <1>7 DEF LookupOK
  <2>. QED
    BY <1>4, <2>1, <2>2, <2>3, <2>4 DEF LookupOK
<1>9. CallerOK(c)'
  BY <1>0, <1>4, <1>6, <1>8, LookupGoesOn DEF Timeout
<1>. QED
  BY <1>5, <1>6, <1>9, OthersKept

LEMMA RefusedOK ==
  ASSUME FeesInv, NEW c \in Callers, Refused(c)
  PROVE  FeesInv'
<1>0. stage[c] \in Awaited /\ stage[c] # "over" /\ TypesOK
  BY DEF Refused, FeesInv, Awaited
<1>3. /\ heard' \in [Callers -> BOOLEAN]
      /\ \A d \in Callers \ {c} : heard'[d] = heard[d]
      /\ heard'[c]
  BY <1>0, Heard DEF Refused
<1>4. /\ out' = out /\ stage' \in [Callers -> Stages] /\ answer' \in [Callers -> Answers]
      /\ \A d \in Callers \ {c} : stage'[d] = stage[d] /\ answer'[d] = answer[d]
      /\ \/ stage'[c] = "over" /\ answer'[c] \in {"NODE_UNREACHABLE", "Fee estimation failed"}
         \/ /\ stage'[c] \in {"rechain", "rerelay", "refallback"} /\ answer'[c] = "none"
            /\ stage'[c] = "rerelay" => node.chain = "regtest"
            /\ stage'[c] = "refallback" => node.chain = "test"
  <2>1. CASE stage[c] = "relay"
    BY <1>0, <2>1 DEF Refused, Ends, TypesOK, Stages, Answers
  <2>2. CASE stage[c] \in {"chain", "smart", "fallback"}
    <3>1. Goto(c, Recover)
      BY <2>2 DEF Refused
    <3>2. /\ Recover \in {"rechain", "rerelay", "refallback", "fail"}
          /\ Recover = "rerelay" => node.chain = "regtest"
          /\ Recover = "refallback" => node.chain = "test"
      BY <1>0, RecoveryFits
    <3>3. Recover \in Stages \cup {"fail"}
      BY <3>2 DEF Stages, Awaited
    <3>. QED
      BY <1>0, <3>1, <3>2, <3>3, Sent
  <2>3. CASE stage[c] \notin {"chain", "relay", "smart", "fallback"}
    <3>1. Goto(c, "fail")
      BY <2>3 DEF Refused
    <3>. QED
      BY <1>0, <3>1, Sent
  <2>. QED
    BY <2>1, <2>2, <2>3
<1>5. OnlyFor(c)
  BY <1>3, <1>4 DEF Refused, OnlyFor
<1>6. TypesOK'
  BY <1>0, <1>3, <1>4 DEF Refused, memo, TypesOK
<1>7. LookupOK(c) /\ answer[c] = "none" /\ waited[c] \in Nat
  BY <1>0, UnderWay DEF TypesOK
<1>8. LookupOK(c)'
  <2>1. told' = told /\ waited' = waited /\ node' = node
    BY DEF Refused
  <2>. QED
    BY <1>0, <1>3, <1>4, <1>7, <2>1 DEF LookupOK
<1>9. CallerOK(c)'
  BY <1>0, <1>4, <1>6, <1>8, LookupGoesOn DEF Refused
<1>. QED
  BY <1>5, <1>6, <1>9, OthersKept

-----------------------------------------------------------------------------
(* A lookup has its fee.                                                    *)

\* The first wait for the fees is still to come, or will not be needed.
LEMMA LookupAt ==
  ASSUME NEW c \in Callers, waited'[c] \in Nat, waited'[c] <= 2, stage'[c] \in Awaited \cup {"over"},
         stage'[c] \in {"relay", "rerelay"} => node'.chain = "regtest",
         stage'[c] = "smart" => node'.chain # "regtest",
         stage'[c] \in {"fallback", "refallback"} => node'.chain = "test",
         told'[c] # None => node'.chain = "test",
         stage'[c] \in {"rechain", "rerelay", "refallback", "fallback"} => heard'[c],
         answer'[c] # "none" => stage'[c] = "over" /\ (answer'[c] = "quoted" \/ heard'[c])
  PROVE  LookupOK(c)'
<1>1. (stage[c] \in {"idle", "tier"} => waited[c] = 0)' /\ (stage[c] = "genesis" => waited[c] <= 1)'
  BY DEF Awaited
<1>2. (stage[c] # "over" => waited[c] <= 2)' /\ (waited[c] <= 3)'
  OBVIOUS
<1>3. (answer[c] # "none" => stage[c] = "over")' /\ (answer[c] = "Fee estimation failed" => heard[c])'
  OBVIOUS
<1>4. (answer[c] = "NODE_UNREACHABLE" /\ ~heard[c] => waited[c] > 0)'
  OBVIOUS
<1>. QED
  BY <1>1, <1>2, <1>3, <1>4 DEF LookupOK

LEMMA FeeAdded ==
  ASSUME FeesInv, NEW c \in Callers, stage[c] # "over",
         NEW feerate \in Nat, NEW estimate \in Estimates \cup {None},
         SourceOK([feerate |-> feerate, told |-> estimate]),
         Fee(c, feerate, estimate), UNCHANGED <<node, memo, waited>>
  PROVE  FeesInv'
<1>. DEFINE fee == [feerate |-> feerate, told |-> estimate]
            more == c \in Quotes /\ Len(out[c]) < 2
<1>0. TypesOK /\ OutOK(c) /\ (\A i \in 1 .. Len(fees[c]) : SourceOK(fees[c][i]))
  BY DEF FeesInv, CallerOK
<1>1. LookupOK(c) /\ answer[c] = "none" /\ node.chain \in {"main", "test", "regtest"} /\ waited[c] \in Nat
  BY <1>0, UnderWay DEF TypesOK
<1>2. out[c] \in Seq(Nat) /\ fees[c] \in Seq(Fees) /\ fee \in Fees
  BY <1>0 DEF TypesOK, Fees
<1>3. /\ WithTier(out[c], feerate) \in Seq(Nat)
      /\ Len(WithTier(out[c], feerate)) = Len(out[c]) + 1
      /\ TiersOK(WithTier(out[c], feerate))
  BY <1>0, <1>2, TierAdded DEF OutOK
<1>4. /\ fees' \in [Callers -> Seq(Fees)] /\ fees'[c] = Append(fees[c], fee)
      /\ \A d \in Callers \ {c} : fees'[d] = fees[d]
  <2>1. fees' = [fees EXCEPT ![c] = Append(fees[c], fee)]
    BY DEF Fee
  <2>2. Append(fees[c], fee) \in Seq(Fees)
    BY <1>2
  <2>. QED
    BY <1>0, <2>1, <2>2 DEF TypesOK
<1>5. /\ out' \in [Callers -> Seq(Nat)] /\ out'[c] = WithTier(out[c], feerate)
      /\ \A d \in Callers \ {c} : out'[d] = out[d]
  BY <1>0, <1>3 DEF TypesOK, Fee
<1>6. /\ told' \in [Callers -> Estimates \cup {None}] /\ told'[c] = None
      /\ heard' \in [Callers -> BOOLEAN]
      /\ \A d \in Callers \ {c} : told'[d] = told[d] /\ heard'[d] = heard[d]
  BY <1>0 DEF TypesOK, Fee
<1>7. /\ stage' \in [Callers -> Stages] /\ answer' \in [Callers -> Answers]
      /\ \A d \in Callers \ {c} : stage'[d] = stage[d] /\ answer'[d] = answer[d]
      /\ more => stage'[c] = Ask(node.chain) /\ answer'[c] = "none"
      /\ ~more => stage'[c] = "over" /\ answer'[c] = "quoted"
  <2>1. CASE more
    BY <1>0, <1>1, <2>1 DEF Fee, TypesOK, Ask, Stages, Awaited
  <2>2. CASE ~more
    BY <1>0, <2>2 DEF Fee, Ends, TypesOK, Stages, Answers
  <2>. QED
    BY <2>1, <2>2
<1>8. OnlyFor(c)
  BY <1>4, <1>5, <1>6, <1>7 DEF OnlyFor
<1>9. TypesOK'
  BY <1>0, <1>4, <1>5, <1>6, <1>7 DEF TypesOK, memo
<1>10. LookupOK(c)'
  <2>1. waited'[c] <= 2 /\ waited'[c] \in Nat
    BY <1>1 DEF LookupOK
  <2>2. stage'[c] \in {"relay", "smart", "over"}
    BY <1>7 DEF Ask
  <2>3. (stage'[c] = "relay" => node.chain = "regtest") /\ (stage'[c] = "smart" => node.chain # "regtest")
    BY <1>7 DEF Ask
  <2>4. answer'[c] # "none" => stage'[c] = "over" /\ answer'[c] = "quoted"
    BY <1>7
  <2>. QED
    <3>1. told'[c] = None /\ node' = node
      BY <1>6
    <3>2. stage'[c] \in Awaited \cup {"over"}
      BY <2>2 DEF Awaited
    <3>. QED
      BY <2>1, <2>2, <2>3, <2>4, <3>1, <3>2, LookupAt
<1>11. OutOK(c)'
  <2>1. Len(fees'[c]) = Len(fees[c]) + 1
    BY <1>2, <1>4
  <2>2. Len(out[c]) = Len(fees[c]) /\ Len(out[c]) <= 2 /\ Len(out[c]) \in Nat
    BY <1>0, <1>2 DEF OutOK
  <2>3. /\ Len(out'[c]) = Len(fees'[c]) /\ Len(out'[c]) <= 3
        /\ stage'[c] # "over" => Len(out'[c]) <= 2
        /\ c \in Quotes /\ answer'[c] = "quoted" => Len(out'[c]) = 3
    <3>1. Len(out'[c]) = Len(out[c]) + 1
      BY <1>3, <1>5
    <3>2. CASE more
      BY <1>7, <2>1, <2>2, <3>1, <3>2
    <3>3. CASE ~more
      <4>1. c \in Quotes => ~(Len(out[c]) < 2)
        BY <3>3
      <4>. QED
        BY <1>7, <2>1, <2>2, <3>1, <3>3, <4>1
    <3>. QED
      BY <3>2, <3>3
  <2>4. TiersOK(out[c])'
    BY <1>3, <1>5 DEF TiersOK
  <2>. QED
    BY <2>3, <2>4 DEF OutOK
<1>12. (\A i \in 1 .. Len(fees[c]) : SourceOK(fees[c][i]))'
  <2>1. ASSUME NEW i \in 1 .. Len(fees'[c]) PROVE SourceOK(fees'[c][i])
    <3>1. fees'[c][i] = fee \/ (i \in 1 .. Len(fees[c]) /\ fees'[c][i] = fees[c][i])
      BY <1>2, <1>4
    <3>. QED
      BY <1>0, <3>1
  <2>2. node' = node
    OBVIOUS
  <2>. QED
    BY <2>1, <2>2 DEF SourceOK
<1>. QED
  BY <1>8, <1>9, <1>10, <1>11, <1>12, OthersKept DEF CallerOK

\* What the bounds and a node's floor are.
LEMMA Numbers ==
  ASSUME TypesOK
  PROVE  /\ {DefaultRelay, RelayMultiplier, SanityCeiling} \subseteq Nat \ {0}
         /\ node.chain \in {"main", "test", "regtest"}
         /\ node.relayfee # None => node.relayfee \in Nat /\ node.relayfee * RelayMultiplier \in Nat
         /\ Estimates \subseteq Nat
         /\ None \notin Nat
<1>1. node.relayfee \in (Nat \ {0}) \cup {None} /\ RelayMultiplier \in Nat
  BY QuotesAssumption DEF QuotesAssumption, TypesOK
<1>2. \A a, b \in Nat : a * b \in Nat
  OBVIOUS
<1>3. node.relayfee # None => node.relayfee \in Nat /\ node.relayfee * RelayMultiplier \in Nat
  BY <1>1, <1>2
<1>. QED
  BY <1>3, QuotesAssumption DEF QuotesAssumption, TypesOK

LEMMA RelayReadOK ==
  ASSUME FeesInv, NEW c \in Callers, RelayRead(c)
  PROVE  FeesInv'
<1>. DEFINE feerate == IF node.relayfee = None THEN DefaultRelay ELSE node.relayfee
<1>0. stage[c] \in {"relay", "rerelay"} /\ TypesOK /\ LookupOK(c)
  BY DEF RelayRead, FeesInv, CallerOK
<1>1. node.chain = "regtest" /\ told[c] = None
  BY <1>0 DEF LookupOK
<1>2. feerate \in Nat /\ feerate \in {node.relayfee, DefaultRelay}
  BY <1>0, Numbers
<1>3. Fee(c, feerate, told[c]) /\ UNCHANGED <<node, memo, waited>>
  BY DEF RelayRead
<1>. HIDE DEF feerate
<1>4. SourceOK([feerate |-> feerate, told |-> told[c]])
  BY <1>1, <1>2 DEF SourceOK
<1>. QED
  BY <1>0, <1>1, <1>2, <1>3, <1>4, FeeAdded

LEMMA SmartReadOK ==
  ASSUME FeesInv, NEW c \in Callers, SmartRead(c)
  PROVE  FeesInv'
<1>0. stage[c] = "smart" /\ TypesOK /\ LookupOK(c) /\ answer[c] = "none"
  BY UnderWay DEF SmartRead, FeesInv
<1>1. node.chain \in {"main", "test"}
  BY <1>0, UnderWay DEF LookupOK
<1>2. PICK estimate \in Estimates \cup {None} :
        LET feerate == UsableSmartFee(estimate)
        IN  IF feerate # None
            THEN Fee(c, feerate, estimate)
            ELSE /\ Goto(c, Fallback(node.chain, "fallback"))
                 /\ told' = [told EXCEPT ![c] = estimate]
                 /\ Hear(c)
                 /\ UNCHANGED fees
  BY DEF SmartRead
<1>. DEFINE feerate == UsableSmartFee(estimate)
<1>3. UNCHANGED <<node, memo, waited>>
  BY DEF SmartRead
<1>4. CASE feerate # None
  <2>1. feerate \in Nat /\ estimate # None
    BY <1>0, <1>4, Numbers DEF UsableSmartFee
  <2>2. node.chain = "main" => feerate = Min({estimate, SanityCeiling})
    <3>. SUFFICES ASSUME node.chain = "main" PROVE feerate = Min({estimate, SanityCeiling})
      OBVIOUS
    <3>0. estimate \in Nat /\ SanityCeiling \in Nat
      BY <1>0, <2>1, Numbers
    <3>1. CASE estimate > SanityCeiling
      <4>1. Min({estimate, SanityCeiling}) = SanityCeiling
        BY <3>0, <3>1, MinOf
      <4>. QED
        BY <2>1, <3>1, <4>1 DEF UsableSmartFee
    <3>2. CASE ~(estimate > SanityCeiling)
      <4>1. Min({estimate, SanityCeiling}) = estimate
        BY <3>0, <3>2, MinOf
      <4>. QED
        BY <3>2, <4>1 DEF UsableSmartFee
    <3>. QED
      BY <3>1, <3>2
  <2>3. node.chain = "test" => feerate = estimate /\ estimate <= SanityCeiling
    BY <1>0, <1>4, <2>1, Numbers DEF UsableSmartFee
  <2>4. Fee(c, feerate, estimate)
    BY <1>2, <1>4
  <2>. HIDE DEF feerate
  <2>5. SourceOK([feerate |-> feerate, told |-> estimate])
    BY <1>1, <2>1, <2>2, <2>3 DEF SourceOK
  <2>. QED
    BY <1>0, <1>3, <2>1, <2>4, <2>5, FeeAdded
<1>5. CASE feerate = None
  <2>1. node.chain = "main" => estimate = None
    BY <1>0, <1>5, Numbers DEF UsableSmartFee
  <2>2. /\ Goto(c, Fallback(node.chain, "fallback"))
        /\ told' = [told EXCEPT ![c] = estimate]
        /\ Hear(c)
        /\ UNCHANGED fees
    BY <1>2, <1>5
  <2>3. /\ Fallback(node.chain, "fallback") \in {"fallback", "fail"}
        /\ Fallback(node.chain, "fallback") = "fallback" => node.chain = "test"
    BY <1>1 DEF Fallback
  <2>4. /\ heard' \in [Callers -> BOOLEAN]
        /\ \A d \in Callers \ {c} : heard'[d] = heard[d]
        /\ heard'[c]
    BY <1>0, <2>2, Heard
  <2>5. /\ out' = out /\ stage' \in [Callers -> Stages] /\ answer' \in [Callers -> Answers]
        /\ \A d \in Callers \ {c} : stage'[d] = stage[d] /\ answer'[d] = answer[d]
        /\ \/ stage'[c] = "fallback" /\ answer'[c] = "none" /\ node.chain = "test"
           \/ stage'[c] = "over" /\ answer'[c] = "Fee estimation failed"
    <3>1. Fallback(node.chain, "fallback") \in Stages \cup {"fail"}
      BY <2>3 DEF Stages, Awaited
    <3>. QED
      BY <1>0, <2>2, <2>3, <3>1, Sent
  <2>6. /\ told' \in [Callers -> Estimates \cup {None}] /\ told'[c] = estimate
        /\ \A d \in Callers \ {c} : told'[d] = told[d]
    BY <1>0, <2>2 DEF TypesOK
  <2>7. OnlyFor(c)
    BY <1>3, <2>2, <2>4, <2>5, <2>6 DEF OnlyFor
  <2>8. TypesOK'
    BY <1>0, <1>3, <2>2, <2>4, <2>5, <2>6 DEF TypesOK, memo
  <2>9. LookupOK(c)'
    <3>1. waited'[c] <= 2 /\ waited'[c] \in Nat
      BY <1>0, <1>3 DEF LookupOK, TypesOK
    <3>2. told'[c] # None => node'.chain = "test"
      BY <1>1, <1>3, <2>1, <2>6
    <3>3. heard'[c] = TRUE /\ node' = node
      BY <1>3, <2>4
    <3>4. /\ stage'[c] \in {"fallback", "over"} /\ (stage'[c] = "fallback" => node.chain = "test")
          /\ answer'[c] # "none" => stage'[c] = "over"
      BY <2>5
    <3>. QED
      BY <3>1, <3>2, <3>3, <3>4, LookupAt DEF Awaited
  <2>10. CallerOK(c)'
    BY <1>0, <1>3, <2>2, <2>5, <2>8, <2>9, LookupGoesOn
  <2>. QED
    BY <2>7, <2>8, <2>10, OthersKept
<1>. QED
  BY <1>4, <1>5

LEMMA FallbackReadOK ==
  ASSUME FeesInv, NEW c \in Callers, FallbackRead(c)
  PROVE  FeesInv'
<1>0. stage[c] \in {"fallback", "refallback"} /\ stage[c] # "over" /\ TypesOK /\ LookupOK(c) /\ answer[c] = "none"
  BY UnderWay DEF FallbackRead, FeesInv
<1>1. node.chain = "test"
  BY <1>0 DEF LookupOK
<1>3. UNCHANGED <<node, memo, waited>>
  BY DEF FallbackRead
<1>4. CASE node.relayfee # None
  <2>. DEFINE feerate == node.relayfee * RelayMultiplier
  <2>1. feerate \in Nat /\ told[c] \in Estimates \cup {None}
    BY <1>0, <1>4, Numbers DEF TypesOK
  <2>2. SourceOK([feerate |-> feerate, told |-> told[c]])
    BY <1>1, <1>4 DEF SourceOK
  <2>3. Fee(c, feerate, told[c])
    BY <1>4 DEF FallbackRead
  <2>. HIDE DEF feerate
  <2>. QED
    BY <1>0, <1>3, <2>1, <2>2, <2>3, FeeAdded
<1>5. CASE node.relayfee = None
  <2>. DEFINE next == IF stage[c] = "fallback" THEN Recover ELSE "fail"
  <2>1. Goto(c, next) /\ Hear(c) /\ UNCHANGED <<fees, told>>
    BY <1>0, <1>5 DEF FallbackRead
  <2>2. next \in {"rechain", "refallback", "fail"}
    BY <1>0, <1>1, RecoveryFits DEF RecoverOn, Fallback
  <2>. HIDE DEF next
  <2>3. /\ heard' \in [Callers -> BOOLEAN]
        /\ \A d \in Callers \ {c} : heard'[d] = heard[d]
        /\ heard'[c]
    BY <1>0, <2>1, Heard
  <2>4. /\ out' = out /\ stage' \in [Callers -> Stages] /\ answer' \in [Callers -> Answers]
        /\ \A d \in Callers \ {c} : stage'[d] = stage[d] /\ answer'[d] = answer[d]
        /\ \/ stage'[c] \in {"rechain", "refallback"} /\ answer'[c] = "none"
           \/ stage'[c] = "over" /\ answer'[c] = "Fee estimation failed"
    <3>1. next \in Stages \cup {"fail"}
      BY <2>2 DEF Stages, Awaited
    <3>. QED
      BY <1>0, <2>1, <2>2, <3>1, Sent
  <2>5. OnlyFor(c)
    BY <1>3, <2>1, <2>3, <2>4 DEF OnlyFor
  <2>6. TypesOK'
    BY <1>0, <1>3, <2>1, <2>3, <2>4 DEF TypesOK, memo
  <2>7. LookupOK(c)'
    <3>1. waited'[c] <= 2 /\ waited'[c] \in Nat
      BY <1>0, <1>3 DEF LookupOK, TypesOK
    <3>2. heard'[c] = TRUE /\ node'.chain = "test"
      BY <1>1, <1>3, <2>3
    <3>3. stage'[c] \in {"rechain", "refallback", "over"} /\ (answer'[c] # "none" => stage'[c] = "over")
      BY <2>4
    <3>. QED
      BY <3>1, <3>2, <3>3, LookupAt DEF Awaited
  <2>8. CallerOK(c)'
    BY <1>0, <1>3, <2>1, <2>4, <2>6, <2>7, LookupGoesOn
  <2>. QED
    BY <2>5, <2>6, <2>8, OthersKept
<1>. QED
  BY <1>4, <1>5

-----------------------------------------------------------------------------
(* The theorems.                                                            *)

LEMMA InitOK == Init => FeesInv
<1>. SUFFICES ASSUME Init PROVE FeesInv
  OBVIOUS
<1>1. TypesOK
  BY DEF Init, TypesOK, Stages, Answers, Awaited
<1>2. ASSUME NEW c \in Callers PROVE CallerOK(c)
  <2>1. LookupOK(c)
    BY DEF Init, LookupOK
  <2>2. OutOK(c) /\ fees[c] = <<>>
    BY DEF Init, OutOK, TiersOK
  <2>. QED
    BY <2>1, <2>2 DEF CallerOK
<1>. QED
  BY <1>1, <1>2 DEF FeesInv

LEMMA StepOK == FeesInv /\ [Next]_vars => FeesInv'
<1>. SUFFICES ASSUME FeesInv, [Next]_vars PROVE FeesInv'
  OBVIOUS
<1>1. CASE Next
  <2>. PICK c \in Callers :
        \/ Begin(c) \/ TierRead(c) \/ GenesisRead(c) \/ CheckFails(c)
        \/ ChainRead(c) \/ RelayRead(c) \/ SmartRead(c) \/ FallbackRead(c)
        \/ Refused(c) \/ Timeout(c)
    BY <1>1 DEF Next
  <2>. QED
    BY BeginOK, TierReadOK, GenesisReadOK, CheckFailsOK, ChainReadOK, RelayReadOK,
       SmartReadOK, FallbackReadOK, RefusedOK, TimeoutOK
<1>2. CASE UNCHANGED vars
  <2>1. UNCHANGED <<node, chainNameCache, nodeTierOk, nodeGenesisOk, stage, out, answer, fees, told, heard, waited>>
    BY <1>2 DEF vars, memo, call, history
  <2>2. TypesOK'
    BY <2>1 DEF FeesInv, TypesOK
  <2>3. ASSUME NEW c \in Callers PROVE CallerOK(c)'
    <3>1. CallerOK(c)
      BY DEF FeesInv
    <3>2. LookupOK(c)'
      BY <2>1, <3>1 DEF CallerOK, LookupOK
    <3>3. OutOK(c)'
      BY <2>1, <3>1 DEF CallerOK, OutOK, TiersOK
    <3>4. (\A i \in 1 .. Len(fees[c]) : SourceOK(fees[c][i]))'
      BY <2>1, <3>1, Zenon DEF CallerOK, SourceOK
    <3>. QED
      BY <3>2, <3>3, <3>4 DEF CallerOK
  <2>. QED
    BY <2>2, <2>3 DEF FeesInv
<1>. QED
  BY <1>1, <1>2

\* The inductive invariant holds in every behaviour of the callers.
THEOREM FeesKept == Spec => []FeesInv
BY InitOK, StepOK, PTL DEF Spec

\* However the RPCs of a lookup fail, for any estimates, floors and bounds, a fee
\* has the source its chain allows (recoverFeeEstimate, noEstimateRelayFallback).
THEOREM SourcesHold == Spec => []FeeHasItsSource
<1>1. FeesInv => FeeHasItsSource
  <2>. SUFFICES ASSUME FeesInv PROVE FeeHasItsSource
    OBVIOUS
  <2>1. TypesOK /\ \A c \in Callers : CallerOK(c)
    BY DEF FeesInv
  <2>2. TypeOK
    BY <2>1 DEF TypesOK, CallerOK, OutOK, TypeOK, Stages, Answers
  <2>3. ASSUME NEW c \in Callers, NEW i \in DOMAIN fees[c] PROVE SourceOK(fees[c][i])
    <3>1. fees[c] \in Seq(Fees)
      BY <2>1 DEF TypesOK
    <3>. QED
      BY <2>1, <3>1 DEF CallerOK
  <2>. QED
    BY <2>2, <2>3 DEF FeeHasItsSource, SourceOK
<1>. QED
  BY <1>1, FeesKept, PTL

\* For any number of callers a silent node costs each three timeouts at most, and
\* is reported for what it is (estimate_fee's error mapping).
THEOREM DeadNodeBounded == Spec => []DeadNodeIsWaitedForOnce
<1>1. FeesInv => DeadNodeIsWaitedForOnce
  BY DEF FeesInv, CallerOK, LookupOK, DeadNodeIsWaitedForOnce
<1>. QED
  BY <1>1, FeesKept, PTL

\* A quote is complete and ordered whatever the estimates and the cap are
\* (estimate_fee's three tiers).
THEOREM TiersOrdered == Spec => []QuoteIsOrdered
<1>1. FeesInv => QuoteIsOrdered
  <2>. SUFFICES ASSUME FeesInv, NEW c \in Quotes, answer[c] = "quoted"
                PROVE  /\ Len(out[c]) = 3
                       /\ 1 <= out[c][1] /\ out[c][1] <= out[c][2] /\ out[c][2] <= out[c][3]
                       /\ node.chain # "main" => out[c][3] <= SuggestedCap
    BY DEF QuoteIsOrdered
  <2>1. OutOK(c)
    BY DEF FeesInv, CallerOK, Callers
  <2>2. Len(out[c]) = 3 /\ TiersOK(out[c])
    BY <2>1 DEF OutOK
  <2>. QED
    BY <2>2 DEF TiersOK
<1>. QED
  BY <1>1, FeesKept, PTL

-----------------------------------------------------------------------------
(* The ancestor package.                                                   *)

\* What an ancestor descends from is an ancestor too.
LEMMA AncestorsAreClosed ==
    ASSUME NEW t \in Txids
    PROVE  /\ Ancestors(t) \in SUBSET Txids
           /\ \A a \in Ancestors(t) : Ancestors(a) \subseteq Ancestors(t)
<1>. DEFINE Above(x) == {S \in SUBSET Txids : SpentBy(x) \subseteq S /\ \A s \in S : SpentBy(s) \subseteq S}
<1>1. ASSUME NEW x \in Txids
      PROVE  Ancestors(x) = {a \in Txids : \A S \in Above(x) : a \in S}
  BY DEF Ancestors, AncestorsOf
<1>2. ASSUME NEW a \in Ancestors(t), NEW b \in Ancestors(a)
      PROVE  b \in Ancestors(t)
  <2>1. a \in Txids
    BY <1>1
  <2>2. b \in Txids /\ \A S \in Above(a) : b \in S
    BY <1>1, <2>1
  <2>3. ASSUME NEW S \in Above(t) PROVE b \in S
    <3>1. a \in S
      BY <1>1
    <3>2. S \in Above(a)
      BY <3>1
    <3>. QED
      BY <2>2, <3>2
  <2>. QED
    BY <1>1, <2>2, <2>3
<1>. HIDE DEF Above
<1>3. Ancestors(t) \in SUBSET Txids
  BY <1>1
<1>. QED
  BY <1>2, <1>3

\* Where the loop over the roots is, and what it has gathered on the way.
BranchAt ==
    /\ stuck \subseteq InMempool
    /\ awaited \in {"entry", "ancestors"} => pos \in 1 .. Len(roots) /\ base = packageEntries
    /\ awaited = "entry" => staged = {}
    /\ awaited = "ancestors" => staged = {Root} \ packageEntries
    /\ staged \cap unreadable = {}
    /\ awaited = "done" => pos = Len(roots) + 1

\* The branches behind the loop are in the package with all that is still stuck
\* above them.
BranchesBehind ==
    \A i \in DOMAIN roots : i < pos /\ roots[i] \in stuck =>
        {roots[i]} \cup (Ancestors(roots[i]) \cap stuck) \subseteq packageEntries

PackageInv == PackageTypeOK /\ BranchAt /\ BranchesBehind

LEMMA RootsAreTxids ==
    ASSUME PackageTypeOK
    PROVE  /\ roots \in Seq(Txids) /\ DOMAIN roots = 1 .. Len(roots) /\ Len(roots) \in Nat
           /\ \A i \in DOMAIN roots : roots[i] \in Txids
<1>1. roots \in Seq(Txids)
  BY PackageAssumption DEF PackageTypeOK
<1>. QED
  BY <1>1

LEMMA PackageInits == PackageInit => PackageInv
<1>. SUFFICES ASSUME PackageInit PROVE PackageInv
  OBVIOUS
<1>1. roots \in Seq(Txids) /\ Len(roots) \in Nat
  BY PackageAssumption DEF PackageInit
<1>2. PackageTypeOK
  BY <1>1 DEF PackageInit, PackageTypeOK, InMempool
<1>3. BranchAt
  <2>1. CASE roots = <<>>
    BY <1>1, <2>1 DEF PackageInit, BranchAt
  <2>2. CASE roots # <<>>
    <3>1. 1 \in 1 .. Len(roots)
      BY <1>1, <2>2
    <3>. QED
      BY <2>2, <3>1 DEF PackageInit, BranchAt
  <2>. QED
    BY <2>1, <2>2
<1>4. BranchesBehind
  BY <1>1 DEF PackageInit, BranchesBehind
<1>. QED
  BY <1>2, <1>3, <1>4 DEF PackageInv

\* On to the next root with entries that carry this one's branch.
LEMMA BranchEnds ==
    ASSUME PackageInv, awaited \in {"entry", "ancestors"},
           NEW entries \in SUBSET Txids, EndBranch(entries), UNCHANGED <<mempoolVars, roots, stuck>>,
           packageEntries \subseteq entries, entries \cap unreadable = {},
           Root \in stuck => {Root} \cup (Ancestors(Root) \cap stuck) \subseteq entries
    PROVE  PackageInv'
<1>0. /\ pos \in 1 .. Len(roots) /\ Len(roots) \in Nat
      /\ UNCHANGED <<place, unreadable, roots, stuck>>
  BY RootsAreTxids DEF PackageInv, BranchAt, mempoolVars
<1>1. /\ packageEntries' = entries /\ staged' = {} /\ base' = entries /\ pos' = pos + 1
      /\ awaited' = IF pos = Len(roots) THEN "done" ELSE "entry"
  BY DEF EndBranch
<1>2. pos' \in 1 .. (Len(roots) + 1)
  BY <1>0, <1>1
<1>3. PackageTypeOK'
  BY <1>0, <1>1, <1>2 DEF PackageInv, PackageTypeOK, Consistent
<1>4. BranchAt'
  BY <1>0, <1>1 DEF PackageInv, BranchAt, InMempool
<1>5. BranchesBehind'
  <2>1. ASSUME NEW i \in DOMAIN roots, i < pos + 1, roots[i] \in stuck
        PROVE  {roots[i]} \cup (Ancestors(roots[i]) \cap stuck) \subseteq entries
    <3>1. CASE i = pos
      BY <2>1, <3>1 DEF Root
    <3>2. CASE i # pos
      <4>1. i < pos
        BY <1>0, <2>1, <3>2, RootsAreTxids DEF PackageInv
      <4>. QED
        BY <2>1, <4>1 DEF PackageInv, BranchesBehind
    <3>. QED
      BY <3>1, <3>2
  <2>. QED
    BY <1>0, <1>1, <2>1 DEF BranchesBehind
<1>. QED
  BY <1>3, <1>4, <1>5 DEF PackageInv

LEMMA NullKeeps ==
    ASSUME PackageInv, ReturnNull, UNCHANGED <<mempoolVars, roots, stuck>>
    PROVE  PackageInv'
<1>1. UNCHANGED <<place, unreadable, roots, pos, packageEntries, staged, base, stuck>> /\ awaited' = "null"
  BY DEF ReturnNull, mempoolVars
<1>2. PackageTypeOK'
  BY <1>1 DEF PackageInv, PackageTypeOK, Consistent
<1>3. BranchAt'
  BY <1>1 DEF PackageInv, BranchAt, InMempool
<1>4. BranchesBehind'
  BY <1>1 DEF PackageInv, BranchesBehind
<1>. QED
  BY <1>2, <1>3, <1>4 DEF PackageInv

LEMMA ReadEntryKeeps ==
    ASSUME PackageInv, ReadEntry
    PROVE  PackageInv'
<1>0. /\ awaited = "entry" /\ UNCHANGED <<mempoolVars, roots, stuck>>
      /\ packageEntries \in SUBSET Txids /\ packageEntries \cap unreadable = {} /\ staged = {}
      /\ stuck \subseteq InMempool
  BY DEF ReadEntry, PackageInv, PackageTypeOK, BranchAt
<1>1. CASE Root \notin InMempool
  <2>1. EndBranch(packageEntries)
    BY <1>1 DEF ReadEntry
  <2>. QED
    BY <1>0, <1>1, <2>1, BranchEnds
<1>2. CASE Root \in InMempool /\ Recordable({Root})
  <2>1. /\ staged' = {Root} \ packageEntries /\ awaited' = "ancestors"
        /\ UNCHANGED <<place, unreadable, roots, stuck, pos, packageEntries, base>>
    BY <1>2 DEF ReadEntry, mempoolVars
  <2>2. staged' \in SUBSET Txids /\ staged' \cap (packageEntries \cup unreadable) = {}
    BY <1>0, <1>2, <2>1 DEF Recordable, Priced, InMempool
  <2>3. PackageTypeOK'
    BY <1>0, <2>1, <2>2 DEF PackageInv, PackageTypeOK, Consistent
  <2>4. BranchAt'
    BY <1>0, <2>1, <2>2 DEF PackageInv, BranchAt, InMempool, Root
  <2>5. BranchesBehind'
    BY <2>1 DEF PackageInv, BranchesBehind
  <2>. QED
    BY <2>3, <2>4, <2>5 DEF PackageInv
<1>3. CASE Root \in InMempool /\ ~Recordable({Root})
  <2>1. ReturnNull
    BY <1>3 DEF ReadEntry
  <2>. QED
    BY <1>0, <2>1, NullKeeps
<1>. QED
  BY <1>1, <1>2, <1>3

LEMMA ReadAncestorsKeeps ==
    ASSUME PackageInv, ReadAncestors
    PROVE  PackageInv'
<1>. DEFINE above == Ancestors(Root) \cap InMempool
<1>0. /\ awaited = "ancestors" /\ UNCHANGED <<mempoolVars, roots, stuck>>
      /\ packageEntries \in SUBSET Txids /\ staged \in SUBSET Txids
      /\ packageEntries \cap unreadable = {} /\ staged \cap unreadable = {}
      /\ staged = {Root} \ packageEntries /\ stuck \subseteq InMempool
  <2>1. awaited = "ancestors" /\ UNCHANGED <<mempoolVars, roots, stuck>>
    BY DEF ReadAncestors
  <2>2. /\ packageEntries \in SUBSET Txids /\ staged \in SUBSET Txids
        /\ packageEntries \cap unreadable = {} /\ packageEntries \cap (staged \cup unreadable) = {}
    BY DEF PackageInv, PackageTypeOK
  <2>3. staged = {Root} \ packageEntries /\ stuck \subseteq InMempool /\ staged \cap unreadable = {}
    BY <2>1 DEF PackageInv, BranchAt
  <2>. QED
    BY <2>1, <2>2, <2>3
<1>1. CASE Root \notin InMempool
  <2>1. EndBranch(packageEntries)
    BY <1>1 DEF ReadAncestors
  <2>. QED
    BY <1>0, <1>1, <2>1, BranchEnds
<1>2. CASE Root \in InMempool /\ Recordable(above)
  <2>1. EndBranch(packageEntries \cup staged \cup above)
    BY <1>2 DEF ReadAncestors
  <2>2. above \in SUBSET Txids /\ (above \ (packageEntries \cup staged)) \cap unreadable = {}
    BY <1>2 DEF Recordable, Priced, InMempool
  <2>. DEFINE entries == packageEntries \cup staged \cup above
  <2>3. entries \in SUBSET Txids /\ packageEntries \subseteq entries /\ entries \cap unreadable = {}
    BY <1>0, <2>2
  <2>4. {Root} \cup (Ancestors(Root) \cap stuck) \subseteq entries
    BY <1>0
  <2>. HIDE DEF entries
  <2>5. EndBranch(entries)
    BY <2>1 DEF entries
  <2>. QED
    BY <1>0, <2>3, <2>4, <2>5, BranchEnds
<1>3. CASE Root \in InMempool /\ ~Recordable(above)
  <2>1. ReturnNull
    BY <1>3 DEF ReadAncestors
  <2>. QED
    BY <1>0, <2>1, NullKeeps
<1>. QED
  BY <1>1, <1>2, <1>3

\* The node's steps only shrink what has been stuck all along.
LEMMA MoveKeeps ==
    ASSUME PackageInv, NEW ts, NEW from, NEW to \in {"mempool", "chain", "gone"}, Moves(ts, from, to)
    PROVE  PackageInv'
<1>1. /\ place' = [t \in Txids |-> IF t \in ts THEN to ELSE place[t]]
      /\ Consistent(place') /\ stuck' = stuck \ ts /\ awaited \in {"entry", "ancestors"}
      /\ UNCHANGED <<unreadable, roots, pos, awaited, packageEntries, staged, base>>
  BY DEF Moves
<1>2. place' \in [Txids -> {"mempool", "chain", "gone"}]
  BY <1>1 DEF PackageInv, PackageTypeOK
<1>3. PackageTypeOK'
  BY <1>1, <1>2 DEF PackageInv, PackageTypeOK
<1>4. stuck' \subseteq InMempool'
  BY <1>1 DEF PackageInv, BranchAt, InMempool
<1>5. BranchAt'
  BY <1>1, <1>4 DEF PackageInv, BranchAt, Root
<1>6. BranchesBehind'
  BY <1>1 DEF PackageInv, BranchesBehind
<1>. QED
  BY <1>3, <1>5, <1>6 DEF PackageInv

LEMMA PackageSteps == PackageInv /\ [PackageNext]_packageVars => PackageInv'
<1>. SUFFICES ASSUME PackageInv, [PackageNext]_packageVars PROVE PackageInv'
  OBVIOUS
<1>1. CASE ReadEntry
  BY <1>1, ReadEntryKeeps
<1>2. CASE ReadAncestors
  BY <1>2, ReadAncestorsKeeps
<1>3. CASE CallFails
  BY <1>3, NullKeeps DEF CallFails
<1>4. CASE Confirms
  BY <1>4, MoveKeeps DEF Confirms
<1>5. CASE Drops
  BY <1>5, MoveKeeps DEF Drops
<1>6. CASE Returns
  BY <1>6, MoveKeeps DEF Returns
<1>7. CASE UNCHANGED packageVars
  <2>1. UNCHANGED <<place, unreadable, roots, pos, awaited, packageEntries, staged, base, stuck>>
    BY <1>7 DEF packageVars, mempoolVars
  <2>2. PackageTypeOK'
    BY <2>1 DEF PackageInv, PackageTypeOK, Consistent
  <2>3. BranchAt'
    BY <2>1 DEF PackageInv, BranchAt, InMempool, Root
  <2>4. BranchesBehind'
    BY <2>1 DEF PackageInv, BranchesBehind
  <2>. QED
    BY <2>2, <2>3, <2>4 DEF PackageInv
<1>. QED
  BY <1>1, <1>2, <1>3, <1>4, <1>5, <1>6, <1>7 DEF PackageNext

\* The step that ends a branch adds what one mempool held of it.
OneMempool ==
    pos' # pos =>
        \A t \in packageEntries' \ base :
            t \in InMempool /\ Ancestors(t) \cap InMempool \subseteq packageEntries'

LEMMA BranchFromOneMempool ==
    ASSUME PackageInv, [PackageNext]_packageVars
    PROVE  OneMempool
<1>0. awaited \in {"entry", "ancestors"} => base = packageEntries
  BY DEF PackageInv, BranchAt
<1>1. CASE ReadAncestors
  <2>. DEFINE above == Ancestors(Root) \cap InMempool
              entries == packageEntries \cup staged \cup above
  <2>0. base = packageEntries /\ staged = {Root} \ packageEntries
    BY <1>0, <1>1 DEF ReadAncestors, PackageInv, BranchAt
  <2>1. CASE Root \notin InMempool
    <3>1. packageEntries' = packageEntries
      BY <1>1, <2>1 DEF ReadAncestors, EndBranch
    <3>. QED
      BY <2>0, <3>1 DEF OneMempool
  <2>2. CASE Root \in InMempool /\ Recordable(above)
    <3>1. packageEntries' = entries
      BY <1>1, <2>2 DEF ReadAncestors, EndBranch
    <3>2. ASSUME NEW t \in entries \ base
          PROVE  t \in InMempool /\ Ancestors(t) \cap InMempool \subseteq entries
      <4>1. Root \in Txids
        BY <2>2 DEF InMempool
      <4>2. CASE t = Root
        BY <2>2, <4>2
      <4>3. CASE t \in above
        <5>1. Ancestors(t) \subseteq Ancestors(Root)
          BY <4>1, <4>3, AncestorsAreClosed
        <5>. QED
          BY <4>3, <5>1
      <4>. QED
        BY <2>0, <4>2, <4>3
    <3>. HIDE DEF entries
    <3>. QED
      BY <3>1, <3>2 DEF OneMempool
  <2>3. CASE Root \in InMempool /\ ~Recordable(above)
    BY <1>1, <2>3 DEF ReadAncestors, ReturnNull, OneMempool
  <2>. QED
    BY <2>1, <2>2, <2>3
<1>2. CASE ReadEntry
  <2>1. packageEntries' = packageEntries /\ base = packageEntries
    BY <1>0, <1>2 DEF ReadEntry, EndBranch, ReturnNull
  <2>. QED
    BY <2>1 DEF OneMempool
<1>3. CASE CallFails
  BY <1>3 DEF CallFails, ReturnNull, OneMempool
<1>4. CASE Confirms \/ Drops \/ Returns
  BY <1>4 DEF Confirms, Drops, Returns, Moves, OneMempool
<1>5. CASE UNCHANGED packageVars
  BY <1>5 DEF packageVars, OneMempool
<1>. QED
  BY <1>1, <1>2, <1>3, <1>4, <1>5 DEF PackageNext

\* The loop over the roots carries every branch that is stuck, whatever the node
\* does between its calls (fee_estimation.js:220-233).
THEOREM PackageInvariant == PackageSpec => []PackageInv
BY PackageInits, PackageSteps, PTL DEF PackageSpec

\* For any transactions and roots, a package carries what has been stuck since the
\* query began, and each of its branches is taken from one mempool
\* (fee_estimation.js:55-58, 71-74, 220-233).
THEOREM PackageCarriesItsBranches == PackageSpec => BranchesCarried
<1>1. PackageInv => StuckChainCarried
  <2>. SUFFICES ASSUME PackageInv PROVE StuckChainCarried
    OBVIOUS
  <2>1. PackageTypeOK
    BY DEF PackageInv
  <2>2. ASSUME awaited = "done", NEW i \in DOMAIN roots, roots[i] \in stuck
        PROVE  {roots[i]} \cup (Ancestors(roots[i]) \cap stuck) \subseteq packageEntries
    <3>1. i < pos
      BY <2>1, <2>2, RootsAreTxids DEF PackageInv, BranchAt
    <3>. QED
      BY <2>2, <3>1 DEF PackageInv, BranchesBehind
  <2>. QED
    BY <2>1, <2>2 DEF StuckChainCarried
<1>2. PackageInv /\ [PackageNext]_packageVars => OneMempool
  BY BranchFromOneMempool
<1>3. PackageSpec => BranchIsOneMempool
  <2>1. PackageInv /\ [PackageNext]_packageVars => [OneMempool]_packageVars
    BY <1>2
  <2>2. PackageSpec => [][OneMempool]_packageVars
    BY <2>1, PackageInvariant, PTL DEF PackageSpec
  <2>. QED
    BY <2>2 DEF BranchIsOneMempool, OneMempool
<1>. QED
  BY <1>1, <1>3, PackageInvariant, PTL DEF BranchesCarried

-----------------------------------------------------------------------------
(* The candidates.                                                         *)

\* An injective function's image is as large as what it maps.
LEMMA ImageCount ==
    ASSUME NEW S, IsFiniteSet(S), NEW f,
           \A x, y \in S : f[x] = f[y] => x = y
    PROVE  /\ IsFiniteSet({f[x] : x \in S})
           /\ Cardinality({f[x] : x \in S}) = Cardinality(S)
<1>. DEFINE T == {f[x] : x \in S}
            g == [x \in S |-> f[x]]
<1>1. g \in [S -> T]
  OBVIOUS
<1>2. g \in Injection(S, T)
  BY <1>1 DEF Injection, IsInjective
<1>3. g \in Surjection(S, T)
  BY <1>1 DEF Surjection
<1>4. ExistsBijection(S, T)
  BY <1>2, <1>3 DEF ExistsBijection, Bijection
<1>. HIDE DEF T, g
<1>5. IsFiniteSet(T) /\ Cardinality(T) = Cardinality(S)
  BY <1>4, FS_Bijection
<1>. QED
  BY <1>5 DEF T

\* What makes an order of a set strict and total.
OrdersAll(I, order) ==
    /\ \A i \in I : <<i, i>> \notin order
    /\ \A i, j, k \in I : <<i, j>> \in order /\ <<j, k>> \in order => <<i, k>> \in order
    /\ \A i, j \in I : i # j => <<i, j>> \in order \/ <<j, i>> \in order

Below(I, order, i) == {j \in I : <<j, i>> \in order}

\* The more before a member the later it is.
LEMMA RankGrows ==
    ASSUME NEW I, IsFiniteSet(I), NEW order, OrdersAll(I, order)
    PROVE  /\ Cardinality(I) \in Nat
           /\ \A i \in I : /\ Cardinality(Below(I, order, i)) \in Nat
                           /\ Cardinality(Below(I, order, i)) < Cardinality(I)
           /\ \A i, j \in I : <<i, j>> \in order =>
                Cardinality(Below(I, order, i)) < Cardinality(Below(I, order, j))
<1>1. Cardinality(I) \in Nat
  BY FS_CardinalityType
<1>2. ASSUME NEW i \in I
      PROVE  /\ Below(I, order, i) \in SUBSET I /\ i \notin Below(I, order, i)
             /\ IsFiniteSet(Below(I, order, i))
             /\ Cardinality(Below(I, order, i)) \in Nat
             /\ Cardinality(Below(I, order, i)) < Cardinality(I)
  <2>1. Below(I, order, i) \in SUBSET I /\ i \notin Below(I, order, i)
    BY DEF Below, OrdersAll
  <2>2. /\ IsFiniteSet(Below(I, order, i))
        /\ Cardinality(Below(I, order, i)) <= Cardinality(I)
        /\ Cardinality(I) # Cardinality(Below(I, order, i))
    BY <2>1, FS_Subset
  <2>3. Cardinality(Below(I, order, i)) \in Nat
    BY <2>2, FS_CardinalityType
  <2>. QED
    BY <1>1, <2>1, <2>2, <2>3
<1>3. ASSUME NEW i \in I, NEW j \in I, <<i, j>> \in order
      PROVE  Cardinality(Below(I, order, i)) < Cardinality(Below(I, order, j))
  <2>1. Below(I, order, i) \in SUBSET Below(I, order, j)
    BY <1>3 DEF Below, OrdersAll
  <2>2. i \in Below(I, order, j)
    BY <1>3 DEF Below
  <2>3. Below(I, order, i) # Below(I, order, j)
    BY <1>2, <2>2
  <2>4. /\ Cardinality(Below(I, order, i)) <= Cardinality(Below(I, order, j))
        /\ Cardinality(Below(I, order, j)) # Cardinality(Below(I, order, i))
    BY <1>2, <2>1, <2>3, FS_Subset
  <2>. QED
    BY <1>2, <2>4
<1>. QED
  BY <1>1, <1>2, <1>3

\* Nth goes through a set, each member once, in its order.
LEMMA NthGoesThrough ==
    ASSUME NEW I, IsFiniteSet(I), NEW order, OrdersAll(I, order)
    PROVE  /\ Cardinality(I) \in Nat
           /\ \A n \in 1 .. Cardinality(I) :
                /\ Nth(I, order, n) \in I
                /\ Cardinality(Below(I, order, Nth(I, order, n))) = n - 1
           /\ \A i \in I : /\ 1 + Cardinality(Below(I, order, i)) \in 1 .. Cardinality(I)
                           /\ Nth(I, order, 1 + Cardinality(Below(I, order, i))) = i
<1>. DEFINE size == Cardinality(I)
            rank == [i \in I |-> Cardinality(Below(I, order, i))]
<1>1. /\ size \in Nat
      /\ \A i \in I : rank[i] \in Nat /\ rank[i] < size
      /\ \A i, j \in I : <<i, j>> \in order => rank[i] < rank[j]
  BY RankGrows
<1>2. \A i, j \in I : rank[i] = rank[j] => i = j
  <2>1. SUFFICES ASSUME NEW i \in I, NEW j \in I, rank[i] = rank[j], i # j PROVE FALSE
    OBVIOUS
  <2>2. CASE <<i, j>> \in order
    BY <1>1, <2>1, <2>2
  <2>3. CASE <<j, i>> \in order
    BY <1>1, <2>1, <2>3
  <2>. QED
    BY <2>1, <2>2, <2>3 DEF OrdersAll
<1>3. rank \in [I -> 0 .. size - 1]
  BY <1>1
<1>4. rank \in Injection(I, 0 .. size - 1)
  BY <1>2, <1>3 DEF Injection, IsInjective
<1>5. IsFiniteSet(0 .. size - 1) /\ Cardinality(0 .. size - 1) = size
  BY <1>1, FS_Interval, SMTT(30)
<1>. HIDE DEF rank
<1>6. rank \in Surjection(I, 0 .. size - 1)
  BY <1>4, <1>5, FS_Injection
<1>7. \A m \in 0 .. size - 1 : \E i \in I : rank[i] = m
  BY <1>6 DEF Surjection
<1>8. \A i \in I : rank[i] = Cardinality(Below(I, order, i))
  BY DEF rank
<1>9. ASSUME NEW n \in 1 .. size
      PROVE  Nth(I, order, n) \in I /\ Cardinality(Below(I, order, Nth(I, order, n))) = n - 1
  <2>1. n - 1 \in 0 .. size - 1
    BY <1>1
  <2>2. \E i \in I : Cardinality(Below(I, order, i)) = n - 1
    BY <1>7, <1>8, <2>1
  <2>3. Nth(I, order, n) = CHOOSE i \in I : Cardinality(Below(I, order, i)) = n - 1
    BY DEF Nth, Below
  <2>. QED
    BY <2>2, <2>3
<1>10. ASSUME NEW i \in I
       PROVE  /\ 1 + Cardinality(Below(I, order, i)) \in 1 .. size
              /\ Nth(I, order, 1 + Cardinality(Below(I, order, i))) = i
  <2>. DEFINE n == 1 + Cardinality(Below(I, order, i))
  <2>1. n \in 1 .. size /\ n - 1 = rank[i]
    BY <1>1, <1>8
  <2>. HIDE DEF n
  <2>2. Nth(I, order, n) \in I /\ rank[Nth(I, order, n)] = n - 1
    BY <1>8, <1>9, <2>1
  <2>3. Nth(I, order, n) = i
    BY <1>2, <2>1, <2>2
  <2>. QED
    BY <2>1, <2>3 DEF n
<1>. QED
  BY <1>1, <1>9, <1>10

LEMMA LeastPlace ==
    ASSUME NEW S \in SUBSET Nat, S # {}
    PROVE  \E x \in S : \A y \in S : ~(y < x)
<1>1. IsWellFoundedOn(OpToRel(<, Nat), Nat)
  BY NatLessThanWellFounded
<1>2. PICK x \in S : \A y \in S : ~(<<y, x>> \in OpToRel(<, Nat))
  BY <1>1, WFMin
<1>3. \A y \in S : ~(y < x)
  BY <1>2 DEF OpToRel
<1>. QED
  BY <1>3

LEMMA ListOfRows ==
    ASSUME NEW T, NEW rows \in Seq(T)
    PROVE  /\ Len(rows) \in Nat /\ DOMAIN rows = 1 .. Len(rows)
           /\ DOMAIN rows \in SUBSET Nat /\ IsFiniteSet(DOMAIN rows)
           /\ Cardinality(DOMAIN rows) = Len(rows)
           /\ \A i \in DOMAIN rows : rows[i] \in T
<1>1. Len(rows) \in Nat /\ DOMAIN rows = 1 .. Len(rows)
  OBVIOUS
<1>2. IsFiniteSet(1 .. Len(rows)) /\ Cardinality(1 .. Len(rows)) = Len(rows)
  BY <1>1, FS_Interval, SMTT(30)
<1>3. \A i \in DOMAIN rows : rows[i] \in T
  OBVIOUS
<1>. QED
  BY <1>1, <1>2, <1>3

\* A list of the rows at some places, in an order of them, is those rows, each place
\* once.
Enumerated(list, rows, I, order) ==
    /\ list \in Seq(Rows)
    /\ IsFiniteSet(I) /\ Cardinality(I) \in Nat
    /\ DOMAIN list = 1 .. Cardinality(I)
    /\ \A n \in 1 .. Cardinality(I) : Nth(I, order, n) \in I /\ list[n] = rows[Nth(I, order, n)]
    /\ \A n, m \in 1 .. Cardinality(I) : Nth(I, order, n) = Nth(I, order, m) => n = m
    /\ \A i \in I : \E n \in 1 .. Cardinality(I) : Nth(I, order, n) = i

LEMMA RowsAtPlaces ==
    ASSUME NEW rows \in Seq(Rows), NEW I \in SUBSET DOMAIN rows, NEW order, OrdersAll(I, order)
    PROVE  Enumerated(RowsAt(rows, I, order), rows, I, order)
<1>1. IsFiniteSet(I)
  BY ListOfRows, FS_Subset
<1>2. /\ Cardinality(I) \in Nat
      /\ \A n \in 1 .. Cardinality(I) :
           /\ Nth(I, order, n) \in I
           /\ Cardinality(Below(I, order, Nth(I, order, n))) = n - 1
      /\ \A i \in I : \E n \in 1 .. Cardinality(I) : Nth(I, order, n) = i
  BY <1>1, NthGoesThrough
<1>3. \A n, m \in 1 .. Cardinality(I) : Nth(I, order, n) = Nth(I, order, m) => n = m
  BY <1>2
<1>4. RowsAt(rows, I, order) = [n \in 1 .. Cardinality(I) |-> rows[Nth(I, order, n)]]
  BY DEF RowsAt
<1>5. \A n \in 1 .. Cardinality(I) : rows[Nth(I, order, n)] \in Rows
  BY <1>2, ListOfRows
<1>6. RowsAt(rows, I, order) \in Seq(Rows)
  BY <1>2, <1>4, <1>5
<1>. QED
  BY <1>1, <1>2, <1>3, <1>4, <1>6 DEF Enumerated

Outs(rows) == {rows[i].out : i \in DOMAIN rows}

\* The outpoints of the rows that stay.
StayingOuts(rows) == {row.out : row \in {r \in ToSet(rows) : Stays(r)}}

EachOnce(rows) == \A i, j \in DOMAIN rows : rows[i].out = rows[j].out => i = j

Kept(rows) == {i \in DOMAIN rows : Survives(rows, i)}

LEMMA AsListedOrders ==
    ASSUME NEW rows \in Seq(Rows), NEW I \in SUBSET DOMAIN rows
    PROVE  OrdersAll(I, AsListed(I))
<1>1. I \in SUBSET Nat
  BY ListOfRows
<1>. QED
  BY <1>1 DEF OrdersAll, AsListed

\* The first row that stays of an outpoint survives.
LEMMA FirstSurvives ==
    ASSUME NEW rows \in Seq(Rows), NEW i \in DOMAIN rows, Stays(rows[i])
    PROVE  \E j \in Kept(rows) : rows[j].out = rows[i].out
<1>. DEFINE S == {j \in DOMAIN rows : Stays(rows[j]) /\ rows[j].out = rows[i].out}
<1>1. S \in SUBSET Nat /\ S # {}
  BY ListOfRows
<1>2. PICK j \in S : \A k \in S : ~(k < j)
  BY <1>1, LeastPlace
<1>3. j \in Kept(rows)
  BY <1>2 DEF Kept, Survives, OutpointKey
<1>. QED
  BY <1>2, <1>3

\* What survives: every outpoint that has a row that stays, each once.
LEMMA SurvivorsAre ==
    ASSUME NEW rows \in Seq(Rows)
    PROVE  /\ Survivors(rows) \in Seq(Rows)
           /\ EachOnce(Survivors(rows))
           /\ Outs(Survivors(rows)) = StayingOuts(rows)
<1>. DEFINE I == Kept(rows)
            left == Survivors(rows)
<1>1. I \in SUBSET DOMAIN rows
  BY DEF Kept
<1>2. OrdersAll(I, AsListed(I))
  BY <1>1, AsListedOrders
<1>3. left = RowsAt(rows, I, AsListed(I))
  BY DEF Survivors, Kept
<1>. HIDE DEF I, left
<1>4. Enumerated(left, rows, I, AsListed(I))
  BY <1>1, <1>2, <1>3, RowsAtPlaces
<1>5. \A i, j \in I : rows[i].out = rows[j].out => i = j
  <2>1. I \in SUBSET Nat
    BY <1>1, ListOfRows
  <2>. QED
    BY <2>1 DEF I, Kept, Survives, OutpointKey
<1>6. \A i \in I : i \in DOMAIN rows /\ Stays(rows[i])
  BY DEF I, Kept, Survives
<1>7. EachOnce(left)
  BY <1>4, <1>5 DEF EachOnce, Enumerated
<1>8. Outs(left) \subseteq StayingOuts(rows)
  BY <1>4, <1>6 DEF Outs, StayingOuts, ToSet, Enumerated
<1>9. ASSUME NEW o \in StayingOuts(rows) PROVE o \in Outs(left)
  <2>1. PICK i \in DOMAIN rows : Stays(rows[i]) /\ rows[i].out = o
    BY DEF StayingOuts, ToSet
  <2>2. PICK j \in I : rows[j].out = o
    BY <2>1, FirstSurvives DEF I
  <2>3. PICK n \in 1 .. Cardinality(I) : Nth(I, AsListed(I), n) = j
    BY <1>4 DEF Enumerated
  <2>. QED
    BY <1>4, <2>2, <2>3 DEF Outs, Enumerated
<1>10. left \in Seq(Rows)
  BY <1>4 DEF Enumerated
<1>. QED
  BY <1>10, <1>7, <1>8, <1>9 DEF left

\* A list of distinct outpoints that all stay survives as it is.
LEMMA AllSurvive ==
    ASSUME NEW rows \in Seq(Rows), EachOnce(rows), \A i \in DOMAIN rows : Stays(rows[i])
    PROVE  Survivors(rows) = rows
<1>. DEFINE I == DOMAIN rows
            order == AsListed(I)
<1>1. Kept(rows) = I
  <2>1. I \in SUBSET Nat
    BY ListOfRows
  <2>. QED
    BY <2>1 DEF Kept, Survives, OutpointKey, EachOnce
<1>2. Survivors(rows) = RowsAt(rows, I, order)
  BY <1>1 DEF Survivors, Kept
<1>3. OrdersAll(I, order)
  BY AsListedOrders
<1>4. /\ IsFiniteSet(I) /\ Cardinality(I) = Len(rows) /\ Len(rows) \in Nat
      /\ I = 1 .. Len(rows)
  BY ListOfRows
<1>5. ASSUME NEW i \in I PROVE Cardinality(Below(I, order, i)) = i - 1
  <2>1. Below(I, order, i) = 1 .. i - 1
    BY <1>4 DEF Below, AsListed
  <2>2. i - 1 \in Nat
    BY <1>4
  <2>3. Cardinality(1 .. i - 1) = i - 1
    BY <2>2, FS_Interval
  <2>. QED
    BY <2>1, <2>3
<1>6. \A i \in I : Nth(I, order, 1 + Cardinality(Below(I, order, i))) = i
  BY <1>3, <1>4, NthGoesThrough
<1>7. ASSUME NEW i \in I PROVE Nth(I, order, i) = i
  <2>1. 1 + Cardinality(Below(I, order, i)) = i
    BY <1>4, <1>5
  <2>. QED
    BY <1>6, <2>1
<1>8. RowsAt(rows, I, order) = [n \in 1 .. Len(rows) |-> rows[n]]
  BY <1>4, <1>7 DEF RowsAt
<1>9. rows = [n \in 1 .. Len(rows) |-> rows[n]]
  BY <1>4
<1>. QED
  BY <1>2, <1>8, <1>9

Befores == {p \in Outpoints \X Outpoints : Before(p[1], p[2])}

\* Outpoints in the order of the candidates.
InOrder(O) == [n \in 1 .. Cardinality(O) |-> Nth(O, Befores, n)]

LEMMA BeforeOrders ==
    /\ \A o \in Outpoints : ~Before(o, o)
    /\ \A o, p, q \in Outpoints : Before(o, p) /\ Before(p, q) => Before(o, q)
    /\ \A o, p \in Outpoints : o # p => Before(o, p) \/ Before(p, o)
<1>1. \A o \in Outpoints : Value[o] \in Nat /\ Rank[o] \in Nat
  BY CandidatesAssumption
<1>2. \A o, p \in Outpoints : Rank[o] = Rank[p] => o = p
  BY CandidatesAssumption
<1>3. \A o \in Outpoints : ~Before(o, o)
  BY <1>1 DEF Before
<1>4. \A o, p, q \in Outpoints : Before(o, p) /\ Before(p, q) => Before(o, q)
  BY <1>1 DEF Before
<1>5. \A o, p \in Outpoints : o # p => Before(o, p) \/ Before(p, o)
  BY <1>1, <1>2 DEF Before
<1>. QED
  BY <1>3, <1>4, <1>5

\* Ordered is the order of the outpoints alone: where their rows stood is forgotten.
LEMMA OrderedIsCanonical ==
    ASSUME NEW rows \in Seq(Rows), EachOnce(rows)
    PROVE  /\ Ordered(rows) \in Seq(Rows)
           /\ EachOnce(Ordered(rows))
           /\ Outs(Ordered(rows)) = Outs(rows)
           /\ OutpointsOf(Ordered(rows)) = InOrder(Outs(rows))
<1>. DEFINE I == DOMAIN rows
            order == {p \in I \X I : Before(rows[p[1]].out, rows[p[2]].out)}
            f == [i \in I |-> rows[i].out]
            O == Outs(rows)
            list == Ordered(rows)
<1>1. \A i \in I : rows[i] \in Rows /\ rows[i].out \in Outpoints
  <2>1. \A i \in I : rows[i] \in Rows
    BY ListOfRows
  <2>2. \A r \in Rows : r.out \in Outpoints
    BY DEF Rows
  <2>. QED
    BY <2>1, <2>2
<1>2. \A i, j \in I : rows[i].out = rows[j].out => i = j
  BY DEF EachOnce
<1>3. \A i, j \in I : <<i, j>> \in order <=> Before(rows[i].out, rows[j].out)
  OBVIOUS
<1>4. OrdersAll(I, order)
  <2>. HIDE DEF order, I
  <2>. QED
    BY <1>1, <1>2, <1>3, BeforeOrders DEF OrdersAll
<1>5. O \in SUBSET Outpoints
  BY <1>1 DEF Outs
<1>6. \A o, p \in O : <<o, p>> \in Befores <=> Before(o, p)
  BY <1>5 DEF Befores
<1>7. OrdersAll(O, Befores)
  <2>. HIDE DEF O
  <2>. QED
    BY <1>5, <1>6, BeforeOrders DEF OrdersAll
<1>8. IsFiniteSet(I)
  BY ListOfRows
<1>9. O = {f[i] : i \in I}
  BY DEF Outs
<1>10. \A i, j \in I : f[i] = f[j] => i = j
  BY <1>2
<1>11. list = RowsAt(rows, I, order)
  BY DEF Ordered
<1>12. \A i \in I : f[i] = rows[i].out
  OBVIOUS
<1>. HIDE DEF I, order, f, O, list
<1>13. IsFiniteSet(O) /\ Cardinality(O) = Cardinality(I)
  BY <1>8, <1>9, <1>10, ImageCount
<1>14. Enumerated(list, rows, I, order)
  <2>. I \in SUBSET DOMAIN rows
    BY DEF I
  <2>. QED
    BY <1>4, <1>11, RowsAtPlaces
<1>15. ASSUME NEW i \in I
       PROVE  Cardinality(Below(O, Befores, f[i])) = Cardinality(Below(I, order, i))
  <2>. DEFINE S == Below(I, order, i)
  <2>1. S \in SUBSET I
    BY DEF Below
  <2>2. IsFiniteSet(S)
    BY <1>8, <2>1, FS_Subset
  <2>3. \A j, k \in S : f[j] = f[k] => j = k
    BY <1>10, <2>1
  <2>4. Cardinality({f[j] : j \in S}) = Cardinality(S)
    <3>. HIDE DEF S
    <3>. QED
      BY <2>2, <2>3, ImageCount
  <2>5. Below(O, Befores, f[i]) = {f[j] : j \in S}
    BY <1>3, <1>6, <1>9, <1>12 DEF Below
  <2>. QED
    BY <2>4, <2>5
<1>16. ASSUME NEW n \in 1 .. Cardinality(I)
       PROVE  list[n].out = Nth(O, Befores, n)
  <2>. DEFINE i == Nth(I, order, n)
  <2>1. i \in I /\ list[n] = rows[i]
    BY <1>14 DEF Enumerated
  <2>2. Cardinality(Below(I, order, i)) = n - 1
    BY <1>4, <1>8, NthGoesThrough
  <2>. HIDE DEF i
  <2>3. f[i] \in O
    BY <1>9, <2>1
  <2>4. Cardinality(Below(O, Befores, f[i])) = n - 1
    BY <1>15, <2>1, <2>2
  <2>5. Nth(O, Befores, 1 + Cardinality(Below(O, Befores, f[i]))) = f[i]
    BY <1>7, <1>13, <2>3, NthGoesThrough
  <2>6. Cardinality(I) \in Nat
    BY <1>14 DEF Enumerated
  <2>7. 1 + (n - 1) = n
    BY <2>6
  <2>. QED
    BY <1>12, <2>1, <2>4, <2>5, <2>7
<1>17. OutpointsOf(list) = InOrder(O)
  <2>1. DOMAIN list = 1 .. Cardinality(O)
    BY <1>13, <1>14 DEF Enumerated
  <2>. QED
    BY <1>13, <1>16, <2>1 DEF OutpointsOf, InOrder
<1>18. EachOnce(list)
  BY <1>2, <1>14 DEF EachOnce, Enumerated, I
<1>19. Outs(list) = O
  <2>1. Outs(list) \subseteq O
    BY <1>14 DEF Outs, Enumerated, O, I
  <2>2. ASSUME NEW i \in I PROVE rows[i].out \in Outs(list)
    <3>1. PICK n \in 1 .. Cardinality(I) : Nth(I, order, n) = i
      BY <1>14 DEF Enumerated
    <3>. QED
      BY <1>14, <3>1 DEF Outs, Enumerated
  <2>. QED
    BY <2>1, <2>2 DEF Outs, O, I
<1>20. list \in Seq(Rows)
  BY <1>14 DEF Enumerated
<1>. QED
  BY <1>17, <1>18, <1>19, <1>20 DEF list, O

LEMMA EmptyList ==
    ASSUME NEW rows \in Seq(Rows)
    PROVE  rows = <<>> <=> DOMAIN rows = {}
<1>1. Len(rows) \in Nat /\ DOMAIN rows = 1 .. Len(rows)
  OBVIOUS
<1>2. ASSUME DOMAIN rows = {} PROVE rows = <<>>
  <2>1. Len(rows) = 0
    BY <1>1, <1>2
  <2>. QED
    BY <2>1
<1>3. ASSUME rows = <<>> PROVE DOMAIN rows = {}
  <2>1. Len(rows) = 0
    BY <1>3
  <2>. QED
    BY <1>1, <2>1
<1>. QED
  BY <1>2, <1>3

\* The empty list in every shape the proof meets.
LEMMA NoRows ==
    /\ <<>> \in Seq(Rows)
    /\ EachOnce(<<>>) /\ Outs(<<>>) = {} /\ StayingOuts(<<>>) = {} /\ ToSet(<<>>) = {}
    /\ OutpointsOf(<<>>) = InOrder({})
    /\ OutpointsOf(<<>>) = <<>>
<1>1. DOMAIN <<>> = {}
  OBVIOUS
<1>2. Cardinality({}) = 0
  BY FS_EmptySet
<1>3. <<>> \in Seq(Rows)
  OBVIOUS
<1>4. EachOnce(<<>>) /\ Outs(<<>>) = {} /\ ToSet(<<>>) = {}
  BY <1>1 DEF EachOnce, Outs, ToSet
<1>5. StayingOuts(<<>>) = {}
  BY <1>4 DEF StayingOuts
<1>6. 1 .. 0 = {}
  OBVIOUS
<1>7. OutpointsOf(<<>>) = InOrder({})
  BY <1>1, <1>2, <1>6 DEF OutpointsOf, InOrder
<1>8. OutpointsOf(<<>>) = <<>>
  BY <1>1 DEF OutpointsOf
<1>. QED
  BY <1>3, <1>4, <1>5, <1>7, <1>8

\* What validateUtxoEntry leaves of a row.
Taken(row) == [row EXCEPT !.spelt = "lower", !.confirmations = IF @ = Absent THEN 0 ELSE @]

LEMMA TakenRow ==
    ASSUME NEW row \in Rows
    PROVE  Taken(row) \in Rows /\ Taken(row).out = row.out /\ (Stays(Taken(row)) <=> Stays(row))
<1>1. PICK o \in Outpoints, s \in {"lower", "upper"}, n \in {Absent, 0, 1} :
        row = [out |-> o, spelt |-> s, confirmations |-> n]
  BY DEF Rows
<1>. DEFINE m == IF n = Absent THEN 0 ELSE n
<1>2. Taken(row) = [out |-> o, spelt |-> "lower", confirmations |-> m]
  <2>1. Taken(row) = [[row EXCEPT !.spelt = "lower"] EXCEPT !.confirmations = IF @ = Absent THEN 0 ELSE @]
    BY DEF Taken
  <2>2. [row EXCEPT !.spelt = "lower"] = [out |-> o, spelt |-> "lower", confirmations |-> n]
    BY <1>1
  <2>. QED
    BY <2>1, <2>2
<1>3. m \in {Absent, 0, 1} /\ (m \in {Absent, 0} <=> n \in {Absent, 0})
  OBVIOUS
<1>. HIDE DEF m
<1>4. Taken(row) \in Rows
  BY <1>2, <1>3 DEF Rows
<1>5. /\ Taken(row).out = o /\ Taken(row).confirmations = m
      /\ row.out = o /\ row.confirmations = n
  BY <1>1, <1>2
<1>6. Stays(Taken(row)) <=> Stays(row)
  BY <1>3, <1>5 DEF Stays, IsUnconfirmedUtxo
<1>. QED
  BY <1>4, <1>5, <1>6

LEMMA TakenRows ==
    ASSUME NEW rows \in Seq(Rows)
    PROVE  /\ [i \in DOMAIN rows |-> Taken(rows[i])] \in Seq(Rows)
           /\ StayingOuts([i \in DOMAIN rows |-> Taken(rows[i])]) = StayingOuts(rows)
<1>. DEFINE list == [i \in DOMAIN rows |-> Taken(rows[i])]
<1>1. Len(rows) \in Nat /\ DOMAIN rows = 1 .. Len(rows) /\ \A i \in DOMAIN rows : rows[i] \in Rows
  BY ListOfRows
<1>2. \A i \in DOMAIN rows :
        /\ list[i] \in Rows /\ list[i].out = rows[i].out /\ (Stays(list[i]) <=> Stays(rows[i]))
  BY <1>1, TakenRow
<1>3. DOMAIN list = DOMAIN rows
  OBVIOUS
<1>4. list \in Seq(Rows)
  <2>1. \A i \in 1 .. Len(rows) : Taken(rows[i]) \in Rows
    BY <1>1, TakenRow
  <2>. QED
    BY <1>1, <2>1
<1>. HIDE DEF list
<1>5. StayingOuts(list) = StayingOuts(rows)
  BY <1>2, <1>3 DEF StayingOuts, ToSet
<1>. QED
  BY <1>4, <1>5 DEF list

\* Where the rows of a draft come from.
Origin(b) ==
    /\ step[b] \in {"start", "gather", "fetch"} => ~fetchedFromTracker[b]
    /\ step[b] = "fetch" => caller[b] = <<>> /\ options.reveal # "hex"
    /\ fetchedFromTracker[b] => caller[b] = <<>> /\ tracker[b] # <<>> /\ options.reveal # "hex"
    /\ step[b] \in {"shrunk", "filter", "selecting", "NO_UTXOS"} /\ ~fetchedFromTracker[b] =>
         \/ caller[b] # <<>> \/ options.reveal = "hex"
         \/ step[b] = "NO_UTXOS" /\ tracker[b] = <<>>

\* What has become of them on the way to the filter.
Unfiltered(b) ==
    /\ step[b] \in {"start", "gather", "fetch"} => utxos[b] = caller[b]
    /\ step[b] \in {"shrunk", "filter"} => StayingOuts(utxos[b]) = StayingOuts(Source(b))
    /\ options.exactInputs /\ step[b] \notin {"start", "INVALID_PARAMS"} =>
         caller[b] # <<>> /\ ~fetchedFromTracker[b] /\ utxos[b] = caller[b]
    /\ options.exactInputs /\ step[b] = "filter" =>
         EachOnce(utxos[b]) /\ \A i \in DOMAIN utxos[b] : Stays(utxos[b][i])

\* And after it.
Filtered(b) ==
    /\ step[b] \in {"selecting", "NO_UTXOS"} =>
         /\ EachOnce(utxos[b]) /\ Outs(utxos[b]) = StayingOuts(Source(b))
         /\ ~options.exactInputs => OutpointsOf(utxos[b]) = InOrder(StayingOuts(Source(b)))
    /\ step[b] = "NO_UTXOS" =>
         /\ utxos[b] = <<>>
         /\ \/ options.reveal = "no"
            \/ caller[b] = <<>> /\ tracker[b] = <<>> /\ options.reveal # "hex"
    /\ step[b] = "selecting" => StayingOuts(Source(b)) # {} \/ options.reveal # "no"

DraftOK(b) == Origin(b) /\ Unfiltered(b) /\ Filtered(b)

GivenOK ==
    /\ options \in Options
    /\ caller \in [Drafts -> Listings \cup {<<>>}] /\ tracker \in [Drafts -> Listings \cup {<<>>}]
    /\ \A b, c \in Drafts : ToSet(caller[b]) = ToSet(caller[c]) /\ ToSet(tracker[b]) = ToSet(tracker[c])

DraftsTyped ==
    /\ step \in [Drafts -> DraftSteps]
    /\ utxos \in [Drafts -> Seq(Rows)]
    /\ fetchedFromTracker \in [Drafts -> BOOLEAN]

CandidatesInv == GivenOK /\ DraftsTyped /\ \A b \in Drafts : DraftOK(b)

LEMMA GivenLists ==
    ASSUME GivenOK, NEW b \in Drafts
    PROVE  caller[b] \in Seq(Rows) /\ tracker[b] \in Seq(Rows)
<1>1. caller[b] \in Listings \cup {<<>>} /\ tracker[b] \in Listings \cup {<<>>}
  BY DEF GivenOK
<1>2. Listings \subseteq Seq(Rows)
  BY CandidatesAssumption
<1>. QED
  BY <1>1, <1>2, NoRows

LEMMA CandidatesInits == CandidatesInit => CandidatesInv
<1>. SUFFICES ASSUME CandidatesInit PROVE CandidatesInv
  OBVIOUS
<1>1. GivenOK
  <2>1. PICK some \in Listings : \E rows \in [Drafts -> {l \in Listings : ToSet(l) = ToSet(some)}] :
          \/ caller = rows /\ tracker = [b \in Drafts |-> <<>>]
          \/ caller = [b \in Drafts |-> <<>>] /\ tracker = rows
    BY DEF CandidatesInit
  <2>2. PICK rows \in [Drafts -> {l \in Listings : ToSet(l) = ToSet(some)}] :
          \/ caller = rows /\ tracker = [b \in Drafts |-> <<>>]
          \/ caller = [b \in Drafts |-> <<>>] /\ tracker = rows
    BY <2>1
  <2>3. \A b \in Drafts : rows[b] \in Listings /\ ToSet(rows[b]) = ToSet(some)
    OBVIOUS
  <2>4. rows \in [Drafts -> Listings \cup {<<>>}]
    OBVIOUS
  <2>5. options \in Options
    BY DEF CandidatesInit
  <2>6. CASE caller = rows /\ tracker = [b \in Drafts |-> <<>>]
    BY <2>3, <2>4, <2>5, <2>6 DEF GivenOK
  <2>7. CASE caller = [b \in Drafts |-> <<>>] /\ tracker = rows
    BY <2>3, <2>4, <2>5, <2>7 DEF GivenOK
  <2>. QED
    BY <2>2, <2>6, <2>7
<1>2. /\ step = [b \in Drafts |-> "start"] /\ utxos = caller
      /\ fetchedFromTracker = [b \in Drafts |-> FALSE]
  BY DEF CandidatesInit
<1>3. DraftsTyped
  <2>1. caller \in [Drafts -> Seq(Rows)]
    <3>1. caller \in [Drafts -> Listings \cup {<<>>}]
      BY <1>1 DEF GivenOK
    <3>2. \A b \in Drafts : caller[b] \in Seq(Rows)
      BY <1>1, GivenLists
    <3>. QED
      BY <3>1, <3>2
  <2>. QED
    BY <1>2, <2>1 DEF DraftsTyped, DraftSteps
<1>4. ASSUME NEW b \in Drafts PROVE DraftOK(b)
  BY <1>2 DEF DraftOK, Origin, Unfiltered, Filtered
<1>. QED
  BY <1>1, <1>3, <1>4 DEF CandidatesInv

\* What a draft is and was given decide what holds of it.
LEMMA DraftsKept ==
    ASSUME CandidatesInv, UNCHANGED given, DraftsTyped',
           NEW b \in Drafts, DraftOK(b)',
           \A d \in Drafts \ {b} :
             step'[d] = step[d] /\ utxos'[d] = utxos[d] /\ fetchedFromTracker'[d] = fetchedFromTracker[d]
    PROVE  CandidatesInv'
<1>1. GivenOK'
  BY DEF CandidatesInv, GivenOK, given
<1>2. ASSUME NEW d \in Drafts \ {b} PROVE DraftOK(d)'
  <2>1. DraftOK(d)
    BY DEF CandidatesInv
  <2>2. options' = options /\ caller' = caller /\ tracker' = tracker
    BY DEF given
  <2>3. Origin(d)'
    BY <2>1, <2>2 DEF DraftOK, Origin
  <2>4. Source(d)' = Source(d)
    BY <2>2 DEF Source
  <2>6. StayingOuts(Source(d))' = StayingOuts(Source(d)) /\ StayingOuts(utxos[d])' = StayingOuts(utxos[d])
    BY <2>2, <2>4 DEF StayingOuts, Stays
  <2>7. Unfiltered(d)'
    BY <2>1, <2>2, <2>6 DEF DraftOK, Unfiltered, Stays, EachOnce
  <2>8. Filtered(d)'
    BY <2>1, <2>2, <2>6 DEF DraftOK, Filtered
  <2>. QED
    BY <2>3, <2>7, <2>8 DEF DraftOK
<1>. QED
  BY <1>1, <1>2 DEF CandidatesInv

LEMMA CheckExactInputsKeeps ==
    ASSUME CandidatesInv, NEW b \in Drafts, CheckExactInputs(b)
    PROVE  CandidatesInv'
<1>. DEFINE next == IF options.exactInputs /\ (options.reveal # "no" \/ caller[b] = <<>>)
                    THEN "INVALID_PARAMS" ELSE "gather"
<1>1. /\ step[b] = "start" /\ step' = [step EXCEPT ![b] = next]
      /\ UNCHANGED given /\ utxos' = utxos /\ fetchedFromTracker' = fetchedFromTracker
      /\ options' = options /\ caller' = caller /\ tracker' = tracker
  BY DEF CheckExactInputs, StepTo, given
<1>2. DraftOK(b)
  BY DEF CandidatesInv
<1>3. next \in {"INVALID_PARAMS", "gather"} /\ (next = "gather" /\ options.exactInputs => caller[b] # <<>>)
  OBVIOUS
<1>. HIDE DEF next
<1>4. DraftsTyped' /\ step'[b] = next /\ \A d \in Drafts \ {b} : step'[d] = step[d]
  BY <1>1, <1>3 DEF CandidatesInv, DraftsTyped, DraftSteps
<1>5. DraftOK(b)'
  BY <1>1, <1>2, <1>3, <1>4 DEF DraftOK, Origin, Unfiltered, Filtered
<1>. QED
  BY <1>1, <1>4, <1>5, DraftsKept

LEMMA GatherUtxosKeeps ==
    ASSUME CandidatesInv, NEW b \in Drafts, GatherUtxos(b)
    PROVE  CandidatesInv'
<1>. DEFINE next == IF caller[b] = <<>> /\ options.reveal # "hex" THEN "fetch" ELSE "shrunk"
<1>1. /\ step[b] = "gather" /\ step' = [step EXCEPT ![b] = next]
      /\ UNCHANGED given /\ utxos' = utxos /\ fetchedFromTracker' = fetchedFromTracker
      /\ options' = options /\ caller' = caller /\ tracker' = tracker
  BY DEF GatherUtxos, StepTo, given
<1>2. DraftOK(b)
  BY DEF CandidatesInv
<1>3. /\ next \in {"fetch", "shrunk"}
      /\ next = "fetch" <=> caller[b] = <<>> /\ options.reveal # "hex"
  OBVIOUS
<1>. HIDE DEF next
<1>4. DraftsTyped' /\ step'[b] = next /\ \A d \in Drafts \ {b} : step'[d] = step[d]
  BY <1>1, <1>3 DEF CandidatesInv, DraftsTyped, DraftSteps
<1>5. ~fetchedFromTracker[b] /\ utxos[b] = caller[b]
  BY <1>1, <1>2 DEF DraftOK, Origin, Unfiltered
<1>6. Origin(b)'
  BY <1>1, <1>2, <1>3, <1>4, <1>5 DEF DraftOK, Origin
<1>7. Unfiltered(b)'
  <2>1. StayingOuts(utxos[b])' = StayingOuts(Source(b))'
    BY <1>1, <1>5 DEF Source, StayingOuts, Stays
  <2>. QED
    BY <1>1, <1>2, <1>3, <1>4, <1>5, <2>1 DEF DraftOK, Unfiltered
<1>8. Filtered(b)'
  BY <1>3, <1>4, SMTT(30) DEF Filtered
<1>. QED
  BY <1>1, <1>4, <1>6, <1>7, <1>8, DraftsKept DEF DraftOK

LEMMA FetchTrackerUtxosKeeps ==
    ASSUME CandidatesInv, NEW b \in Drafts, FetchTrackerUtxos(b)
    PROVE  CandidatesInv'
<1>1. /\ step[b] = "fetch" /\ UNCHANGED given
      /\ options' = options /\ caller' = caller /\ tracker' = tracker
  BY DEF FetchTrackerUtxos, given
<1>2. DraftOK(b) /\ GivenOK /\ DraftsTyped
  BY DEF CandidatesInv
<1>3. /\ ~fetchedFromTracker[b] /\ utxos[b] = caller[b]
      /\ caller[b] = <<>> /\ options.reveal # "hex"
      /\ ~options.exactInputs
  BY <1>1, <1>2 DEF DraftOK, Origin, Unfiltered
<1>4. CASE /\ tracker[b] # <<>>
           /\ StepTo(b, "shrunk")
           /\ fetchedFromTracker' = [fetchedFromTracker EXCEPT ![b] = TRUE]
           /\ utxos' = [utxos EXCEPT ![b] =
                [i \in DOMAIN tracker[b] |-> [tracker[b][i] EXCEPT
                    !.spelt = "lower", !.confirmations = IF @ = Absent THEN 0 ELSE @]]]
  <2>. DEFINE list == [i \in DOMAIN tracker[b] |-> Taken(tracker[b][i])]
  <2>1. utxos' = [utxos EXCEPT ![b] = list]
    BY <1>4 DEF Taken
  <2>2. list \in Seq(Rows) /\ StayingOuts(list) = StayingOuts(tracker[b])
    BY <1>2, GivenLists, TakenRows
  <2>. HIDE DEF list
  <2>3. /\ DraftsTyped'
        /\ step'[b] = "shrunk" /\ utxos'[b] = list /\ fetchedFromTracker'[b] = TRUE
        /\ \A d \in Drafts \ {b} :
             step'[d] = step[d] /\ utxos'[d] = utxos[d] /\ fetchedFromTracker'[d] = fetchedFromTracker[d]
    BY <1>2, <1>4, <2>1, <2>2 DEF DraftsTyped, DraftSteps, StepTo
  <2>4. Origin(b)'
    BY <1>1, <1>3, <1>4, <2>3 DEF Origin
  <2>5. StayingOuts(utxos[b])' = StayingOuts(Source(b))'
    <3>1. StayingOuts(utxos[b])' = StayingOuts(list)
      BY <1>1, <2>3 DEF StayingOuts, Stays
    <3>2. StayingOuts(Source(b))' = StayingOuts(tracker[b])
      BY <1>1, <2>3 DEF Source, StayingOuts, Stays
    <3>. QED
      BY <2>2, <3>1, <3>2
  <2>6. Unfiltered(b)'
    BY <1>1, <1>3, <2>3, <2>5 DEF Unfiltered
  <2>7. Filtered(b)'
    BY <2>3 DEF Filtered
  <2>. QED
    BY <1>1, <2>3, <2>4, <2>6, <2>7, DraftsKept DEF DraftOK
<1>5. CASE tracker[b] = <<>> /\ StepTo(b, "NO_UTXOS") /\ UNCHANGED <<utxos, fetchedFromTracker>>
  <2>1. /\ DraftsTyped'
        /\ step'[b] = "NO_UTXOS" /\ utxos'[b] = <<>> /\ ~fetchedFromTracker'[b]
        /\ \A d \in Drafts \ {b} :
             step'[d] = step[d] /\ utxos'[d] = utxos[d] /\ fetchedFromTracker'[d] = fetchedFromTracker[d]
    BY <1>2, <1>3, <1>5 DEF DraftsTyped, DraftSteps, StepTo
  <2>2. Origin(b)'
    BY <1>1, <1>3, <1>5, <2>1 DEF Origin
  <2>3. Unfiltered(b)'
    BY <1>1, <1>3, <2>1 DEF Unfiltered
  <2>4. Source(b)' = <<>> /\ StayingOuts(Source(b))' = {}
    <3>1. Source(b)' = <<>>
      BY <1>1, <1>3, <2>1 DEF Source
    <3>2. ToSet(Source(b))' = {}
      BY <3>1, NoRows DEF ToSet
    <3>. QED
      BY <3>1, <3>2 DEF StayingOuts
  <2>5. Filtered(b)'
    <3>1. EachOnce(utxos[b])' /\ Outs(utxos[b])' = {} /\ OutpointsOf(utxos[b])' = InOrder({})
      BY <2>1, NoRows
    <3>. QED
      BY <1>1, <1>3, <1>5, <2>1, <2>4, <3>1 DEF Filtered
  <2>. QED
    BY <1>1, <2>1, <2>2, <2>3, <2>5, DraftsKept DEF DraftOK
<1>6. CASE StepTo(b, "UTXO_TRACKER_ERROR") /\ UNCHANGED <<utxos, fetchedFromTracker>>
  <2>1. /\ DraftsTyped'
        /\ step'[b] = "UTXO_TRACKER_ERROR" /\ utxos'[b] = utxos[b] /\ ~fetchedFromTracker'[b]
        /\ \A d \in Drafts \ {b} :
             step'[d] = step[d] /\ utxos'[d] = utxos[d] /\ fetchedFromTracker'[d] = fetchedFromTracker[d]
    BY <1>2, <1>3, <1>6 DEF DraftsTyped, DraftSteps, StepTo
  <2>2. DraftOK(b)'
    BY <1>1, <1>3, <2>1 DEF DraftOK, Origin, Unfiltered, Filtered
  <2>. QED
    BY <1>1, <2>1, <2>2, DraftsKept
<1>. QED
  BY <1>4, <1>5, <1>6 DEF FetchTrackerUtxos

\* Names says of the rows what EachOnce does.
LEMMA NamesEachOnce ==
    ASSUME NEW rows PROVE Names(rows) <=> EachOnce(rows)
BY DEF Names, EachOnce, OutpointKey

LEMMA RefuseShrunkExactInputsKeeps ==
    ASSUME CandidatesInv, NEW b \in Drafts, RefuseShrunkExactInputs(b)
    PROVE  CandidatesInv'
<1>. DEFINE shrinks == \/ ~options.unconfirmed /\ \E row \in ToSet(utxos[b]) : IsUnconfirmedUtxo(row)
                       \/ ~Names(utxos[b])
            next == IF options.exactInputs /\ shrinks THEN "INVALID_PARAMS" ELSE "filter"
<1>1. /\ step[b] = "shrunk" /\ step' = [step EXCEPT ![b] = next]
      /\ UNCHANGED given /\ utxos' = utxos /\ fetchedFromTracker' = fetchedFromTracker
      /\ options' = options /\ caller' = caller /\ tracker' = tracker
  BY DEF RefuseShrunkExactInputs, StepTo, given
<1>2. DraftOK(b)
  BY DEF CandidatesInv
<1>3. /\ next \in {"INVALID_PARAMS", "filter"}
      /\ next = "filter" /\ options.exactInputs =>
           EachOnce(utxos[b]) /\ \A i \in DOMAIN utxos[b] : Stays(utxos[b][i])
  <2>1. next \in {"INVALID_PARAMS", "filter"}
    OBVIOUS
  <2>2. ASSUME next = "filter", options.exactInputs
        PROVE  EachOnce(utxos[b]) /\ \A i \in DOMAIN utxos[b] : Stays(utxos[b][i])
    <3>1. ~shrinks
      BY <2>2
    <3>. QED
      BY <3>1, NamesEachOnce DEF Stays, ToSet
  <2>. QED
    BY <2>1, <2>2
<1>. HIDE DEF next
<1>4. DraftsTyped' /\ step'[b] = next /\ \A d \in Drafts \ {b} : step'[d] = step[d]
  BY <1>1, <1>3 DEF CandidatesInv, DraftsTyped, DraftSteps
<1>5. Origin(b)'
  BY <1>1, <1>2, <1>3, <1>4 DEF DraftOK, Origin
<1>6. Unfiltered(b)'
  <2>1. StayingOuts(utxos[b])' = StayingOuts(Source(b))'
    BY <1>1, <1>2 DEF DraftOK, Unfiltered, Source, StayingOuts, Stays
  <2>2. options.exactInputs => caller[b] # <<>> /\ ~fetchedFromTracker[b] /\ utxos[b] = caller[b]
    BY <1>1, <1>2 DEF DraftOK, Unfiltered
  <2>3. next = "filter" /\ options.exactInputs => (EachOnce(utxos[b]) /\ \A i \in DOMAIN utxos[b] : Stays(utxos[b][i]))'
    BY <1>1, <1>3 DEF EachOnce, Stays
  <2>. QED
    BY <1>1, <1>3, <1>4, <2>1, <2>2, <2>3 DEF Unfiltered
<1>7. Filtered(b)'
  BY <1>3, <1>4 DEF Filtered
<1>. QED
  BY <1>1, <1>4, <1>5, <1>6, <1>7, DraftsKept DEF DraftOK

LEMMA FilterAndOrderUtxosKeeps ==
    ASSUME CandidatesInv, NEW b \in Drafts, FilterAndOrderUtxos(b)
    PROVE  CandidatesInv'
<1>. DEFINE left == Survivors(utxos[b])
            listed == IF options.exactInputs THEN left ELSE Ordered(left)
            next == IF left = <<>> /\ options.reveal = "no" THEN "NO_UTXOS" ELSE "selecting"
            outs == StayingOuts(Source(b))
<1>1. /\ step[b] = "filter" /\ step' = [step EXCEPT ![b] = next]
      /\ utxos' = [utxos EXCEPT ![b] = listed]
      /\ UNCHANGED given /\ fetchedFromTracker' = fetchedFromTracker
      /\ options' = options /\ caller' = caller /\ tracker' = tracker
  BY DEF FilterAndOrderUtxos, StepTo, given
<1>2. DraftOK(b) /\ GivenOK /\ DraftsTyped
  BY DEF CandidatesInv
<1>3. utxos[b] \in Seq(Rows) /\ StayingOuts(utxos[b]) = outs
  BY <1>1, <1>2 DEF DraftsTyped, DraftOK, Unfiltered
<1>4. left \in Seq(Rows) /\ EachOnce(left) /\ Outs(left) = outs
  BY <1>3, SurvivorsAre
<1>5. options.exactInputs => left = utxos[b]
  <2>1. options.exactInputs => EachOnce(utxos[b]) /\ \A i \in DOMAIN utxos[b] : Stays(utxos[b][i])
    BY <1>1, <1>2 DEF DraftOK, Unfiltered
  <2>. QED
    BY <1>3, <2>1, AllSurvive
<1>6. left = <<>> <=> outs = {}
  <2>1. left = <<>> <=> DOMAIN left = {}
    BY <1>4, EmptyList
  <2>. QED
    BY <1>4, <2>1 DEF Outs
<1>7. /\ Ordered(left) \in Seq(Rows) /\ EachOnce(Ordered(left)) /\ Outs(Ordered(left)) = outs
      /\ OutpointsOf(Ordered(left)) = InOrder(outs)
  <2>. HIDE DEF left
  <2>. QED
    BY <1>4, OrderedIsCanonical
<1>8. /\ listed \in Seq(Rows) /\ EachOnce(listed) /\ Outs(listed) = outs
      /\ ~options.exactInputs => OutpointsOf(listed) = InOrder(outs)
      /\ options.exactInputs => listed = utxos[b]
  BY <1>4, <1>5, <1>7
<1>9. /\ next \in {"NO_UTXOS", "selecting"}
      /\ next = "NO_UTXOS" => outs = {} /\ options.reveal = "no"
      /\ next = "selecting" => outs # {} \/ options.reveal # "no"
  BY <1>6
<1>10. outs = {} => listed = <<>>
  <2>1. listed = <<>> <=> DOMAIN listed = {}
    BY <1>8, EmptyList
  <2>. QED
    BY <1>8, <2>1 DEF Outs
<1>. HIDE DEF left, listed, next
<1>11. /\ DraftsTyped' /\ step'[b] = next /\ utxos'[b] = listed
       /\ \A d \in Drafts \ {b} : step'[d] = step[d] /\ utxos'[d] = utxos[d]
  BY <1>1, <1>2, <1>8, <1>9 DEF DraftsTyped, DraftSteps
<1>12. Origin(b)'
  BY <1>1, <1>2, <1>9, <1>11 DEF DraftOK, Origin
<1>13. Unfiltered(b)'
  <2>1. options.exactInputs => caller[b] # <<>> /\ ~fetchedFromTracker[b] /\ utxos[b] = caller[b]
    BY <1>1, <1>2 DEF DraftOK, Unfiltered
  <2>. QED
    BY <1>1, <1>8, <1>9, <1>11, <2>1 DEF Unfiltered
<1>14. Filtered(b)'
  <2>1. StayingOuts(Source(b))' = outs
    BY <1>1 DEF Source, StayingOuts, Stays
  <2>2. EachOnce(utxos[b])' /\ Outs(utxos[b])' = outs
    BY <1>8, <1>11 DEF EachOnce, Outs
  <2>3. ~options.exactInputs => OutpointsOf(utxos[b])' = InOrder(outs)
    BY <1>8, <1>11 DEF OutpointsOf
  <2>. HIDE DEF outs
  <2>. QED
    BY <1>1, <1>9, <1>10, <1>11, <2>1, <2>2, <2>3 DEF Filtered
<1>. QED
  BY <1>1, <1>11, <1>12, <1>13, <1>14, DraftsKept DEF DraftOK

LEMMA CandidatesSteps == CandidatesInv /\ [CandidatesNext]_candidateVars => CandidatesInv'
<1>. SUFFICES ASSUME CandidatesInv, [CandidatesNext]_candidateVars PROVE CandidatesInv'
  OBVIOUS
<1>1. CASE CandidatesNext
  <2>1. PICK b \in Drafts : \/ CheckExactInputs(b) \/ GatherUtxos(b) \/ FetchTrackerUtxos(b)
                            \/ RefuseShrunkExactInputs(b) \/ FilterAndOrderUtxos(b)
    BY <1>1 DEF CandidatesNext
  <2>. QED
    BY <2>1, CheckExactInputsKeeps, GatherUtxosKeeps, FetchTrackerUtxosKeeps,
       RefuseShrunkExactInputsKeeps, FilterAndOrderUtxosKeeps
<1>2. CASE UNCHANGED candidateVars
  <2>1. /\ options' = options /\ caller' = caller /\ tracker' = tracker /\ step' = step
        /\ utxos' = utxos /\ fetchedFromTracker' = fetchedFromTracker
    BY ONLY <1>2, Zenon DEF candidateVars, given
  <2>2. GivenOK' /\ DraftsTyped'
    BY <2>1, Zenon DEF CandidatesInv, GivenOK, DraftsTyped
  <2>3. ASSUME NEW b \in Drafts PROVE DraftOK(b)'
    <3>1. DraftOK(b)
      BY DEF CandidatesInv
    <3>2. Origin(b)'
      BY ONLY <2>1, <3>1, Zenon DEF DraftOK, Origin
    <3>3. Unfiltered(b)'
      BY ONLY <2>1, <3>1, ZenonT(60) DEF DraftOK, Unfiltered, Source, StayingOuts, Stays
    <3>4. Filtered(b)'
      BY ONLY <2>1, <3>1, ZenonT(60) DEF DraftOK, Filtered, Source, StayingOuts, Stays
    <3>. QED
      BY ONLY <3>2, <3>3, <3>4 DEF DraftOK
  <2>. QED
    BY ONLY <2>2, <2>3 DEF CandidatesInv
<1>. QED
  BY <1>1, <1>2

\* The invariant of the candidates holds in every reachable state
\* (input_candidates.js:41-287).
THEOREM CandidatesInvariant == CandidatesSpec => []CandidatesInv
<1>1. CandidatesInit => CandidatesInv
  BY CandidatesInits
<1>2. CandidatesInv /\ [CandidatesNext]_candidateVars => CandidatesInv'
  BY CandidatesSteps
<1>. QED
  BY <1>1, <1>2, PTL DEF CandidatesSpec

\* Drafts given the same rows have the same outpoints to spend.
LEMMA SameOuts ==
    ASSUME CandidatesInv, NEW b \in Drafts, NEW c \in Drafts,
           {step[b], step[c]} \subseteq {"selecting", "NO_UTXOS"}
    PROVE  /\ StayingOuts(Source(b)) = StayingOuts(Source(c))
           /\ caller[b] = <<>> <=> caller[c] = <<>>
           /\ tracker[b] = <<>> <=> tracker[c] = <<>>
<1>1. /\ ToSet(caller[b]) = ToSet(caller[c]) /\ ToSet(tracker[b]) = ToSet(tracker[c])
      /\ caller[b] \in Seq(Rows) /\ tracker[b] \in Seq(Rows)
      /\ caller[c] \in Seq(Rows) /\ tracker[c] \in Seq(Rows)
  BY GivenLists DEF CandidatesInv, GivenOK
<1>2. \A rows \in Seq(Rows) : rows = <<>> <=> ToSet(rows) = {}
  BY EmptyList DEF ToSet
<1>3. /\ caller[b] = <<>> <=> caller[c] = <<>>
      /\ tracker[b] = <<>> <=> tracker[c] = <<>>
  BY <1>1, <1>2
<1>4. Origin(b) /\ Origin(c)
  BY DEF CandidatesInv, DraftOK
<1>5. fetchedFromTracker[b] \in BOOLEAN /\ fetchedFromTracker[c] \in BOOLEAN
  BY DEF CandidatesInv, DraftsTyped
<1>6. fetchedFromTracker[b] = fetchedFromTracker[c]
  BY <1>3, <1>4, <1>5 DEF Origin
<1>7. ToSet(Source(b)) = ToSet(Source(c))
  BY <1>1, <1>6 DEF Source
<1>. QED
  BY <1>3, <1>7 DEF StayingOuts

\* For any rows, values and ranks, drafts that name the same rows select from
\* the same outpoints in the same order (input_candidates.js:289-291).
THEOREM ListingsDoNotMatter == CandidatesSpec => []ListingOrderIrrelevant
<1>1. CandidatesInv => ListingOrderIrrelevant
  <2>. SUFFICES ASSUME CandidatesInv, NEW b \in Drafts, NEW c \in Drafts, ~options.exactInputs,
                       {step[b], step[c]} \subseteq {"selecting", "NO_UTXOS"}
                PROVE  step[b] = step[c] /\ OutpointsOf(utxos[b]) = OutpointsOf(utxos[c])
    BY DEF ListingOrderIrrelevant
  <2>1. /\ StayingOuts(Source(b)) = StayingOuts(Source(c))
        /\ caller[b] = <<>> <=> caller[c] = <<>>
        /\ tracker[b] = <<>> <=> tracker[c] = <<>>
    BY SameOuts
  <2>2. DraftOK(b) /\ DraftOK(c)
    BY DEF CandidatesInv
  <2>3. OutpointsOf(utxos[b]) = OutpointsOf(utxos[c])
    BY <2>1, <2>2 DEF DraftOK, Filtered
  <2>4. ASSUME NEW d \in {b, c}
        PROVE  step[d] = "NO_UTXOS" <=> 
                 \/ StayingOuts(Source(d)) = {} /\ options.reveal = "no"
                 \/ caller[d] = <<>> /\ tracker[d] = <<>> /\ options.reveal # "hex"
    <3>1. step[d] \in {"selecting", "NO_UTXOS"} /\ DraftOK(d)
      BY <2>2
    <3>2. ASSUME step[d] = "NO_UTXOS"
          PROVE  \/ StayingOuts(Source(d)) = {} /\ options.reveal = "no"
                 \/ caller[d] = <<>> /\ tracker[d] = <<>> /\ options.reveal # "hex"
      <4>1. utxos[d] = <<>> /\ Outs(utxos[d]) = StayingOuts(Source(d))
        BY <3>1, <3>2 DEF DraftOK, Filtered
      <4>2. StayingOuts(Source(d)) = {}
        BY <4>1, NoRows
      <4>. QED
        BY <3>1, <3>2, <4>2 DEF DraftOK, Filtered
    <3>3. ASSUME step[d] = "selecting"
          PROVE  /\ StayingOuts(Source(d)) # {} \/ options.reveal # "no"
                 /\ caller[d] # <<>> \/ tracker[d] # <<>> \/ options.reveal = "hex"
      BY <3>1, <3>3 DEF DraftOK, Filtered, Origin
    <3>. QED
      BY <3>1, <3>2, <3>3
  <2>5. step[b] = "NO_UTXOS" <=> step[c] = "NO_UTXOS"
    BY <2>1, <2>4
  <2>. QED
    BY <2>3, <2>5
<1>. QED
  BY <1>1, CandidatesInvariant, PTL

\* Exactly the spendable outpoints of the rows are candidates, each once, and
\* exact inputs are the caller's list or refused (input_candidates.js:80-81, 248-251).
THEOREM SpendablesAreCandidates == CandidatesSpec => []SpendableAreCandidates
<1>1. CandidatesInv => CandidatesTypeOK
  <2>. SUFFICES ASSUME CandidatesInv PROVE CandidatesTypeOK
    OBVIOUS
  <2>1. \A b \in Drafts : utxos[b] \in Seq(Rows)
    BY DEF CandidatesInv, DraftsTyped
  <2>2. \A b \in Drafts : ToSet(utxos[b]) \subseteq Rows
    BY <2>1, ListOfRows DEF ToSet
  <2>. QED
    BY <2>2 DEF CandidatesInv, GivenOK, DraftsTyped, CandidatesTypeOK
<1>2. CandidatesInv => ExactIsExact
  BY DEF CandidatesInv, DraftOK, Unfiltered, ExactIsExact
<1>3. ASSUME CandidatesInv, NEW b \in Drafts, step[b] \in {"selecting", "NO_UTXOS"}
      PROVE  LET outs == OutpointsOf(utxos[b])
             IN  /\ IsInjective(outs)
                 /\ ToSet(outs) = {row.out : row \in {r \in ToSet(Source(b)) :
                                                        options.unconfirmed \/ r.confirmations = 1}}
                 /\ step[b] = "NO_UTXOS" => outs = <<>>
  <2>1. DraftOK(b)
    BY <1>3 DEF CandidatesInv
  <2>2. EachOnce(utxos[b]) /\ Outs(utxos[b]) = StayingOuts(Source(b))
    BY <1>3, <2>1 DEF DraftOK, Filtered
  <2>3. IsInjective(OutpointsOf(utxos[b])) /\ ToSet(OutpointsOf(utxos[b])) = Outs(utxos[b])
    BY <2>2 DEF EachOnce, IsInjective, OutpointsOf, ToSet, Outs
  <2>4. \A r \in ToSet(Source(b)) : Stays(r) <=> options.unconfirmed \/ r.confirmations = 1
    <3>1. Source(b) \in Seq(Rows)
      BY <1>3, GivenLists DEF CandidatesInv, Source
    <3>2. \A r \in ToSet(Source(b)) : r.confirmations \in {Absent, 0, 1}
      <4>1. \A r \in Rows : r.confirmations \in {Absent, 0, 1}
        BY DEF Rows
      <4>. QED
        BY <3>1, <4>1, ListOfRows DEF ToSet
    <3>3. Absent # 1
      BY CandidatesAssumption
    <3>. QED
      BY <3>2, <3>3 DEF Stays, IsUnconfirmedUtxo
  <2>5. StayingOuts(Source(b)) =
          {row.out : row \in {r \in ToSet(Source(b)) : options.unconfirmed \/ r.confirmations = 1}}
    BY <2>4 DEF StayingOuts
  <2>6. step[b] = "NO_UTXOS" => OutpointsOf(utxos[b]) = <<>>
    BY <2>1, NoRows DEF DraftOK, Filtered
  <2>. QED
    BY <2>2, <2>3, <2>5, <2>6
<1>4. CandidatesInv => SpendableAreCandidates
  BY <1>1, <1>2, <1>3 DEF SpendableAreCandidates
<1>. QED
  BY <1>4, CandidatesInvariant, PTL
=============================================================================
