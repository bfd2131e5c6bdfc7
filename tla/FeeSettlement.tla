--------------------------- MODULE FeeSettlement ---------------------------
(***************************************************************************)
(* How a single-transaction or funding build settles its fee: the steps of *)
(* buildSteps (XChainEncoder.js) from the emitted outputs to the change,   *)
(* in their order.  Each step takes back some of what an earlier one       *)
(* settled, which is why the order matters.                                *)
(*                                                                         *)
(* Amounts are base units, sizes are virtual bytes, and a rate is base     *)
(* units for Kilo bytes.  The code's rates are coin-per-byte floats with   *)
(* an epsilon shaved off before rounding up; here they are exact.  Sizes   *)
(* are not computed from scripts but come with the request.                *)
(***************************************************************************)
EXTENDS Integers, FiniteSetsExt, Sequences

CONSTANTS
    Dust,               \* dustAmount, the chain's pinned threshold
    OutputFloor,        \* outputFloor, the least output the encoder authors
    BurnBackstop,       \* BURN_BACKSTOP_MULTIPLIER
    SuggestedRelayMultiplier,
    Kilo,               \* the bytes a rate is quoted for
    ChangeBytes, InputBytes,
    MaxInputs,          \* MAX_UTXO_COUNT
    StrippedInput,      \* stripped bytes of a signed input
    Asks,               \* what a build may be asked to do, and in which market
    Packages,           \* what the node may say of unconfirmed ancestors
    None

Maybe(S) == S \cup {None}

\* A request with the node's answers and the operator's settings: the explicit
\* fee and rate, the node's estimate, the test-chain ceiling on it, the relay
\* floor, MAX_FEE_RATE_KB, MAX_FEE_RATE_MULTIPLIER and MAX_CPFP_UPLIFT_SAT (0 for
\* off); the candidates in order; the payments with their bytes and soft-dust
\* surcharge; the size of the reveal that is prefunded (0 for none), which spends
\* an envelope or one leg per chunk, each with its own share's size; the node's
\* floor on the stripped size (0 for none).  With legs the payments are the
\* reveal's.  One short leg and no payment leave the reveal under the stripped
\* floor: it is padded and not prefunded.  The chain with a soft dust limit has no
\* segwit, so no reveal, and its node has no stripped floor.
ASSUME AsksAssumption ==
    \A a \in Asks :
        /\ a.fee \in Maybe(Nat)
        /\ {a.feePerKb, a.estimate, a.suggested, a.maxRate} \subseteq Maybe(Nat \ {0})
        /\ a.feePerKb # None \/ a.estimate # None
        /\ a.relay \in Nat \ {0}
        /\ {a.multiplier, a.cpfp, a.outputs, a.bytes, a.stripped, a.surcharge, a.revealBytes, a.paymentBytes, a.strippedFloor} \subseteq Nat
        /\ a.legs \in Seq(Nat)
        /\ a.surcharge > 0 => a.strippedFloor = 0 /\ (a.revealBytes > 0 => a.legs # <<>>)
        /\ a.outputs > 0 <=> a.paymentBytes > 0
        /\ a.outputs = 0 => a.surcharge = 0
        /\ a.padded => Len(a.legs) = 1 /\ a.outputs = 0
        /\ a.legs # <<>> => (a.padded <=> a.revealBytes = 0)
        /\ {a.exact, a.change, a.padded} \subseteq BOOLEAN
        /\ a.utxos \in Seq([value : Nat, unconfirmed : BOOLEAN]) \ {<<>>}

ASSUME FeeAssumption ==
    /\ {Dust, BurnBackstop, SuggestedRelayMultiplier, Kilo, MaxInputs, InputBytes} \subseteq Nat \ {0}
    /\ {ChangeBytes, StrippedInput} \subseteq Nat
    /\ OutputFloor \in Nat /\ OutputFloor >= Dust
    /\ \A p \in Packages : p.size \in Nat /\ p.fees \in Nat

VARIABLES
    ask,
    pc,         \* the step that runs next, "done", or a refusal
    count,      \* selectedInputCount
    inputs,     \* inputSatoshis
    size,       \* estimatedTxSize
    fee,        \* estimatedFee
    outputs,    \* outputSatoshis, the account of what the outputs pay
    commit,     \* the value of the outputs that fund the reveal, 0 for none
    reveal,     \* revealPrefund's revealFee, and the reveal's commitValue
    ancestors,  \* commitAncestorSize and commitAncestorFeeSat
    change      \* the change output's value, 0 for none

vars == <<ask, pc, count, inputs, size, fee, outputs, commit, reveal, ancestors, change>>

Steps == {"emit", "select", "relay", "ceiling", "uplift", "floor", "prefund", "change", "changeOut", "stripped"}

Refusals == {"TOO_MANY_INPUTS", "NO_CONFIRMED_UTXO", "BELOW_RELAY_MINIMUM", "FEE_TOO_HIGH",
             "INSUFFICIENT_FUNDS", "CHANGE_ADDRESS_REQUIRED", "TX_BELOW_MIN_STANDARD_SIZE"}

-----------------------------------------------------------------------------
(* Rates and fees.                                                         *)

\* feeForVsize, rounded up like the node's relay floor.
FeeFor(bytes, rate) == (bytes * rate + Kilo - 1) \div Kilo

\* What the drain caps are relative to: the node's rate, never the caller's.
Anchor(a) == IF a.estimate = None THEN a.relay ELSE a.estimate

\* The operator's caps on a rate, none, one or both.
OperatorCaps(a) ==
    {r \in {a.maxRate} : r # None} \cup {m * Anchor(a) : m \in {a.multiplier} \ {0}}

\* useNodeFeeRate: the estimate, bounded on a test chain, never under the relay floor.
NodeRate(a) ==
    LET bounded == IF a.suggested = None THEN a.estimate
                   ELSE Min({a.estimate, Max({a.suggested, a.relay * SuggestedRelayMultiplier})})
    IN  Max({bounded, a.relay})

\* resolveFeeRates: the rate this build charges.
Rate(a) ==
    Min({IF a.feePerKb = None THEN NodeRate(a) ELSE a.feePerKb}
          \cup OperatorCaps(a) \cup {BurnBackstop * Anchor(a)})

\* The ceilings on an absolute fee for the transaction as sized: the rate cap
\* and the burn backstop.
CeilingsFor(a, bytes) ==
    {Max({Dust, FeeFor(bytes, cap)}) : cap \in OperatorCaps(a)}
        \cup {Max({Dust, BurnBackstop * FeeFor(bytes, Anchor(a))})}

FeeCeilings == CeilingsFor(ask, size)

\* packageFeeUpliftSatoshis: what lifts a transaction to its package's rate.
PackageUplift(a, current, bytes, package) ==
    IF package.size = 0 THEN 0
    ELSE Max({0, FeeFor(package.size + bytes, Rate(a)) - package.fees - current})

-----------------------------------------------------------------------------
(* What the commit sets aside for the reveal.                              *)

OnLegs(a) == a.legs # <<>>

\* A leg pays its share of the reveal, and is never under the floor (finalDust).
LegShare(a, i) == Max({FeeFor(a.legs[i], Rate(a)), OutputFloor})

\* sumRevealLegs' baseLegsTotal, leg by leg.
BaseLegs(a) ==
    LET upTo[n \in 0 .. Len(a.legs)] == IF n = 0 THEN 0 ELSE upTo[n - 1] + LegShare(a, n)
    IN  upTo[Len(a.legs)]

\* The whole reveal's fee, as the reveal itself will price it.
RevealFee(a) ==
    IF a.revealBytes = 0 THEN 0
    ELSE Max({FeeFor(a.revealBytes, Rate(a)), IF OnLegs(a) THEN Dust ELSE OutputFloor})

\* What the legs' shares leave short of it, and the floor of a change output where
\* the reveal pays nobody.
RevealHeadroom(a) ==
    Max({0, RevealFee(a) - BaseLegs(a)}) + (IF a.outputs = 0 THEN OutputFloor ELSE 0)

\* Fault variant: the payments are prefunded and their bytes are not.
PaymentsUnpriced(a) == a.outputs + a.surcharge

\* priceRevealCustomOutputs: the payments the reveal makes, the fee for their
\* bytes and their surcharge.
RevealPayments(a) == a.outputs + FeeFor(a.paymentBytes, Rate(a)) + a.surcharge

\* The legs together; the first carries all but the shares.
LegsValue(a) ==
    BaseLegs(a) + RevealPayments(a) + (IF a.padded THEN Dust ELSE RevealHeadroom(a))

CommitValue(a) ==
    IF OnLegs(a) THEN LegsValue(a) ELSE IF a.revealBytes = 0 THEN 0 ELSE RevealFee(a) + Dust

\* emitCustomOutputs: this transaction's own payments and their surcharge.
Paid(a) == IF OnLegs(a) THEN 0 ELSE a.outputs

Surcharge(a) == IF OnLegs(a) THEN 0 ELSE a.surcharge

Spare == inputs - outputs - fee

\* The fee that pays for size; the soft-dust surcharge rides on top of it.
SizeFee == fee - Surcharge(ask)

Goto(step) == pc' = step

-----------------------------------------------------------------------------
(* The steps.                                                              *)

Init ==
    /\ ask \in Asks
    /\ pc = "emit"
    /\ count = 0 /\ inputs = 0 /\ size = 0 /\ fee = 0 /\ outputs = 0 /\ commit = 0
    /\ reveal = [commitValue |-> 0, revealFee |-> 0]
    /\ ancestors = [size |-> 0, fees |-> 0]
    /\ change = 0

\* The payments and the reveal's commit output; then initSelection.
EmitOutputs ==
    /\ pc = "emit" /\ Goto("select")
    /\ commit' = CommitValue(ask)
    /\ reveal' = [commitValue |-> IF OnLegs(ask) THEN 0 ELSE CommitValue(ask), revealFee |-> RevealFee(ask)]
    /\ outputs' = Paid(ask) + CommitValue(ask)
    /\ size' = ask.bytes + ChangeBytes
    /\ fee' = IF ask.fee = None THEN 0 ELSE ask.fee + Surcharge(ask)
    /\ UNCHANGED <<ask, count, inputs, ancestors, change>>

\* selectionTargetFee.
TargetFee == Max({fee, Dust})

StrippedSize(withChange) ==
    ask.stripped + count * StrippedInput + (IF withChange THEN ChangeBytes ELSE 0)

ClearsStrippedFloor ==
    \/ ask.strippedFloor = 0
    \/ ~ask.change
    \/ StrippedSize(inputs - outputs - TargetFee >= OutputFloor) >= ask.strippedFloor

\* Fault variant: the unfloored fee is enough.
EnoughUnfloored == count > 0 /\ ~ask.exact /\ inputs > outputs + fee /\ ClearsStrippedFloor

Enough == count > 0 /\ ~ask.exact /\ inputs > outputs + TargetFee /\ ClearsStrippedFloor

More == count < Len(ask.utxos) /\ ~Enough

\* Fault variant: no bound on the inputs.
SelectInputUncapped ==
    /\ pc = "select" /\ More
    /\ count' = count + 1
    /\ inputs' = inputs + ask.utxos[count + 1].value
    /\ UNCHANGED <<ask, pc, size, fee, outputs, commit, reveal, ancestors, change>>

\* One more candidate; a rate-priced fee follows the size.
SelectInput ==
    /\ pc = "select" /\ More /\ count < MaxInputs
    /\ count' = count + 1
    /\ inputs' = inputs + ask.utxos[count + 1].value
    /\ size' = size + InputBytes
    /\ fee' = IF ask.fee = None THEN FeeFor(size', Rate(ask)) + Surcharge(ask) ELSE fee
    /\ UNCHANGED <<ask, pc, outputs, commit, reveal, ancestors, change>>

\* What the candidates that were not taken hold.
Untried == MapThenSumSet(LAMBDA i : ask.utxos[i].value, count + 1 .. Len(ask.utxos))

\* refuseCappedSelection: whether more inputs would have funded it, or nothing can.
RefuseCappedSelection ==
    /\ pc = "select" /\ More /\ count >= MaxInputs
    /\ Goto(IF inputs + Untried > outputs + TargetFee THEN "TOO_MANY_INPUTS" ELSE "NO_CONFIRMED_UTXO")
    /\ UNCHANGED <<ask, count, inputs, size, fee, outputs, commit, reveal, ancestors, change>>

EndSelection ==
    /\ pc = "select" /\ ~More /\ Goto("relay")
    /\ UNCHANGED <<ask, count, inputs, size, fee, outputs, commit, reveal, ancestors, change>>

\* The fee judged against the relay minimum: as supplied, or as the node path
\* will charge it.
SuppliedFee == IF ask.fee = None /\ ask.feePerKb = None THEN Max({SizeFee, Dust}) ELSE SizeFee

RefuseInsufficientRelayFee ==
    /\ pc = "relay"
    /\ Goto(IF SuppliedFee >= FeeFor(size, ask.relay) THEN "ceiling" ELSE "BELOW_RELAY_MINIMUM")
    /\ UNCHANGED <<ask, count, inputs, size, fee, outputs, commit, reveal, ancestors, change>>

\* refuseExcessiveFee judges an explicit fee only; a rate was clamped before.
RefuseExcessiveFee ==
    /\ pc = "ceiling"
    /\ Goto(IF ask.fee # None /\ \E ceiling \in FeeCeilings : SizeFee > ceiling
            THEN "FEE_TOO_HIGH" ELSE "uplift")
    /\ UNCHANGED <<ask, count, inputs, size, fee, outputs, commit, reveal, ancestors, change>>

\* Fault variant: the ceilings were checked above and are not applied again.
UpliftUncapped(p) ==
    Max({0, Min({PackageUplift(ask, fee, size, p), ask.cpfp, Spare})})

\* Fault variant: the inputs do not bound it.
UpliftUnfunded(p) ==
    Max({0, Min({PackageUplift(ask, fee, size, p), ask.cpfp} \cup {c - fee : c \in FeeCeilings})})

\* upliftAncestorFee: what the package wants, within every bound.
AncestorUplift(p) ==
    Max({0, Min({PackageUplift(ask, fee, size, p), ask.cpfp, Spare}
                  \cup {ceiling - fee : ceiling \in FeeCeilings})})

SpendsUnconfirmed == \E i \in 1 .. count : ask.utxos[i].unconfirmed

\* The ancestor package, empty when the node has none or does not answer.
UpliftForAncestors ==
    /\ pc = "uplift" /\ Goto("floor")
    /\ IF SpendsUnconfirmed /\ ask.cpfp > 0
       THEN \E p \in Packages : ancestors' = p /\ fee' = fee + AncestorUplift(p)
       ELSE UNCHANGED <<ancestors, fee>>
    /\ UNCHANGED <<ask, count, inputs, size, outputs, commit, reveal, change>>

FloorEstimatedFee ==
    /\ pc = "floor" /\ Goto("prefund")
    /\ fee' = Max({fee, Dust + Surcharge(ask)})
    /\ UNCHANGED <<ask, count, inputs, size, outputs, commit, reveal, ancestors, change>>

\* Fault variant: the reveal is priced against the commit alone.
PrefundForCommitOnly ==
    IF ask.revealBytes = 0 \/ ask.cpfp = 0 THEN 0
    ELSE Max({0, Min({PackageUplift(ask, reveal.revealFee, ask.revealBytes, [size |-> size, fees |-> fee]), ask.cpfp, Spare})})

\* What the reveal carries of its commit's and its ancestors' shortfall.
Prefund ==
    IF ask.revealBytes = 0 \/ ask.cpfp = 0 THEN 0
    ELSE Max({0, Min({PackageUplift(ask, reveal.revealFee, ask.revealBytes,
                                    [size |-> size + ancestors.size, fees |-> fee + ancestors.fees]),
                      ask.cpfp, Spare})})

\* Fault variant: the output is raised and the reveal's own numbers are not.
RaiseOutputOnly ==
    /\ pc = "prefund" /\ Goto("change")
    /\ commit' = commit + Prefund
    /\ outputs' = outputs + Prefund
    /\ UNCHANGED <<ask, count, inputs, size, fee, reveal, ancestors, change>>

\* prefundRevealPackage, applyRevealPrefund: the money moves from the change to
\* the commit output, in the psbt, in the account and in what the reveal is built
\* from alike.
PrefundRevealPackage ==
    /\ pc = "prefund" /\ Goto("change")
    /\ commit' = commit + Prefund
    /\ outputs' = outputs + Prefund
    /\ reveal' = [commitValue |-> IF OnLegs(ask) THEN 0 ELSE reveal.commitValue + Prefund,
                  revealFee |-> reveal.revealFee + Prefund]
    /\ UNCHANGED <<ask, count, inputs, size, fee, ancestors, change>>

ComputeChange ==
    /\ pc = "change"
    /\ Goto(IF Spare < 0 THEN "INSUFFICIENT_FUNDS"
            ELSE IF Spare > Dust /\ ~ask.change THEN "CHANGE_ADDRESS_REQUIRED"
            ELSE "changeOut")
    /\ UNCHANGED <<ask, count, inputs, size, fee, outputs, commit, reveal, ancestors, change>>

\* emitChangeAndPad: change under the floor folds into the fee.
EmitChange ==
    /\ pc = "changeOut" /\ Goto("stripped")
    /\ change' = IF ask.change /\ Spare >= OutputFloor THEN Spare ELSE 0
    /\ UNCHANGED <<ask, count, inputs, size, fee, outputs, commit, reveal, ancestors>>

RefuseUnderStrippedFloor ==
    /\ pc = "stripped"
    /\ Goto(IF StrippedSize(change > 0) >= ask.strippedFloor THEN "done" ELSE "TX_BELOW_MIN_STANDARD_SIZE")
    /\ UNCHANGED <<ask, count, inputs, size, fee, outputs, commit, reveal, ancestors, change>>

Next ==
    \/ EmitOutputs \/ SelectInput \/ RefuseCappedSelection \/ EndSelection
    \/ RefuseInsufficientRelayFee \/ RefuseExcessiveFee \/ UpliftForAncestors \/ FloorEstimatedFee
    \/ PrefundRevealPackage \/ ComputeChange \/ EmitChange \/ RefuseUnderStrippedFloor

Spec == Init /\ [][Next]_vars

-----------------------------------------------------------------------------

\* The types; no account is ever negative, and a selection is bounded.
TypeOK ==
    /\ pc \in Steps \cup Refusals \cup {"done"}
    /\ count \in 0 .. MaxInputs
    /\ {inputs, size, fee, outputs, commit, change} \subseteq Nat
    /\ reveal \in [commitValue : Nat, revealFee : Nat]
    /\ ancestors.size \in Nat /\ ancestors.fees \in Nat

Built == pc = "done"

\* What the signed transaction pays to the miner, by its inputs and outputs.
MinerFee == inputs - (Paid(ask) + commit + change)

\* The caller signs away what the build says and no more: the miner gets the
\* settled fee and at most a change too small to author (emitChangeAndPad,
\* computeChange), and an envelope's reveal returns exactly the dust its comment
\* promises (reveal_outputs.js:284-287) after every move between the accounts,
\* none of which is ever negative (TypeOK).
NothingBurned ==
    /\ TypeOK
    /\ Built =>
         /\ MinerFee \in fee .. (fee + (IF ask.change THEN OutputFloor - 1 ELSE Dust))
         /\ ask.revealBytes > 0 => commit - CommitValue(ask) = reveal.revealFee - RevealFee(ask)
         /\ commit > 0 /\ ~OnLegs(ask) => commit = reveal.commitValue /\ commit - reveal.revealFee = Dust

\* No later step undoes an earlier check: after the uplift, the floor and the
\* prefund the fee still clears the node's relay minimum, which reads it without
\* the surcharge, and no ceiling is exceeded ("every ceiling those checks
\* enforce is re-applied here", fee_settlement.js:118-120).
FeeWithinBounds ==
    Built =>
        /\ SizeFee >= FeeFor(size, ask.relay)
        /\ \A ceiling \in FeeCeilings : SizeFee <= ceiling

\* The fee before any package was considered, and with its floor.
AskedFee == (IF ask.fee = None THEN FeeFor(size, Rate(ask)) ELSE ask.fee) + Surcharge(ask)

OwnFee == Max({AskedFee, Dust + Surcharge(ask)})

\* Paying for somebody else's bytes never turns a fundable build into
\* INSUFFICIENT_FUNDS (fee_settlement.js:182-184, 271-274), though the floor and
\* the prefund run after the uplift was bounded.
UpliftNeverUnfunds ==
    pc = "INSUFFICIENT_FUNDS" => inputs < Paid(ask) + CommitValue(ask) + OwnFee

\* What an envelope's reveal will pay, by its input and its change; what a legs'
\* reveal is given to pay (its own call is RevealFunding's).
RevealPays == IF OnLegs(ask) THEN reveal.revealFee ELSE commit - (reveal.commitValue - reveal.revealFee)

\* A package the node will not mine is only built when nothing could be done:
\* ancestors, commit and reveal together reach the target rate unless the
\* money is gone, the uplift bound is used up or a ceiling binds.
PackageAtTarget ==
    Built /\ ancestors.size + ask.revealBytes > 0 =>
        \/ fee + ancestors.fees + RevealPays >= FeeFor(size + ancestors.size + ask.revealBytes, Rate(ask))
        \/ MinerFee = fee /\ change = 0
        \/ commit = CommitValue(ask) + ask.cpfp
        \/ ask.revealBytes = 0 /\ (fee >= AskedFee + ask.cpfp \/ \E ceiling \in FeeCeilings : fee >= ceiling)

\* "Stopping at the unfloored fee left a fundable spend one input short": a
\* greedy selection that stops early covers the fee the build will finally
\* charge (input_selection.js:73-75).
StopIsFunded ==
    pc = "INSUFFICIENT_FUNDS" /\ ~ask.exact => count = Len(ask.utxos)

\* The same where no soft-dust surcharge applies.
PlainStopIsFunded == Surcharge(ask) = 0 => StopIsFunded

\* INSUFFICIENT_FUNDS is the truth: no uplift, floor or prefund, and no selection
\* that stopped early, refuses a build its caller's outputs could have paid for.
RefusedOnlyUnfunded == UpliftNeverUnfunds /\ PlainStopIsFunded
=============================================================================
