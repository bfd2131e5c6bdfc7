--------------------------- MODULE RevealFunding ---------------------------
(***************************************************************************)
(* The second half of a chunked (P2SH or P2WSH) build.  FeeSettlement      *)
(* funds the legs; later the caller comes back with the commit's id, and   *)
(* buildSteps runs again with p2shHash set: no inputs are selected, so the *)
(* legs are the only money there is.  The two calls meet nowhere but in    *)
(* the legs, each prices the reveal from its own request and market, and   *)
(* between them the commit may have been broadcast, mined or neither.      *)
(*                                                                         *)
(* The reveal carries the payload and the payments of the commit's call: a *)
(* leg funds the hash of its chunk, and another payload is refused         *)
(* (assertLegFundsScript).                                                 *)
(***************************************************************************)
EXTENDS FeeSettlement

\* What the second call may say, in which market, and its size as the generic
\* input estimate has it, which is not the size the legs were priced by.
CONSTANT Calls

ASSUME CallsAssumption ==
    \A c \in Calls :
        /\ c.fee \in Maybe(Nat)
        /\ {c.feePerKb, c.estimate, c.suggested, c.maxRate} \subseteq Maybe(Nat \ {0})
        /\ c.feePerKb # None \/ c.estimate # None
        /\ c.relay \in Nat \ {0}
        /\ {c.multiplier, c.cpfp, c.size} \subseteq Nat

VARIABLES
    call,       \* the second call, None before it
    step,       \* the step of it that runs next, "revealed", or a refusal
    floored,    \* estimatedFee, once floored
    package,    \* what the node says of the commit
    pad, sweep  \* the values of the floor pad and of the surplus sweep, 0 for none

revealVars == <<call, step, floored, package, pad, sweep>>

NoPackage == [size |-> 0, fees |-> 0]

RevealInit ==
    /\ Init
    /\ call = None /\ step = "idle" /\ floored = 0 /\ package = NoPackage /\ pad = 0 /\ sweep = 0

-----------------------------------------------------------------------------

\* The legs are spent by index; a funding transaction of another id, too few
\* outputs or another chunk's hash is refused.
CallReveal ==
    /\ pc = "done" /\ OnLegs(ask) /\ step = "idle"
    /\ call' \in Calls
    /\ step' \in {"check", "NOT_FUNDED"}
    /\ UNCHANGED <<floored, package, pad, sweep>> /\ UNCHANGED vars

\* The call's own fee, by its rate or as supplied; the node path is judged with
\* the dust floor it will charge.
RateFee(c) == IF c.fee = None THEN FeeFor(c.size, Rate(c)) ELSE c.fee

RelayFee(c) == IF c.fee = None /\ c.feePerKb = None THEN Max({RateFee(c), Dust}) ELSE RateFee(c)

\* Both checks, then the floor.  A rate sets no fee here, for no input is
\* selected; an explicit fee does.
CheckReveal ==
    /\ step = "check"
    /\ IF RelayFee(call) < FeeFor(call.size, call.relay) THEN step' = "BELOW_RELAY_MINIMUM" /\ UNCHANGED floored
       ELSE IF call.fee # None /\ \E ceiling \in CeilingsFor(call, call.size) : call.fee > ceiling
            THEN step' = "FEE_TOO_HIGH" /\ UNCHANGED floored
            ELSE /\ step' = IF ask.padded THEN "pad" ELSE "sweep"
                 /\ floored' = ask.surcharge + Max({Dust, IF call.fee = None THEN 0 ELSE call.fee})
    /\ UNCHANGED <<call, package, pad, sweep>> /\ UNCHANGED vars

\* emitChangeAndPad: a reveal under the stripped floor, which sweeps nothing.
PadReveal ==
    /\ step = "pad" /\ step' = "revealed"
    /\ pad' = Dust
    /\ UNCHANGED <<call, floored, package, sweep>> /\ UNCHANGED vars

\* What getUnconfirmedAncestorPackage says of the commit: nothing (it is mined,
\* or not yet broadcast, or the node does not answer), the commit with the
\* ancestors its own call saw, or without them once they are mined.
Commit == [size |-> size, fees |-> MinerFee]

WithAncestors == [size |-> size + ancestors.size, fees |-> MinerFee + ancestors.fees]

\* The size both calls price the reveal by, with the payments' outputs.
RevealSize == ask.revealBytes + ask.paymentBytes

\* What the reveal must keep as fee: the larger of the floored fee and the whole
\* reveal's at this call's rate, and the surcharge once.
BaseKept == ask.surcharge + Max({floored - ask.surcharge, FeeFor(RevealSize, Rate(call))})

\* Fault variant: the sweep's own floor is not set aside.
KeptUnreserved(p) ==
    BaseKept + Max({0, Min({PackageUplift(call, BaseKept, RevealSize, p), call.cpfp,
                            commit - ask.outputs - BaseKept})})

\* Fault variant: the prefund goes home with the surplus.
KeptForItself(p) == BaseKept

\* upliftRevealForCommit, clampRevealUplift: the package's shortfall, out of what
\* the outputs and a sweep at the floor leave of the legs.
Kept(p) ==
    LET reserve == IF ask.outputs = 0 THEN OutputFloor ELSE 0
        wanted == IF call.cpfp = 0 THEN 0 ELSE PackageUplift(call, BaseKept, RevealSize, p)
    IN  BaseKept + Max({0, Min({wanted, call.cpfp, commit - ask.outputs - BaseKept - reserve})})

\* sweepP2shReveal: a surplus under the floor stays with the miner.
SweepReveal ==
    /\ step = "sweep" /\ step' = "revealed"
    /\ \E p \in {NoPackage, Commit, WithAncestors} :
        LET surplus == commit - ask.outputs - Kept(p)
        IN  /\ package' = p
            /\ sweep' = IF surplus >= OutputFloor THEN surplus ELSE 0
    /\ UNCHANGED <<call, floored, pad>> /\ UNCHANGED vars

RevealNext ==
    \/ Next /\ UNCHANGED revealVars
    \/ CallReveal \/ CheckReveal \/ PadReveal \/ SweepReveal

RevealSpec == RevealInit /\ [][RevealNext]_<<vars, revealVars>>

-----------------------------------------------------------------------------

Revealed == step = "revealed"

\* The call asks for no more than the legs were funded for: its rate is no
\* higher, and an explicit fee is within what the commit priced.
AsksNoMore ==
    /\ Rate(call) <= Rate(ask)
    /\ call.fee # None /\ ~ask.padded => call.fee <= RevealFee(ask)

\* What the signed reveal pays to the miner, by its inputs and outputs.
RevealMinerFee == commit - ask.outputs - pad - sweep

\* A reveal that pays nobody still leaves a value output, whatever the package
\* asks of it: without one the signer refuses it as a full burn and the
\* confirmed commit is stranded (script_hash_legs.js:137-157).
RevealLeavesValue == Revealed /\ AsksNoMore => ask.outputs + pad + sweep > 0

\* The legs, priced by an earlier call, pay for the whole reveal with its
\* payments' bytes and its pad ("a hair under the relay floor",
\* data_outputs.js:63-83); and no more than its share, the uplift allowed and a
\* remainder under the floor goes to the miner.
RevealPaysItsRate ==
    Revealed /\ AsksNoMore =>
        LET own == Max({Dust, FeeFor(IF ask.padded THEN ask.legs[1] ELSE RevealSize, Rate(call))}) + ask.surcharge
        IN  /\ RevealMinerFee >= own
            /\ ~ask.padded => RevealMinerFee < Max({own, floored}) + call.cpfp + OutputFloor

\* The prefund is kept for what it was set aside: at the commit's rate, the whole
\* package still unmined, commit and reveal reach the rate together unless the
\* commit had no change left or one of the two calls used up its bound.  The second
\* call may need more of it than the first set aside: the commit prices the
\* payments' bytes on their own, and the dust floor of a short reveal once.
RevealPackageAtTarget ==
    Revealed /\ package = WithAncestors /\ Rate(call) = Rate(ask) /\ AsksNoMore =>
        \/ package.fees + RevealMinerFee >= FeeFor(package.size + RevealSize, Rate(ask))
        \/ change = 0
        \/ reveal.revealFee = RevealFee(ask) + ask.cpfp
        \/ RevealMinerFee >= BaseKept + call.cpfp

\* No pair is left for the miners to ignore, by the call that plans the package or
\* by the one that completes it.
PackagesAtTarget == PackageAtTarget /\ RevealPackageAtTarget

\* The two calls' sums meet: what the legs were given is enough for the reveal, and
\* no more than it needs goes to the miner.
LegsPayTheReveal == RevealLeavesValue /\ RevealPaysItsRate
=============================================================================
