--------------------------- MODULE RequestChecks ---------------------------
(***************************************************************************)
(* validateAll: what create_tx accepts over JSON-RPC, and what it makes of *)
(* the fields it accepts (src/common/validator).  Every refusal is the     *)
(* caller's -32602, so a check is a predicate and a conversion yields the  *)
(* set of its one result, or the empty set where it throws.                *)
(*                                                                         *)
(* A JSON value is [as, n]: its form, and what the caller meant by it,     *)
(* counted in halves so that a fraction can be written.  JSON.parse rounds *)
(* a number it cannot hold before any check sees it.                       *)
(***************************************************************************)
EXTENDS Integers, Sequences, PayloadSizes

CONSTANTS
    SafeMax,        \* Number.MAX_SAFE_INTEGER
    WireMax,        \* MAX_SATOSHI_U64
    FeeMax,         \* MAX_FEE_SATOSHIS
    IndexMax,       \* the uint32 width of a vout
    MaxUtxos, MaxOutputs,
    PaymentFloor,   \* the coin's relay dust threshold
    None

ASSUME WidthsAssumption ==
    /\ {SafeMax, WireMax, FeeMax, IndexMax, PaymentFloor, MaxUtxos, MaxOutputs} \subseteq Nat
    /\ FeeMax < SafeMax /\ IndexMax < SafeMax /\ SafeMax < WireMax
    /\ SafeMax % 2 = 1

JsonForms == {"null", "true", "false", "number", "digits", "decimal", "junk"}

\* Digits write a whole number.
JsonValues == {v \in [as : JsonForms, n : Int] : v.as = "digits" => v.n % 2 = 0}

Absent(v) == v.as = "null"
Unset(v) == Absent(v) \/ v.as = "false"

Whole(v) == v.n % 2 = 0

\* The double nearest to a whole amount: every second one above the safe range.
Double(n) == IF n > SafeMax THEN 2 * ((n + 1) \div 2) ELSE n

-----------------------------------------------------------------------------
(* Amounts *)

\* toExactInt: a number that is an integer, or a string of digits.
ToExactInt(v) ==
    IF (v.as = "number" /\ Whole(v)) \/ v.as = "digits" THEN {Double(v.n \div 2)} ELSE {}

\* Fault variant: a rounded number passes wherever large amounts are allowed.
ParseSatoshiAmountLoose(v) == {n \in ToExactInt(v) : n \in 0 .. WireMax}

\* parseSatoshiAmount with allowBig: exact below the safe bound, above it only
\* from digits, which a BigInt holds exactly.
ParseSatoshiAmount(v) ==
    {n \in ToExactInt(v) : n \in 0 .. SafeMax}
      \cup (IF v.as = "digits" /\ v.n \div 2 \in (SafeMax + 1) .. WireMax THEN {v.n \div 2} ELSE {})

\* validateFee and validateDust: null and false ask for the default.
ValidateFee(v) == IF Unset(v) THEN {None} ELSE ToExactInt(v) \cap 0 .. FeeMax

\* validateFeePerKb, in halves: the one amount that may be a fraction.
ValidateFeePerKb(v) ==
    IF Unset(v) THEN {None}
    ELSE IF v.as \in {"number", "digits", "decimal"} THEN {v.n} \cap 1 .. 2 * FeeMax ELSE {}

ValidateQuoteAmount(v) == ToExactInt(v) \cap 1 .. FeeMax

-----------------------------------------------------------------------------
(* Flags, keys, addresses, outpoints *)

\* Fault variant: Boolean(raw).
ValidateOptionalBooleanTruthy(v) ==
    IF Absent(v) THEN {None} ELSE {v.as # "false" /\ ~(v.as = "number" /\ v.n = 0)}

ValidateOptionalBoolean(v) ==
    CASE Absent(v) -> {None} [] v.as = "true" -> {TRUE} [] v.as = "false" -> {FALSE} [] OTHER -> {}

\* The shape of an address, which says nothing of its network.
AddressShaped(a) == a \notin {"not-a-string", "empty", "over-100"}

\* validatePubkey: an address, or a compressed key that is on the curve.
PubkeyAccepted(k) == k # None /\ AddressShaped(k) /\ k \notin {"uncompressed-key", "off-the-curve"}

CompressedPubKeyAccepted(k) == k \in {None, "compressed-key"}

\* validateP2shParams: both halves or neither.
P2shAccepted(p) ==
    \/ p.hash = None /\ p.hex = None
    \/ p.hash = "64-hex" /\ p.hex = "hex"

ValidateOutpoint(u) == IF u.txid = "bad" THEN {} ELSE ToExactInt(u.vout) \cap 0 .. IndexMax

\* A utxo's confirmations: absent counts as none, which the mempool filter reads.
ValidateConfirmations(v) == IF Absent(v) THEN {0} ELSE {n \in ToExactInt(v) : n >= 0}

UtxoAccepted(u) ==
    /\ ValidateOutpoint(u) # {}
    /\ ParseSatoshiAmount(u.value) # {}
    /\ u.script = "even-hex"
    /\ ValidateConfirmations(u.confirmations) # {}

\* validateCustomOutput: positive, and over the relay dust of the coin.
OutputAccepted(o) ==
    /\ AddressShaped(o.address)
    /\ \E n \in ParseSatoshiAmount(o.value) : n > 0 /\ n >= PaymentFloor

QuoteAccepted(q) == AddressShaped(q.address) /\ ValidateQuoteAmount(q.amount) # {}

-----------------------------------------------------------------------------
(* The payload's own checks *)

LegacyCeiling == 8192           \* MAX_COMPILED_ACTION_DATA_LENGTH
EnvelopeCeiling == 390000       \* ENVELOPE_MAX_PAYLOAD

Encodings == {"OP_RETURN", "P2SH", "P2WSH", "MULTISIGN", "TAPROOT", "AUTO"}

\* What is left of an action or payload that is null.
LengthOf(p) == IF p = None THEN 0 ELSE p.length

\* validateDataParam: what the wire's own conversion would change is refused.
RoundTrips(p) == p = None \/ p.roundTrips

\* validateActionPushDecodability: a lone minimal-opcode byte.
PushDecodable(p) == p = None \/ ~(p.length = 1 /\ p.minimal)

\* unknownActionName: the leading token a decoder would not know.
UnknownName(action) == LengthOf(action) > 0 /\ action.class = "unknown"

\* What validateCombinedDataLength measures: the caller's bytes, uncompressed.
MeasuredSize(action, raw) ==
    EnvelopePushSize(LengthOf(action)) + (IF raw = None THEN 0 ELSE EnvelopePushSize(raw.length))

CombinedLengthAccepted(action, raw, encoding) ==
    LET measured == MeasuredSize(action, raw)
    IN  /\ measured <= (IF encoding \in {"TAPROOT", "AUTO"} THEN EnvelopeCeiling ELSE LegacyCeiling)
        /\ encoding = "OP_RETURN" => measured <= OpReturnCompiled

ActionFieldsAccepted(r) ==
    /\ RoundTrips(r.action) /\ RoundTrips(r.raw)
    /\ r.encoding \in Encodings \cup {None}
    /\ r.action # None \/ r.raw # None =>
         /\ CombinedLengthAccepted(r.action, r.raw, r.encoding)
         /\ PushDecodable(r.action) /\ PushDecodable(r.raw)
         /\ ~UnknownName(r.action)

PaymentFieldsAccepted(r) ==
    /\ ValidateFee(r.fee) # {} /\ ValidateFeePerKb(r.feePerKb) # {} /\ ValidateFee(r.dust) # {}
    /\ Len(r.utxos) <= MaxUtxos /\ \A i \in DOMAIN r.utxos : UtxoAccepted(r.utxos[i])
    /\ Len(r.payments) <= MaxOutputs /\ \A i \in DOMAIN r.payments : OutputAccepted(r.payments[i])
    /\ r.quote # None => QuoteAccepted(r.quote)
    /\ P2shAccepted(r.p2sh)
    /\ CompressedPubKeyAccepted(r.key)
    /\ r.change # None => AddressShaped(r.change)

EncodingRequirements(r) ==
    /\ r.encoding \in {"MULTISIGN", "TAPROOT"} => r.key # None
    /\ r.encoding = "TAPROOT" => r.p2sh.hash = None
    /\ PubkeyAccepted(r.pubkey)

\* The policy flags; the last two ride in the options bag.
Flags == {"rbf", "unconfirmed", "attachPrevTx", "compress", "signerSupportsTapscript", "exactInputs"}

PolicyFieldsAccepted(r) == \A flag \in Flags : ValidateOptionalBoolean(r.flags[flag]) # {}

\* validateAll: named params of known names only, then every field.
ValidateAll(r) ==
    /\ r.params = "known-keys"
    /\ ActionFieldsAccepted(r) /\ PaymentFieldsAccepted(r) /\ EncodingRequirements(r) /\ PolicyFieldsAccepted(r)

TheOne(S) == CHOOSE x \in S : TRUE

\* What the build is handed: every accepted field in its checked form.
Checked(r) ==
    [fee       |-> TheOne(ValidateFee(r.fee)),
     feePerKb  |-> TheOne(ValidateFeePerKb(r.feePerKb)),
     dust      |-> TheOne(ValidateFee(r.dust)),
     payments  |-> [i \in DOMAIN r.payments |-> TheOne(ParseSatoshiAmount(r.payments[i].value))],
     quote     |-> IF r.quote = None THEN None ELSE TheOne(ValidateQuoteAmount(r.quote.amount)),
     utxos     |-> [i \in DOMAIN r.utxos |->
                      [vout |-> TheOne(ValidateOutpoint(r.utxos[i])),
                       value |-> TheOne(ParseSatoshiAmount(r.utxos[i].value)),
                       confirmations |-> TheOne(ValidateConfirmations(r.utxos[i].confirmations))]],
     flags     |-> [flag \in Flags |-> TheOne(ValidateOptionalBoolean(r.flags[flag]))]]

-----------------------------------------------------------------------------

\* The meaning of a field is what the caller wrote, not what was parsed.
Meant(v) == v.n \div 2

MeantFlag(v) == IF Absent(v) THEN None ELSE v.as = "true"

\* The build works with what the caller wrote or not at all: no amount is
\* rounded, truncated or taken from a value of another type, and no flag is
\* coerced ("silently truncating to a wrong value on the money path",
\* value_checks.js:27-32; "string \"false\" would coerce to true", :50).
AsWritten(r, use) ==
    /\ use.fee = (IF Unset(r.fee) THEN None ELSE Meant(r.fee)) /\ use.fee # None => Whole(r.fee)
    /\ use.dust = (IF Unset(r.dust) THEN None ELSE Meant(r.dust)) /\ use.dust # None => Whole(r.dust)
    /\ use.feePerKb = (IF Unset(r.feePerKb) THEN None ELSE r.feePerKb.n)
    /\ \A i \in DOMAIN r.payments : use.payments[i] = Meant(r.payments[i].value) /\ Whole(r.payments[i].value)
    /\ r.quote # None => use.quote = Meant(r.quote.amount) /\ Whole(r.quote.amount)
    /\ \A i \in DOMAIN r.utxos :
         /\ use.utxos[i].vout = Meant(r.utxos[i].vout) /\ Whole(r.utxos[i].vout)
         /\ use.utxos[i].value = Meant(r.utxos[i].value) /\ Whole(r.utxos[i].value)
         /\ use.utxos[i].confirmations = 0 <=> Absent(r.utxos[i].confirmations) \/ Meant(r.utxos[i].confirmations) = 0
    /\ \A flag \in Flags : use.flags[flag] = MeantFlag(r.flags[flag])
=============================================================================
