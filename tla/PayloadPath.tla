---------------------------- MODULE PayloadPath ----------------------------
(***************************************************************************)
(* A payload's way through create_tx: validateAll on the JSON-RPC surface, *)
(* then the steps of buildSteps (XChainEncoder.js) that check, compress,   *)
(* compile, choose a carrier for and cut it, with the awaits between them, *)
(* and for a chunk lane the caller's second call, which has to come to the *)
(* same chunks or cannot spend what the first one funded.  Meanwhile the   *)
(* operator turns the default compression on and off and the chain grows.  *)
(*                                                                         *)
(* Inputs and fees are Reservations' and FeeSettlement's subject.          *)
(***************************************************************************)
EXTENDS RequestChecks

CONSTANTS
    Requests, Networks,
    MaxHeight,      \* bound on the chain's growth
    MaxRatio,       \* COMPRESSION_MAX_RATIO
    MaxInput        \* COMPRESSION_MAX_INPUT_BYTES

\* An action and the raw bytes beside it, before and after compression.
ActionPayloads ==
    [class : {"file", "gated-file", "other", "unknown"}, codec : {"none", "callers", "ours"},
     length : Nat, grows : 1 .. 10, roundTrips : BOOLEAN, minimal : BOOLEAN]
RawPayloads ==
    [form : {"given", "deflated"}, length : Nat, deflated : Nat, roundTrips : BOOLEAN, minimal : BOOLEAN]

\* What a caller can write in a field, by what the checks tell apart.
Addresses == {"own", "another-networks", "not-a-string", "empty", "over-100"}
Keys == {"compressed-key", "uncompressed-key", "off-the-curve"}

Utxos == [txid : {"64-hex", "bad"}, script : {"even-hex", "odd-hex"},
          vout : JsonValues, value : JsonValues, confirmations : JsonValues]
Payments == [address : Addresses, value : JsonValues]
Quotes == [address : Addresses, amount : JsonValues]

\* What a caller can send; outputBytes are those of an output to its addresses.
CreateCalls ==
    [surface : {"rpc", "library"}, buffers : BOOLEAN, params : {"known-keys", "unknown-key"},
     encoding : {None, "P2TR"} \cup Encodings,
     action : {None} \cup ActionPayloads, raw : {None} \cup RawPayloads,
     key : {None} \cup Keys, pubkey : {None, "taproot-address"} \cup Addresses \cup Keys,
     change : {None} \cup Addresses, p2sh : [hash : {None, "64-hex"}, hex : {None, "hex"}],
     fee : JsonValues, feePerKb : JsonValues, dust : JsonValues,
     utxos : Seq(Utxos), payments : Seq(Payments), quote : {None} \cup Quotes,
     flags : [Flags -> JsonValues], outputBytes : 31 .. 43]

ASSUME NoneAssumption ==
    /\ None \notin BOOLEAN /\ None \notin Nat /\ None \notin Encodings
    /\ None \notin ActionPayloads /\ None \notin RawPayloads /\ None \notin [fired : BOOLEAN]

\* A library caller hands over checked fields; only its payload is judged.  A
\* buffer is copied byte for byte.
ASSUME RequestsAssumption ==
    /\ Requests \subseteq CreateCalls
    /\ \A r \in Requests :
         /\ r.surface = "library" => /\ r.encoding \in Encodings \cup {None}
                                    /\ ValidateAll([r EXCEPT !.action = None, !.raw = None, !.encoding = None])
         /\ r.p2sh.hash = None
         /\ r.action # None => r.action.codec \in {"none", "callers"}
         /\ r.raw # None => r.raw.form = "given" /\ r.raw.deflated > 1
         /\ r.surface = "rpc" => ~r.buffers
    /\ \A w \in Networks : w.segwit \in BOOLEAN /\ w.floor \in Nat /\ w.recognition \in Nat \cup {None}

\* The coins' stripped-size floors, and MAX_CUSTOM_OUTPUTS (validator/constants.js:62).
ASSUME RelayAssumption == MaxOutputs <= 100 /\ \A w \in Networks : w.floor <= 85

VARIABLES
    network, request,
    defaultOn,      \* XCHAIN_COMPRESSION_DEFAULT, read by each call
    height,         \* of the chain
    pc,             \* the step that runs next, "done", or a refusal
    use,            \* the checked fields
    action, raw,    \* data and rawData as the build now holds them
    report,         \* compressionResult: None, or whether it fired
    encoding,
    pieces,         \* the lengths of the payload's carriers
    first           \* the first call's result, None during it

vars == <<network, request, defaultOn, height, pc, use, action, raw, report, encoding, pieces, first>>

Init ==
    /\ network \in Networks /\ request \in Requests
    /\ defaultOn \in BOOLEAN /\ height = 0
    /\ pc = "enter"
    /\ use = None /\ action = None /\ raw = None /\ report = None /\ encoding = None
    /\ pieces = <<>> /\ first = None

Reveals == request.p2sh.hash # None

PayloadRefusals == {"INVALID", "TOO_LARGE", "OP_RETURN_TOO_LARGE", "NOT_FUNDED"}

Refusals == PayloadRefusals \cup {"NO_SEGWIT", "SINGLE_CALL", "NOT_RECOGNIZED", "HEIGHT_UNKNOWN"}

-----------------------------------------------------------------------------

\* create_tx validates before it builds; the library enters below that.
Enter ==
    /\ pc = "enter"
    /\ IF request.surface = "rpc" /\ ~ValidateAll(request)
       THEN pc' = "INVALID" /\ UNCHANGED <<use, action, raw, encoding>>
       ELSE /\ pc' = "check"
            /\ use' = Checked(request)
            /\ action' = request.action /\ raw' = request.raw /\ encoding' = request.encoding
    /\ report' = None /\ pieces' = <<>>
    /\ UNCHANGED <<network, request, defaultOn, height, first>>

OnNetwork(a) == AddressShaped(a) /\ a # "another-networks"

\* checkPayloadInput, for both surfaces: the strings' round trip, the addresses on
\* this network, and the payments' dust.  Then the fee rates are awaited.
CheckPayloadInput ==
    /\ pc = "check"
    /\ pc' = IF /\ request.buffers \/ (RoundTrips(action) /\ RoundTrips(raw))
                /\ \A i \in DOMAIN request.payments :
                     OnNetwork(request.payments[i].address) /\ use.payments[i] >= PaymentFloor
                /\ request.quote # None => OnNetwork(request.quote.address)
                /\ request.change # None => OnNetwork(request.change)
             THEN "compress" ELSE "INVALID"
    /\ UNCHANGED <<network, request, defaultOn, height, use, action, raw, report, encoding, pieces, first>>

IsFile == action # None /\ action.class \in {"file", "gated-file"}

\* Fault variant: a codec the caller declared is not looked for.
CompressibleAnyCodec == IsFile /\ action.class # "gated-file" /\ raw.length <= MaxInput

\* guardCompressible: only a FILE carries the marker, on a gated one it means
\* something else, and bytes whose codec is declared are left alone.
Compressible == IsFile /\ action.class # "gated-file" /\ action.codec = "none" /\ raw.length <= MaxInput

Worthwhile == raw.deflated < raw.length /\ raw.length <= MaxRatio * raw.deflated

Ride == UNCHANGED <<action, raw>> /\ report' = [fired |-> FALSE] /\ pc' = "compile"

\* compressPayload: the caller's choice, or the default of this moment.  Only an
\* explicit wish that cannot be granted is refused; deflate may fail, and what it
\* yields is longer than a byte and ends in any.
CompressPayload ==
    LET wish == use.flags["compress"]
    IN  /\ pc = "compress"
        /\ CASE raw = None \/ wish = FALSE \/ (wish = None /\ ~defaultOn) ->
                  pc' = "compile" /\ UNCHANGED <<action, raw, report>>
             [] raw # None /\ (wish = TRUE \/ (wish = None /\ defaultOn)) ->
                  \/ (raw.length = 0 \/ Compressible) /\ Ride
                  \/ raw.length > 0 /\ ~Compressible
                       /\ IF wish = TRUE THEN pc' = "INVALID" /\ UNCHANGED <<action, raw, report>> ELSE Ride
                  \/ /\ raw.length > 0 /\ Compressible /\ Worthwhile
                     /\ action' = [action EXCEPT !.codec = "ours", !.length = @ + action.grows]
                     /\ \E minimal \in BOOLEAN :
                          raw' = [raw EXCEPT !.form = "deflated", !.length = raw.deflated, !.deflated = @ + 1, !.minimal = minimal]
                     /\ report' = [fired |-> TRUE] /\ pc' = "compile"
        /\ UNCHANGED <<network, request, defaultOn, height, use, encoding, pieces, first>>

Compiled == ScriptPush(LengthOf(action)) + (IF raw = None THEN 0 ELSE ScriptPush(raw.length))

HasPayload == LengthOf(action) > 0 \/ raw # None

\* selectEncoding: the smallest carrier this network and signer can use.
SelectEncoding ==
    CASE Compiled + MagicBytes <= OpReturnSize -> "OP_RETURN"
      [] Compiled + MagicBytes > OpReturnSize /\ ~network.segwit -> "P2SH"
      [] OTHER -> IF use.flags["signerSupportsTapscript"] = TRUE /\ request.key # None THEN "TAPROOT" ELSE "P2WSH"

CeilingOf(chosen) == IF chosen = "TAPROOT" THEN EnvelopeCeiling ELSE LegacyCeiling

\* Fault variant: AUTO is given the envelope's ceiling whatever it settles on.
CeilingAsAsked(chosen) == CeilingOf(IF encoding = "AUTO" THEN "TAPROOT" ELSE chosen)

\* The ceiling of the encoding that was chosen.
Ceiling(chosen) == CeilingOf(chosen)

\* compilePayload, classifyPayload and chooseEncoding run in one stretch.
ChooseEncoding ==
    LET chosen == IF encoding = "AUTO" THEN SelectEncoding ELSE encoding
    IN  /\ pc = "compile"
        /\ pc' = CASE ~PushDecodable(action) \/ ~PushDecodable(raw) -> "INVALID"
                   [] PushDecodable(action) /\ PushDecodable(raw) /\ Compiled > Ceiling(chosen) -> "TOO_LARGE"
                   [] OTHER -> IF chosen = "P2WSH" /\ ~network.segwit THEN "NO_SEGWIT" ELSE "envelope"
        /\ encoding' = chosen
        /\ UNCHANGED <<network, request, defaultOn, height, use, action, raw, report, pieces, first>>

\* checkEnvelopeEncoding and assertEnvelopeRecognized: the node answers with its
\* height or not at all, and is not asked where envelopes are active from genesis.
CheckEnvelope ==
    /\ pc = "envelope"
    /\ \E tip \in {height, None} :
         pc' = IF encoding # "TAPROOT" THEN "prepare"
               ELSE CASE ~network.segwit                    -> "NO_SEGWIT"
                      [] network.segwit /\ Reveals          -> "SINGLE_CALL"
                      [] OTHER -> IF network.recognition = 0 THEN "prepare"
                                  ELSE IF network.recognition = None THEN "NOT_RECOGNIZED"
                                  ELSE IF tip = None THEN "HEIGHT_UNKNOWN"
                                  ELSE IF tip < network.recognition THEN "NOT_RECOGNIZED" ELSE "prepare"
    /\ UNCHANGED <<network, request, defaultOn, height, use, action, raw, report, encoding, pieces, first>>

\* prepareData: no encoding means OP_RETURN where it fits and P2SH otherwise, and
\* no payload means no carrier.
Carrier ==
    IF ~HasPayload THEN "OP_RETURN"
    ELSE IF encoding = None THEN (IF Compiled + MagicBytes <= OpReturnSize THEN "OP_RETURN" ELSE "P2SH")
    ELSE encoding

PieceWidth(lane) ==
    CASE lane = "OP_RETURN" -> OpReturnCompiled
      [] lane = "MULTISIGN" -> MultisignChunk
      [] lane = "TAPROOT"   -> ElementSize
      [] OTHER              -> ScriptHashChunk

\* Whether the stream's last byte is one that compiles to a bare opcode by itself.
TailMinimal ==
    IF raw # None THEN raw.length > 0 /\ raw.minimal ELSE LengthOf(action) > 0 /\ action.minimal

\* The lanes without a push of their own are not rebalanced.
Cut(lane) == Pieces(Compiled, PieceWidth(lane), TailMinimal /\ lane \in {"P2SH", "P2WSH", "TAPROOT"})

\* prepareDataChunks and, for a reveal, assertLegFundsScript: the chunks are
\* those the first call's legs hash.
PrepareChunks ==
    /\ pc = "prepare"
    /\ encoding' = Carrier
    /\ pieces' = IF HasPayload THEN Cut(Carrier) ELSE <<>>
    /\ pc' = CASE HasPayload /\ Carrier = "OP_RETURN" /\ Compiled > OpReturnCompiled -> "OP_RETURN_TOO_LARGE"
               [] HasPayload /\ Carrier \in {"MULTISIGN", "TAPROOT"} /\ request.key = None -> "INVALID"
               [] HasPayload /\ Carrier \in {"P2SH", "P2WSH"} /\ request.pubkey = "taproot-address" -> "INVALID"
               [] OTHER -> IF Reveals /\ <<Carrier, action, raw>> # <<first.encoding, first.action, first.raw>>
                           THEN "NOT_FUNDED" ELSE "done"
    /\ UNCHANGED <<network, request, defaultOn, height, use, action, raw, report, first>>

\* attachAdvisories: what the fee-payer is told before it signs.
Warnings ==
    (IF LengthOf(action) = 0 /\ raw # None THEN {"RAWDATA_ONLY_NOT_DECODED"} ELSE {})
      \cup (IF UnknownName(request.action) THEN {"UNKNOWN_ACTION_NAME"} ELSE {})

\* Fault variant: the report has the marker and not the bytes.
StoredMarkerOnly == [action |-> action, raw |-> request.raw]

\* attachCompression: both halves, as they went into the carrier.
Stored == [action |-> action, raw |-> raw]

HandedBack == IF report # None /\ report.fired THEN Stored ELSE [action |-> request.action, raw |-> request.raw]

\* The caller reveals: with what the first call returned, naming the encoding it
\* asked for or the one it got, and asking for no further compression or leaving
\* that open.
CallAgain ==
    /\ pc = "done" /\ first = None /\ encoding \in {"P2SH", "P2WSH"}
    /\ first' = [encoding |-> encoding, action |-> action, raw |-> raw,
                 fired |-> report # None /\ report.fired]
    /\ \E compress \in {"null", "false"}, named \in {request.encoding, encoding} :
         request' = [request EXCEPT !.action = HandedBack.action, !.raw = HandedBack.raw, !.encoding = named,
                                    !.p2sh = [hash |-> "64-hex", hex |-> "hex"],
                                    !.flags = [@ EXCEPT !["compress"] = [as |-> compress, n |-> 0]]]
    /\ pc' = "enter"
    /\ UNCHANGED <<network, defaultOn, height, use, action, raw, report, encoding, pieces>>

\* The operator edits the environment, the chain grows.
ToggleDefault ==
    /\ pc = "compress" /\ Reveals /\ defaultOn' = ~defaultOn
    /\ pc' = pc
    /\ UNCHANGED <<network, request, height, use, action, raw, report, encoding, pieces, first>>

Grow ==
    /\ pc = "envelope" /\ encoding = "TAPROOT" /\ height < MaxHeight /\ height' = height + 1
    /\ UNCHANGED <<network, request, defaultOn, pc, use, action, raw, report, encoding, pieces, first>>

Next ==
    \/ Enter \/ CheckPayloadInput \/ CompressPayload \/ ChooseEncoding \/ CheckEnvelope \/ PrepareChunks
    \/ CallAgain \/ ToggleDefault \/ Grow

Spec == Init /\ [][Next]_vars

-----------------------------------------------------------------------------

Done == pc = "done"

\* What a decoder reassembles from the carriers is the compiled stream: the
\* pieces add up, none is a lone byte the decoder reads as an opcode and skips,
\* and none outgrows what a script may push or an output may carry
\* (payload_encodings.js:118-127, 245-251).
CarriersReassemble ==
    Done /\ HasPayload =>
        /\ Total(pieces) = Compiled
        /\ encoding \in {"P2SH", "P2WSH", "TAPROOT"} => ~(TailMinimal /\ pieces[Len(pieces)] = 1)
        /\ \A i \in DOMAIN pieces :
             CASE encoding = "OP_RETURN" -> MagicBytes + pieces[i] <= OpReturnSize
               [] encoding = "MULTISIGN" -> MagicBytes + pieces[i] <= MultisignSlot
               [] encoding = "TAPROOT"   -> pieces[i] \in 1 .. ElementSize
               [] OTHER                  -> pieces[i] > 0 /\ RedeemSize(pieces[i]) <= ElementSize

\* A decoder that measures the push, knows the name, and has the envelope's
\* height behind it.
Indexed ==
    /\ LengthOf(action) > 0 /\ action.class # "unknown"
    /\ PushDecodable(action) /\ PushDecodable(raw)
    /\ Compiled <= CeilingOf(encoding)
    /\ encoding = "TAPROOT" => network.segwit /\ network.recognition # None /\ height >= network.recognition

\* A reader inflates once, as the COMPRESSION field says.  On a gated FILE the
\* field is the client's.
ReadAsGiven ==
    /\ request.buffers \/ (RoundTrips(action) /\ RoundTrips(raw))
    /\ raw # None /\ raw.form = "deflated" =>
         action.class = "file" /\ action.codec = "ours" /\ request.action.codec # "callers"
    /\ action # None /\ action.codec = "ours" => raw # None /\ raw.form = "deflated"

\* A fee-paid payload is indexed and read back as it was handed over, or the
\* caller is told before it signs: on neither surface does a build succeed whose
\* action every decoder silently drops (payload_checks.js:55-68, 188-193).
NothingSilentlyLost ==
    Done /\ HasPayload => (Indexed \/ Warnings # {}) /\ ReadAsGiven

\* What the first call returned is enough to spend what it funded: the second
\* call comes to the same chunks, whatever the default is by then, if the payload
\* was rewritten or the caller asks for no compression.  "A reveal that does not
\* reproduce the commit's chunks can never spend the commit" (build_result.js:117-119).
RevealRebuildsChunks ==
    first # None /\ Reveals /\ (first.fired \/ request.flags["compress"].as = "false") => pc \notin Refusals

\* A payload whose size the validator accepted is refused for its size only where
\* compression padded it or AUTO settled on a narrower lane: the two models of the
\* compiled size agree to the byte (action_data_checks.js:180-188, 210-214, 221-229).
AcceptedSizeIsBuilt ==
    request.surface = "rpc" /\ pc \in {"TOO_LARGE", "OP_RETURN_TOO_LARGE"} =>
        \/ report # None /\ report.fired /\ Compiled > MeasuredSize(request.action, request.raw)
        \/ request.encoding = "AUTO" /\ encoding # "TAPROOT"

-----------------------------------------------------------------------------
(* The reveal's bytes: those the commit is priced by, and those it has.      *)

PaymentBytes == request.outputBytes * (Len(request.payments) + (IF request.quote = None THEN 0 ELSE 1))

Redeems == [i \in DOMAIN pieces |-> RedeemSize(pieces[i])]

Padded == encoding = "P2WSH" /\ RevealPadded(Len(pieces), PaymentBytes, network.floor)

EnvelopeOutputs ==
    request.outputBytes * (IF EnvelopePadded(request.outputBytes, network.floor) THEN 2 ELSE 1)

\* emitEnvelopeCommit, fundP2shLeg, fundP2wshLeg and topUpFirstLeg, in bytes: the
\* legs' own shares, or the whole reveal where that is more, and the payments.
PricedBytes ==
    CASE encoding = "TAPROOT" -> EstimateEnvelopeReveal(LeafSize(pieces), EnvelopeOutputs, network.floor)
      [] encoding = "P2SH" ->
           MaxOf(Total([i \in DOMAIN pieces |-> EstimateSpendingP2sh(Redeems[i])]),
                 EstimateP2shReveal(Redeems, 43)) + PaymentBytes
      [] OTHER ->
           IF Padded THEN EstimateSpendingP2wsh(Redeems[1], request.outputBytes, network.floor) + PaymentBytes
           ELSE MaxOf(Total([i \in DOMAIN pieces |-> EstimateSpendingP2wsh(Redeems[i], 0, network.floor)]),
                      EstimateP2wshReveal(Redeems, 43, network.floor)) + PaymentBytes

\* The signed transactions, serialized: 72-byte signatures, 65-byte Schnorr ones.
Overhead == 4 + 1 + 1 + 4

WitnessBytes ==
    CASE encoding = "TAPROOT" -> 2 + 1 + 66 + CompactSizeLen(LeafSize(pieces)) + LeafSize(pieces) + 34
      [] encoding = "P2WSH"   -> 2 + Total([i \in DOMAIN pieces |-> 1 + 73 + 34 + CompactSizeLen(Redeems[i]) + Redeems[i]])
      [] OTHER                -> 0

\* strippedTxSize, of the reveal with that many bytes of sweep.
StrippedSize(sweep) ==
    CASE encoding = "TAPROOT" -> Overhead + 41 + EnvelopeOutputs
      [] encoding = "P2SH" ->
           Overhead + Total([i \in DOMAIN pieces |-> 40 + 3 + 73 + 34 + ScriptPush(Redeems[i])]) + 19 + PaymentBytes + sweep
      [] OTHER -> Overhead + 41 * Len(pieces) + 20 + PaymentBytes + (IF Padded THEN request.outputBytes ELSE sweep)

Weight(sweep) == 4 * StrippedSize(sweep) + WitnessBytes

MaxStandardWeight == 400000

\* The reveal of a built commit can be relayed: the commit priced at least the
\* bytes it has when signed, its stripped bytes clear the node's floor even when
\* nothing is swept, and its weight is standard.  Under any of these it stays
\* unmined with no input to raise it (size_estimation.js:202-208,
\* reveal_outputs.js:45-62).
RevealRelays ==
    Done /\ encoding \in {"P2SH", "P2WSH", "TAPROOT"} =>
        /\ QuarterUp(Weight(request.outputBytes)) <= PricedBytes
        /\ StrippedSize(0) >= network.floor
        /\ Weight(43) <= MaxStandardWeight

\* The build works with the fields as the caller wrote them.
FieldsAsWritten == pc \notin {"enter", "INVALID"} => AsWritten(request, use)

\* The validator and the build see one request: what the first accepts, the second
\* measures alike and takes as written.
ValidatorAgrees == AcceptedSizeIsBuilt /\ FieldsAsWritten
=============================================================================
