---------------------------- MODULE PayloadSizes ----------------------------
(***************************************************************************)
(* How the compiled payload is cut into carriers and what the carriers     *)
(* weigh: the layouts of payload_encodings.js and the estimates by which   *)
(* the commit prices the reveal (size_estimation.js, tx_size_estimator.js).*)
(* Lengths are real; a byte string is its length and whether its last byte *)
(* is in the minimal-opcode range (0x01-0x10, 0x81), which is all that the *)
(* cutting looks at.                                                       *)
(***************************************************************************)
EXTENDS Integers, Sequences

MaxOf(a, b) == IF a >= b THEN a ELSE b

\* The sum of a sequence of sizes.
Total(s) ==
    LET upTo[i \in 0 .. Len(s)] == IF i = 0 THEN 0 ELSE upTo[i - 1] + s[i]
    IN  upTo[Len(s)]

MagicBytes == 4
OpReturnSize == 80
ElementSize == 520                      \* P2SH_SIZE, PW2SH_SIZE, TAPROOT_ENVELOPE_CHUNK_SIZE
ScriptHashChunk == ElementSize - 44
MultisignChunk == 69 - MagicBytes - 5
MultisignSlot == 64
OpReturnCompiled == OpReturnSize - MagicBytes

\* The framing of one push by bitcoin.script.compile.
ScriptPush(n) ==
    n + (IF n <= 75 THEN 1 ELSE IF n <= 255 THEN 2 ELSE IF n <= 65535 THEN 3 ELSE 5)

\* compiledPushSize, which has no OP_PUSHDATA4 band, and envelopePushSize.
CompiledPushSize(n) == n + (IF n <= 75 THEN 1 ELSE IF n <= 255 THEN 2 ELSE 3)

\* Fault variant: the band is not restored.
EnvelopePushSizeShort(n) == CompiledPushSize(n)

EnvelopePushSize(n) == CompiledPushSize(n) + (IF n > 65535 THEN 2 ELSE 0)

CompactSizeLen(n) == CASE n < 253 -> 1 [] n \in 253 .. 65535 -> 3 [] OTHER -> 5

-----------------------------------------------------------------------------
(* Cutting n bytes into pieces of at most w. *)

Count(n, w) == (n + w - 1) \div w

LastPiece(n, w) == n - w * (Count(n, w) - 1)

\* A final piece of one byte that compiles to a bare opcode takes a byte from
\* the piece before it.
Rebalanced(n, w, minimal) == Count(n, w) >= 2 /\ LastPiece(n, w) = 1 /\ minimal

\* Fault variant: the pieces as first cut.
PieceUnbalanced(n, w, minimal, i) == IF i < Count(n, w) THEN w ELSE LastPiece(n, w)

\* The length of the i-th piece.
Piece(n, w, minimal, i) ==
    CASE i = Count(n, w) /\ Rebalanced(n, w, minimal)     -> 2
      [] i = Count(n, w) - 1 /\ Rebalanced(n, w, minimal) -> w - 1
      [] i = Count(n, w) /\ ~Rebalanced(n, w, minimal)    -> LastPiece(n, w)
      [] OTHER                                            -> w

Pieces(n, w, minimal) == [i \in 1 .. Count(n, w) |-> Piece(n, w, minimal, i)]

\* A leg's redeem script, or witness script: the chunk's push and the gate
\* OP_DROP OP_DUP OP_HASH160 <hash160> OP_EQUALVERIFY OP_CHECKSIG.
RedeemSize(chunk) == ScriptPush(chunk) + 26

\* The envelope's leaf: OP_0 OP_IF <magic> <format> ... OP_ENDIF <key> OP_CHECKSIG.
LeafFrame == 44

LeafSize(pieces) == LeafFrame + Total([i \in DOMAIN pieces |-> ScriptPush(pieces[i])])

-----------------------------------------------------------------------------
(* The estimates.  "floor" is the network's minStandardTxNonWitnessSize, 0  *)
(* where it has none.                                                       *)

OpReturnOutput(n) ==
    LET script == 1 + CompiledPushSize(n)
    IN  8 + CompactSizeLen(script) + script

\* The markers XCHNp2sh and XCHNp2wsh.
MarkerOutput(lane) == OpReturnOutput(MagicBytes + (IF lane = "P2SH" THEN 4 ELSE 5))

RedeemInput(redeem) ==
    LET scriptSig == 73 + 34 + CompiledPushSize(redeem)
    IN  40 + (IF scriptSig < 253 THEN 1 ELSE 3) + scriptSig

EstimateSpendingP2sh(redeem) == 10 + RedeemInput(redeem) + MarkerOutput("P2SH") + 8

EstimateP2shReveal(redeems, outputs) ==
    10 + Total([i \in DOMAIN redeems |-> RedeemInput(redeems[i]) + 8]) + MarkerOutput("P2SH") + outputs

QuarterUp(n) == (n + 3) \div 4

WitnessItems(script) == 1 + 73 + 34 + CompactSizeLen(script) + script

\* Fault variant: a reveal under the floor is charged the floor's bytes and not
\* the whole output that lifts it.
EstimateSpendingP2wshUnpadded(script, pad, floor) ==
    MaxOf(10 + 41 + MarkerOutput("P2WSH"), floor) + QuarterUp(2 + WitnessItems(script)) + 8

EstimateSpendingP2wsh(script, pad, floor) ==
    LET bare == 10 + 41 + MarkerOutput("P2WSH")
    IN  (IF bare < floor THEN MaxOf(bare + pad, floor) ELSE bare) + QuarterUp(2 + WitnessItems(script)) + 8

EstimateP2wshReveal(scripts, outputs, floor) ==
    MaxOf(10 + Total([i \in DOMAIN scripts |-> 41]) + MarkerOutput("P2WSH") + outputs, floor)
      + QuarterUp(2 + Total([i \in DOMAIN scripts |-> WitnessItems(scripts[i])])) + 8

EstimateEnvelopeReveal(leaf, outputs, floor) ==
    MaxOf(10 + 41 + outputs, floor) + QuarterUp(2 + 1 + 66 + CompactSizeLen(leaf) + leaf + 34) + 2

\* emitEnvelopeCommit: whether the envelope's reveal needs a second output.
EnvelopePadded(changeBytes, floor) == 10 + 41 + changeBytes < floor

\* revealNeedsFloorPad: whether the reveal of that many legs does.
RevealPadded(legs, paymentBytes, floor) == 30 + 41 * legs + paymentBytes < floor
=============================================================================
