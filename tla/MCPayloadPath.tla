--------------------------- MODULE MCPayloadPath ---------------------------
EXTENDS PayloadPath

Num(n) == [as |-> "number", n |-> 2 * n]
Digits(n) == [as |-> "digits", n |-> 2 * n]
Null == [as |-> "null", n |-> 0]
True == [as |-> "true", n |-> 0]
False == [as |-> "false", n |-> 0]

NoFlags == [flag \in Flags |-> Null]
WithFlag(flag, v) == [NoFlags EXCEPT ![flag] = v]

Utxo == [txid |-> "64-hex", vout |-> Num(0), value |-> Num(5), script |-> "even-hex", confirmations |-> Num(1)]
Payment == [address |-> "own", value |-> Num(5)]

Act(class, length, minimal, codec, grows) ==
    [class |-> class, length |-> length, roundTrips |-> TRUE, minimal |-> minimal, codec |-> codec, grows |-> grows]
Raw(length, minimal, deflated) ==
    [length |-> length, roundTrips |-> TRUE, minimal |-> minimal, deflated |-> deflated, form |-> "given"]

Base ==
    [surface |-> "rpc", params |-> "known-keys", action |-> Act("other", 30, FALSE, "none", 1), raw |-> None,
     buffers |-> FALSE, encoding |-> None, key |-> None, pubkey |-> "own", fee |-> Null, feePerKb |-> Null,
     dust |-> Null, utxos |-> <<>>, payments |-> <<>>, quote |-> None, p2sh |-> [hash |-> None, hex |-> None],
     change |-> None, flags |-> NoFlags, outputBytes |-> 34]

\* Without raw bytes: the sizes at which the action by
\* itself meets a push band, a carrier's room, a lone tail or a ceiling.
Alone ==
    {Act("other", n, minimal, "none", 1) :
        n \in {2, 72, 73, 74, 75, 119, 120, 473, 474, 517, 518, 949, 950, 1037, 1038, 8189, 8190}, minimal \in BOOLEAN}
      \cup {Act("unknown", n, TRUE, "none", 1) : n \in {0, 1, 30}}
      \cup {[Act("other", 30, FALSE, "none", 1) EXCEPT !.roundTrips = FALSE]}

\* Each with raw bytes: the files that may carry the marker and those that may not.
Files == {Act("file", 40, FALSE, "none", 6), Act("file", 40, FALSE, "callers", 6), Act("gated-file", 40, FALSE, "none", 6)}

Raws ==
    {Raw(0, FALSE, 2), Raw(1, TRUE, 3), Raw(1, FALSE, 3), Raw(34, FALSE, 40), Raw(34, FALSE, 20), Raw(900, FALSE, 3),
     Raw(909, TRUE, 500), Raw(920, FALSE, 903), Raw(1000, FALSE, 991), Raw(997, TRUE, 990), Raw(8148, FALSE, 8140), Raw(8148, TRUE, 8147), Raw(8149, FALSE, 8000),
     Raw(65536, TRUE, 8000), Raw(389954, FALSE, 389990), Raw(389955, FALSE, 389990),
     Raw(16777217, FALSE, 8000000)}

Lanes == Encodings \cup {None}

Signers ==
    {[key |-> None, flags |-> NoFlags],
     [key |-> "compressed-key", flags |-> NoFlags],
     [key |-> "compressed-key", flags |-> WithFlag("signerSupportsTapscript", True)]}

PayloadsOf(as, rs, compresses, signers) ==
    {[Base EXCEPT !.action = a, !.raw = r, !.encoding = e, !.key = s.key,
                  !.flags = [s.flags EXCEPT !["compress"] = c]] :
        a \in as, r \in rs, e \in Lanes, c \in compresses, s \in signers}

Payloads ==
    PayloadsOf(Alone, {None}, {Null}, Signers)
      \cup PayloadsOf(Files, Raws, {Null, True, False}, Signers)
      \cup PayloadsOf({None}, {Raw(1, TRUE, 3), Raw(34, FALSE, 20)}, {Null, True}, Signers)

\* What the reveal pays besides the sweep.
Paying ==
    {[Base EXCEPT !.action = Act("other", n, FALSE, "none", 1), !.encoding = e, !.key = "compressed-key",
                  !.outputBytes = b, !.payments = p, !.quote = q] :
        n \in {30, 300, 940}, e \in {"P2SH", "P2WSH", "TAPROOT"}, b \in {31, 34, 43}, p \in {<<>>, <<Payment>>},
        q \in {None, [address |-> "own", amount |-> Num(3)]}}

FromLibrary(r) == [r EXCEPT !.surface = "library"]

\* One field of the base request at a time.
Values ==
    {Null, True, False, [as |-> "junk", n |-> 0]}
      \cup [as : {"number", "digits"}, n : {2 * i : i \in {-1, 0, 1, 2, 3, 5, 6, 7, 8, 9, 11, 12, 13}}]
      \cup [as : {"number", "decimal"}, n : {3, 5}]

Fields ==
    UNION {{[Base EXCEPT !.fee = v], [Base EXCEPT !.feePerKb = v], [Base EXCEPT !.dust = v],
            [Base EXCEPT !.utxos = <<[Utxo EXCEPT !.vout = v]>>], [Base EXCEPT !.utxos = <<[Utxo EXCEPT !.value = v]>>],
            [Base EXCEPT !.utxos = <<[Utxo EXCEPT !.confirmations = v]>>],
            [Base EXCEPT !.payments = <<[Payment EXCEPT !.value = v]>>],
            [Base EXCEPT !.quote = [address |-> "own", amount |-> v]]} : v \in Values}
      \cup UNION {{[Base EXCEPT !.pubkey = a], [Base EXCEPT !.change = a],
                   [Base EXCEPT !.quote = [address |-> a, amount |-> Num(3)]],
                   [Base EXCEPT !.payments = <<[Payment EXCEPT !.address = a]>>]} : a \in Addresses}
      \cup {[Base EXCEPT !.flags = WithFlag(flag, v)] : flag \in Flags, v \in Values}
      \cup {[Base EXCEPT !.pubkey = k, !.encoding = e] :
               k \in {None, "compressed-key", "uncompressed-key", "off-the-curve", "taproot-address"}, e \in Lanes}
      \cup {[Base EXCEPT !.key = k, !.encoding = e] : k \in {"compressed-key", "uncompressed-key"}, e \in Lanes}
      \cup {[Base EXCEPT !.utxos = [i \in 1 .. n |-> Utxo]] : n \in 1 .. MaxUtxos + 1}
      \cup {[Base EXCEPT !.payments = [i \in 1 .. n |-> Payment]] : n \in 1 .. MaxOutputs + 1}
      \cup {[Base EXCEPT !.utxos = <<[Utxo EXCEPT !.txid = "bad"]>>], [Base EXCEPT !.utxos = <<[Utxo EXCEPT !.script = "odd-hex"]>>],
            [Base EXCEPT !.params = "unknown-key"], [Base EXCEPT !.encoding = "P2TR"], [Base EXCEPT !.p2sh.hex = "hex"]}

MCRequests ==
    LET rpc == Payloads \cup Paying \cup Fields
    IN  rpc \cup {FromLibrary(r) : r \in Payloads}
            \cup {[FromLibrary(r) EXCEPT !.buffers = TRUE, !.action.roundTrips = FALSE] :
                     r \in PayloadsOf(Files, {None, Raw(34, FALSE, 20)}, {Null}, Signers)}

MCNetworks ==
    {[segwit |-> TRUE, floor |-> 82, recognition |-> 1], [segwit |-> TRUE, floor |-> 85, recognition |-> 0],
     [segwit |-> TRUE, floor |-> 82, recognition |-> None], [segwit |-> FALSE, floor |-> 0, recognition |-> None]}
=============================================================================
