-------------------------- MODULE MCRevealFunding --------------------------
(***************************************************************************)
(* FeeSettlement's builds that fund no leg, with the requests and markets  *)
(* of MCFeeSettlement, and RevealFunding's chunked commits followed by     *)
(* second calls at lower, equal and higher rates and with fees of their    *)
(* own.                                                                    *)
(***************************************************************************)
EXTENDS RevealFunding, MCFeeSettlement

RevealCandidates == {<<U(90, TRUE), U(30, FALSE)>>, <<U(70, FALSE), U(20, FALSE)>>, <<U(120, TRUE)>>}

Legs(paid, soft, revealed, floor, legs) ==
    [outputs |-> paid, surcharge |-> soft, revealBytes |-> revealed, strippedFloor |-> floor, legs |-> legs,
     padded |-> revealed = 0, paymentBytes |-> IF paid = 0 THEN 0 ELSE 9]

RevealShapes ==
    {Legs(0, 0, 0, 20, <<43>>), Legs(0, 0, 57, 20, <<31, 31>>), Legs(20, 0, 49, 20, <<41>>),
     Legs(3, 4, 47, 0, <<40>>), Legs(0, 0, 47, 0, <<45>>)}

Quote(node, floor, cap) ==
    [estimate |-> node, relay |-> floor, suggested |-> None, maxRate |-> cap, multiplier |-> 0]

Markets == {Quote(2, 3, None), Quote(5, 3, None), Quote(5, 3, 4)}

Priced(f, rate, bound) == [fee |-> f, feePerKb |-> rate, cpfp |-> bound]

RevealPrices == {<<None, None>>, <<None, 7>>, <<11, None>>, <<24, None>>}

MCRevealAsks ==
    {Priced(p[1], p[2], c) @@ m @@ s @@
        [utxos |-> u, bytes |-> 20, stripped |-> 30, exact |-> x, change |-> TRUE] :
        p \in RevealPrices, c \in {0, 6, 60}, m \in Markets, s \in RevealShapes, u \in RevealCandidates, x \in BOOLEAN}

MCCalls ==
    {Priced(p[1], p[2], c) @@ m @@ [size |-> n] :
        p \in RevealPrices, c \in {0, 6, 60}, m \in Markets, n \in {20, 60}}

\* Every build that funds no leg, and the legs the reveal calls spend.
MCAllAsks == {a \in MCReachableAsks : a.legs = <<>>} \cup MCRevealAsks
=============================================================================
