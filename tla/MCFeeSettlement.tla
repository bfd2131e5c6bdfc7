-------------------------- MODULE MCFeeSettlement --------------------------
(***************************************************************************)
(* FeeSettlement with rates quoted for ten bytes, so that every fee is     *)
(* rounded, and amounts at which floors, ceilings, dust and change meet.   *)
(***************************************************************************)
EXTENDS FeeSettlement, TLC

U(value, unconfirmed) == [value |-> value, unconfirmed |-> unconfirmed]

Candidates ==
    {<<U(60, TRUE)>>, <<U(90, TRUE), U(8, FALSE)>>, <<U(35, TRUE), U(5, TRUE)>>,
     <<U(36, FALSE), U(30, FALSE)>>, <<U(29, FALSE), U(20, TRUE), U(40, FALSE)>>,
     <<U(20, FALSE), U(10, FALSE), U(5, FALSE)>>}

Market == [estimate : {None, 2, 5}, relay : {3, 6}, suggested : {None, 1}, maxRate : {None, 6}, multiplier : {0, 2}]

Prices == {<<None, None>>, <<None, 1>>, <<None, 4>>, <<None, 40>>, <<7, None>>, <<9, 4>>, <<13, None>>, <<70, None>>}

\* A chain with a stripped floor and envelopes, and one with soft dust instead,
\* where the payment may be under the soft limit; on both, chunks on legs.
Shape(paid, soft, revealed, floor) ==
    [outputs |-> paid, surcharge |-> soft, revealBytes |-> revealed, strippedFloor |-> floor, legs |-> <<>>,
     padded |-> FALSE, paymentBytes |-> IF paid = 0 THEN 0 ELSE 3]

Chunked(shape, legs) == [shape EXCEPT !.legs = legs, !.padded = (shape.revealBytes = 0)]

Shapes ==
    {Shape(20, 0, 0, 20), Shape(20, 0, 9, 20), Shape(20, 0, 0, 0), Shape(12, 14, 0, 0),
     Chunked(Shape(0, 0, 0, 20), <<13>>), Chunked(Shape(0, 0, 19, 20), <<11, 11>>),
     Chunked(Shape(3, 4, 17, 0), <<15>>)}

MCAsks ==
    {[fee |-> p[1], feePerKb |-> p[2], cpfp |-> c, utxos |-> u, bytes |-> 8, stripped |-> 10,
      exact |-> x, change |-> a] @@ m @@ s :
        p \in Prices, m \in Market, c \in {0, 6, 40}, u \in Candidates, s \in Shapes,
        x \in BOOLEAN, a \in BOOLEAN}

\* What the validator and the node path let through.
MCReachableAsks == {a \in MCAsks : a.feePerKb # None \/ a.estimate # None}

MCPackages == {[size |-> 0, fees |-> 0], [size |-> 12, fees |-> 2], [size |-> 80, fees |-> 9]}
=============================================================================
