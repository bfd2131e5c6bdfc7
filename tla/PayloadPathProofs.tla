-------------------------- MODULE PayloadPathProofs --------------------------
(***************************************************************************)
(* What a build does with its payload, for every request, network and      *)
(* length: the cuts and sizes of PayloadSizes first, with the sums they    *)
(* are made of, then the inductive invariant PathInv of PayloadPath and    *)
(* what follows from it of the validator, the decoders and the reveal.     *)
(* A sum is a recursive function; what holds at every index of one is      *)
(* proved from the least index at which it would not.                      *)
(***************************************************************************)
EXTENDS PayloadPath, SequenceTheorems, WellFoundedInduction, TLAPS

-----------------------------------------------------------------------------
(* Sums of sizes.                                                          *)

\* The least of some numbers.
LEMMA LeastOf ==
    ASSUME NEW B \in SUBSET Nat, B # {}
    PROVE  \E m \in B : \A y \in B : m <= y
<1>1. IsWellFoundedOn(OpToRel(<, Nat), Nat)
  BY NatLessThanWellFounded
<1>2. PICK m \in B : \A y \in B : ~ (<<y, m>> \in OpToRel(<, Nat))
  BY <1>1, WFMin
<1>3. \A y \in B : ~(y < m)
  BY <1>2 DEF OpToRel
<1>. QED
  BY <1>3

\* The running totals of s.
Sums(s, upTo) ==
    /\ upTo \in [0 .. Len(s) -> Nat]
    /\ upTo[0] = 0
    /\ \A i \in 1 .. Len(s) : upTo[i] = upTo[i - 1] + s[i]

\* A sum is the last of its running totals.
LEMMA TotalRuns ==
    ASSUME NEW s \in Seq(Nat)
    PROVE  \E upTo : Sums(s, upTo) /\ Total(s) = upTo[Len(s)]
<1>. DEFINE N == Len(s)
            Step(f, n) == IF n = 0 THEN 0 ELSE f[n - 1] + s[n]
            Totals(m) == {f \in [0 .. m -> Nat] : \A n \in 0 .. m : f[n] = Step(f, n)}
            upTo == CHOOSE f : f = [n \in 0 .. N |-> Step(f, n)]
<1>1. N \in Nat /\ \A i \in 1 .. N : s[i] \in Nat
  OBVIOUS
<1>2. Totals(0) # {}
  <2>. DEFINE f == [n \in 0 .. 0 |-> 0]
  <2>1. f \in Totals(0)
    OBVIOUS
  <2>. QED
    BY <2>1
<1>3. ASSUME NEW m \in 1 .. N, Totals(m - 1) # {}
      PROVE  Totals(m) # {}
  <2>1. PICK f \in Totals(m - 1) : TRUE
    BY <1>3
  <2>2. f \in [0 .. (m - 1) -> Nat] /\ \A n \in 0 .. (m - 1) : f[n] = Step(f, n)
    BY <2>1
  <2>. DEFINE g == [n \in 0 .. m |-> IF n = m THEN f[m - 1] + s[m] ELSE f[n]]
  <2>3. f[m - 1] \in Nat /\ s[m] \in Nat
    BY <1>1, <2>2
  <2>4. g \in [0 .. m -> Nat]
    BY <2>2, <2>3
  <2>5. ASSUME NEW n \in 0 .. m PROVE g[n] = Step(g, n)
    <3>1. CASE n = m
      BY <2>2, <3>1
    <3>2. CASE n # m
      <4>1. n \in 0 .. (m - 1) /\ g[n] = f[n] /\ f[n] = Step(f, n)
        BY <2>2, <3>2
      <4>2. n # 0 => n - 1 \in 0 .. m /\ n - 1 # m /\ g[n - 1] = f[n - 1]
        BY <4>1
      <4>. QED
        BY <4>1, <4>2
    <3>. QED
      BY <3>1, <3>2
  <2>6. g \in Totals(m)
    BY <2>4, <2>5
  <2>. QED
    BY <2>6
<1>4. Totals(N) # {}
  <2>. SUFFICES ASSUME Totals(N) = {} PROVE FALSE
    OBVIOUS
  <2>. DEFINE Bad == {m \in 0 .. N : Totals(m) = {}}
  <2>. HIDE DEF Totals
  <2>1. Bad \in SUBSET Nat /\ Bad # {}
    BY <1>1
  <2>2. PICK m \in Bad : \A y \in Bad : m <= y
    <3>. HIDE DEF Bad
    <3>. QED
      BY <2>1, LeastOf
  <2>3. m # 0 /\ m \in 1 .. N /\ Totals(m) = {}
    BY <1>1, <1>2, <2>2
  <2>4. m - 1 \in 0 .. N /\ m - 1 \notin Bad
    <3>1. N \in Nat /\ m \in 1 .. N
      BY ONLY <1>1, <2>3
    <3>2. \A y \in Bad : m <= y
      BY <2>2
    <3>. HIDE DEF Bad, N
    <3>3. m - 1 \in 0 .. N /\ ~(m <= m - 1)
      BY ONLY <3>1
    <3>. QED
      BY ONLY <3>2, <3>3, Zenon
  <2>5. Totals(m - 1) # {}
    BY <2>4
  <2>. QED
    BY <1>3, <2>3, <2>5
<1>5. PICK f \in Totals(N) : TRUE
  BY <1>4
<1>6. f = [n \in 0 .. N |-> Step(f, n)]
  <2>1. f \in [0 .. N -> Nat] /\ \A n \in 0 .. N : f[n] = Step(f, n)
    BY <1>5
  <2>. HIDE DEF Step
  <2>. QED
    BY <2>1
<1>7. upTo = [n \in 0 .. N |-> Step(upTo, n)]
  <2>. HIDE DEF Step
  <2>. QED
    BY <1>6
<1>8. Total(s) = upTo[N]
  BY DEF Total
<1>. HIDE DEF upTo
<1>9. \A n \in 0 .. N : upTo[n] = Step(upTo, n)
  <2>. HIDE DEF Step
  <2>. QED
    BY <1>7
<1>10. \A n \in 0 .. N : upTo[n] \in Nat
  <2>. SUFFICES ASSUME NEW bad \in 0 .. N, upTo[bad] \notin Nat PROVE FALSE
    OBVIOUS
  <2>. DEFINE Bad == {n \in 0 .. N : upTo[n] \notin Nat}
  <2>1. Bad \in SUBSET Nat /\ Bad # {}
    <3>1. bad \in Bad
      BY Zenon
    <3>2. N \in Nat
      BY <1>1, Zenon
    <3>. HIDE DEF N
    <3>3. Bad \subseteq Nat
      BY ONLY <3>2
    <3>. HIDE DEF Bad
    <3>. QED
      BY ONLY <3>1, <3>3
  <2>2. PICK m \in Bad : \A y \in Bad : m <= y
    <3>. HIDE DEF Bad
    <3>. QED
      BY <2>1, LeastOf
  <2>3. m \in 0 .. N /\ upTo[m] \notin Nat /\ m # 0
    BY <1>1, <1>9, <2>2
  <2>4. m - 1 \in 0 .. N /\ m - 1 \notin Bad
    BY <1>1, <2>2, <2>3
  <2>5. upTo[m - 1] \in Nat /\ s[m] \in Nat
    BY <1>1, <2>3, <2>4
  <2>. QED
    BY <1>1, <1>9, <2>3, <2>5
<1>11. upTo \in [0 .. N -> Nat]
  <2>. HIDE DEF Step
  <2>. QED
    BY <1>7, <1>10
<1>12. Sums(s, upTo)
  BY <1>1, <1>9, <1>11 DEF Sums
<1>. QED
  BY <1>8, <1>12

LEMMA TotalIsNatural ==
    ASSUME NEW s \in Seq(Nat)
    PROVE  Total(s) \in Nat
<1>1. PICK upTo : Sums(s, upTo) /\ Total(s) = upTo[Len(s)]
  BY TotalRuns
<1>. QED
  BY <1>1 DEF Sums

\* What is smaller piece by piece is smaller in sum, at every prefix.
LEMMA SumsCompare ==
    ASSUME NEW s \in Seq(Nat), NEW t \in Seq(Nat), NEW k \in 0 .. Len(s), Len(s) <= Len(t),
           \A i \in 1 .. k : s[i] <= t[i],
           NEW f, Sums(s, f), NEW g, Sums(t, g)
    PROVE  f[k] <= g[k]
<1>. SUFFICES ASSUME ~(f[k] <= g[k]) PROVE FALSE
  OBVIOUS
<1>1. /\ f \in [0 .. Len(s) -> Nat] /\ f[0] = 0 /\ \A i \in 1 .. Len(s) : f[i] = f[i - 1] + s[i]
      /\ g \in [0 .. Len(t) -> Nat] /\ g[0] = 0 /\ \A i \in 1 .. Len(t) : g[i] = g[i - 1] + t[i]
      /\ Len(s) \in Nat /\ Len(t) \in Nat
  BY DEF Sums
<1>. DEFINE Bad == {i \in 0 .. k : ~(f[i] <= g[i])}
<1>2. Bad \in SUBSET Nat /\ Bad # {}
  <2>1. k \in Nat /\ k \in 0 .. k
    BY <1>1
  <2>. QED
    BY <2>1
<1>3. PICK m \in Bad : \A y \in Bad : m <= y
  <2>. HIDE DEF Bad
  <2>. QED
    BY <1>2, LeastOf
<1>4. m \in 1 .. k /\ ~(f[m] <= g[m])
  BY <1>1, <1>3
<1>5. m - 1 \in 0 .. k /\ f[m - 1] <= g[m - 1]
  BY <1>1, <1>3, <1>4
<1>6. /\ f[m] = f[m - 1] + s[m] /\ g[m] = g[m - 1] + t[m] /\ s[m] <= t[m]
      /\ {f[m - 1], g[m - 1], s[m], t[m]} \subseteq Nat
  <2>1. m \in 1 .. Len(s) /\ m \in 1 .. Len(t) /\ m - 1 \in 0 .. Len(s) /\ m - 1 \in 0 .. Len(t)
    BY <1>1, <1>4, <1>5
  <2>2. f[m] = f[m - 1] + s[m] /\ g[m] = g[m - 1] + t[m]
    BY <1>1, <2>1
  <2>3. f[m - 1] \in Nat /\ g[m - 1] \in Nat
    BY <1>1, <2>1
  <2>4. s[m] \in Nat /\ t[m] \in Nat
    BY ONLY <2>1, s \in Seq(Nat), t \in Seq(Nat), ElementOfSeq, Zenon
  <2>5. s[m] <= t[m]
    BY <1>4
  <2>. QED
    BY <2>2, <2>3, <2>4, <2>5
<1>7. f[m] <= g[m]
  <2>. DEFINE x == f[m - 1]
              y == g[m - 1]
              p == s[m]
              q == t[m]
  <2>1. f[m] = x + p /\ g[m] = y + q
    BY ONLY <1>6, Zenon
  <2>2. p <= q /\ x <= y
    BY ONLY <1>5, <1>6, Zenon
  <2>3. x \in Nat /\ y \in Nat /\ p \in Nat /\ q \in Nat
    BY ONLY <1>6
  <2>. HIDE DEF x, y, p, q
  <2>4. x + p <= y + q
    BY ONLY <2>2, <2>3
  <2>. QED
    BY ONLY <2>1, <2>4, Zenon
<1>. QED
  BY ONLY <1>4, <1>7, Zenon

LEMMA TotalsCompare ==
    ASSUME NEW s \in Seq(Nat), NEW t \in Seq(Nat), Len(s) = Len(t), \A i \in 1 .. Len(s) : s[i] <= t[i]
    PROVE  Total(s) <= Total(t)
<1>1. PICK f : Sums(s, f) /\ Total(s) = f[Len(s)]
  BY TotalRuns
<1>2. PICK g : Sums(t, g) /\ Total(t) = g[Len(t)]
  BY TotalRuns
<1>3. Len(s) \in 0 .. Len(s) /\ Len(s) <= Len(t)
  OBVIOUS
<1>4. f[Len(s)] <= g[Len(s)]
  BY <1>1, <1>2, <1>3, SumsCompare
<1>. QED
  BY <1>1, <1>2, <1>4

\* k equal pieces come to k times one.
LEMMA SumsOfEqual ==
    ASSUME NEW s \in Seq(Nat), NEW k \in 0 .. Len(s), NEW c \in Nat, \A i \in 1 .. k : s[i] = c,
           NEW f, Sums(s, f)
    PROVE  f[k] = c * k
<1>. SUFFICES ASSUME f[k] # c * k PROVE FALSE
  OBVIOUS
<1>1. /\ f \in [0 .. Len(s) -> Nat] /\ f[0] = 0 /\ \A i \in 1 .. Len(s) : f[i] = f[i - 1] + s[i]
      /\ Len(s) \in Nat
  BY DEF Sums
<1>. DEFINE Bad == {i \in 0 .. k : f[i] # c * i}
<1>2. Bad \in SUBSET Nat /\ Bad # {}
  <2>1. k \in Nat /\ k \in 0 .. k
    BY <1>1
  <2>. QED
    BY <2>1
<1>3. PICK m \in Bad : \A y \in Bad : m <= y
  <2>. HIDE DEF Bad
  <2>. QED
    BY <1>2, LeastOf
<1>4. m \in 1 .. k /\ f[m] # c * m
  BY <1>1, <1>3
<1>5. m - 1 \in 0 .. k /\ f[m - 1] = c * (m - 1)
  BY <1>1, <1>3, <1>4
<1>6. f[m] = f[m - 1] + c
  <2>1. m \in 1 .. Len(s) /\ s[m] = c
    BY <1>1, <1>4
  <2>2. f[m] = f[m - 1] + s[m]
    BY ONLY <1>1, <2>1
  <2>. QED
    BY ONLY <2>1, <2>2
<1>7. c * (m - 1) + c = c * m
  BY <1>4
<1>. QED
  BY <1>4, <1>5, <1>6, <1>7

\* Sizes that never exceed c sum to no more than c each.
LEMMA TotalBounded ==
    ASSUME NEW s \in Seq(Nat), NEW c \in Nat, \A i \in 1 .. Len(s) : s[i] <= c
    PROVE  Total(s) <= c * Len(s)
<1>. DEFINE t == [i \in 1 .. Len(s) |-> c]
<1>1. t \in Seq(Nat) /\ Len(t) = Len(s) /\ \A i \in 1 .. Len(s) : t[i] = c
  OBVIOUS
<1>. HIDE DEF t
<1>2. Total(s) <= Total(t)
  BY <1>1, TotalsCompare
<1>3. PICK g : Sums(t, g) /\ Total(t) = g[Len(t)]
  BY <1>1, TotalRuns
<1>4. Len(t) \in 0 .. Len(t) /\ \A i \in 1 .. Len(t) : t[i] = c
  BY ONLY <1>1
<1>5. g[Len(t)] = c * Len(t)
  <2>. DEFINE k == Len(t)
  <2>1. t \in Seq(Nat) /\ k \in 0 .. Len(t) /\ c \in Nat /\ Sums(t, g) /\ \A i \in 1 .. k : t[i] = c
    BY ONLY <1>1, <1>3, <1>4, c \in Nat
  <2>. HIDE DEF k
  <2>2. g[k] = c * k
    BY ONLY <2>1, SumsOfEqual
  <2>. QED
    BY ONLY <2>2 DEF k
<1>. QED
  BY <1>1, <1>2, <1>3, <1>5

LEMMA TotalOfEqual ==
    ASSUME NEW s \in Seq(Nat), NEW c \in Nat, \A i \in 1 .. Len(s) : s[i] = c
    PROVE  Total(s) = c * Len(s)
<1>1. PICK g : Sums(s, g) /\ Total(s) = g[Len(s)]
  BY TotalRuns
<1>2. Len(s) \in 0 .. Len(s)
  OBVIOUS
<1>3. g[Len(s)] = c * Len(s)
  BY <1>1, <1>2, SumsOfEqual
<1>. QED
  BY <1>1, <1>3

\* n bytes in pieces of w: all but the last are full, and the last is not empty.
LEMMA CountBounds ==
  ASSUME NEW n \in Nat \ {0}, NEW w \in Nat \ {0}
  PROVE  /\ Count(n, w) \in Nat \ {0}
         /\ LastPiece(n, w) \in 1 .. w
         /\ Count(n, w) = 1 => LastPiece(n, w) = n
<1>. DEFINE q == (n + w - 1) \div w
            m == (n + w - 1) % w
<1>1. q \in Int /\ m \in 0 .. (w - 1) /\ n + w - 1 = w * q + m
  OBVIOUS
<1>2. w * q \in Int /\ w * (q - 1) = w * q - w
  BY <1>1
<1>3. n - w * (q - 1) \in 1 .. w
  BY <1>1, <1>2
<1>4. q >= 1
  <2>. SUFFICES ASSUME q <= 0 PROVE FALSE
    BY <1>1
  <2>1. w * q <= 0
    BY <1>1
  <2>. QED
    BY <1>1, <2>1
<1>5. q = 1 => w * (q - 1) = 0
  BY <1>1
<1>. QED
  BY <1>1, <1>3, <1>4, <1>5 DEF Count, LastPiece

\* Cutting loses nothing and leaves no lone byte that reads as an opcode: every
\* piece fits its carrier, all but the last two are full, and the last two hold the
\* rest, for any length and any width (sliceScriptHashChunks and sliceEnvelopeChunks
\* in payload_encodings.js:115-147, 233-261).
THEOREM PiecesCover ==
  ASSUME NEW n \in Nat \ {0}, NEW w \in Nat \ {0, 1}, NEW minimal \in BOOLEAN
  PROVE  /\ \A i \in 1 .. Count(n, w) : Piece(n, w, minimal, i) \in 1 .. w
         /\ Count(n, w) >= 2 /\ minimal => Piece(n, w, minimal, Count(n, w)) # 1
         /\ \A i \in 1 .. (Count(n, w) - 2) : Piece(n, w, minimal, i) = w
         /\ IF Count(n, w) = 1
            THEN Piece(n, w, minimal, 1) = n
            ELSE w * (Count(n, w) - 2) + Piece(n, w, minimal, Count(n, w) - 1) + Piece(n, w, minimal, Count(n, w)) = n
<1>. DEFINE last == Count(n, w)
            rest == LastPiece(n, w)
            piece(i) == Piece(n, w, minimal, i)
            moved == Rebalanced(n, w, minimal)
<1>1. last \in Nat \ {0} /\ rest \in 1 .. w /\ (last = 1 => rest = n)
  BY CountBounds
<1>2. moved <=> last >= 2 /\ rest = 1 /\ minimal
  BY DEF Rebalanced
<1>3. piece(last) = IF moved THEN 2 ELSE rest
  <2>1. CASE moved
    BY <1>1, <2>1 DEF Piece
  <2>2. CASE ~moved
    BY <1>1, <2>2 DEF Piece
  <2>. QED
    BY <2>1, <2>2
<1>4. last >= 2 => piece(last - 1) = IF moved THEN w - 1 ELSE w
  BY <1>1 DEF Piece
<1>5. ASSUME NEW i \in 1 .. (last - 2) PROVE piece(i) = w
  BY <1>1, <1>5 DEF Piece
<1>6. rest = n - w * (last - 1)
  BY DEF LastPiece
<1>7. last >= 2 => w * (last - 1) = w * (last - 2) + w
  BY <1>1
<1>. HIDE DEF last, rest, piece, moved
<1>8. ASSUME NEW i \in 1 .. last PROVE piece(i) \in 1 .. w
  <2>1. i = last \/ (last >= 2 /\ i = last - 1) \/ i \in 1 .. (last - 2)
    BY <1>1
  <2>. QED
    BY <1>1, <1>2, <1>3, <1>4, <1>5, <2>1
<1>9. last >= 2 /\ minimal => piece(last) # 1
  BY <1>1, <1>2, <1>3
<1>10. last = 1 => piece(1) = n
  BY <1>1, <1>2, <1>3
<1>11. last # 1 => w * (last - 2) + piece(last - 1) + piece(last) = n
  <2>. SUFFICES ASSUME last # 1 PROVE w * (last - 2) + piece(last - 1) + piece(last) = n
    OBVIOUS
  <2>1. w * (last - 2) \in Int /\ w * (last - 1) \in Int /\ last >= 2
    BY <1>1
  <2>. QED
    BY <1>1, <1>2, <1>3, <1>4, <1>6, <1>7, <2>1
<1>. QED
  BY <1>5, <1>8, <1>9, <1>10, <1>11 DEF last, piece

LEMMA PieceFits ==
  ASSUME NEW n \in Nat \ {0}, NEW w \in Nat \ {0, 1}, NEW minimal \in BOOLEAN, NEW i \in 1 .. Count(n, w)
  PROVE  Piece(n, w, minimal, i) \in 1 .. w
BY PiecesCover

\* Whatever is cut for a leg or for a bare multisig fits where it goes: a redeem
\* or witness script is never longer than the element it is pushed as, and a slot
\* holds its magic and its piece (payload_encodings.js:65-113, 149-187).
THEOREM PiecesFitTheirCarriers ==
  ASSUME NEW n \in Nat \ {0}, NEW minimal \in BOOLEAN
  PROVE  /\ \A i \in 1 .. Count(n, ScriptHashChunk) :
               RedeemSize(Piece(n, ScriptHashChunk, minimal, i)) <= ElementSize
         /\ \A i \in 1 .. Count(n, MultisignChunk) :
               MagicBytes + Piece(n, MultisignChunk, minimal, i) <= MultisignSlot
         /\ n <= OpReturnCompiled => Count(n, OpReturnCompiled) = 1
<1>1. ScriptHashChunk = 476 /\ MultisignChunk = 60 /\ OpReturnCompiled = 76
  BY DEF ScriptHashChunk, MultisignChunk, OpReturnCompiled, ElementSize, MagicBytes, OpReturnSize
<1>2. ASSUME NEW i \in 1 .. Count(n, ScriptHashChunk)
      PROVE  RedeemSize(Piece(n, ScriptHashChunk, minimal, i)) <= ElementSize
  <2>. DEFINE chunk == Piece(n, ScriptHashChunk, minimal, i)
  <2>1. ScriptHashChunk \in Nat \ {0, 1}
    BY <1>1
  <2>2. chunk \in 1 .. ScriptHashChunk
    BY <2>1, PieceFits
  <2>. HIDE DEF chunk
  <2>3. RedeemSize(chunk) <= ElementSize
    BY <1>1, <2>2 DEF RedeemSize, ScriptPush, ElementSize
  <2>. QED
    BY <2>3 DEF chunk
<1>3. ASSUME NEW i \in 1 .. Count(n, MultisignChunk)
      PROVE  MagicBytes + Piece(n, MultisignChunk, minimal, i) <= MultisignSlot
  <2>1. MultisignChunk \in Nat \ {0, 1}
    BY <1>1
  <2>2. Piece(n, MultisignChunk, minimal, i) \in 1 .. MultisignChunk
    BY <2>1, PieceFits
  <2>. QED
    BY <1>1, <2>2 DEF MagicBytes, MultisignSlot
<1>4. n <= 76 => Count(n, 76) = 1
  BY DEF Count
<1>. QED
  BY <1>1, <1>2, <1>3, <1>4

\* The validator and the build agree on the size of every push to the byte; below
\* the last band the two sizes of the validator agree as well
\* (action_data_checks.js:55-80, 205-214).
THEOREM PushSizesAgree ==
  ASSUME NEW n \in Nat
  PROVE  /\ EnvelopePushSize(n) = ScriptPush(n)
         /\ n <= 65535 => CompiledPushSize(n) = ScriptPush(n)
BY DEF EnvelopePushSize, CompiledPushSize, ScriptPush

\* Cutting loses nothing: the pieces come to the bytes that were cut.
LEMMA PiecesAddUp ==
  ASSUME NEW n \in Nat \ {0}, NEW w \in Nat \ {0, 1}, NEW minimal \in BOOLEAN
  PROVE  /\ Pieces(n, w, minimal) \in Seq(Nat) /\ Len(Pieces(n, w, minimal)) = Count(n, w)
         /\ Total(Pieces(n, w, minimal)) = n
<1>. DEFINE last == Count(n, w)
            piece(i) == Piece(n, w, minimal, i)
            s == Pieces(n, w, minimal)
<1>1. last \in Nat \ {0}
  BY CountBounds
<1>2. /\ \A i \in 1 .. last : piece(i) \in 1 .. w
      /\ \A i \in 1 .. (last - 2) : piece(i) = w
      /\ IF last = 1 THEN piece(1) = n ELSE w * (last - 2) + piece(last - 1) + piece(last) = n
  BY PiecesCover
<1>3. s = [i \in 1 .. last |-> piece(i)]
  BY DEF Pieces
<1>. HIDE DEF last, piece, s
<1>4. s \in Seq(Nat) /\ Len(s) = last /\ \A i \in 1 .. last : s[i] = piece(i)
  <2>1. \A i \in 1 .. last : piece(i) \in Nat
    BY <1>2
  <2>. QED
    BY <1>1, <1>3, <2>1
<1>5. PICK f : Sums(s, f) /\ Total(s) = f[last]
  BY <1>4, TotalRuns
<1>6. /\ f[0] = 0 /\ \A i \in 1 .. last : f[i] = f[i - 1] + s[i] /\ f[i] \in Nat
  BY <1>1, <1>4, <1>5 DEF Sums
<1>7. CASE last = 1
  <2>1. f[1] = f[0] + s[1]
    BY <1>6, <1>7
  <2>2. s[1] = n
    BY <1>2, <1>4, <1>7
  <2>. QED
    BY <1>4, <1>5, <1>6, <1>7, <2>1, <2>2 DEF s, last
<1>8. CASE last # 1
  <2>1. last - 2 \in 0 .. Len(s) /\ \A i \in 1 .. (last - 2) : s[i] = w
    BY <1>1, <1>2, <1>4, <1>8
  <2>2. f[last - 2] = w * (last - 2)
    <3>. DEFINE k == last - 2
    <3>1. k \in 0 .. Len(s) /\ (\A i \in 1 .. k : s[i] = w) /\ w \in Nat /\ s \in Seq(Nat) /\ Sums(s, f)
      BY <1>4, <1>5, <2>1
    <3>. HIDE DEF k
    <3>2. f[k] = w * k
      BY ONLY <3>1, SumsOfEqual, ZenonT(60)
    <3>. QED
      BY <3>2 DEF k
  <2>3. f[last - 1] = f[last - 2] + s[last - 1]
    <3>1. last - 1 \in 1 .. last /\ (last - 1) - 1 = last - 2
      BY <1>1, <1>8
    <3>. QED
      BY <1>6, <3>1
  <2>4. f[last] = f[last - 1] + s[last]
    BY <1>1, <1>6
  <2>5. s[last] = piece(last) /\ s[last - 1] = piece(last - 1)
    BY <1>1, <1>4, <1>8
  <2>6. w * (last - 2) + piece(last - 1) + piece(last) = n
    BY <1>2, <1>8
  <2>7. Total(s) = n
    <3>1. f[last] = (w * (last - 2) + piece(last - 1)) + piece(last)
      BY <2>2, <2>3, <2>4, <2>5, Zenon
    <3>. QED
      BY <1>5, <2>6, <3>1, Zenon
  <2>. QED
    BY <1>4, <2>7 DEF s, last
<1>. QED
  BY <1>7, <1>8
-----------------------------------------------------------------------------
(* The checked fields.                                                     *)

\* A double holds every amount up to the safe bound, and keeps the larger ones large.
LEMMA DoubleKeeps ==
    ASSUME NEW n \in Int
    PROVE  /\ Double(n) \in Int
           /\ Double(n) <= SafeMax => Double(n) = n
           /\ n <= SafeMax => Double(n) = n
           /\ Double(n) = 0 <=> n = 0
           /\ Double(n) >= 0 <=> n >= 0
<1>1. SafeMax \in Nat /\ SafeMax > 0
  BY WidthsAssumption
<1>2. CASE n <= SafeMax
  BY <1>1, <1>2 DEF Double
<1>3. CASE n > SafeMax
  <2>1. Double(n) = 2 * ((n + 1) \div 2)
    BY <1>1, <1>3 DEF Double
  <2>2. (n + 1) \div 2 \in Int /\ 2 * ((n + 1) \div 2) >= n
    OBVIOUS
  <2>. QED
    BY <1>1, <1>3, <2>1, <2>2
<1>. QED
  BY <1>1, <1>2, <1>3

LEMMA Typed ==
    ASSUME NEW v \in JsonValues
    PROVE  /\ v.as \in JsonForms /\ v.n \in Int
           /\ Meant(v) \in Int
           /\ v.as = "digits" => Whole(v)
<1>1. v \in [as : JsonForms, n : Int] /\ (v.as = "digits" => v.n % 2 = 0)
  BY DEF JsonValues
<1>2. v.as \in JsonForms /\ v.n \in Int
  BY <1>1
<1>. QED
  BY <1>1, <1>2 DEF Meant, Whole

\* What an exact amount is.
LEMMA ExactInt ==
    ASSUME NEW v \in JsonValues, NEW x \in ToExactInt(v)
    PROVE  /\ x = Double(Meant(v)) /\ x \in Int /\ Whole(v)
           /\ ~Unset(v)
<1>1. v.as \in JsonForms /\ v.n \in Int /\ Meant(v) \in Int /\ (v.as = "digits" => Whole(v))
  BY Typed
<1>2. ((v.as = "number" /\ Whole(v)) \/ v.as = "digits") /\ x = Double(Meant(v))
  BY DEF ToExactInt, Meant
<1>3. x \in Int
  BY <1>1, <1>2, DoubleKeeps
<1>. QED
  BY <1>1, <1>2, <1>3 DEF Unset, Absent

LEMMA OneIsTaken ==
    ASSUME NEW S, S # {} PROVE TheOne(S) \in S
BY DEF TheOne

LEMMA BoundedAmount ==
    ASSUME NEW v \in JsonValues, NEW bound \in Nat, bound <= SafeMax, NEW least \in Nat,
           NEW x \in ToExactInt(v) \cap least .. bound
    PROVE  x = Meant(v) /\ Whole(v) /\ ~Unset(v)
<1>1. x = Double(Meant(v)) /\ x \in Int /\ Whole(v) /\ ~Unset(v) /\ Meant(v) \in Int
  BY ExactInt, Typed
<1>2. x <= SafeMax
  BY <1>1, WidthsAssumption
<1>. QED
  BY <1>1, <1>2, DoubleKeeps

LEMMA FeeAsWritten ==
    ASSUME NEW v \in JsonValues, ValidateFee(v) # {}
    PROVE  LET x == TheOne(ValidateFee(v))
           IN  x = (IF Unset(v) THEN None ELSE Meant(v)) /\ (x # None => Whole(v))
<1>. DEFINE x == TheOne(ValidateFee(v))
<1>1. x \in ValidateFee(v)
  BY OneIsTaken
<1>2. CASE Unset(v)
  BY <1>1, <1>2 DEF ValidateFee
<1>3. CASE ~Unset(v)
  <2>1. x \in ToExactInt(v) \cap 0 .. FeeMax
    BY <1>1, <1>3 DEF ValidateFee
  <2>2. FeeMax \in Nat /\ FeeMax <= SafeMax
    BY WidthsAssumption
  <2>. HIDE DEF x
  <2>3. x = Meant(v) /\ Whole(v)
    BY <2>1, <2>2, BoundedAmount
  <2>. QED
    BY <1>3, <2>3 DEF x
<1>. QED
  BY <1>2, <1>3

LEMMA FeePerKbAsWritten ==
    ASSUME NEW v \in JsonValues, ValidateFeePerKb(v) # {}
    PROVE  TheOne(ValidateFeePerKb(v)) = (IF Unset(v) THEN None ELSE v.n)
<1>1. TheOne(ValidateFeePerKb(v)) \in ValidateFeePerKb(v)
  BY OneIsTaken
<1>2. ValidateFeePerKb(v) \subseteq {IF Unset(v) THEN None ELSE v.n}
  BY DEF ValidateFeePerKb
<1>. QED
  BY <1>1, <1>2

LEMMA AmountAsWritten ==
    ASSUME NEW v \in JsonValues, ParseSatoshiAmount(v) # {}
    PROVE  TheOne(ParseSatoshiAmount(v)) = Meant(v) /\ Whole(v)
<1>. DEFINE x == TheOne(ParseSatoshiAmount(v))
<1>1. x \in ParseSatoshiAmount(v)
  BY OneIsTaken
<1>2. CASE x \in {n \in ToExactInt(v) : n \in 0 .. SafeMax}
  <2>1. x \in ToExactInt(v) \cap 0 .. SafeMax /\ SafeMax \in Nat
    BY <1>2, WidthsAssumption
  <2>. HIDE DEF x
  <2>2. x = Meant(v) /\ Whole(v)
    BY <2>1, BoundedAmount
  <2>. QED
    BY <2>2 DEF x
<1>3. CASE v.as = "digits" /\ x = v.n \div 2
  BY <1>3, Typed DEF Meant
<1>. QED
  BY <1>1, <1>2, <1>3 DEF ParseSatoshiAmount

LEMMA ConfirmationsAsWritten ==
    ASSUME NEW v \in JsonValues, ValidateConfirmations(v) # {}
    PROVE  TheOne(ValidateConfirmations(v)) = 0 <=> Absent(v) \/ Meant(v) = 0
<1>. DEFINE x == TheOne(ValidateConfirmations(v))
<1>1. x \in ValidateConfirmations(v)
  BY OneIsTaken
<1>2. CASE Absent(v)
  BY <1>1, <1>2 DEF ValidateConfirmations
<1>3. CASE ~Absent(v)
  <2>1. x \in ToExactInt(v)
    BY <1>1, <1>3 DEF ValidateConfirmations
  <2>. HIDE DEF x
  <2>2. x = Double(Meant(v)) /\ Meant(v) \in Int
    BY <2>1, ExactInt, Typed
  <2>3. x = 0 <=> Meant(v) = 0
    BY <2>2, DoubleKeeps
  <2>. QED
    BY <1>3, <2>3 DEF x
<1>. QED
  BY <1>2, <1>3

LEMMA FlagAsWritten ==
    ASSUME NEW v \in JsonValues, ValidateOptionalBoolean(v) # {}
    PROVE  /\ TheOne(ValidateOptionalBoolean(v)) = MeantFlag(v)
           /\ MeantFlag(v) \in {None, TRUE, FALSE}
           /\ v.as \in {"null", "true", "false"}
<1>1. TheOne(ValidateOptionalBoolean(v)) \in ValidateOptionalBoolean(v)
  BY OneIsTaken
<1>2. CASE v.as = "null"
  BY <1>1, <1>2 DEF ValidateOptionalBoolean, MeantFlag, Absent
<1>3. CASE v.as = "true"
  BY <1>1, <1>3 DEF ValidateOptionalBoolean, MeantFlag, Absent
<1>4. CASE v.as = "false"
  BY <1>1, <1>4 DEF ValidateOptionalBoolean, MeantFlag, Absent
<1>5. v.as \in {"null", "true", "false"}
  BY DEF ValidateOptionalBoolean, Absent
<1>. QED
  BY <1>2, <1>3, <1>4, <1>5

LEMMA ElementOf ==
    ASSUME NEW S, NEW s \in Seq(S), NEW i \in DOMAIN s
    PROVE  s[i] \in S
OBVIOUS

\* What the validator accepts is taken as it was written.
LEMMA AcceptedAsWritten ==
    ASSUME NEW r \in CreateCalls, PaymentFieldsAccepted(r), PolicyFieldsAccepted(r)
    PROVE  AsWritten(r, Checked(r))
<1>. DEFINE u == Checked(r)
<1>1. /\ r.fee \in JsonValues /\ r.feePerKb \in JsonValues /\ r.dust \in JsonValues
      /\ r.utxos \in Seq(Utxos) /\ r.payments \in Seq(Payments)
      /\ r.quote \in {None} \cup Quotes
      /\ r.flags \in [Flags -> JsonValues]
  BY DEF CreateCalls
<1>2. u.fee = (IF Unset(r.fee) THEN None ELSE Meant(r.fee)) /\ (u.fee # None => Whole(r.fee))
  <2>1. u.fee = TheOne(ValidateFee(r.fee))
    BY DEF Checked
  <2>. HIDE DEF u
  <2>. QED
    BY <1>1, <2>1, FeeAsWritten DEF PaymentFieldsAccepted
<1>3. u.dust = (IF Unset(r.dust) THEN None ELSE Meant(r.dust)) /\ (u.dust # None => Whole(r.dust))
  <2>1. u.dust = TheOne(ValidateFee(r.dust))
    BY DEF Checked
  <2>. HIDE DEF u
  <2>. QED
    BY <1>1, <2>1, FeeAsWritten DEF PaymentFieldsAccepted
<1>4. u.feePerKb = (IF Unset(r.feePerKb) THEN None ELSE r.feePerKb.n)
  <2>1. u.feePerKb = TheOne(ValidateFeePerKb(r.feePerKb))
    BY DEF Checked
  <2>. HIDE DEF u
  <2>. QED
    BY <1>1, <2>1, FeePerKbAsWritten DEF PaymentFieldsAccepted
<1>5. ASSUME NEW i \in DOMAIN r.payments
      PROVE  u.payments[i] = Meant(r.payments[i].value) /\ Whole(r.payments[i].value)
  <2>1. u.payments[i] = TheOne(ParseSatoshiAmount(r.payments[i].value))
    BY DEF Checked
  <2>2. r.payments[i].value \in JsonValues
    <3>1. r.payments[i] \in Payments
      BY <1>1, ElementOf
    <3>. QED
      BY <3>1 DEF Payments
  <2>3. ParseSatoshiAmount(r.payments[i].value) # {}
    BY DEF PaymentFieldsAccepted, OutputAccepted
  <2>. HIDE DEF u
  <2>. QED
    BY <2>1, <2>2, <2>3, AmountAsWritten
<1>6. ASSUME r.quote # None PROVE u.quote = Meant(r.quote.amount) /\ Whole(r.quote.amount)
  <2>1. u.quote = TheOne(ValidateQuoteAmount(r.quote.amount))
    BY <1>6 DEF Checked
  <2>2. r.quote.amount \in JsonValues
    BY <1>1, <1>6 DEF Quotes
  <2>3. ValidateQuoteAmount(r.quote.amount) # {}
    BY <1>6 DEF PaymentFieldsAccepted, QuoteAccepted
  <2>4. u.quote \in ToExactInt(r.quote.amount) \cap 1 .. FeeMax
    BY <2>1, <2>3, OneIsTaken DEF ValidateQuoteAmount
  <2>5. FeeMax \in Nat /\ FeeMax <= SafeMax
    BY WidthsAssumption
  <2>. HIDE DEF u
  <2>. QED
    BY <2>2, <2>4, <2>5, BoundedAmount
<1>7. ASSUME NEW i \in DOMAIN r.utxos
      PROVE  /\ u.utxos[i].vout = Meant(r.utxos[i].vout) /\ Whole(r.utxos[i].vout)
             /\ u.utxos[i].value = Meant(r.utxos[i].value) /\ Whole(r.utxos[i].value)
             /\ u.utxos[i].confirmations = 0 <=>
                  Absent(r.utxos[i].confirmations) \/ Meant(r.utxos[i].confirmations) = 0
  <2>. DEFINE t == r.utxos[i]
              spent == u.utxos[i]
  <2>1. /\ spent.vout = TheOne(ValidateOutpoint(t))
        /\ spent.value = TheOne(ParseSatoshiAmount(t.value))
        /\ spent.confirmations = TheOne(ValidateConfirmations(t.confirmations))
    BY DEF Checked
  <2>2. t \in Utxos
    BY <1>1, ElementOf
  <2>3. t.vout \in JsonValues /\ t.value \in JsonValues /\ t.confirmations \in JsonValues
    BY <2>2 DEF Utxos
  <2>4. UtxoAccepted(t)
    BY DEF PaymentFieldsAccepted
  <2>. HIDE DEF spent, t, u
  <2>5. spent.vout \in ValidateOutpoint(t)
    BY <2>1, <2>4, OneIsTaken DEF UtxoAccepted
  <2>6. spent.vout \in ToExactInt(t.vout) \cap 0 .. IndexMax
    BY <2>5 DEF ValidateOutpoint
  <2>7. IndexMax \in Nat /\ IndexMax <= SafeMax
    BY WidthsAssumption
  <2>8. spent.vout = Meant(t.vout) /\ Whole(t.vout)
    BY <2>3, <2>6, <2>7, BoundedAmount
  <2>9. spent.value = Meant(t.value) /\ Whole(t.value)
    BY <2>1, <2>3, <2>4, AmountAsWritten DEF UtxoAccepted
  <2>10. spent.confirmations = 0 <=> Absent(t.confirmations) \/ Meant(t.confirmations) = 0
    BY <2>1, <2>3, <2>4, ConfirmationsAsWritten DEF UtxoAccepted
  <2>. QED
    BY <2>8, <2>9, <2>10 DEF t, spent
<1>8. ASSUME NEW flag \in Flags PROVE u.flags[flag] = MeantFlag(r.flags[flag])
  <2>1. u.flags[flag] = TheOne(ValidateOptionalBoolean(r.flags[flag]))
    BY DEF Checked
  <2>2. r.flags[flag] \in JsonValues
    BY <1>1
  <2>3. ValidateOptionalBoolean(r.flags[flag]) # {}
    BY DEF PolicyFieldsAccepted
  <2>. HIDE DEF u
  <2>. QED
    BY <2>1, <2>2, <2>3, FlagAsWritten
<1>. QED
  BY <1>2, <1>3, <1>4, <1>5, <1>6, <1>7, <1>8 DEF AsWritten

-----------------------------------------------------------------------------
(* The way of the payload.                                                 *)

LEMMA SizesAgree ==
    ASSUME NEW n \in Nat
    PROVE  ScriptPush(n) = EnvelopePushSize(n) /\ ScriptPush(n) \in Nat \ {0}
BY DEF ScriptPush, EnvelopePushSize, CompiledPushSize

\* What the request and the network make of a payload, wherever it is computed.
CompiledOf(a, r) == ScriptPush(LengthOf(a)) + (IF r = None THEN 0 ELSE ScriptPush(r.length))

Payable(a, r) == LengthOf(a) > 0 \/ r # None

Fits(a, r) == CompiledOf(a, r) + MagicBytes <= OpReturnSize

Settled(a, r) ==
    IF request.encoding # "AUTO" THEN request.encoding
    ELSE IF Fits(a, r) THEN "OP_RETURN"
    ELSE IF ~network.segwit THEN "P2SH"
    ELSE IF MeantFlag(request.flags["signerSupportsTapscript"]) = TRUE /\ request.key # None THEN "TAPROOT"
    ELSE "P2WSH"

CarrierOf(a, r) ==
    IF ~Payable(a, r) THEN "OP_RETURN"
    ELSE IF Settled(a, r) = None THEN (IF Fits(a, r) THEN "OP_RETURN" ELSE "P2SH")
    ELSE Settled(a, r)

Fired == report # None /\ report.fired

FieldsAccepted(r) == PaymentFieldsAccepted(r) /\ PolicyFieldsAccepted(r)

\* What CheckPayloadInput asks, of the request alone.
InputFits ==
    /\ request.buffers \/ (RoundTrips(request.action) /\ RoundTrips(request.raw))
    /\ \A i \in DOMAIN request.payments :
         OnNetwork(request.payments[i].address) /\ Checked(request).payments[i] >= PaymentFloor
    /\ request.quote # None => OnNetwork(request.quote.address)
    /\ request.change # None => OnNetwork(request.change)

Steps == {"enter", "check", "compress", "compile", "envelope", "prepare", "done"} \cup Refusals

Running == pc \notin {"enter", "INVALID"}

PathTyped ==
    /\ network \in Networks /\ request \in CreateCalls /\ defaultOn \in BOOLEAN /\ height \in Nat
    /\ action \in {None} \cup ActionPayloads /\ raw \in {None} \cup RawPayloads
    /\ report \in {None} \cup [fired : BOOLEAN]
    /\ pc \in Steps

\* A marker of ours stands for deflated bytes, and they for it.
Marked(a, r) ==
    /\ a # None /\ a.codec = "ours" => r # None /\ r.form = "deflated"
    /\ r # None /\ r.form = "deflated" => a # None /\ a.class = "file" /\ a.codec = "ours"

RequestOK ==
    /\ request.surface = "library" => request.encoding \in Encodings \cup {None} /\ FieldsAccepted(request)
    /\ Marked(request.action, request.raw)

TakenOK ==
    Running =>
        /\ use = Checked(request) /\ FieldsAccepted(request)
        /\ request.encoding \in Encodings \cup {None}
        /\ request.surface = "rpc" => ValidateAll(request)
        /\ pc # "check" => InputFits

\* The payload is the caller's, or a file's of which both halves were rewritten.
Rewritten ==
    /\ request.action \in ActionPayloads /\ request.action.class = "file" /\ request.action.codec = "none"
    /\ action \in ActionPayloads /\ action.class = "file" /\ action.codec = "ours"
    /\ action.roundTrips = request.action.roundTrips
    /\ request.raw \in RawPayloads /\ raw \in RawPayloads /\ raw.form = "deflated"
    /\ raw.roundTrips = request.raw.roundTrips

PayloadOK ==
    /\ pc \in {"check", "compress"} => report = None
    /\ pc \in {"check", "compress", "compile"} => encoding = request.encoding
    /\ Running /\ ~Fired => action = request.action /\ raw = request.raw
    /\ Running /\ Fired => Rewritten

Recognized == network.segwit /\ network.recognition # None /\ height >= network.recognition

SettledOK ==
    /\ pc \in {"envelope", "prepare", "TOO_LARGE"} => encoding = Settled(action, raw)
    /\ pc \in {"done", "OP_RETURN_TOO_LARGE"} => encoding = CarrierOf(action, raw)
    /\ pc = "TOO_LARGE" => CompiledOf(action, raw) > CeilingOf(encoding)
    /\ pc = "OP_RETURN_TOO_LARGE" =>
         Payable(action, raw) /\ encoding = "OP_RETURN" /\ CompiledOf(action, raw) > OpReturnCompiled
    /\ pc \in {"envelope", "prepare", "done"} =>
         /\ PushDecodable(action) /\ PushDecodable(raw)
         /\ CompiledOf(action, raw) <= CeilingOf(Settled(action, raw))
         /\ Settled(action, raw) = "P2WSH" => network.segwit
    /\ pc \in {"prepare", "done"} /\ Settled(action, raw) = "TAPROOT" => Recognized
    /\ pc = "done" /\ Payable(action, raw) =>
         /\ pieces = Cut(encoding)
         /\ encoding = "OP_RETURN" => CompiledOf(action, raw) <= OpReturnCompiled
         /\ encoding \in {"P2SH", "P2WSH"} => request.pubkey # "taproot-address"

\* What the second call is made of, and that it comes to what the first one did.
SecondOK ==
    /\ first.encoding \in {"P2SH", "P2WSH"}
    /\ request.action = first.action /\ request.raw = first.raw
    /\ Payable(first.action, first.raw)
    /\ PushDecodable(first.action) /\ PushDecodable(first.raw)
    /\ CompiledOf(first.action, first.raw) <= LegacyCeiling
    /\ CarrierOf(first.action, first.raw) = first.encoding
    /\ Settled(first.action, first.raw) = "P2WSH" => network.segwit
    /\ InputFits /\ FieldsAccepted(request) /\ request.encoding \in Encodings \cup {None}
    /\ request.surface = "rpc" => ValidateAll(request)
    /\ request.pubkey # "taproot-address"
    /\ first.fired => request.action # None /\ request.action.codec = "ours"
    /\ request.flags["compress"].as \in {"null", "false"}

RebuildOK ==
    first.fired \/ request.flags["compress"].as = "false" =>
        /\ pc \notin Refusals
        /\ pc # "enter" => action = first.action /\ raw = first.raw

PathInv ==
    /\ PathTyped /\ RequestOK /\ TakenOK /\ PayloadOK /\ SettledOK
    /\ Reveals => SecondOK /\ RebuildOK

\* The state's names for what the payload comes to.
LEMMA SameSums ==
    /\ Compiled = CompiledOf(action, raw) /\ HasPayload = Payable(action, raw)
BY DEF Compiled, CompiledOf, HasPayload, Payable

LEMMA CompiledNat ==
    ASSUME NEW a \in {None} \cup ActionPayloads, NEW r \in {None} \cup RawPayloads
    PROVE  /\ LengthOf(a) \in Nat /\ CompiledOf(a, r) \in Nat
           /\ r # None => r.length \in Nat
<1>1. LengthOf(a) \in Nat
  BY DEF LengthOf, ActionPayloads
<1>2. r # None => r.length \in Nat
  BY DEF RawPayloads
<1>. QED
  BY <1>1, <1>2, SizesAgree DEF CompiledOf

LEMMA FlagKept ==
    ASSUME NEW r \in CreateCalls, FieldsAccepted(r), NEW flag \in Flags
    PROVE  /\ Checked(r).flags[flag] = MeantFlag(r.flags[flag])
           /\ MeantFlag(r.flags[flag]) \in {None, TRUE, FALSE}
           /\ r.flags[flag].as \in {"null", "true", "false"}
<1>1. r.flags[flag] \in JsonValues
  BY DEF CreateCalls
<1>2. ValidateOptionalBoolean(r.flags[flag]) # {}
  BY DEF FieldsAccepted, PolicyFieldsAccepted
<1>3. Checked(r).flags[flag] = TheOne(ValidateOptionalBoolean(r.flags[flag]))
  BY DEF Checked
<1>. QED
  BY <1>1, <1>2, <1>3, FlagAsWritten

\* The build settles where the invariant says.
LEMMA SettlesThere ==
    ASSUME PathTyped, TakenOK, Running
    PROVE  (IF request.encoding = "AUTO" THEN SelectEncoding ELSE request.encoding) = Settled(action, raw)
<1>1. use.flags["signerSupportsTapscript"] = MeantFlag(request.flags["signerSupportsTapscript"])
  BY FlagKept DEF PathTyped, TakenOK, Flags
<1>2. network.segwit \in BOOLEAN
  BY RequestsAssumption DEF PathTyped
<1>3. SelectEncoding = IF Fits(action, raw) THEN "OP_RETURN"
                       ELSE IF ~network.segwit THEN "P2SH"
                       ELSE IF MeantFlag(request.flags["signerSupportsTapscript"]) = TRUE /\ request.key # None
                            THEN "TAPROOT" ELSE "P2WSH"
  <2>1. Fits(action, raw) <=> Compiled + MagicBytes <= OpReturnSize
    BY SameSums DEF Fits
  <2>2. Compiled \in Nat
    BY SameSums, CompiledNat DEF PathTyped
  <2>3. CASE Compiled + MagicBytes <= OpReturnSize
    BY <2>1, <2>2, <2>3 DEF SelectEncoding, MagicBytes, OpReturnSize
  <2>4. CASE Compiled + MagicBytes > OpReturnSize
    <3>1. ~(Compiled + MagicBytes <= OpReturnSize)
      BY <2>2, <2>4 DEF MagicBytes, OpReturnSize
    <3>2. CASE ~network.segwit
      BY <2>1, <2>4, <3>1, <3>2 DEF SelectEncoding
    <3>3. CASE network.segwit
      BY <1>1, <2>1, <2>4, <3>1, <3>3 DEF SelectEncoding
    <3>. QED
      BY <3>2, <3>3
  <2>5. Compiled + MagicBytes <= OpReturnSize \/ Compiled + MagicBytes > OpReturnSize
    BY <2>2 DEF MagicBytes, OpReturnSize
  <2>. QED
    BY <2>3, <2>4, <2>5
<1>. QED
  BY <1>3 DEF Settled

\* A library caller's fields are judged without its payload.
LEMMA LibraryFields ==
    ASSUME NEW r \in CreateCalls, ValidateAll([r EXCEPT !.action = None, !.raw = None, !.encoding = None])
    PROVE  FieldsAccepted(r)
<1>. DEFINE s == [r EXCEPT !.action = None, !.raw = None, !.encoding = None]
<1>1. /\ s.fee = r.fee /\ s.feePerKb = r.feePerKb /\ s.dust = r.dust /\ s.utxos = r.utxos
      /\ s.payments = r.payments /\ s.quote = r.quote /\ s.p2sh = r.p2sh /\ s.key = r.key
      /\ s.change = r.change /\ s.flags = r.flags
  BY DEF CreateCalls
<1>2. PaymentFieldsAccepted(s) /\ PolicyFieldsAccepted(s)
  BY DEF ValidateAll
<1>. HIDE DEF s
<1>3. PaymentFieldsAccepted(r)
  BY <1>1, <1>2 DEF PaymentFieldsAccepted
<1>4. PolicyFieldsAccepted(r)
  BY <1>1, <1>2 DEF PolicyFieldsAccepted
<1>. QED
  BY <1>3, <1>4 DEF FieldsAccepted

LEMMA InitPath == Init => PathInv
<1>. SUFFICES ASSUME Init PROVE PathInv
  OBVIOUS
<1>1. /\ network \in Networks /\ request \in Requests /\ request \in CreateCalls
      /\ defaultOn \in BOOLEAN /\ height = 0 /\ pc = "enter"
      /\ action = None /\ raw = None /\ report = None
  BY RequestsAssumption DEF Init
<1>2. PathTyped
  BY <1>1 DEF PathTyped, Steps
<1>3. RequestOK
  <2>1. request.surface = "library" => request.encoding \in Encodings \cup {None} /\ FieldsAccepted(request)
    BY <1>1, RequestsAssumption, LibraryFields
  <2>2. /\ request.action # None => request.action.codec \in {"none", "callers"}
        /\ request.raw # None => request.raw.form = "given"
    BY <1>1, RequestsAssumption
  <2>. QED
    BY <2>1, <2>2 DEF RequestOK, Marked
<1>4. ~Reveals
  BY <1>1, RequestsAssumption DEF Reveals
<1>. QED
  BY <1>1, <1>2, <1>3, <1>4 DEF PathInv, TakenOK, PayloadOK, SettledOK, Running

\* What a request, the network and a first call say stays true while they stay.
LEMMA StaysSaid ==
    ASSUME UNCHANGED <<network, request, first>>
    PROVE  /\ Reveals' <=> Reveals
           /\ SecondOK => SecondOK'
           /\ RequestOK => RequestOK'
           /\ InputFits' <=> InputFits
<1>1. network' = network /\ request' = request /\ first' = first
  OBVIOUS
<1>2. Reveals' <=> Reveals
  BY <1>1 DEF Reveals
<1>3. InputFits' <=> InputFits
  BY <1>1 DEF InputFits
<1>4. RequestOK => RequestOK'
  BY <1>1 DEF RequestOK
<1>5. ASSUME SecondOK PROVE SecondOK'
  <2>1. CarrierOf(first.action, first.raw)' = CarrierOf(first.action, first.raw)
    BY <1>1 DEF CarrierOf, Settled
  <2>2. Settled(first.action, first.raw)' = Settled(first.action, first.raw)
    BY <1>1 DEF Settled
  <2>. QED
    BY <1>1, <1>3, <1>5, <2>1, <2>2 DEF SecondOK
<1>. QED
  BY <1>2, <1>3, <1>4, <1>5

LEMMA EnterKeeps == ASSUME PathInv, Enter PROVE PathInv'
<1>1. /\ pc = "enter" /\ report' = None /\ pieces' = <<>>
      /\ network' = network /\ request' = request /\ defaultOn' = defaultOn /\ height' = height /\ first' = first
      /\ \/ /\ request.surface = "rpc" /\ ~ValidateAll(request)
            /\ pc' = "INVALID" /\ UNCHANGED <<use, action, raw, encoding>>
         \/ /\ request.surface = "rpc" => ValidateAll(request)
            /\ pc' = "check" /\ use' = Checked(request)
            /\ action' = request.action /\ raw' = request.raw /\ encoding' = request.encoding
  BY DEF Enter
<1>2. PathTyped /\ RequestOK /\ (Reveals => SecondOK)
  BY DEF PathInv
<1>3. (Reveals' <=> Reveals) /\ (SecondOK => SecondOK') /\ RequestOK'
  BY <1>1, <1>2, StaysSaid
<1>4. PathTyped'
  BY <1>1, <1>2 DEF PathTyped, Steps, Refusals, PayloadRefusals, CreateCalls
<1>5. ASSUME pc' = "check", request.surface = "rpc" => ValidateAll(request)
      PROVE  FieldsAccepted(request) /\ request.encoding \in Encodings \cup {None}
  <2>1. request.surface \in {"rpc", "library"}
    BY <1>2 DEF PathTyped, CreateCalls
  <2>2. CASE request.surface = "library"
    BY <1>2, <2>2 DEF RequestOK
  <2>3. CASE request.surface = "rpc"
    BY <1>5, <2>3 DEF ValidateAll, ActionFieldsAccepted, FieldsAccepted
  <2>. QED
    BY <2>1, <2>2, <2>3
<1>6. TakenOK'
  BY <1>1, <1>5 DEF TakenOK, Running
<1>7. PayloadOK'
  BY <1>1 DEF PayloadOK, Running, Fired
<1>8. SettledOK'
  BY <1>1 DEF SettledOK
<1>9. ASSUME Reveals PROVE RebuildOK'
  BY <1>1, <1>2, <1>9 DEF RebuildOK, SecondOK, Refusals, PayloadRefusals
<1>. QED
  BY <1>2, <1>3, <1>4, <1>6, <1>7, <1>8, <1>9 DEF PathInv

LEMMA CheckKeeps == ASSUME PathInv, CheckPayloadInput PROVE PathInv'
<1>. DEFINE fine == /\ request.buffers \/ (RoundTrips(action) /\ RoundTrips(raw))
                    /\ \A i \in DOMAIN request.payments :
                         OnNetwork(request.payments[i].address) /\ use.payments[i] >= PaymentFloor
                    /\ request.quote # None => OnNetwork(request.quote.address)
                    /\ request.change # None => OnNetwork(request.change)
<1>1. /\ pc = "check" /\ pc' = IF fine THEN "compress" ELSE "INVALID"
      /\ network' = network /\ request' = request /\ defaultOn' = defaultOn /\ height' = height /\ first' = first
      /\ use' = use /\ action' = action /\ raw' = raw /\ report' = report /\ encoding' = encoding /\ pieces' = pieces
  BY DEF CheckPayloadInput
<1>2. PathTyped /\ RequestOK /\ TakenOK /\ PayloadOK /\ (Reveals => SecondOK /\ RebuildOK)
  BY DEF PathInv
<1>3. (Reveals' <=> Reveals) /\ (SecondOK => SecondOK') /\ RequestOK' /\ (InputFits' <=> InputFits)
  BY <1>1, <1>2, StaysSaid
<1>4. action = request.action /\ raw = request.raw /\ use = Checked(request) /\ encoding = request.encoding
      /\ report = None
  BY <1>1, <1>2 DEF TakenOK, PayloadOK, Running, Fired
<1>5. fine <=> InputFits
  BY <1>4 DEF InputFits
<1>. HIDE DEF fine
<1>6. PathTyped'
  BY <1>1, <1>2 DEF PathTyped, Steps, Refusals, PayloadRefusals
<1>7. TakenOK'
  BY <1>1, <1>2, <1>3, <1>5 DEF TakenOK, Running
<1>8. PayloadOK'
  BY <1>1, <1>4 DEF PayloadOK, Running, Fired
<1>9. SettledOK'
  BY <1>1 DEF SettledOK
<1>10. ASSUME Reveals PROVE RebuildOK'
  <2>1. pc' = "compress"
    BY <1>1, <1>2, <1>5, <1>10 DEF SecondOK
  <2>2. action = first.action /\ raw = first.raw
    BY <1>2, <1>4, <1>10 DEF SecondOK
  <2>. QED
    BY <1>1, <2>1, <2>2 DEF RebuildOK, Refusals, PayloadRefusals
<1>. QED
  BY <1>2, <1>3, <1>6, <1>7, <1>8, <1>9, <1>10 DEF PathInv

LEMMA CompressKeeps == ASSUME PathInv, CompressPayload PROVE PathInv'
<1>. DEFINE wish == use.flags["compress"]
<1>1. /\ pc = "compress"
      /\ network' = network /\ request' = request /\ defaultOn' = defaultOn /\ height' = height /\ first' = first
      /\ use' = use /\ encoding' = encoding /\ pieces' = pieces
  BY DEF CompressPayload
<1>2. PathTyped /\ RequestOK /\ TakenOK /\ PayloadOK /\ (Reveals => SecondOK /\ RebuildOK)
  BY DEF PathInv
<1>3. (Reveals' <=> Reveals) /\ (SecondOK => SecondOK') /\ RequestOK' /\ (InputFits' <=> InputFits)
  BY <1>1, <1>2, StaysSaid
<1>4. /\ action = request.action /\ raw = request.raw /\ encoding = request.encoding /\ report = None
      /\ use = Checked(request) /\ FieldsAccepted(request)
  BY <1>1, <1>2 DEF TakenOK, PayloadOK, Running, Fired
<1>5. /\ wish = MeantFlag(request.flags["compress"]) /\ wish \in {None, TRUE, FALSE}
      /\ request.flags["compress"].as \in {"null", "true", "false"}
  BY <1>2, <1>4, FlagKept DEF PathTyped, Flags
<1>. DEFINE Compresses ==
       /\ raw # None /\ wish # FALSE /\ raw.length > 0 /\ Compressible /\ Worthwhile
       /\ action' = [action EXCEPT !.codec = "ours", !.length = @ + action.grows]
       /\ \E minimal \in BOOLEAN :
            raw' = [raw EXCEPT !.form = "deflated", !.length = raw.deflated, !.deflated = @ + 1, !.minimal = minimal]
       /\ report' = [fired |-> TRUE] /\ pc' = "compile"
            Leaves ==
       /\ action' = action /\ raw' = raw
       /\ \/ pc' = "compile" /\ report' \in {None, [fired |-> FALSE]}
          \/ pc' = "INVALID" /\ report' = None /\ wish = TRUE
<1>6. Compresses \/ Leaves
  <2>1. None \notin BOOLEAN /\ defaultOn \in BOOLEAN
    BY <1>2, NoneAssumption DEF PathTyped
  <2>2. CASE raw = None \/ wish = FALSE \/ (wish = None /\ ~defaultOn)
    <3>1. ~(raw # None /\ (wish = TRUE \/ (wish = None /\ defaultOn)))
      BY <2>1, <2>2
    <3>2. pc' = "compile" /\ UNCHANGED <<action, raw, report>>
      BY <2>2, <3>1 DEF CompressPayload
    <3>. QED
      BY <1>4, <3>2
  <2>3. CASE raw # None /\ (wish = TRUE \/ (wish = None /\ defaultOn))
    <3>1. ~(raw = None \/ wish = FALSE \/ (wish = None /\ ~defaultOn))
      BY <2>1, <2>3
    <3>2. \/ (raw.length = 0 \/ Compressible) /\ Ride
          \/ raw.length > 0 /\ ~Compressible
               /\ IF wish = TRUE THEN pc' = "INVALID" /\ UNCHANGED <<action, raw, report>> ELSE Ride
          \/ /\ raw.length > 0 /\ Compressible /\ Worthwhile
             /\ action' = [action EXCEPT !.codec = "ours", !.length = @ + action.grows]
             /\ \E minimal \in BOOLEAN :
                  raw' = [raw EXCEPT !.form = "deflated", !.length = raw.deflated, !.deflated = @ + 1, !.minimal = minimal]
             /\ report' = [fired |-> TRUE] /\ pc' = "compile"
      BY <2>3, <3>1 DEF CompressPayload
    <3>3. CASE Ride
      BY <3>3 DEF Ride
    <3>4. CASE wish = TRUE /\ pc' = "INVALID" /\ UNCHANGED <<action, raw, report>>
      BY <1>4, <3>4
    <3>5. CASE /\ raw.length > 0 /\ Compressible /\ Worthwhile
               /\ action' = [action EXCEPT !.codec = "ours", !.length = @ + action.grows]
               /\ \E minimal \in BOOLEAN :
                    raw' = [raw EXCEPT !.form = "deflated", !.length = raw.deflated, !.deflated = @ + 1, !.minimal = minimal]
               /\ report' = [fired |-> TRUE] /\ pc' = "compile"
      BY <2>3, <3>1, <3>5
    <3>. QED
      BY <3>2, <3>3, <3>4, <3>5
  <2>4. (raw = None \/ wish = FALSE \/ (wish = None /\ ~defaultOn)) \/ (raw # None /\ (wish = TRUE \/ (wish = None /\ defaultOn)))
    BY <1>5, <2>1
  <2>. QED
    BY <2>2, <2>3, <2>4
<1>7. CASE Compresses
  <2>1. /\ action \in ActionPayloads /\ action.class = "file" /\ action.codec = "none" /\ raw \in RawPayloads
    BY <1>2, <1>7 DEF PathTyped, Compressible, IsFile, ActionPayloads
  <2>2. /\ action' \in ActionPayloads /\ action'.class = "file" /\ action'.codec = "ours"
        /\ action'.roundTrips = action.roundTrips
    <3>1. action' = [class |-> action.class, codec |-> "ours", length |-> action.length + action.grows,
                     grows |-> action.grows, roundTrips |-> action.roundTrips, minimal |-> action.minimal]
      BY <1>7, <2>1, Zenon DEF ActionPayloads
    <3>3. action.length \in Nat /\ action.grows \in 1 .. 10
      BY <2>1 DEF ActionPayloads
    <3>2. action.length + action.grows \in Nat
      BY <3>3
    <3>. QED
      BY <2>1, <3>1, <3>2 DEF ActionPayloads
  <2>3. raw' \in RawPayloads /\ raw'.form = "deflated" /\ raw'.roundTrips = raw.roundTrips
    <3>1. PICK minimal \in BOOLEAN :
            raw' = [raw EXCEPT !.form = "deflated", !.length = raw.deflated, !.deflated = @ + 1, !.minimal = minimal]
      BY <1>7
    <3>2. raw' = [form |-> "deflated", length |-> raw.deflated, deflated |-> raw.deflated + 1,
                  roundTrips |-> raw.roundTrips, minimal |-> minimal]
      BY <2>1, <3>1, Zenon DEF RawPayloads
    <3>3. raw.deflated \in Nat /\ raw.deflated + 1 \in Nat /\ raw.roundTrips \in BOOLEAN
      BY <2>1 DEF RawPayloads
    <3>. QED
      BY <3>2, <3>3 DEF RawPayloads
  <2>4. pc' = "compile" /\ report' = [fired |-> TRUE] /\ report' # None
    <3>1. [fired |-> TRUE] \in [fired : BOOLEAN]
      OBVIOUS
    <3>. QED
      BY <1>7, <3>1, NoneAssumption
  <2>5. PathTyped'
    BY <1>1, <1>2, <2>2, <2>3, <2>4 DEF PathTyped, Steps
  <2>6. TakenOK'
    BY <1>1, <1>2, <1>3, <2>4 DEF TakenOK, Running
  <2>7. PayloadOK'
    BY <1>1, <1>4, <2>1, <2>2, <2>3, <2>4 DEF PayloadOK, Running, Fired, Rewritten
  <2>8. SettledOK'
    BY <2>4 DEF SettledOK
  <2>9. ASSUME Reveals PROVE RebuildOK'
    <3>1. ~first.fired
      BY <1>2, <1>4, <2>1, <2>9 DEF SecondOK
    <3>2. request.flags["compress"].as # "false"
      BY <1>5, <1>7 DEF MeantFlag, Absent
    <3>. QED
      BY <1>1, <3>1, <3>2 DEF RebuildOK
  <2>. QED
    BY <1>2, <1>3, <2>5, <2>6, <2>7, <2>8, <2>9 DEF PathInv
<1>8. CASE Leaves
  <2>1. PathTyped'
    <3>3. [fired |-> FALSE] \in [fired : BOOLEAN]
      OBVIOUS
    <3>4. report' \in {None, [fired |-> FALSE]} /\ pc' \in {"compile", "INVALID"}
      BY <1>8
    <3>1. report' \in {None} \cup [fired : BOOLEAN]
      BY <3>3, <3>4
    <3>2. action' = action /\ raw' = raw
      BY <1>8
    <3>. HIDE DEF Leaves
    <3>. QED
      BY <1>1, <1>2, <3>1, <3>2, <3>4 DEF PathTyped, Steps, Refusals, PayloadRefusals
  <2>2. TakenOK'
    BY <1>1, <1>2, <1>3, <1>8 DEF TakenOK, Running
  <2>3. PayloadOK'
    BY <1>1, <1>4, <1>8 DEF PayloadOK, Running, Fired
  <2>4. SettledOK'
    BY <1>8 DEF SettledOK
  <2>5. ASSUME Reveals PROVE RebuildOK'
    <3>1. wish # TRUE
      <4>1. request.flags["compress"].as \in {"null", "false"}
        BY <1>2, <2>5 DEF SecondOK
      <4>. QED
        BY <1>5, <4>1, NoneAssumption DEF MeantFlag, Absent
    <3>2. pc' = "compile"
      BY <1>8, <3>1
    <3>3. action' = first.action /\ raw' = first.raw
      BY <1>2, <1>4, <1>8, <2>5 DEF SecondOK
    <3>. QED
      BY <1>1, <3>2, <3>3 DEF RebuildOK, Refusals, PayloadRefusals
  <2>. QED
    BY <1>2, <1>3, <2>1, <2>2, <2>3, <2>4, <2>5 DEF PathInv
<1>. QED
  BY <1>6, <1>7, <1>8

LEMMA ChooseKeeps == ASSUME PathInv, ChooseEncoding PROVE PathInv'
<1>. DEFINE chosen == IF encoding = "AUTO" THEN SelectEncoding ELSE encoding
<1>1. /\ pc = "compile" /\ encoding' = chosen
      /\ network' = network /\ request' = request /\ defaultOn' = defaultOn /\ height' = height /\ first' = first
      /\ use' = use /\ action' = action /\ raw' = raw /\ report' = report /\ pieces' = pieces
  BY DEF ChooseEncoding
<1>2. PathTyped /\ RequestOK /\ TakenOK /\ PayloadOK /\ (Reveals => SecondOK /\ RebuildOK)
  BY DEF PathInv
<1>3. (Reveals' <=> Reveals) /\ (SecondOK => SecondOK') /\ RequestOK' /\ (InputFits' <=> InputFits)
  BY <1>1, <1>2, StaysSaid
<1>4. chosen = Settled(action, raw)
  BY <1>1, <1>2, SettlesThere DEF PayloadOK, Running
<1>5. Compiled = CompiledOf(action, raw) /\ CompiledOf(action, raw) \in Nat
  BY <1>2, SameSums, CompiledNat DEF PathTyped
<1>6. CeilingOf(chosen) \in Nat
  BY DEF CeilingOf, EnvelopeCeiling, LegacyCeiling
<1>. DEFINE reads == PushDecodable(action) /\ PushDecodable(raw)
<1>7. \/ ~reads /\ pc' = "INVALID"
      \/ reads /\ Compiled > CeilingOf(chosen) /\ pc' = "TOO_LARGE"
      \/ /\ reads /\ Compiled <= CeilingOf(chosen)
         /\ pc' = IF chosen = "P2WSH" /\ ~network.segwit THEN "NO_SEGWIT" ELSE "envelope"
  <2>1. pc' = CASE ~PushDecodable(action) \/ ~PushDecodable(raw) -> "INVALID"
                [] PushDecodable(action) /\ PushDecodable(raw) /\ Compiled > CeilingOf(chosen) -> "TOO_LARGE"
                [] OTHER -> IF chosen = "P2WSH" /\ ~network.segwit THEN "NO_SEGWIT" ELSE "envelope"
    BY DEF ChooseEncoding, Ceiling
  <2>. HIDE DEF chosen
  <2>2. CASE ~reads
    BY <2>1, <2>2
  <2>3. CASE reads /\ Compiled > CeilingOf(chosen)
    BY <2>1, <2>3
  <2>4. CASE reads /\ ~(Compiled > CeilingOf(chosen))
    BY <1>5, <1>6, <2>1, <2>4
  <2>. QED
    BY <2>2, <2>3, <2>4
<1>. HIDE DEF chosen
<1>8. Settled(action, raw)' = Settled(action, raw) /\ CompiledOf(action, raw)' = CompiledOf(action, raw)
  BY <1>1 DEF Settled, CompiledOf
<1>9. pc' \in {"INVALID", "TOO_LARGE", "NO_SEGWIT", "envelope"}
  BY <1>7
<1>10. PathTyped'
  BY <1>1, <1>2, <1>9 DEF PathTyped, Steps, Refusals, PayloadRefusals
<1>11. TakenOK'
  BY <1>1, <1>2, <1>3, <1>9 DEF TakenOK, Running
<1>12. PayloadOK'
  BY <1>1, <1>2, <1>9 DEF PayloadOK, Running, Fired, Rewritten
<1>13. SettledOK'
  BY <1>1, <1>4, <1>5, <1>7, <1>8, <1>9 DEF SettledOK, PushDecodable
<1>14. ASSUME Reveals PROVE RebuildOK'
  <2>. SUFFICES ASSUME (first.fired \/ request.flags["compress"].as = "false") PROVE pc' = "envelope" /\ action' = first.action /\ raw' = first.raw
    BY <1>1 DEF RebuildOK, Refusals, PayloadRefusals
  <2>1. action = first.action /\ raw = first.raw
    BY <1>1, <1>2, <1>14 DEF RebuildOK
  <2>2. reads
    BY <1>2, <1>14, <2>1 DEF SecondOK
  <2>3. CompiledOf(action, raw) <= CeilingOf(chosen)
    <3>1. CompiledOf(action, raw) <= LegacyCeiling
      BY <1>2, <1>14, <2>1 DEF SecondOK
    <3>. QED
      BY <1>5, <3>1 DEF CeilingOf, EnvelopeCeiling, LegacyCeiling
  <2>4. chosen = "P2WSH" => network.segwit
    BY <1>2, <1>4, <1>14, <2>1 DEF SecondOK
  <2>. QED
    BY <1>1, <1>5, <1>6, <1>7, <2>1, <2>2, <2>3, <2>4
<1>. QED
  BY <1>2, <1>3, <1>10, <1>11, <1>12, <1>13, <1>14 DEF PathInv

LEMMA EnvelopeKeeps == ASSUME PathInv, CheckEnvelope PROVE PathInv'
<1>1. /\ pc = "envelope"
      /\ network' = network /\ request' = request /\ defaultOn' = defaultOn /\ height' = height /\ first' = first
      /\ use' = use /\ action' = action /\ raw' = raw /\ report' = report /\ pieces' = pieces /\ encoding' = encoding
  BY DEF CheckEnvelope
<1>2. PathTyped /\ RequestOK /\ TakenOK /\ PayloadOK /\ SettledOK /\ (Reveals => SecondOK /\ RebuildOK)
  BY DEF PathInv
<1>3. (Reveals' <=> Reveals) /\ (SecondOK => SecondOK') /\ RequestOK' /\ (InputFits' <=> InputFits)
  BY <1>1, <1>2, StaysSaid
<1>4. encoding = Settled(action, raw)
  BY <1>1, <1>2 DEF SettledOK
<1>5. network.segwit \in BOOLEAN /\ network.recognition \in Nat \cup {None} /\ None \notin Nat /\ height \in Nat
  BY <1>2, RequestsAssumption, NoneAssumption DEF PathTyped
<1>6. /\ pc' \in {"prepare", "NO_SEGWIT", "SINGLE_CALL", "NOT_RECOGNIZED", "HEIGHT_UNKNOWN"}
      /\ pc' = "prepare" /\ encoding = "TAPROOT" => Recognized
      /\ encoding # "TAPROOT" => pc' = "prepare"
  <2>1. PICK tip \in {height, None} :
         pc' = IF encoding # "TAPROOT" THEN "prepare"
               ELSE CASE ~network.segwit                    -> "NO_SEGWIT"
                      [] network.segwit /\ Reveals          -> "SINGLE_CALL"
                      [] OTHER -> IF network.recognition = 0 THEN "prepare"
                                  ELSE IF network.recognition = None THEN "NOT_RECOGNIZED"
                                  ELSE IF tip = None THEN "HEIGHT_UNKNOWN"
                                  ELSE IF tip < network.recognition THEN "NOT_RECOGNIZED" ELSE "prepare"
    BY DEF CheckEnvelope
  <2>2. CASE encoding # "TAPROOT"
    BY <2>1, <2>2
  <2>3. CASE encoding = "TAPROOT" /\ ~network.segwit
    BY <2>1, <2>3
  <2>4. CASE encoding = "TAPROOT" /\ network.segwit /\ Reveals
    BY <2>1, <2>4
  <2>5. CASE encoding = "TAPROOT" /\ network.segwit /\ ~Reveals
    <3>1. pc' = IF network.recognition = 0 THEN "prepare"
                ELSE IF network.recognition = None THEN "NOT_RECOGNIZED"
                ELSE IF tip = None THEN "HEIGHT_UNKNOWN"
                ELSE IF tip < network.recognition THEN "NOT_RECOGNIZED" ELSE "prepare"
      BY <2>1, <2>5
    <3>2. pc' \in {"prepare", "NOT_RECOGNIZED", "HEIGHT_UNKNOWN"}
      BY <3>1
    <3>3. ASSUME pc' = "prepare" PROVE Recognized
      <4>1. CASE network.recognition = 0
        BY <1>5, <2>5, <4>1 DEF Recognized
      <4>2. CASE network.recognition # 0
        <5>1. network.recognition # None /\ tip # None /\ ~(tip < network.recognition)
          BY <3>1, <3>3, <4>2
        <5>2. network.recognition \in Nat /\ tip = height
          BY <1>5, <5>1
        <5>. QED
          BY <1>5, <2>5, <5>1, <5>2 DEF Recognized
      <4>. QED
        BY <4>1, <4>2
    <3>. QED
      BY <2>5, <3>2, <3>3
  <2>. QED
    BY <1>5, <2>2, <2>3, <2>4, <2>5
<1>8. Settled(action, raw)' = Settled(action, raw) /\ CompiledOf(action, raw)' = CompiledOf(action, raw)
      /\ (Recognized' <=> Recognized)
  BY <1>1 DEF Settled, CompiledOf, Recognized
<1>10. PathTyped'
  BY <1>1, <1>2, <1>6 DEF PathTyped, Steps, Refusals, PayloadRefusals
<1>11. TakenOK'
  BY <1>1, <1>2, <1>3, <1>6 DEF TakenOK, Running
<1>12. PayloadOK'
  BY <1>1, <1>2, <1>6 DEF PayloadOK, Running, Fired, Rewritten
<1>13. SettledOK'
  BY <1>1, <1>2, <1>4, <1>6, <1>8 DEF SettledOK, PushDecodable
<1>14. ASSUME Reveals PROVE RebuildOK'
  <2>. SUFFICES ASSUME (first.fired \/ request.flags["compress"].as = "false")
                PROVE  pc' = "prepare" /\ action' = first.action /\ raw' = first.raw
    BY <1>1 DEF RebuildOK, Refusals, PayloadRefusals
  <2>1. action = first.action /\ raw = first.raw
    BY <1>1, <1>2, <1>14 DEF RebuildOK
  <2>2. encoding # "TAPROOT"
    <3>1. CarrierOf(action, raw) \in {"P2SH", "P2WSH"} /\ Payable(action, raw)
      BY <1>2, <1>14, <2>1 DEF SecondOK
    <3>. QED
      BY <1>4, <3>1, NoneAssumption DEF CarrierOf, Encodings
  <2>. QED
    BY <1>1, <1>6, <2>1, <2>2
<1>. QED
  BY <1>2, <1>3, <1>10, <1>11, <1>12, <1>13, <1>14 DEF PathInv

LEMMA PrepareKeeps == ASSUME PathInv, PrepareChunks PROVE PathInv'
<1>1. /\ pc = "prepare" /\ encoding' = Carrier
      /\ pieces' = IF HasPayload THEN Cut(Carrier) ELSE <<>>
      /\ network' = network /\ request' = request /\ defaultOn' = defaultOn /\ height' = height /\ first' = first
      /\ use' = use /\ action' = action /\ raw' = raw /\ report' = report
  BY DEF PrepareChunks
<1>2. PathTyped /\ RequestOK /\ TakenOK /\ PayloadOK /\ SettledOK /\ (Reveals => SecondOK /\ RebuildOK)
  BY DEF PathInv
<1>3. (Reveals' <=> Reveals) /\ (SecondOK => SecondOK') /\ RequestOK' /\ (InputFits' <=> InputFits)
  BY <1>1, <1>2, StaysSaid
<1>4. encoding = Settled(action, raw)
  BY <1>1, <1>2 DEF SettledOK
<1>5. /\ Compiled = CompiledOf(action, raw) /\ CompiledOf(action, raw) \in Nat
      /\ HasPayload = Payable(action, raw)
  BY <1>2, SameSums, CompiledNat DEF PathTyped
<1>6. Carrier = CarrierOf(action, raw)
  BY <1>4, <1>5 DEF Carrier, CarrierOf, Fits
<1>. DEFINE built == IF Reveals /\ <<Carrier, action, raw>> # <<first.encoding, first.action, first.raw>>
                     THEN "NOT_FUNDED" ELSE "done"
<1>7. \/ HasPayload /\ Carrier = "OP_RETURN" /\ Compiled > OpReturnCompiled /\ pc' = "OP_RETURN_TOO_LARGE"
      \/ HasPayload /\ Carrier \in {"MULTISIGN", "TAPROOT"} /\ pc' = "INVALID"
      \/ /\ HasPayload /\ Carrier \in {"P2SH", "P2WSH"} /\ request.pubkey = "taproot-address"
         /\ pc' = "INVALID"
      \/ /\ ~(HasPayload /\ Carrier = "OP_RETURN" /\ Compiled > OpReturnCompiled)
         /\ ~(HasPayload /\ Carrier \in {"P2SH", "P2WSH"} /\ request.pubkey = "taproot-address")
         /\ pc' = built
  <2>. DEFINE A == HasPayload /\ Carrier = "OP_RETURN" /\ Compiled > OpReturnCompiled
              B == HasPayload /\ Carrier \in {"MULTISIGN", "TAPROOT"} /\ request.key = None
              C == HasPayload /\ Carrier \in {"P2SH", "P2WSH"} /\ request.pubkey = "taproot-address"
  <2>1. pc' = CASE A -> "OP_RETURN_TOO_LARGE" [] B -> "INVALID" [] C -> "INVALID" [] OTHER -> built
    BY DEF PrepareChunks
  <2>2. ~(A /\ B) /\ ~(A /\ C) /\ ~(B /\ C)
    OBVIOUS
  <2>3. (A => Carrier = "OP_RETURN" /\ HasPayload /\ Compiled > OpReturnCompiled)
        /\ (B => HasPayload /\ Carrier \in {"MULTISIGN", "TAPROOT"})
        /\ (C => HasPayload /\ Carrier \in {"P2SH", "P2WSH"} /\ request.pubkey = "taproot-address")
    OBVIOUS
  <2>4. CASE A
    <3>1. pc' = "OP_RETURN_TOO_LARGE"
      <4>. HIDE DEF A, B, C, built
      <4>. QED BY <2>1, <2>2, <2>4
    <3>. QED BY <2>3, <2>4, <3>1
  <2>5. CASE B
    <3>1. pc' = "INVALID"
      <4>. HIDE DEF A, B, C, built
      <4>. QED BY <2>1, <2>2, <2>5
    <3>. QED BY <2>3, <2>5, <3>1
  <2>6. CASE C
    <3>1. pc' = "INVALID"
      <4>. HIDE DEF A, B, C, built
      <4>. QED BY <2>1, <2>2, <2>6
    <3>. QED BY <2>3, <2>6, <3>1
  <2>7. CASE ~A /\ ~B /\ ~C
    <3>1. pc' = built
      <4>. HIDE DEF A, B, C, built
      <4>. QED BY <2>1, <2>7
    <3>. QED BY <2>7, <3>1
  <2>. QED
    BY <2>4, <2>5, <2>6, <2>7
<1>8. built \in {"NOT_FUNDED", "done"}
  OBVIOUS
<1>9. pc' \in {"OP_RETURN_TOO_LARGE", "INVALID", "NOT_FUNDED", "done"}
  BY <1>7, <1>8
<1>10. PathTyped'
  BY <1>1, <1>2, <1>9 DEF PathTyped, Steps, Refusals, PayloadRefusals
<1>11. TakenOK'
  BY <1>1, <1>2, <1>3, <1>9 DEF TakenOK, Running
<1>12. PayloadOK'
  BY <1>1, <1>2, <1>9 DEF PayloadOK, Running, Fired, Rewritten
<1>13. /\ Settled(action, raw)' = Settled(action, raw) /\ CompiledOf(action, raw)' = CompiledOf(action, raw)
       /\ CarrierOf(action, raw)' = CarrierOf(action, raw) /\ (Payable(action, raw)' <=> Payable(action, raw))
       /\ (Recognized' <=> Recognized)
  BY <1>1 DEF Settled, CompiledOf, CarrierOf, Payable, Fits, Recognized
<1>14. pc' = "done" /\ Payable(action, raw) =>
         /\ (pieces = Cut(encoding))'
         /\ encoding' = "OP_RETURN" => CompiledOf(action, raw) <= OpReturnCompiled
         /\ encoding' \in {"P2SH", "P2WSH"} => request.pubkey # "taproot-address"
  <2>1. pc' = "done" /\ Payable(action, raw) => (pieces = Cut(encoding))'
    BY <1>1, <1>5 DEF Cut, Compiled, TailMinimal
  <2>2. pc' = "done" /\ Payable(action, raw) /\ encoding' = "OP_RETURN" => CompiledOf(action, raw) <= OpReturnCompiled
    BY <1>1, <1>5, <1>7 DEF OpReturnCompiled, OpReturnSize, MagicBytes
  <2>3. pc' = "done" /\ Payable(action, raw) /\ encoding' \in {"P2SH", "P2WSH"} => request.pubkey # "taproot-address"
    BY <1>1, <1>5, <1>7
  <2>. QED
    BY <2>1, <2>2, <2>3
<1>15. pc' = "OP_RETURN_TOO_LARGE" =>
         Payable(action, raw) /\ encoding' = "OP_RETURN" /\ CompiledOf(action, raw) > OpReturnCompiled
  BY <1>1, <1>5, <1>7, <1>8
<1>16. SettledOK'
  <2>. HIDE DEF built
  <2>. QED
    BY <1>1, <1>2, <1>6, <1>9, <1>13, <1>14, <1>15 DEF SettledOK, PushDecodable
<1>17. ASSUME Reveals PROVE RebuildOK'
  <2>. SUFFICES ASSUME (first.fired \/ request.flags["compress"].as = "false")
                PROVE  pc' = "done" /\ action' = first.action /\ raw' = first.raw
    BY <1>1 DEF RebuildOK, Refusals, PayloadRefusals
  <2>1. action = first.action /\ raw = first.raw
    BY <1>1, <1>2, <1>17 DEF RebuildOK
  <2>2. Carrier = first.encoding /\ Carrier \in {"P2SH", "P2WSH"} /\ request.pubkey # "taproot-address"
    BY <1>2, <1>6, <1>17, <2>1 DEF SecondOK
  <2>3. built = "done"
    BY <2>1, <2>2
  <2>. HIDE DEF built
  <2>. QED
    BY <1>1, <1>7, <2>1, <2>2, <2>3
<1>. QED
  BY <1>2, <1>3, <1>10, <1>11, <1>12, <1>16, <1>17 DEF PathInv

\* The request of a second call, field by field.
CalledWith(q, a, w, e, c) ==
    [q EXCEPT !.action = a, !.raw = w, !.encoding = e,
              !.p2sh = [hash |-> "64-hex", hex |-> "hex"],
              !.flags = [@ EXCEPT !["compress"] = [as |-> c, n |-> 0]]]

\* It differs from the first request there and nowhere else.
RepeatsWith(s, q, a, w, e, c) ==
    /\ s \in CreateCalls
    /\ s.surface = q.surface /\ s.buffers = q.buffers /\ s.params = q.params
    /\ s.key = q.key /\ s.pubkey = q.pubkey /\ s.change = q.change
    /\ s.fee = q.fee /\ s.feePerKb = q.feePerKb /\ s.dust = q.dust /\ s.utxos = q.utxos
    /\ s.payments = q.payments /\ s.quote = q.quote
    /\ s.action = a /\ s.raw = w /\ s.encoding = e
    /\ s.p2sh = [hash |-> "64-hex", hex |-> "hex"]
    /\ s.flags["compress"] = [as |-> c, n |-> 0]
    /\ \A flag \in Flags \ {"compress"} : s.flags[flag] = q.flags[flag]

LEMMA SecondRequest ==
    ASSUME NEW q \in CreateCalls, NEW a \in {None} \cup ActionPayloads, NEW w \in {None} \cup RawPayloads,
           NEW e \in {None, "P2TR"} \cup Encodings, NEW c \in {"null", "false"}
    PROVE  RepeatsWith(CalledWith(q, a, w, e, c), q, a, w, e, c)
<1>. DEFINE v == [as |-> c, n |-> 0]
            f == [q.flags EXCEPT !["compress"] = v]
            p == [hash |-> "64-hex", hex |-> "hex"]
            s == [q EXCEPT !.action = a, !.raw = w, !.encoding = e, !.p2sh = p, !.flags = [@ EXCEPT !["compress"] = v]]
<1>1. v \in JsonValues
  BY DEF JsonValues, JsonForms
<1>2. q.flags \in [Flags -> JsonValues]
  BY DEF CreateCalls
<1>3. /\ f \in [Flags -> JsonValues] /\ f["compress"] = v
      /\ \A flag \in Flags \ {"compress"} : f[flag] = q.flags[flag]
  <2>. HIDE DEF v
  <2>. QED
    BY <1>1, <1>2 DEF Flags
<1>4. p \in [hash : {None, "64-hex"}, hex : {None, "hex"}]
  OBVIOUS
<1>5. /\ s.surface = q.surface /\ s.buffers = q.buffers /\ s.params = q.params
      /\ s.key = q.key /\ s.pubkey = q.pubkey /\ s.change = q.change
      /\ s.fee = q.fee /\ s.feePerKb = q.feePerKb /\ s.dust = q.dust /\ s.utxos = q.utxos
      /\ s.payments = q.payments /\ s.quote = q.quote /\ s.outputBytes = q.outputBytes
      /\ s.action = a /\ s.raw = w /\ s.encoding = e /\ s.p2sh = p /\ s.flags = f
  <2>. HIDE DEF v, p
  <2>. QED
    BY DEF CreateCalls
<1>6. s \in CreateCalls
  <2>. HIDE DEF v, p
  <2>1. f = [q.flags EXCEPT !["compress"] = v]
    OBVIOUS
  <2>. HIDE DEF f
  <2>2. s = [q EXCEPT !.action = a, !.raw = w, !.encoding = e, !.p2sh = p, !.flags = f]
    BY <2>1 DEF CreateCalls
  <2>. HIDE DEF s
  <2>. QED
    BY <1>3, <1>4, <2>2, ZenonT(60) DEF CreateCalls
<1>7. s = CalledWith(q, a, w, e, c)
  BY DEF CalledWith
<1>. HIDE DEF s
<1>. QED
  BY <1>3, <1>5, <1>6, <1>7 DEF RepeatsWith

\* What a finished build holds is the caller's, or what compression made of it.
LEMMA ResultHeld ==
    ASSUME PathInv, pc = "done"
    PROVE  /\ HandedBack = [action |-> action, raw |-> raw]
           /\ Marked(action, raw)
           /\ Fired => action # None /\ action.codec = "ours"
           /\ RoundTrips(action) <=> RoundTrips(request.action)
           /\ RoundTrips(raw) <=> RoundTrips(request.raw)
           /\ request.buffers \/ (RoundTrips(action) /\ RoundTrips(raw))
           /\ ~Fired => action = request.action /\ raw = request.raw
           /\ Fired => Rewritten
<1>1. PathTyped /\ RequestOK /\ TakenOK /\ PayloadOK /\ SettledOK
  BY DEF PathInv
<1>2. /\ ~Fired => action = request.action /\ raw = request.raw
      /\ Fired => Rewritten
  BY <1>1 DEF PayloadOK, Running
<1>3. HandedBack = [action |-> action, raw |-> raw]
  BY <1>2 DEF HandedBack, Stored, Fired
<1>4. Marked(action, raw)
  BY <1>1, <1>2, NoneAssumption DEF RequestOK, Rewritten, Marked
<1>5. Fired => action # None /\ action.codec = "ours"
  BY <1>2, NoneAssumption DEF Rewritten
<1>6. /\ RoundTrips(action) <=> RoundTrips(request.action)
      /\ RoundTrips(raw) <=> RoundTrips(request.raw)
  <2>1. CASE Fired
    BY <1>2, <2>1, NoneAssumption DEF Rewritten, RoundTrips
  <2>2. CASE ~Fired
    BY <1>2, <2>2
  <2>. QED
    BY <2>1, <2>2
<1>7. request.buffers \/ (RoundTrips(action) /\ RoundTrips(raw))
  BY <1>1, <1>6 DEF TakenOK, Running, InputFits
<1>. QED
  BY <1>2, <1>3, <1>4, <1>5, <1>6, <1>7

\* What the first call came to, when its result is called again with.
LEMMA ResultCarried ==
    ASSUME PathInv, pc = "done", encoding \in {"P2SH", "P2WSH"}
    PROVE  /\ HandedBack = [action |-> action, raw |-> raw]
           /\ Marked(action, raw)
           /\ Fired => action # None /\ action.codec = "ours"
           /\ request.buffers \/ (RoundTrips(action) /\ RoundTrips(raw))
           /\ Payable(action, raw) /\ PushDecodable(action) /\ PushDecodable(raw)
           /\ CarrierOf(action, raw) = encoding
           /\ CompiledOf(action, raw) <= LegacyCeiling
           /\ Settled(action, raw) = "P2WSH" => network.segwit
           /\ Settled(action, raw) = encoding \/ (request.encoding = None /\ encoding = "P2SH")
           /\ request.encoding \in {None, "AUTO", encoding}
           /\ request.surface = "rpc" => RoundTrips(action) /\ RoundTrips(raw) /\ ~UnknownName(action)
           /\ request.pubkey # "taproot-address"
<1>1. PathTyped /\ RequestOK /\ TakenOK /\ PayloadOK /\ SettledOK
  BY DEF PathInv
<1>2. /\ ~Fired => action = request.action /\ raw = request.raw
      /\ Fired => Rewritten
      /\ RoundTrips(action) <=> RoundTrips(request.action)
      /\ RoundTrips(raw) <=> RoundTrips(request.raw)
  BY ResultHeld
<1>3. CarrierOf(action, raw) = encoding
  BY <1>1 DEF SettledOK, PushDecodable
<1>4. Payable(action, raw) /\ PushDecodable(action) /\ PushDecodable(raw)
  BY <1>1, <1>3 DEF SettledOK, PushDecodable, CarrierOf
<1>5. Settled(action, raw) = encoding \/ (Settled(action, raw) = None /\ encoding = "P2SH")
  BY <1>3, <1>4 DEF CarrierOf
<1>6. /\ Settled(action, raw) = None => request.encoding = None
      /\ request.encoding \in {None, "AUTO", encoding}
  BY <1>5, NoneAssumption DEF Settled, Encodings
<1>7. CompiledOf(action, raw) <= LegacyCeiling
  <2>1. CompiledOf(action, raw) <= CeilingOf(Settled(action, raw))
    BY <1>1 DEF SettledOK, PushDecodable
  <2>2. Settled(action, raw) # "TAPROOT"
    BY <1>5, NoneAssumption DEF Encodings
  <2>. QED
    BY <2>1, <2>2 DEF CeilingOf
<1>8. Settled(action, raw) = "P2WSH" => network.segwit
  BY <1>1 DEF SettledOK, PushDecodable
<1>9. ASSUME request.surface = "rpc" PROVE RoundTrips(action) /\ RoundTrips(raw) /\ ~UnknownName(action)
  <2>1. ActionFieldsAccepted(request)
    BY <1>1, <1>9 DEF TakenOK, Running, ValidateAll, PolicyFieldsAccepted
  <2>2. RoundTrips(action) /\ RoundTrips(raw)
    BY <1>2, <2>1 DEF ActionFieldsAccepted
  <2>3. ~UnknownName(action)
    <3>1. CASE Fired
      BY <1>2, <3>1 DEF Rewritten, UnknownName
    <3>2. CASE ~Fired
      BY <1>2, <1>4, <2>1, <3>2 DEF ActionFieldsAccepted, UnknownName, Payable, LengthOf
    <3>. QED
      BY <3>1, <3>2
  <2>. QED
    BY <2>2, <2>3
<1>10. request.pubkey # "taproot-address"
  BY <1>1, <1>4 DEF SettledOK, PushDecodable
<1>11. /\ HandedBack = [action |-> action, raw |-> raw]
       /\ Marked(action, raw)
       /\ Fired => action # None /\ action.codec = "ours"
       /\ request.buffers \/ (RoundTrips(action) /\ RoundTrips(raw))
  BY ResultHeld
<1>. QED
  BY <1>3, <1>4, <1>5, <1>6, <1>7, <1>8, <1>9, <1>10, <1>11

LEMMA CallAgainKeeps == ASSUME PathInv, CallAgain PROVE PathInv'
<1>1. PICK compress \in {"null", "false"}, named \in {request.encoding, encoding} :
        request' = [request EXCEPT !.action = HandedBack.action, !.raw = HandedBack.raw, !.encoding = named,
                                   !.p2sh = [hash |-> "64-hex", hex |-> "hex"],
                                   !.flags = [@ EXCEPT !["compress"] = [as |-> compress, n |-> 0]]]
  BY DEF CallAgain
<1>2. /\ pc = "done" /\ encoding \in {"P2SH", "P2WSH"} /\ pc' = "enter"
      /\ first' = [encoding |-> encoding, action |-> action, raw |-> raw, fired |-> Fired]
      /\ network' = network /\ defaultOn' = defaultOn /\ height' = height
      /\ action' = action /\ raw' = raw /\ report' = report
  BY DEF CallAgain, Fired
<1>3. PathTyped /\ RequestOK /\ TakenOK
  BY DEF PathInv
<1>4. /\ HandedBack = [action |-> action, raw |-> raw]
      /\ Marked(action, raw)
      /\ Fired => action # None /\ action.codec = "ours"
      /\ request.buffers \/ (RoundTrips(action) /\ RoundTrips(raw))
      /\ Payable(action, raw) /\ PushDecodable(action) /\ PushDecodable(raw)
      /\ CarrierOf(action, raw) = encoding
      /\ CompiledOf(action, raw) <= LegacyCeiling
      /\ Settled(action, raw) = "P2WSH" => network.segwit
      /\ Settled(action, raw) = encoding \/ (request.encoding = None /\ encoding = "P2SH")
      /\ request.encoding \in {None, "AUTO", encoding}
      /\ request.surface = "rpc" => RoundTrips(action) /\ RoundTrips(raw) /\ ~UnknownName(action)
      /\ request.pubkey # "taproot-address"
  BY <1>2, ResultCarried
<1>5. FieldsAccepted(request) /\ InputFits /\ (request.surface = "rpc" => ValidateAll(request))
  BY <1>2, <1>3 DEF TakenOK, Running
<1>6. named \in {None, "P2TR"} \cup Encodings /\ named \in {None, "AUTO", "P2SH", "P2WSH"}
  BY <1>2, <1>4 DEF Encodings
<1>7. HandedBack.action = action /\ HandedBack.raw = raw
  BY <1>4
<1>8. RepeatsWith(request', request, action, raw, named, compress)
  <2>1. request \in CreateCalls /\ action \in {None} \cup ActionPayloads /\ raw \in {None} \cup RawPayloads
    BY <1>3 DEF PathTyped
  <2>2. request' = CalledWith(request, action, raw, named, compress)
    BY <1>1, <1>7, Zenon DEF CalledWith
  <2>. QED
    BY <1>6, <2>1, <2>2, SecondRequest
<1>9. PathTyped'
  BY <1>2, <1>3, <1>8 DEF PathTyped, Steps, RepeatsWith
<1>10. FieldsAccepted(request')
  <2>1. PaymentFieldsAccepted(request')
    <3>1. PaymentFieldsAccepted(request)
      BY <1>5 DEF FieldsAccepted
    <3>2. P2shAccepted(request'.p2sh)
      BY <1>8 DEF P2shAccepted, RepeatsWith
    <3>. QED
      BY <1>8, <3>1, <3>2 DEF PaymentFieldsAccepted, RepeatsWith
  <2>2. PolicyFieldsAccepted(request')
    <3>. SUFFICES ASSUME NEW flag \in Flags PROVE ValidateOptionalBoolean(request'.flags[flag]) # {}
      BY DEF PolicyFieldsAccepted
    <3>1. CASE flag = "compress"
      <4>1. request'.flags[flag].as \in {"null", "false"}
        BY <1>8, <3>1 DEF RepeatsWith
      <4>. QED
        BY <4>1 DEF ValidateOptionalBoolean, Absent
    <3>2. CASE flag # "compress"
      BY <1>5, <1>8, <3>2 DEF FieldsAccepted, PolicyFieldsAccepted, RepeatsWith
    <3>. QED
      BY <3>1, <3>2
  <2>. QED
    BY <2>1, <2>2 DEF FieldsAccepted
<1>11. ASSUME request'.surface = "rpc" PROVE ValidateAll(request')
  <2>1. ValidateAll(request) /\ request.surface = "rpc"
    BY <1>5, <1>8, <1>11 DEF RepeatsWith
  <2>2. EncodingRequirements(request')
    BY <1>6, <1>8, <2>1, NoneAssumption DEF ValidateAll, EncodingRequirements, Encodings, RepeatsWith
  <2>3. CombinedLengthAccepted(action, raw, named)
    <3>1. MeasuredSize(action, raw) = CompiledOf(action, raw) /\ CompiledOf(action, raw) \in Nat
      BY <1>3, CompiledNat, SizesAgree DEF PathTyped, MeasuredSize, CompiledOf
    <3>. QED
      BY <1>4, <1>6, <3>1, NoneAssumption DEF CombinedLengthAccepted, LegacyCeiling, EnvelopeCeiling, Encodings
  <2>4. ActionFieldsAccepted(request')
    BY <1>4, <1>6, <1>8, <2>1, <2>3 DEF ActionFieldsAccepted, Encodings, RepeatsWith
  <2>5. PolicyFieldsAccepted(request') /\ PaymentFieldsAccepted(request')
    BY <1>10 DEF FieldsAccepted
  <2>6. request'.params = "known-keys"
    BY <1>8, <2>1 DEF ValidateAll, RepeatsWith
  <2>. QED
    BY <2>2, <2>4, <2>5, <2>6 DEF ValidateAll
<1>12. RequestOK'
  BY <1>3, <1>4, <1>6, <1>8, <1>10 DEF RequestOK, Encodings, RepeatsWith
<1>13. TakenOK' /\ PayloadOK' /\ SettledOK' /\ RebuildOK'
  BY <1>2 DEF TakenOK, PayloadOK, SettledOK, RebuildOK, Running, Refusals, PayloadRefusals
<1>14. InputFits'
  BY <1>4, <1>5, <1>8 DEF InputFits, Checked, RepeatsWith
<1>15. /\ CarrierOf(action, raw)' = encoding
       /\ Settled(action, raw)' = "P2WSH" => network.segwit
  <2>1. /\ CompiledOf(action, raw)' = CompiledOf(action, raw) /\ (Payable(action, raw)' <=> Payable(action, raw))
        /\ (Fits(action, raw)' <=> Fits(action, raw))
    BY <1>2 DEF CompiledOf, Payable, Fits
  <2>2. request'.flags["signerSupportsTapscript"] = request.flags["signerSupportsTapscript"]
    BY <1>8 DEF Flags, RepeatsWith
  <2>3. CASE named = request.encoding
    <3>1. Settled(action, raw)' = Settled(action, raw)
      BY <1>2, <1>8, <2>1, <2>2, <2>3 DEF Settled, RepeatsWith
    <3>. QED
      BY <1>4, <2>1, <3>1 DEF CarrierOf
  <2>4. CASE named = encoding
    <3>1. Settled(action, raw)' = encoding
      BY <1>2, <1>8, <2>4 DEF Settled, RepeatsWith
    <3>2. encoding # None
      BY <1>2, NoneAssumption DEF Encodings
    <3>3. encoding = "P2WSH" => network.segwit
      BY <1>2, <1>4
    <3>. QED
      BY <1>4, <2>1, <3>1, <3>2, <3>3 DEF CarrierOf
  <2>. QED
    BY <2>3, <2>4
<1>16. SecondOK'
  <2>1. first'.encoding = encoding /\ first'.action = action /\ first'.raw = raw /\ first'.fired = Fired
    BY <1>2
  <2>2. /\ CarrierOf(first.action, first.raw)' = CarrierOf(action, raw)'
        /\ Settled(first.action, first.raw)' = Settled(action, raw)'
    BY <1>2, <2>1
  <2>3. Payable(action, raw) /\ PushDecodable(action) /\ PushDecodable(raw) /\ CompiledOf(action, raw) <= LegacyCeiling
    BY <1>4
  <2>4. /\ Payable(first'.action, first'.raw) /\ PushDecodable(first'.action) /\ PushDecodable(first'.raw)
        /\ CompiledOf(first'.action, first'.raw) <= LegacyCeiling
    BY <2>1, <2>3
  <2>5. request'.encoding \in Encodings \cup {None}
    BY <1>6, <1>8 DEF Encodings, RepeatsWith
  <2>6. request'.flags["compress"].as \in {"null", "false"}
    BY <1>8 DEF RepeatsWith
  <2>. QED
    BY <1>2, <1>4, <1>8, <1>10, <1>11, <1>14, <1>15, <2>1, <2>2, <2>4, <2>5, <2>6 DEF SecondOK, RepeatsWith
<1>. QED
  BY <1>9, <1>12, <1>13, <1>16 DEF PathInv

LEMMA ToggleKeeps == ASSUME PathInv, ToggleDefault PROVE PathInv'
<1>1. /\ defaultOn' = ~defaultOn /\ pc' = pc
      /\ network' = network /\ request' = request /\ height' = height /\ first' = first
      /\ use' = use /\ action' = action /\ raw' = raw /\ report' = report /\ encoding' = encoding /\ pieces' = pieces
  BY DEF ToggleDefault
<1>2. PathTyped /\ RequestOK /\ TakenOK /\ PayloadOK /\ SettledOK /\ (Reveals => SecondOK /\ RebuildOK)
  BY DEF PathInv
<1>3. (Reveals' <=> Reveals) /\ (SecondOK => SecondOK') /\ RequestOK' /\ (InputFits' <=> InputFits)
  BY <1>1, <1>2, StaysSaid
<1>4. pc = "compress"
  BY DEF ToggleDefault
<1>5. PathTyped'
  BY <1>1, <1>2 DEF PathTyped
<1>6. TakenOK'
  BY <1>1, <1>2, <1>3 DEF TakenOK, Running
<1>7. PayloadOK'
  BY <1>1, <1>2 DEF PayloadOK, Running, Fired, Rewritten
<1>8. SettledOK' /\ (RebuildOK => RebuildOK')
  BY <1>1, <1>4 DEF SettledOK, RebuildOK
<1>. QED
  BY <1>2, <1>3, <1>5, <1>6, <1>7, <1>8 DEF PathInv

LEMMA GrowKeeps == ASSUME PathInv, Grow PROVE PathInv'
<1>1. /\ defaultOn' = defaultOn /\ pc' = pc /\ pc = "envelope" /\ height' = height + 1
      /\ network' = network /\ request' = request /\ first' = first
      /\ use' = use /\ action' = action /\ raw' = raw /\ report' = report /\ encoding' = encoding /\ pieces' = pieces
  BY DEF Grow
<1>2. PathTyped /\ RequestOK /\ TakenOK /\ PayloadOK /\ SettledOK /\ (Reveals => SecondOK /\ RebuildOK)
  BY DEF PathInv
<1>3. (Reveals' <=> Reveals) /\ (SecondOK => SecondOK') /\ RequestOK' /\ (InputFits' <=> InputFits)
  BY <1>1, <1>2, StaysSaid
<1>4. PathTyped'
  BY <1>1, <1>2 DEF PathTyped
<1>5. TakenOK'
  BY <1>1, <1>2, <1>3 DEF TakenOK, Running
<1>6. PayloadOK'
  BY <1>1, <1>2 DEF PayloadOK, Running, Fired, Rewritten
<1>7. /\ Settled(action, raw)' = Settled(action, raw) /\ CompiledOf(action, raw)' = CompiledOf(action, raw)
  BY <1>1 DEF Settled, CompiledOf, Fits
<1>8. SettledOK' /\ (RebuildOK => RebuildOK')
  BY <1>1, <1>2, <1>7 DEF SettledOK, RebuildOK, PushDecodable
<1>. QED
  BY <1>2, <1>3, <1>4, <1>5, <1>6, <1>8 DEF PathInv

LEMMA StutterKeepsPath == ASSUME PathInv, UNCHANGED vars PROVE PathInv'
<1>1. /\ defaultOn' = defaultOn /\ pc' = pc /\ height' = height
      /\ network' = network /\ request' = request /\ first' = first
      /\ use' = use /\ action' = action /\ raw' = raw /\ report' = report /\ encoding' = encoding /\ pieces' = pieces
  BY DEF vars
<1>2. PathTyped /\ RequestOK /\ TakenOK /\ PayloadOK /\ SettledOK /\ (Reveals => SecondOK /\ RebuildOK)
  BY DEF PathInv
<1>3. (Reveals' <=> Reveals) /\ (SecondOK => SecondOK') /\ RequestOK' /\ (InputFits' <=> InputFits)
  BY <1>1, <1>2, StaysSaid
<1>4. PathTyped' /\ TakenOK' /\ (RebuildOK => RebuildOK')
  BY <1>1, <1>2, <1>3 DEF PathTyped, TakenOK, Running, RebuildOK
<1>5. PayloadOK'
  BY <1>1, <1>2 DEF PayloadOK, Running, Fired, Rewritten
<1>6. SettledOK' <=> SettledOK
  BY <1>1 DEF SettledOK, Settled, CarrierOf, CompiledOf, Fits, Payable, Cut, Compiled, TailMinimal, Recognized
<1>. QED
  BY <1>2, <1>3, <1>4, <1>5, <1>6 DEF PathInv

\* Every step of a build keeps what the invariant says of its request, payload,
\* carrier and second call.
LEMMA PathStep == PathInv /\ [Next]_vars => PathInv'
BY EnterKeeps, CheckKeeps, CompressKeeps, ChooseKeeps, EnvelopeKeeps, PrepareKeeps, CallAgainKeeps,
   ToggleKeeps, GrowKeeps, StutterKeepsPath DEF Next

\* At every step of a build the fields it works with are those it was sent, the
\* payload it holds is that of the request as compression may have rewritten it,
\* the carrier is the one settled on for that payload, and a second call is the
\* first one's with what the caller adds (payload_preparation.js, payload_checks.js,
\* build_result.js:103-127).
THEOREM PathInvariant == Spec => []PathInv
BY InitPath, PathStep, PTL DEF Spec

\* No build succeeds with an action that decoders drop, unless it warned, and what
\* decoders read back is what was handed over (payload_checks.js:55-68, 188-193).
THEOREM NothingIsLost == Spec => []NothingSilentlyLost
<1>1. ASSUME PathInv, pc = "done", HasPayload PROVE (Indexed \/ Warnings # {}) /\ ReadAsGiven
  <2>1. PathTyped /\ RequestOK /\ TakenOK /\ PayloadOK /\ SettledOK
    BY <1>1 DEF PathInv
  <2>2. /\ Marked(action, raw)
        /\ request.buffers \/ (RoundTrips(action) /\ RoundTrips(raw))
        /\ ~Fired => action = request.action /\ raw = request.raw
        /\ Fired => Rewritten
    BY <1>1, ResultHeld
  <2>3. Payable(action, raw) /\ Compiled = CompiledOf(action, raw)
    BY <1>1, SameSums
  <2>4. Compiled <= CeilingOf(encoding) /\ (encoding = "TAPROOT" => Recognized)
    <3>1. /\ encoding = CarrierOf(action, raw) /\ Compiled <= CeilingOf(Settled(action, raw))
          /\ Settled(action, raw) = "TAPROOT" => Recognized
      BY <1>1, <2>1, <2>3 DEF SettledOK, PushDecodable
    <3>2. Settled(action, raw) = encoding \/ (Settled(action, raw) = None /\ encoding \in {"OP_RETURN", "P2SH"})
      BY <2>3, <3>1 DEF CarrierOf
    <3>. QED
      BY <3>1, <3>2, NoneAssumption DEF CeilingOf, Encodings
  <2>5. ASSUME LengthOf(action) > 0, action.class = "unknown" PROVE UnknownName(request.action)
    <3>1. ~Fired
      BY <2>2, <2>5 DEF Rewritten
    <3>. QED
      BY <2>2, <2>5, <3>1 DEF UnknownName
  <2>6. LengthOf(action) \in Nat
    BY <2>1, CompiledNat DEF PathTyped
  <2>7. Indexed \/ Warnings # {}
    <3>1. CASE ~(LengthOf(action) > 0)
      BY <2>3, <2>6, <3>1 DEF Payable, Warnings
    <3>2. CASE LengthOf(action) > 0 /\ action.class = "unknown"
      BY <2>5, <3>2 DEF Warnings
    <3>3. CASE LengthOf(action) > 0 /\ action.class # "unknown"
      <4>1. PushDecodable(action) /\ PushDecodable(raw)
        BY <1>1, <2>1 DEF SettledOK
      <4>. QED
        BY <2>4, <3>3, <4>1 DEF Indexed, Recognized
    <3>. QED
      BY <3>1, <3>2, <3>3
  <2>8. raw # None /\ raw.form = "deflated" => request.action.codec # "callers"
    BY <2>2 DEF Marked, Rewritten
  <2>9. ReadAsGiven
    BY <2>2, <2>8 DEF ReadAsGiven, Marked
  <2>. QED
    BY <2>7, <2>9
<1>2. PathInv => NothingSilentlyLost
  BY <1>1 DEF NothingSilentlyLost, Done
<1>. QED
  BY <1>2, PathInvariant, PTL

\* The second call of a two-call build comes to the chunks that the first funded
\* whenever the result it was told of suffices for it (build_result.js:112-127).
THEOREM RevealRebuilds == Spec => []RevealRebuildsChunks
<1>1. PathInv => RevealRebuildsChunks
  BY DEF PathInv, RebuildOK, RevealRebuildsChunks
<1>. QED
  BY <1>1, PathInvariant, PTL

\* What the validator accepts the build measures alike and takes as written
\* (action_data_checks.js:180-229, value_checks.js:27-102).
THEOREM ValidatorAndBuildAgree == Spec => []ValidatorAgrees
<1>1. ASSUME PathInv, request.surface = "rpc", pc \in {"TOO_LARGE", "OP_RETURN_TOO_LARGE"}
      PROVE  (Fired /\ Compiled > MeasuredSize(request.action, request.raw))
               \/ (request.encoding = "AUTO" /\ encoding # "TAPROOT")
  <2>. SUFFICES ASSUME ~(request.encoding = "AUTO" /\ encoding # "TAPROOT")
                PROVE  Fired /\ Compiled > MeasuredSize(request.action, request.raw)
    OBVIOUS
  <2>. DEFINE measured == MeasuredSize(request.action, request.raw)
  <2>1. PathTyped /\ TakenOK /\ PayloadOK /\ SettledOK
    BY <1>1 DEF PathInv
  <2>2. Running
    BY <1>1 DEF Running
  <2>3. ValidateAll(request) /\ (~Fired => action = request.action /\ raw = request.raw)
    BY <1>1, <2>1, <2>2 DEF TakenOK, PayloadOK
  <2>4. Compiled = CompiledOf(action, raw) /\ Compiled \in Nat
    BY <2>1, SameSums, CompiledNat DEF PathTyped
  <2>5. request.action \in {None} \cup ActionPayloads /\ request.raw \in {None} \cup RawPayloads
    BY <2>1 DEF PathTyped, CreateCalls
  <2>6. measured = CompiledOf(request.action, request.raw) /\ measured \in Nat
    BY <2>5, CompiledNat, SizesAgree DEF MeasuredSize, CompiledOf
  <2>7. /\ measured <= (IF request.encoding \in {"TAPROOT", "AUTO"} THEN EnvelopeCeiling ELSE LegacyCeiling)
        /\ request.encoding = "OP_RETURN" => measured <= OpReturnCompiled
    <3>1. CASE request.action # None \/ request.raw # None
      <4>1. ActionFieldsAccepted(request)
        BY <2>3, Zenon DEF ValidateAll
      <4>2. CombinedLengthAccepted(request.action, request.raw, request.encoding)
        BY <3>1, <4>1, Zenon DEF ActionFieldsAccepted
      <4>. QED
        BY <4>2 DEF CombinedLengthAccepted
    <3>2. CASE request.action = None /\ request.raw = None
      <4>1. LengthOf(request.action) = 0
        BY <3>2 DEF LengthOf
      <4>2. EnvelopePushSize(0) = 1
        BY DEF EnvelopePushSize, CompiledPushSize
      <4>3. measured = 1
        BY <3>2, <4>1, <4>2 DEF MeasuredSize
      <4>. QED
        BY <4>3 DEF EnvelopeCeiling, LegacyCeiling, OpReturnCompiled, OpReturnSize, MagicBytes
    <3>. QED
      BY <3>1, <3>2
  <2>8. Compiled > measured
    <3>1. CASE pc = "TOO_LARGE"
      <4>1. encoding = Settled(action, raw) /\ Compiled > CeilingOf(encoding)
        BY <2>1, <2>4, <3>1 DEF SettledOK
      <4>2. request.encoding = encoding \/ (request.encoding = "AUTO" /\ encoding = "TAPROOT")
        BY <4>1 DEF Settled
      <4>3. measured <= CeilingOf(encoding)
        BY <2>7, <4>2, <4>1 DEF CeilingOf, Settled
      <4>4. CeilingOf(encoding) \in Nat
        BY DEF CeilingOf, EnvelopeCeiling, LegacyCeiling
      <4>. HIDE DEF measured
      <4>. QED
        BY <2>4, <2>6, <4>1, <4>3, <4>4
    <3>2. CASE pc = "OP_RETURN_TOO_LARGE"
      <4>1. /\ encoding = CarrierOf(action, raw) /\ Payable(action, raw) /\ encoding = "OP_RETURN"
            /\ Compiled > OpReturnCompiled
        BY <2>1, <2>4, <3>2 DEF SettledOK
      <4>2. ~Fits(action, raw)
        BY <2>4, <4>1 DEF Fits, OpReturnCompiled, OpReturnSize, MagicBytes
      <4>3. request.encoding = "OP_RETURN"
        BY <4>1, <4>2 DEF CarrierOf, Settled
      <4>4. measured <= OpReturnCompiled
        BY <2>7, <4>3
      <4>. HIDE DEF measured
      <4>. QED
        BY <2>4, <2>6, <4>1, <4>4 DEF OpReturnCompiled, OpReturnSize, MagicBytes
    <3>. QED
      BY <1>1, <3>1, <3>2
  <2>9. Fired
    <3>1. ASSUME ~Fired PROVE FALSE
      <4>1. Compiled = measured
        BY <2>3, <2>4, <2>6, <3>1
      <4>. HIDE DEF measured
      <4>. QED
        BY <2>6, <2>8, <4>1
    <3>. QED
      BY <3>1
  <2>. QED
    BY <2>8, <2>9
<1>2. ASSUME PathInv PROVE AcceptedSizeIsBuilt
  BY <1>1, <1>2 DEF AcceptedSizeIsBuilt, Fired
<1>3. ASSUME PathInv PROVE FieldsAsWritten
  <2>. SUFFICES ASSUME Running PROVE AsWritten(request, use)
    BY DEF FieldsAsWritten, Running
  <2>1. request \in CreateCalls /\ use = Checked(request) /\ PaymentFieldsAccepted(request) /\ PolicyFieldsAccepted(request)
    BY <1>3 DEF PathInv, PathTyped, TakenOK, FieldsAccepted
  <2>. QED
    BY <2>1, AcceptedAsWritten
<1>4. PathInv => ValidatorAgrees
  BY <1>2, <1>3 DEF ValidatorAgrees
<1>. QED
  BY <1>4, PathInvariant, PTL

\* What a decoder puts together is what was compiled, on every lane, and every
\* piece fits its carrier (payload_encodings.js:30-261).
THEOREM CarriersHoldThePayload == Spec => []CarriersReassemble
<1>1. ASSUME PathInv, pc = "done", HasPayload
      PROVE  /\ Total(pieces) = Compiled
             /\ encoding \in {"P2SH", "P2WSH", "TAPROOT"} => ~(TailMinimal /\ pieces[Len(pieces)] = 1)
             /\ \A i \in DOMAIN pieces :
                  CASE encoding = "OP_RETURN" -> MagicBytes + pieces[i] <= OpReturnSize
                    [] encoding = "MULTISIGN" -> MagicBytes + pieces[i] <= MultisignSlot
                    [] encoding = "TAPROOT"   -> pieces[i] \in 1 .. ElementSize
                    [] OTHER                  -> pieces[i] > 0 /\ RedeemSize(pieces[i]) <= ElementSize
  <2>. DEFINE n == Compiled
              w == PieceWidth(encoding)
              minimal == TailMinimal /\ encoding \in {"P2SH", "P2WSH", "TAPROOT"}
  <2>1. PathTyped /\ SettledOK
    BY <1>1 DEF PathInv
  <2>2. pieces = Pieces(n, w, minimal)
    BY <1>1, <2>1, SameSums DEF SettledOK, Cut
  <2>3. n \in Nat \ {0} /\ (TailMinimal => n > 1) /\ TailMinimal \in BOOLEAN
    <3>1. /\ LengthOf(action) \in Nat /\ (raw # None => raw.length \in Nat /\ raw.minimal \in BOOLEAN)
          /\ LengthOf(action) > 0 => action.minimal \in BOOLEAN
      BY <2>1, CompiledNat DEF PathTyped, RawPayloads, ActionPayloads, LengthOf
    <3>2. /\ ScriptPush(LengthOf(action)) \in Nat \ {0} /\ ScriptPush(LengthOf(action)) > LengthOf(action)
          /\ raw # None => ScriptPush(raw.length) \in Nat \ {0} /\ ScriptPush(raw.length) > raw.length
      BY <3>1 DEF ScriptPush
    <3>3. n \in Nat \ {0}
      BY <3>1, <3>2 DEF Compiled
    <3>4. TailMinimal \in BOOLEAN
      BY <3>1 DEF TailMinimal
    <3>5. TailMinimal => n > 1
      <4>1. CASE raw # None
        BY <3>1, <3>2, <4>1 DEF TailMinimal, Compiled
      <4>2. CASE raw = None
        BY <3>1, <3>2, <4>2 DEF TailMinimal, Compiled
      <4>. QED
        BY <4>1, <4>2
    <3>. QED
      BY <3>3, <3>4, <3>5
  <2>4. w \in {76, 60, 520, 476} /\ minimal \in BOOLEAN
    BY <2>3 DEF PieceWidth, OpReturnCompiled, OpReturnSize, MagicBytes, MultisignChunk, ElementSize, ScriptHashChunk
  <2>. HIDE DEF n, w, minimal
  <2>5. /\ Len(pieces) = Count(n, w) /\ Count(n, w) \in Nat \ {0}
        /\ pieces = [i \in 1 .. Count(n, w) |-> Piece(n, w, minimal, i)]
        /\ Total(pieces) = n
    <3>1. w \in Nat \ {0, 1} /\ n \in Nat \ {0}
      BY <2>3, <2>4
    <3>2. Len(pieces) = Count(n, w) /\ Total(pieces) = n
      BY <2>2, <2>4, <3>1, PiecesAddUp
    <3>3. Count(n, w) \in Nat \ {0}
      BY <3>1, CountBounds
    <3>. QED
      BY <2>2, <3>2, <3>3 DEF Pieces
  <2>6. /\ \A i \in 1 .. Count(n, w) : Piece(n, w, minimal, i) \in 1 .. w
        /\ Count(n, w) >= 2 /\ minimal => Piece(n, w, minimal, Count(n, w)) # 1
        /\ Count(n, w) = 1 => Piece(n, w, minimal, 1) = n
    BY <2>3, <2>4, PiecesCover
  <2>7. ASSUME encoding \in {"P2SH", "P2WSH", "TAPROOT"} PROVE ~(TailMinimal /\ pieces[Len(pieces)] = 1)
    BY <2>3, <2>5, <2>6, <2>7 DEF minimal
  <2>8. ASSUME NEW i \in DOMAIN pieces PROVE pieces[i] \in 1 .. w
    BY <2>5, <2>6
  <2>9. ASSUME NEW i \in DOMAIN pieces
        PROVE  CASE encoding = "OP_RETURN" -> MagicBytes + pieces[i] <= OpReturnSize
                 [] encoding = "MULTISIGN" -> MagicBytes + pieces[i] <= MultisignSlot
                 [] encoding = "TAPROOT"   -> pieces[i] \in 1 .. ElementSize
                 [] OTHER                  -> pieces[i] > 0 /\ RedeemSize(pieces[i]) <= ElementSize
    <3>1. CASE encoding = "OP_RETURN"
      BY <2>8, <3>1 DEF w, PieceWidth, OpReturnCompiled, OpReturnSize, MagicBytes
    <3>2. CASE encoding = "MULTISIGN"
      BY <2>8, <3>2 DEF w, PieceWidth, MultisignChunk, MultisignSlot, MagicBytes
    <3>3. CASE encoding = "TAPROOT"
      BY <2>8, <3>3 DEF w, PieceWidth
    <3>4. CASE encoding \notin {"OP_RETURN", "MULTISIGN", "TAPROOT"}
      <4>1. pieces[i] \in 1 .. 476
        BY <2>8, <3>4 DEF w, PieceWidth, ScriptHashChunk, ElementSize
      <4>2. RedeemSize(pieces[i]) <= ElementSize
        BY <4>1 DEF RedeemSize, ScriptPush, ElementSize
      <4>. QED
        BY <3>4, <4>1, <4>2
    <3>. QED
      BY <3>1, <3>2, <3>3, <3>4
  <2>. QED
    BY <2>5, <2>7, <2>9 DEF n
<1>2. PathInv => CarriersReassemble
  BY <1>1 DEF CarriersReassemble, Done
<1>. QED
  BY <1>2, PathInvariant, PTL

-----------------------------------------------------------------------------
(* The reveal that a commit pays for.                                      *)

LEMMA TotalAtLeast ==
    ASSUME NEW s \in Seq(Nat), NEW c \in Nat, \A i \in 1 .. Len(s) : s[i] >= c
    PROVE  Total(s) >= c * Len(s)
<1>. DEFINE t == [i \in 1 .. Len(s) |-> c]
<1>1. t \in Seq(Nat) /\ Len(t) = Len(s) /\ \A i \in 1 .. Len(t) : t[i] = c
  OBVIOUS
<1>. HIDE DEF t
<1>2. Total(t) = c * Len(t)
  BY <1>1, TotalOfEqual
<1>3. \A i \in 1 .. Len(t) : t[i] <= s[i]
  BY <1>1
<1>4. Total(t) <= Total(s)
  BY <1>1, <1>3, TotalsCompare
<1>5. Total(t) \in Nat /\ Total(s) \in Nat
  BY <1>1, TotalIsNatural
<1>. QED
  BY <1>1, <1>2, <1>4, <1>5

LEMMA Quarters ==
    ASSUME NEW k \in Nat, NEW m \in Nat
    PROVE  QuarterUp(4 * k + m) = k + QuarterUp(m)
BY DEF QuarterUp

LEMMA QuarterIsNatural ==
    ASSUME NEW m \in Nat
    PROVE  QuarterUp(m) \in Nat
BY DEF QuarterUp

LEMMA MaxOfTwo ==
    ASSUME NEW x \in Nat, NEW y \in Nat
    PROVE  MaxOf(x, y) \in Nat /\ MaxOf(x, y) >= x /\ MaxOf(x, y) >= y
BY DEF MaxOf

LEMMA CompactSizes ==
    ASSUME NEW n \in Nat
    PROVE  CompactSizeLen(n) \in {1, 3, 5}
<1>. DEFINE lo == 253
            hi == 65535
            size == CASE n < lo -> 1 [] n \in lo .. hi -> 3 [] OTHER -> 5
<1>1. CompactSizeLen(n) = size
  BY ONLY DEF CompactSizeLen
<1>2. lo \in Nat /\ hi \in Nat
  OBVIOUS
<1>. HIDE DEF lo, hi
<1>3. CASE n < lo
  <2>1. n \notin lo .. hi
    BY <1>2, <1>3
  <2>2. size = 1
    BY ONLY <1>3, <2>1
  <2>. QED
    BY ONLY <1>1, <2>2
<1>4. CASE n \in lo .. hi
  <2>1. ~(n < lo)
    BY <1>2, <1>4
  <2>2. size = 3
    BY ONLY <1>4, <2>1
  <2>. QED
    BY ONLY <1>1, <2>2
<1>5. CASE ~(n < lo) /\ n \notin lo .. hi
  <2>1. size = 5
    BY ONLY <1>5
  <2>. QED
    BY ONLY <1>1, <2>1
<1>. QED
  BY ONLY <1>3, <1>4, <1>5, Zenon

LEMMA Markers == MarkerOutput("P2SH") = 19 /\ MarkerOutput("P2WSH") = 20
<1>1. CompactSizeLen(10) = 1 /\ CompactSizeLen(11) = 1
  <2>1. 10 < 253 /\ 10 \notin 253 .. 65535 /\ 11 < 253 /\ 11 \notin 253 .. 65535
    OBVIOUS
  <2>. QED
    BY <2>1 DEF CompactSizeLen
<1>2. CompiledPushSize(8) = 9 /\ CompiledPushSize(9) = 10
  BY DEF CompiledPushSize
<1>. QED
  BY <1>1, <1>2 DEF MarkerOutput, OpReturnOutput, MagicBytes

\* The sizes a leg's script may have.
LegSizes == 1 .. 520

\* What a script-hash leg weighs, by its redeem or witness script.
LEMMA LegWeights ==
    ASSUME NEW r \in LegSizes
    PROVE  /\ ScriptPush(r) \in Nat /\ ScriptPush(r) <= 523
           /\ RedeemInput(r) \in Nat /\ 150 + ScriptPush(r) <= RedeemInput(r) + 8
           /\ WitnessItems(r) \in Nat /\ WitnessItems(r) <= 640
           /\ WitnessItems(r) = 1 + 73 + 34 + CompactSizeLen(r) + r
           /\ EstimateSpendingP2sh(r) \in Nat
<1>. r \in 1 .. 520
  BY DEF LegSizes
<1>1. ScriptPush(r) \in Nat /\ ScriptPush(r) <= 523 /\ ScriptPush(r) = CompiledPushSize(r)
  BY DEF ScriptPush, CompiledPushSize
<1>2. RedeemInput(r) \in Nat /\ 150 + ScriptPush(r) <= RedeemInput(r) + 8
  BY <1>1 DEF RedeemInput
<1>3. WitnessItems(r) \in Nat /\ WitnessItems(r) <= 640 /\ WitnessItems(r) = 1 + 73 + 34 + CompactSizeLen(r) + r
  BY CompactSizes DEF WitnessItems
<1>. QED
  BY <1>1, <1>2, <1>3, Markers DEF EstimateSpendingP2sh

LEMMA SpendingP2wsh ==
    ASSUME NEW r \in LegSizes, NEW pad \in Nat, NEW floor \in Nat
    PROVE  /\ EstimateSpendingP2wsh(r, pad, floor) \in Nat
           /\ 71 < floor => EstimateSpendingP2wsh(r, pad, floor) >= 71 + pad + QuarterUp(2 + WitnessItems(r)) + 8
<1>1. QuarterUp(2 + WitnessItems(r)) \in Nat
  <2>1. 2 + WitnessItems(r) \in Nat
    BY LegWeights, SMTT(30)
  <2>. QED
    BY <2>1, QuarterIsNatural
<1>2. MaxOf(71 + pad, floor) \in Nat /\ MaxOf(71 + pad, floor) >= 71 + pad
  BY MaxOfTwo
<1>. QED
  BY <1>1, <1>2, Markers DEF EstimateSpendingP2wsh

\* The carriers of a reveal: how many, how large, and what the reveal pays besides.
Carriers(s) ==
    /\ s \in Seq(Nat) /\ s # <<>>
    /\ \/ encoding \in {"P2SH", "P2WSH"} /\ Len(s) <= 18 /\ \A i \in 1 .. Len(s) : s[i] \in 1 .. 476
       \/ encoding = "TAPROOT" /\ Len(s) <= 750 /\ \A i \in 1 .. Len(s) : s[i] \in 1 .. 520

LEMMA BuiltCarriers ==
    ASSUME PathInv, pc = "done", encoding \in {"P2SH", "P2WSH", "TAPROOT"}
    PROVE  /\ Carriers(pieces)
           /\ PaymentBytes \in Nat /\ PaymentBytes <= 4343 /\ (PaymentBytes # 0 => PaymentBytes >= 31)
           /\ request.outputBytes \in 31 .. 43 /\ network.floor \in 0 .. 85
<1>. DEFINE n == CompiledOf(action, raw)
            w == PieceWidth(encoding)
            minimal == TailMinimal /\ encoding \in {"P2SH", "P2WSH", "TAPROOT"}
            ob == request.outputBytes
<1>1. PathTyped /\ TakenOK /\ SettledOK
  BY DEF PathInv
<1>2. encoding = CarrierOf(action, raw) /\ Payable(action, raw)
  BY <1>1 DEF SettledOK, CarrierOf
<1>3. pieces = Pieces(n, w, minimal) /\ n <= CeilingOf(Settled(action, raw))
  BY <1>1, <1>2, SameSums DEF SettledOK, Cut, PushDecodable
<1>4. n <= CeilingOf(encoding)
  <2>1. Settled(action, raw) = encoding \/ (Settled(action, raw) = None /\ encoding = "P2SH")
    BY <1>2 DEF CarrierOf
  <2>. QED
    BY <1>3, <2>1, NoneAssumption DEF CeilingOf, Encodings
<1>5. n \in Nat \ {0} /\ minimal \in BOOLEAN
  <2>1. /\ LengthOf(action) \in Nat /\ (raw # None => raw.length \in Nat /\ raw.minimal \in BOOLEAN)
        /\ LengthOf(action) > 0 => action.minimal \in BOOLEAN
    BY <1>1, CompiledNat DEF PathTyped, RawPayloads, ActionPayloads, LengthOf
  <2>2. n \in Nat \ {0}
    BY <2>1, SizesAgree DEF CompiledOf
  <2>3. TailMinimal \in BOOLEAN
    BY <2>1 DEF TailMinimal
  <2>. QED
    BY <2>2, <2>3
<1>. HIDE DEF n, minimal
<1>6. \/ w = 476 /\ encoding \in {"P2SH", "P2WSH"} /\ n <= 8192
      \/ w = 520 /\ encoding = "TAPROOT" /\ n <= 390000
  BY <1>4 DEF PieceWidth, ScriptHashChunk, ElementSize, CeilingOf, LegacyCeiling, EnvelopeCeiling
<1>. HIDE DEF w
<1>7. w \in Nat \ {0, 1}
  BY <1>6
<1>8. /\ pieces \in Seq(Nat) /\ Len(pieces) = Count(n, w) /\ Count(n, w) \in Nat \ {0}
      /\ \A i \in 1 .. Count(n, w) : pieces[i] \in 1 .. w
  <2>1. pieces \in Seq(Nat) /\ Len(pieces) = Count(n, w)
    BY <1>3, <1>5, <1>7, PiecesAddUp
  <2>2. Count(n, w) \in Nat \ {0}
    BY <1>5, <1>7, CountBounds
  <2>3. \A i \in 1 .. Count(n, w) : Piece(n, w, minimal, i) \in 1 .. w
    BY <1>5, <1>7, PiecesCover
  <2>. QED
    BY <1>3, <2>1, <2>2, <2>3 DEF Pieces
<1>9. /\ n <= 8192 => Count(n, 476) <= 18
      /\ n <= 390000 => Count(n, 520) <= 750
  BY <1>5 DEF Count
<1>10. Carriers(pieces)
  <2>1. pieces # <<>>
    BY <1>8
  <2>2. CASE w = 476 /\ encoding \in {"P2SH", "P2WSH"} /\ n <= 8192
    BY <1>8, <1>9, <2>1, <2>2 DEF Carriers
  <2>3. CASE w = 520 /\ encoding = "TAPROOT" /\ n <= 390000
    BY <1>8, <1>9, <2>1, <2>3 DEF Carriers
  <2>. QED
    BY <1>6, <2>2, <2>3
<1>11. ob \in 31 .. 43 /\ network.floor \in 0 .. 85
  <2>1. request \in CreateCalls /\ network \in Networks
    BY <1>1 DEF PathTyped
  <2>2. ob \in 31 .. 43
    BY <2>1 DEF CreateCalls
  <2>3. network.floor \in Nat
    BY <2>1, RequestsAssumption, Zenon
  <2>4. network.floor <= 85
    BY <2>1, RelayAssumption
  <2>. QED
    BY <2>2, <2>3, <2>4
<1>12. Len(request.payments) \in 0 .. 100
  <2>1. request.payments \in Seq(Payments)
    <3>1. request \in CreateCalls
      BY <1>1 DEF PathTyped
    <3>. QED
      BY <3>1 DEF CreateCalls
  <2>. DEFINE paid == Len(request.payments)
  <2>2. paid <= MaxOutputs
    BY <1>1 DEF TakenOK, Running, FieldsAccepted, PaymentFieldsAccepted
  <2>3. MaxOutputs <= 100 /\ MaxOutputs \in Nat
    BY RelayAssumption, WidthsAssumption, Zenon
  <2>4. paid \in Nat
    BY <2>1
  <2>. HIDE DEF paid
  <2>5. paid \in 0 .. 100
    BY <2>2, <2>3, <2>4
  <2>. QED
    BY <2>5 DEF paid
<1>13. /\ PaymentBytes \in Nat /\ PaymentBytes <= 4343 /\ (PaymentBytes # 0 => PaymentBytes >= 31)
  <2>. DEFINE k == Len(request.payments) + (IF request.quote = None THEN 0 ELSE 1)
  <2>1. k \in 0 .. 101
    <3>. DEFINE paid == Len(request.payments)
    <3>1. paid \in 0 .. 100
      BY <1>12
    <3>. HIDE DEF paid
    <3>2. CASE request.quote = None
      <4>1. k = paid + 0
        BY <3>2 DEF paid
      <4>. HIDE DEF k
      <4>. QED
        BY <3>1, <4>1
    <3>3. CASE request.quote # None
      <4>1. k = paid + 1
        BY <3>3 DEF paid
      <4>. HIDE DEF k
      <4>. QED
        BY <3>1, <4>1
    <3>. QED
      BY <3>2, <3>3
  <2>. HIDE DEF k, ob
  <2>2. ob \in 31 .. 43
    BY <1>11
  <2>3. ob * k \in Nat /\ ob * k <= 43 * k /\ ob * k >= 31 * k
    BY <2>1, <2>2
  <2>4. PaymentBytes = ob * k
    BY DEF PaymentBytes, k, ob
  <2>. QED
    BY <2>1, <2>3, <2>4
<1>. QED
  BY <1>10, <1>11, <1>13

\* What RevealRelays says.
Relays ==
    /\ QuarterUp(Weight(request.outputBytes)) <= PricedBytes
    /\ StrippedSize(0) >= network.floor
    /\ Weight(43) <= MaxStandardWeight

LEMMA NotEmpty ==
    ASSUME NEW s \in Seq(Nat), s # <<>>
    PROVE  /\ Len(s) \in Nat /\ Len(s) >= 1 /\ DOMAIN s = 1 .. Len(s)
<1>1. Len(s) \in Nat /\ Len(s) # 0 /\ DOMAIN s = 1 .. Len(s)
  OBVIOUS
<1>. QED
  BY <1>1

\* The scripts of the legs.
LEMMA RedeemsOfPieces ==
    ASSUME Carriers(pieces), encoding \in {"P2SH", "P2WSH"}
    PROVE  /\ Len(pieces) \in 1 .. 18 /\ DOMAIN pieces = 1 .. Len(pieces) /\ DOMAIN Redeems = 1 .. Len(pieces)
           /\ \A i \in 1 .. Len(pieces) : Redeems[i] \in LegSizes
<1>1. /\ pieces \in Seq(Nat) /\ pieces # <<>> /\ Len(pieces) <= 18
      /\ \A i \in 1 .. Len(pieces) : pieces[i] \in 1 .. 476
  BY DEF Carriers
<1>. DEFINE Sizes == 1 .. 476
<1>2. Len(pieces) \in 1 .. 18 /\ DOMAIN pieces = 1 .. Len(pieces)
  <2>1. pieces \in Seq(Nat) /\ pieces # <<>>
    BY ONLY <1>1
  <2>2. Len(pieces) \in Nat /\ Len(pieces) >= 1
    BY ONLY <2>1, NotEmpty
  <2>3. DOMAIN pieces = 1 .. Len(pieces)
    BY ONLY <2>1, NotEmpty
  <2>4. Len(pieces) <= 18
    BY ONLY <1>1
  <2>. DEFINE n == Len(pieces)
  <2>5. n \in Nat /\ n >= 1 /\ n <= 18
    BY ONLY <2>2, <2>4, Zenon
  <2>. HIDE DEF n
  <2>6. n \in 1 .. 18
    BY ONLY <2>5
  <2>7. Len(pieces) \in 1 .. 18
    BY ONLY <2>6, Zenon DEF n
  <2>. QED
    BY ONLY <2>3, <2>7, Zenon
<1>3. DOMAIN Redeems = 1 .. Len(pieces) /\ \A i \in 1 .. Len(pieces) : Redeems[i] = RedeemSize(pieces[i])
  BY <1>2 DEF Redeems
<1>4. ASSUME NEW n \in Sizes PROVE RedeemSize(n) \in LegSizes
  BY DEF RedeemSize, ScriptPush, LegSizes
<1>5. \A i \in 1 .. Len(pieces) : pieces[i] \in Sizes
  BY ONLY <1>1
<1>. HIDE DEF Sizes
<1>6. \A i \in 1 .. Len(pieces) : RedeemSize(pieces[i]) \in LegSizes
  BY ONLY <1>4, <1>5, Zenon
<1>7. \A i \in 1 .. Len(pieces) : Redeems[i] \in LegSizes
  BY ONLY <1>3, <1>6, Zenon
<1>. QED
  BY ONLY <1>2, <1>3, <1>7

LEMMA P2shRelays ==
    ASSUME PathInv, pc = "done", encoding = "P2SH"
    PROVE  Relays
<1>. DEFINE N == Len(pieces)
            priced == [i \in 1 .. N |-> RedeemInput(Redeems[i]) + 8]
            signed == [i \in 1 .. N |-> 40 + 3 + 73 + 34 + ScriptPush(Redeems[i])]
            shares == [i \in 1 .. N |-> EstimateSpendingP2sh(Redeems[i])]
            P == PaymentBytes
            ob == request.outputBytes
            F == network.floor
<1>1. /\ Carriers(pieces) /\ P \in Nat /\ P <= 4343 /\ ob \in 31 .. 43 /\ F \in 0 .. 85
  BY BuiltCarriers
<1>2. N \in 1 .. 18 /\ DOMAIN pieces = 1 .. N /\ DOMAIN Redeems = 1 .. N /\ \A i \in 1 .. N : Redeems[i] \in LegSizes
  <2>1. encoding \in {"P2SH", "P2WSH"} /\ Carriers(pieces)
    BY <1>1
  <2>2. /\ Len(pieces) \in 1 .. 18 /\ DOMAIN pieces = 1 .. Len(pieces) /\ DOMAIN Redeems = 1 .. Len(pieces)
        /\ \A i \in 1 .. Len(pieces) : Redeems[i] \in LegSizes
    BY ONLY <2>1, RedeemsOfPieces
  <2>. QED
    BY ONLY <2>2
<1>. HIDE DEF N, P, ob, F
<1>3. \A i \in 1 .. N : /\ ScriptPush(Redeems[i]) \in Nat /\ ScriptPush(Redeems[i]) <= 523
                        /\ RedeemInput(Redeems[i]) \in Nat
                        /\ 150 + ScriptPush(Redeems[i]) <= RedeemInput(Redeems[i]) + 8
                        /\ EstimateSpendingP2sh(Redeems[i]) \in Nat
  <2>1. ASSUME NEW r \in LegSizes
        PROVE  /\ ScriptPush(r) \in Nat /\ ScriptPush(r) <= 523
               /\ RedeemInput(r) \in Nat
               /\ 150 + ScriptPush(r) <= RedeemInput(r) + 8
               /\ EstimateSpendingP2sh(r) \in Nat
    BY ONLY r \in LegSizes, LegWeights
  <2>. QED
    BY ONLY <1>2, <2>1
<1>4. /\ priced \in Seq(Nat) /\ signed \in Seq(Nat) /\ shares \in Seq(Nat)
      /\ Len(priced) = N /\ Len(signed) = N
  <2>1. N \in Nat
    BY ONLY <1>2
  <2>2. \A i \in 1 .. N : RedeemInput(Redeems[i]) + 8 \in Nat
    BY ONLY <1>3
  <2>3. \A i \in 1 .. N : 40 + 3 + 73 + 34 + ScriptPush(Redeems[i]) \in Nat
    BY ONLY <1>3
  <2>4. \A i \in 1 .. N : EstimateSpendingP2sh(Redeems[i]) \in Nat
    BY ONLY <1>3, Zenon
  <2>5. priced \in Seq(Nat) /\ Len(priced) = N
    BY ONLY <2>1, <2>2
  <2>6. signed \in Seq(Nat) /\ Len(signed) = N
    BY ONLY <2>1, <2>3
  <2>7. shares \in Seq(Nat)
    BY ONLY <2>1, <2>4
  <2>. QED
    BY ONLY <2>5, <2>6, <2>7
<1>5. \A i \in 1 .. N : signed[i] <= priced[i] /\ signed[i] <= 673 /\ signed[i] >= 150
  BY ONLY <1>3
<1>6. /\ PricedBytes = MaxOf(Total(shares), 10 + Total(priced) + 19 + 43) + P
      /\ \A sweep : StrippedSize(sweep) = 10 + Total(signed) + 19 + P + sweep
      /\ WitnessBytes = 0
  BY <1>2, Markers DEF PricedBytes, EstimateP2shReveal, StrippedSize, WitnessBytes, Overhead, P
<1>. HIDE DEF priced, signed, shares
<1>7. Total(shares) \in Nat /\ Total(priced) \in Nat /\ Total(signed) \in Nat
  BY <1>4, TotalIsNatural
<1>8. Total(signed) <= Total(priced) /\ Total(signed) <= 673 * N /\ Total(signed) >= 150 * N
  <2>1. Total(signed) <= Total(priced)
    BY <1>4, <1>5, TotalsCompare, ZenonT(60)
  <2>2. Total(signed) <= 673 * Len(signed)
    <3>1. 673 \in Nat /\ signed \in Seq(Nat) /\ \A i \in 1 .. Len(signed) : signed[i] <= 673
      BY <1>4, <1>5
    <3>. QED
      BY <3>1, TotalBounded
  <2>3. Total(signed) >= 150 * Len(signed)
    BY <1>4, <1>5, TotalAtLeast, ZenonT(60)
  <2>. QED
    BY <1>4, <2>1, <2>2, <2>3
<1>9. PricedBytes >= 10 + Total(priced) + 19 + 43 + P
  <2>1. MaxOf(Total(shares), 10 + Total(priced) + 19 + 43) \in Nat
        /\ MaxOf(Total(shares), 10 + Total(priced) + 19 + 43) >= 10 + Total(priced) + 19 + 43
    <3>1. Total(shares) \in Nat /\ 10 + Total(priced) + 19 + 43 \in Nat
      BY <1>7
    <3>. QED
      BY <3>1, MaxOfTwo
  <2>. QED
    BY <1>1, <1>6, <1>7, <2>1
<1>10. \A sweep \in Nat : QuarterUp(Weight(sweep)) = StrippedSize(sweep) /\ Weight(sweep) = 4 * StrippedSize(sweep)
  <2>. SUFFICES ASSUME NEW sweep \in Nat
                PROVE  QuarterUp(Weight(sweep)) = StrippedSize(sweep) /\ Weight(sweep) = 4 * StrippedSize(sweep)
    OBVIOUS
  <2>1. StrippedSize(sweep) \in Nat
    BY <1>1, <1>6, <1>7
  <2>2. Weight(sweep) = 4 * StrippedSize(sweep) + 0 /\ QuarterUp(0) = 0
    BY <1>6 DEF Weight, QuarterUp
  <2>. QED
    BY <2>1, <2>2, Quarters
<1>11. QuarterUp(Weight(ob)) <= PricedBytes
  <2>1. QuarterUp(Weight(ob)) = 10 + Total(signed) + 19 + P + ob
    BY <1>1, <1>6, <1>10
  <2>2. PricedBytes \in Int
    BY <1>1, <1>6, <1>7 DEF MaxOf
  <2>. QED
    BY <1>1, <1>7, <1>8, <1>9, <2>1, <2>2
<1>12. StrippedSize(0) >= F
  <2>1. StrippedSize(0) = 10 + Total(signed) + 19 + P + 0
    BY <1>6
  <2>2. P \in Nat /\ F <= 85 /\ F \in Int /\ N >= 1 /\ N \in Nat
    BY <1>1, <1>2
  <2>3. Total(signed) >= 150
    BY <1>7, <1>8, <2>2
  <2>. QED
    BY ONLY <1>7, <2>1, <2>2, <2>3
<1>13. Weight(43) <= MaxStandardWeight
  <2>1. Weight(43) = 4 * (10 + Total(signed) + 19 + P + 43)
    BY <1>6, <1>10
  <2>2. P \in Nat /\ P <= 4343 /\ N \in Nat /\ N <= 18
    BY ONLY <1>1, <1>2
  <2>. QED
    BY ONLY <1>7, <1>8, <2>1, <2>2 DEF MaxStandardWeight
<1>. QED
  BY <1>11, <1>12, <1>13 DEF Relays, ob, F

LEMMA P2wshRelays ==
    ASSUME PathInv, pc = "done", encoding = "P2WSH"
    PROVE  Relays
<1>. DEFINE N == Len(pieces)
            items == [i \in 1 .. N |-> WitnessItems(Redeems[i])]
            inputs == [i \in 1 .. N |-> 41]
            shares == [i \in 1 .. N |-> EstimateSpendingP2wsh(Redeems[i], 0, network.floor)]
            P == PaymentBytes
            ob == request.outputBytes
            F == network.floor
            Q == QuarterUp(2 + Total(items))
<1>1. /\ Carriers(pieces) /\ P \in Nat /\ P <= 4343 /\ (P # 0 => P >= 31) /\ ob \in 31 .. 43 /\ F \in 0 .. 85
  BY BuiltCarriers
<1>2. N \in 1 .. 18 /\ DOMAIN pieces = 1 .. N /\ DOMAIN Redeems = 1 .. N /\ \A i \in 1 .. N : Redeems[i] \in LegSizes
  <2>1. encoding \in {"P2SH", "P2WSH"} /\ Carriers(pieces)
    BY <1>1
  <2>2. /\ Len(pieces) \in 1 .. 18 /\ DOMAIN pieces = 1 .. Len(pieces) /\ DOMAIN Redeems = 1 .. Len(pieces)
        /\ \A i \in 1 .. Len(pieces) : Redeems[i] \in LegSizes
    BY ONLY <2>1, RedeemsOfPieces
  <2>. QED
    BY ONLY <2>2
<1>3. Padded <=> 30 + 41 * N + P < F
  BY DEF Padded, RevealPadded
<1>. HIDE DEF N, P, ob
<1>4. \A i \in 1 .. N : /\ WitnessItems(Redeems[i]) \in Nat /\ WitnessItems(Redeems[i]) <= 640
                        /\ WitnessItems(Redeems[i]) = 1 + 73 + 34 + CompactSizeLen(Redeems[i]) + Redeems[i]
                        /\ EstimateSpendingP2wsh(Redeems[i], 0, F) \in Nat
  <2>1. F \in Nat
    BY <1>1
  <2>2. ASSUME NEW r \in LegSizes
        PROVE  /\ WitnessItems(r) \in Nat /\ WitnessItems(r) <= 640
               /\ WitnessItems(r) = 1 + 73 + 34 + CompactSizeLen(r) + r
               /\ EstimateSpendingP2wsh(r, 0, F) \in Nat
    <3>1. 0 \in Nat
      OBVIOUS
    <3>2. EstimateSpendingP2wsh(r, 0, F) \in Nat
      BY <2>1, <3>1, SpendingP2wsh
    <3>. QED
      BY ONLY r \in LegSizes, <3>2, LegWeights
  <2>. QED
    BY ONLY <1>2, <2>2
<1>5. /\ items \in Seq(Nat) /\ inputs \in Seq(Nat) /\ shares \in Seq(Nat) /\ Len(items) = N /\ Len(inputs) = N
      /\ \A i \in 1 .. N : inputs[i] = 41 /\ items[i] <= 640
  BY <1>2, <1>4
<1>6. WitnessBytes = 2 + Total(items)
  <2>1. [i \in DOMAIN pieces |-> 1 + 73 + 34 + CompactSizeLen(Redeems[i]) + Redeems[i]] = items
    BY <1>2, <1>4
  <2>. HIDE DEF items
  <2>. QED
    BY <2>1 DEF WitnessBytes
<1>7. /\ ~Padded => PricedBytes = MaxOf(Total(shares), MaxOf(10 + Total(inputs) + 20 + 43, F) + Q + 8) + P
      /\ Padded => PricedBytes = EstimateSpendingP2wsh(Redeems[1], ob, F) + P
  BY <1>2, Markers DEF PricedBytes, EstimateP2wshReveal, P, ob
<1>8. \A sweep : StrippedSize(sweep) = 10 + 41 * N + 20 + P + (IF Padded THEN ob ELSE sweep)
  BY DEF StrippedSize, Overhead, N, P, ob
<1>. HIDE DEF items, inputs, shares, F
<1>9. /\ Total(items) \in Nat /\ Total(items) <= 640 * N /\ Total(inputs) = 41 * N /\ Total(shares) \in Nat
  <2>1. Total(items) \in Nat /\ Total(shares) \in Nat
    BY <1>5, TotalIsNatural
  <2>2. Total(items) <= 640 * Len(items)
    BY <1>5, TotalBounded
  <2>3. Total(inputs) = 41 * Len(inputs)
    <3>1. 41 \in Nat /\ inputs \in Seq(Nat) /\ \A i \in 1 .. Len(inputs) : inputs[i] = 41
      BY <1>5
    <3>. QED
      BY <3>1, TotalOfEqual
  <2>. QED
    BY <1>5, <2>1, <2>2, <2>3
<1>10. Q \in Nat
  <2>1. 2 + Total(items) \in Nat
    BY <1>9
  <2>. QED
    BY <2>1, QuarterIsNatural
<1>. HIDE DEF Q
<1>11. ASSUME NEW sweep \in Nat
       PROVE  /\ StrippedSize(sweep) \in Nat
              /\ Weight(sweep) = 4 * StrippedSize(sweep) + (2 + Total(items))
              /\ QuarterUp(Weight(sweep)) = StrippedSize(sweep) + Q
  <2>1. StrippedSize(sweep) \in Nat
    BY <1>1, <1>2, <1>8
  <2>2. Weight(sweep) = 4 * StrippedSize(sweep) + (2 + Total(items))
    BY <1>6 DEF Weight
  <2>3. 2 + Total(items) \in Nat
    BY <1>9
  <2>. QED
    BY <2>1, <2>2, <2>3, Quarters DEF Q
<1>12. Padded => N = 1 /\ P = 0 /\ 71 < F
  BY <1>1, <1>2, <1>3
<1>13. QuarterUp(Weight(ob)) <= PricedBytes
  <2>. DEFINE bytes == 10 + 41 * N + 20 + P + ob
  <2>1. QuarterUp(Weight(ob)) = bytes + Q
    BY <1>1, <1>8, <1>11
  <2>2. bytes \in Nat
    BY <1>1, <1>2
  <2>3. CASE ~Padded
    <3>. DEFINE whole == MaxOf(10 + Total(inputs) + 20 + 43, F) + Q + 8
    <3>1. MaxOf(10 + Total(inputs) + 20 + 43, F) \in Nat /\ MaxOf(10 + Total(inputs) + 20 + 43, F) >= 10 + 41 * N + 20 + 43
      <4>1. 10 + Total(inputs) + 20 + 43 \in Nat /\ F \in Nat /\ Total(inputs) = 41 * N
        BY <1>1, <1>2, <1>9
      <4>2. /\ MaxOf(10 + Total(inputs) + 20 + 43, F) \in Nat
            /\ MaxOf(10 + Total(inputs) + 20 + 43, F) >= 10 + Total(inputs) + 20 + 43
        BY <4>1, MaxOfTwo
      <4>. QED
        BY <4>1, <4>2
    <3>2. whole \in Nat /\ whole >= 10 + 41 * N + 20 + 43 + Q + 8
      BY <1>2, <1>10, <3>1
    <3>3. PricedBytes = MaxOf(Total(shares), whole) + P
      BY <1>7, <2>3
    <3>. HIDE DEF whole
    <3>4. MaxOf(Total(shares), whole) \in Nat /\ MaxOf(Total(shares), whole) >= whole
      BY <1>9, <3>2, MaxOfTwo
    <3>. QED
      BY <1>1, <1>2, <1>10, <2>1, <3>2, <3>3, <3>4
  <2>4. CASE Padded
    <3>1. N = 1 /\ P = 0 /\ 71 < F /\ Redeems[1] \in LegSizes
      BY <1>2, <1>12, <2>4
    <3>2. Total(items) = WitnessItems(Redeems[1])
      <4>1. \A i \in 1 .. Len(items) : items[i] = WitnessItems(Redeems[1])
        BY <1>5, <3>1 DEF items
      <4>2. WitnessItems(Redeems[1]) \in Nat
        BY <1>4, <3>1
      <4>3. Total(items) = WitnessItems(Redeems[1]) * Len(items)
        BY <1>5, <4>1, <4>2, TotalOfEqual, SMTT(30)
      <4>. QED
        BY <1>5, <3>1, <4>2, <4>3
    <3>3. /\ EstimateSpendingP2wsh(Redeems[1], ob, F) \in Nat
          /\ EstimateSpendingP2wsh(Redeems[1], ob, F) >= 71 + ob + Q + 8
      <4>1. ob \in Nat /\ F \in Nat
        BY <1>1
      <4>. QED
        BY <3>1, <3>2, <4>1, SpendingP2wsh, Zenon DEF Q
    <3>4. PricedBytes = EstimateSpendingP2wsh(Redeems[1], ob, F)
      BY <1>7, <2>4, <3>1, <3>3
    <3>. QED
      BY <1>1, <1>10, <2>1, <3>1, <3>3, <3>4
  <2>. QED
    BY <2>3, <2>4
<1>14. StrippedSize(0) >= F
  BY <1>1, <1>2, <1>3, <1>8, <1>12
<1>15. Weight(43) <= MaxStandardWeight
  <2>1. StrippedSize(43) <= 10 + 41 * N + 20 + P + 43 /\ StrippedSize(43) \in Nat
    BY <1>1, <1>2, <1>8
  <2>2. Weight(43) = 4 * StrippedSize(43) + (2 + Total(items))
    BY <1>11
  <2>3. P \in Nat /\ P <= 4343
    BY ONLY <1>1
  <2>4. N \in Nat /\ N <= 18
    BY ONLY <1>2
  <2>5. Total(items) \in Nat /\ Total(items) <= 640 * N
    BY ONLY <1>9
  <2>. QED
    BY ONLY <2>1, <2>2, <2>3, <2>4, <2>5 DEF MaxStandardWeight
<1>. QED
  BY <1>13, <1>14, <1>15 DEF Relays, ob, F

LEMMA EnvelopeRelays ==
    ASSUME PathInv, pc = "done", encoding = "TAPROOT"
    PROVE  Relays
<1>. DEFINE N == Len(pieces)
            pushes == [i \in 1 .. N |-> ScriptPush(pieces[i])]
            leaf == LeafSize(pieces)
            outs == EnvelopeOutputs
            ob == request.outputBytes
            F == network.floor
            witness == 2 + 1 + 66 + CompactSizeLen(leaf) + leaf + 34
<1>1. /\ pieces \in Seq(Nat) /\ pieces # <<>> /\ Len(pieces) <= 750 /\ \A i \in 1 .. Len(pieces) : pieces[i] \in 1 .. 520
      /\ ob \in 31 .. 43 /\ F \in 0 .. 85
  BY BuiltCarriers, SMTT(30) DEF Carriers
<1>2. N \in 1 .. 750 /\ DOMAIN pieces = 1 .. N /\ \A i \in 1 .. N : pieces[i] \in LegSizes
  <2>. DEFINE Limit == 750
  <2>. Limit = 750
    OBVIOUS
  <2>. HIDE DEF Limit
  <2>1. Len(pieces) \in 1 .. Limit /\ DOMAIN pieces = 1 .. Len(pieces)
    <3>1. pieces \in Seq(Nat) /\ pieces # <<>>
      BY ONLY <1>1
    <3>2. Len(pieces) \in Nat /\ Len(pieces) >= 1
      BY ONLY <3>1, NotEmpty
    <3>3. DOMAIN pieces = 1 .. Len(pieces)
      BY ONLY <3>1, NotEmpty
    <3>4. Len(pieces) <= Limit
      BY ONLY <1>1, Zenon DEF Limit
    <3>. DEFINE n == Len(pieces)
    <3>5. n \in Nat /\ n >= 1 /\ n <= Limit
      BY ONLY <3>2, <3>4, Zenon
    <3>. HIDE DEF n
    <3>6. n \in 1 .. Limit
      BY ONLY <3>5, Limit = 750
    <3>. QED
      BY ONLY <3>3, <3>6, Zenon DEF n
  <2>2. \A i \in 1 .. Len(pieces) : pieces[i] \in LegSizes
    BY <1>1 DEF LegSizes
  <2>. QED
    BY ONLY <2>1, <2>2, Zenon DEF Limit
<1>3. outs = ob * (IF 10 + 41 + ob < F THEN 2 ELSE 1)
  BY DEF EnvelopeOutputs, EnvelopePadded
<1>. HIDE DEF N, ob, F
<1>4. \A i \in 1 .. N : ScriptPush(pieces[i]) \in Nat /\ ScriptPush(pieces[i]) <= 523
  <2>1. ASSUME NEW r \in LegSizes PROVE ScriptPush(r) \in Nat /\ ScriptPush(r) <= 523
    BY ONLY r \in LegSizes, LegWeights
  <2>. QED
    BY ONLY <1>2, <2>1
<1>5. pushes \in Seq(Nat) /\ Len(pushes) = N /\ \A i \in 1 .. N : pushes[i] <= 523
  BY ONLY <1>2, <1>4
<1>6. leaf = 44 + Total(pushes)
  BY <1>2 DEF LeafSize, LeafFrame
<1>. HIDE DEF pushes
<1>7. Total(pushes) \in Nat /\ Total(pushes) <= 523 * N
  BY <1>5, TotalIsNatural, TotalBounded
<1>8. leaf \in Nat /\ leaf <= 392294
  BY <1>2, <1>6, <1>7
<1>. HIDE DEF leaf, outs
<1>9. outs \in Nat /\ outs <= 86 /\ 10 + 41 + outs >= F
  <2>1. CASE 10 + 41 + ob < F
    BY <1>1, <1>3, <2>1
  <2>2. CASE ~(10 + 41 + ob < F)
    BY <1>1, <1>3, <2>2
  <2>. QED
    BY <2>1, <2>2
<1>10. CompactSizeLen(leaf) \in {1, 3, 5}
  BY <1>8, CompactSizes
<1>11. witness \in Nat /\ witness <= 392294 + 108
  BY <1>8, <1>10
<1>12. /\ WitnessBytes = witness
       /\ \A sweep : StrippedSize(sweep) = 10 + 41 + outs
       /\ PricedBytes = MaxOf(10 + 41 + outs, F) + QuarterUp(witness) + 2
  BY DEF WitnessBytes, StrippedSize, Overhead, PricedBytes, EstimateEnvelopeReveal, leaf, outs, F
<1>. HIDE DEF witness
<1>13. QuarterUp(witness) \in Nat
  BY <1>11, QuarterIsNatural
<1>14. \A sweep : Weight(sweep) = 4 * (10 + 41 + outs) + witness
  BY <1>12 DEF Weight
<1>15. QuarterUp(Weight(ob)) = 10 + 41 + outs + QuarterUp(witness)
  <2>. DEFINE k == 10 + 41 + outs
  <2>1. k \in Nat
    BY <1>9
  <2>2. Weight(ob) = 4 * k + witness
    BY <1>14
  <2>. HIDE DEF k
  <2>3. QuarterUp(Weight(ob)) = k + QuarterUp(witness)
    BY <1>11, <2>1, <2>2, Quarters
  <2>. QED
    BY <2>3 DEF k
<1>16. PricedBytes >= 10 + 41 + outs + QuarterUp(witness)
  <2>1. 10 + 41 + outs \in Nat /\ F \in Nat
    BY <1>1, <1>9
  <2>2. MaxOf(10 + 41 + outs, F) \in Nat /\ MaxOf(10 + 41 + outs, F) >= 10 + 41 + outs
    BY <2>1, MaxOfTwo
  <2>. QED
    BY <1>9, <1>12, <1>13, <2>2
<1>17. Weight(43) <= MaxStandardWeight
  BY <1>9, <1>11, <1>14 DEF MaxStandardWeight
<1>18. StrippedSize(0) >= F
  BY <1>9, <1>12
<1>. QED
  BY <1>15, <1>16, <1>17, <1>18 DEF Relays, ob, F

\* What a commit sets aside is enough for its reveal, on every lane: its weight is
\* priced, its stripped bytes clear the floor and it is standard
\* (size_estimation.js:119-244, reveal_outputs.js:45-62).
THEOREM RevealsRelay == Spec => []RevealRelays
<1>1. PathInv => RevealRelays
  BY P2shRelays, P2wshRelays, EnvelopeRelays DEF RevealRelays, Relays, Done
<1>. QED
  BY <1>1, PathInvariant, PTL
=============================================================================
