------------------------ MODULE FeeSettlementProofs ------------------------
(***************************************************************************)
(* Proofs about FeeSettlement and RevealFunding, for any request, market,  *)
(* ancestors and second call, at any dust, floor and multiplier.  First    *)
(* what a fee is: feeForVsize is the least amount that pays a size at a    *)
(* rate, and everything it is used for follows from that.  Then the        *)
(* invariant, one part per thing a step settles, and from it the           *)
(* properties of the builds; last the second call of a chunked build.      *)
(***************************************************************************)
EXTENDS RevealFunding, WellFoundedInduction, TLAPS

-----------------------------------------------------------------------------
(* The larger, and the smaller.                                            *)

LEMMA MaxOfTwo ==
    ASSUME NEW a \in Int, NEW b \in Int
    PROVE  Max({a, b}) = IF a >= b THEN a ELSE b
<1>. DEFINE m == IF a >= b THEN a ELSE b
<1>1. m \in {a, b} /\ \A y \in {a, b} : m >= y
  OBVIOUS
<1>2. Max({a, b}) \in {a, b} /\ \A y \in {a, b} : Max({a, b}) >= y
  BY <1>1 DEF Max
<1>. QED
  BY <1>2

\* A nonempty set of naturals has a least member.
LEMMA LeastOf ==
    ASSUME NEW S \in SUBSET Nat, S # {}
    PROVE  \E x \in S : \A y \in S : x <= y
<1>1. IsWellFoundedOn(OpToRel(<, Nat), Nat)
  BY NatLessThanWellFounded
<1>2. PICK x \in S : \A y \in S : ~(<<y, x>> \in OpToRel(<, Nat))
  BY <1>1, WFMin
<1>3. \A y \in S : ~(y < x)
  BY <1>2 DEF OpToRel
<1>. QED
  BY <1>3

\* So has a set of integers that holds one.
LEMMA LeastInt ==
    ASSUME NEW S \in SUBSET Int, NEW b \in Int, \A x \in S : b <= x, S # {}
    PROVE  Min(S) \in S /\ \A y \in S : Min(S) <= y
<1>. DEFINE T == {x - b : x \in S}
<1>1. T \in SUBSET Nat /\ T # {}
  <2>1. PICK x \in S : TRUE
    OBVIOUS
  <2>2. x - b \in T
    BY <2>1
  <2>. QED
    BY <2>2
<1>2. PICK t \in T : \A u \in T : t <= u
  <2>. HIDE DEF T
  <2>. QED
    BY <1>1, LeastOf
<1>3. PICK x \in S : t = x - b
  BY <1>2
<1>4. \A y \in S : x <= y
  <2>. TAKE y \in S
  <2>1. t <= y - b
    BY <1>2
  <2>. QED
    BY <1>3, <2>1
<1>. QED
  BY <1>4 DEF Min

-----------------------------------------------------------------------------
(* A fee for a size.                                                       *)

LEMMA Constants ==
    /\ Dust \in Nat \ {0} /\ OutputFloor \in Nat /\ OutputFloor >= Dust
    /\ BurnBackstop \in Nat \ {0} /\ SuggestedRelayMultiplier \in Nat \ {0} /\ Kilo \in Nat \ {0}
    /\ MaxInputs \in Nat \ {0} /\ InputBytes \in Nat \ {0}
    /\ ChangeBytes \in Nat /\ StrippedInput \in Nat
BY FeeAssumption

\* Rounding up: the least multiple that is not under the amount.
LEMMA RoundUp ==
    ASSUME NEW x \in Nat, NEW k \in Nat \ {0}
    PROVE  LET q == (x + k - 1) \div k
           IN  q \in Nat /\ x <= k * q /\ \A m \in Nat : x <= k * m => q <= m
<1>. DEFINE q == (x + k - 1) \div k
            r == (x + k - 1) % k
<1>1. q \in Int /\ r \in 0 .. (k - 1) /\ x + k - 1 = k * q + r
  OBVIOUS
<1>. HIDE DEF q, r
<1>2. k * q \in Int /\ x <= k * q /\ k * q <= x + k - 1
  BY <1>1
<1>3. q >= 0
  <2>. SUFFICES ASSUME q <= -1 PROVE FALSE
    BY <1>1
  <2>1. k * q <= k * (-1)
    BY <1>1
  <2>. QED
    BY <1>2, <2>1
<1>4. ASSUME NEW m \in Nat, x <= k * m PROVE q <= m
  <2>. SUFFICES ASSUME m + 1 <= q PROVE FALSE
    BY <1>1
  <2>1. k * (m + 1) <= k * q
    BY <1>1
  <2>2. k * (m + 1) = k * m + k
    OBVIOUS
  <2>. QED
    BY <1>2, <1>4, <2>1, <2>2
<1>. QED
  BY <1>1, <1>2, <1>3, <1>4 DEF q

\* feeForVsize: the least fee at which the size pays the rate.
LEMMA FeeIsLeast ==
    ASSUME NEW bytes \in Nat, NEW rate \in Nat
    PROVE  /\ FeeFor(bytes, rate) \in Nat
           /\ bytes * rate <= Kilo * FeeFor(bytes, rate)
           /\ \A m \in Nat : bytes * rate <= Kilo * m => FeeFor(bytes, rate) <= m
<1>1. bytes * rate \in Nat
  OBVIOUS
<1>. QED
  BY <1>1, RoundUp, Constants DEF FeeFor

LEMMA FeeIsNatural ==
    ASSUME NEW bytes \in Nat, NEW rate \in Nat
    PROVE  FeeFor(bytes, rate) \in Nat
BY FeeIsLeast

\* More bytes or a higher rate never cost less.
LEMMA FeeIsMonotone ==
    ASSUME NEW b \in Nat, NEW c \in Nat, NEW r \in Nat, NEW s \in Nat, b <= c, r <= s
    PROVE  FeeFor(b, r) <= FeeFor(c, s)
<1>1. b * r <= c * r /\ c * r <= c * s
  <2>1. PICK d \in Nat, e \in Nat : c = b + d /\ s = r + e
    <3>1. c - b \in Nat /\ s - r \in Nat /\ c = b + (c - b) /\ s = r + (s - r)
      OBVIOUS
    <3>. QED
      BY <3>1
  <2>2. (b + d) * r = b * r + d * r /\ d * r \in Nat /\ b * r \in Nat
    OBVIOUS
  <2>3. c * (r + e) = c * r + c * e /\ c * e \in Nat /\ c * r \in Nat
    OBVIOUS
  <2>. QED
    BY <2>1, <2>2, <2>3
<1>2. b * r \in Nat /\ c * s \in Nat /\ c * r \in Nat
  OBVIOUS
<1>3. c * s <= Kilo * FeeFor(c, s) /\ FeeFor(c, s) \in Nat
  BY FeeIsLeast
<1>4. Kilo * FeeFor(c, s) \in Nat
  BY <1>3, Constants
<1>5. b * r <= Kilo * FeeFor(c, s)
  BY <1>1, <1>2, <1>3, <1>4
<1>. QED
  BY <1>3, <1>5, FeeIsLeast

\* Bytes priced together never cost more than apart.
LEMMA FeeIsSubadditive ==
    ASSUME NEW b \in Nat, NEW c \in Nat, NEW r \in Nat
    PROVE  FeeFor(b + c, r) <= FeeFor(b, r) + FeeFor(c, r)
<1>. DEFINE f == FeeFor(b, r)
            g == FeeFor(c, r)
<1>1. f \in Nat /\ b * r <= Kilo * f /\ g \in Nat /\ c * r <= Kilo * g
  BY FeeIsLeast
<1>2. \A m \in Nat : (b + c) * r <= Kilo * m => FeeFor(b + c, r) <= m
  <2>1. b + c \in Nat
    OBVIOUS
  <2>. QED
    BY <2>1, FeeIsLeast
<1>. HIDE DEF f, g
<1>3. (b + c) * r = b * r + c * r /\ b * r \in Nat /\ c * r \in Nat
  OBVIOUS
<1>4. Kilo * (f + g) = Kilo * f + Kilo * g /\ Kilo * f \in Nat /\ Kilo * g \in Nat
  BY <1>1, Constants
<1>5. (b + c) * r <= Kilo * (f + g)
  BY <1>1, <1>3, <1>4
<1>6. FeeFor(b + c, r) <= f + g
  BY <1>1, <1>2, <1>5
<1>. QED
  BY <1>6 DEF f, g

\* A multiple of the rate never costs more than the multiple of the fee.
LEMMA FeeOfMultiple ==
    ASSUME NEW b \in Nat, NEW r \in Nat, NEW m \in Nat
    PROVE  FeeFor(b, m * r) <= m * FeeFor(b, r)
<1>. DEFINE f == FeeFor(b, r)
<1>1. f \in Nat /\ b * r <= Kilo * f
  BY FeeIsLeast
<1>2. m * r \in Nat
  OBVIOUS
<1>3. \A n \in Nat : b * (m * r) <= Kilo * n => FeeFor(b, m * r) <= n
  BY <1>2, FeeIsLeast
<1>. HIDE DEF f
<1>4. m * f \in Nat /\ b * r \in Nat /\ Kilo * f \in Nat
  BY <1>1, Constants
<1>5. b * (m * r) = m * (b * r)
  OBVIOUS
<1>6. Kilo * (m * f) = m * (Kilo * f)
  BY <1>1, Constants
<1>7. m * (b * r) <= m * (Kilo * f)
  BY <1>1, <1>4
<1>8. FeeFor(b, m * r) <= m * f
  BY <1>3, <1>4, <1>5, <1>6, <1>7
<1>. QED
  BY <1>8 DEF f

LEMMA FeeForNothing ==
    ASSUME NEW r \in Nat
    PROVE  FeeFor(0, r) = 0
<1>1. FeeFor(0, r) \in Nat /\ \A m \in Nat : 0 * r <= Kilo * m => FeeFor(0, r) <= m
  BY FeeIsLeast
<1>2. 0 * r = 0 /\ Kilo * 0 = 0
  BY Constants
<1>. QED
  BY <1>1, <1>2

-----------------------------------------------------------------------------
(* Rates, caps and ceilings.                                               *)

\* What a build's request and a reveal's call both say.
Quoted(a) ==
    /\ a.fee \in Maybe(Nat)
    /\ {a.feePerKb, a.estimate, a.suggested, a.maxRate} \subseteq Maybe(Nat \ {0})
    /\ a.feePerKb # None \/ a.estimate # None
    /\ a.relay \in Nat \ {0}
    /\ {a.multiplier, a.cpfp} \subseteq Nat

LEMMA AsksAndCallsAreMarkets ==
    ASSUME NEW a \in Asks \cup Calls
    PROVE  Quoted(a)
BY AsksAssumption, CallsAssumption DEF Quoted

LEMMA AnchorIsPositive ==
    ASSUME NEW a, Quoted(a)
    PROVE  Anchor(a) \in Nat \ {0}
BY DEF Quoted, Anchor, Maybe

LEMMA CapsAreNatural ==
    ASSUME NEW a, Quoted(a)
    PROVE  OperatorCaps(a) \in SUBSET Nat
<1>1. \A r \in {x \in {a.maxRate} : x # None} : r \in Nat
  BY DEF Quoted, Maybe
<1>2. \A m \in {a.multiplier} \ {0} : m * Anchor(a) \in Nat
  <2>1. Anchor(a) \in Nat /\ a.multiplier \in Nat
    BY AnchorIsPositive DEF Quoted
  <2>. QED
    BY <2>1
<1>. QED
  BY <1>1, <1>2 DEF OperatorCaps

LEMMA NodeRateIsNatural ==
    ASSUME NEW a, Quoted(a), a.estimate # None
    PROVE  NodeRate(a) \in Nat
<1>. DEFINE told == Max({a.suggested, a.relay * SuggestedRelayMultiplier})
            bounded == IF a.suggested = None THEN a.estimate ELSE Min({a.estimate, told})
<1>1. a.estimate \in Nat /\ a.relay \in Nat /\ (a.suggested # None => a.suggested \in Nat)
  BY DEF Quoted, Maybe
<1>2. a.suggested # None => told \in Nat
  <2>1. a.relay * SuggestedRelayMultiplier \in Nat
    BY <1>1, Constants
  <2>. QED
    BY <1>1, <2>1, MaxOfTwo
<1>. HIDE DEF told
<1>3. bounded \in Nat
  <2>1. CASE a.suggested = None
    BY <1>1, <2>1
  <2>2. CASE a.suggested # None
    <3>. DEFINE S == {a.estimate, told}
    <3>1. S \in SUBSET Nat
      BY <1>1, <1>2, <2>2
    <3>2. S # {}
      OBVIOUS
    <3>. HIDE DEF S
    <3>3. Min(S) \in S
      BY <3>1, <3>2, LeastOf DEF Min
    <3>. QED
      BY <2>2, <3>1, <3>3 DEF S
  <2>. QED
    BY <2>1, <2>2
<1>. HIDE DEF bounded
<1>4. Max({bounded, a.relay}) \in Nat
  BY <1>1, <1>3, MaxOfTwo
<1>. QED
  BY <1>4 DEF NodeRate, bounded, told

\* resolveFeeRates: the rate is under every cap and under the burn backstop.
LEMMA RateIsCapped ==
    ASSUME NEW a, Quoted(a)
    PROVE  /\ Rate(a) \in Nat
           /\ \A cap \in OperatorCaps(a) : Rate(a) <= cap
           /\ Rate(a) <= BurnBackstop * Anchor(a)
<1>. DEFINE asked == IF a.feePerKb = None THEN NodeRate(a) ELSE a.feePerKb
            burn == BurnBackstop * Anchor(a)
            S == {asked} \cup OperatorCaps(a) \cup {burn}
<1>1. asked \in Nat
  BY NodeRateIsNatural DEF Quoted, Maybe
<1>2. burn \in Nat
  BY AnchorIsPositive, Constants
<1>3. OperatorCaps(a) \in SUBSET Nat
  BY CapsAreNatural
<1>4. Rate(a) = Min(S)
  BY DEF Rate
<1>. HIDE DEF asked, burn
<1>5. S \in SUBSET Int /\ S # {} /\ \A x \in S : 0 <= x
  BY <1>1, <1>2, <1>3
<1>6. Min(S) \in S /\ \A y \in S : Min(S) <= y
  BY <1>5, LeastInt
<1>7. S \in SUBSET Nat /\ burn \in S /\ OperatorCaps(a) \subseteq S
  BY <1>1, <1>2, <1>3
<1>. HIDE DEF S
<1>. QED
  BY <1>4, <1>6, <1>7 DEF burn

\* refuseExcessiveFee's ceilings stand over the dust floor and over what the
\* build's own rate asks for its size.
LEMMA CeilingsStandOverTheRate ==
    ASSUME NEW a, Quoted(a), NEW bytes \in Nat, NEW ceiling \in CeilingsFor(a, bytes)
    PROVE  ceiling \in Nat /\ Dust <= ceiling /\ FeeFor(bytes, Rate(a)) <= ceiling
<1>. DEFINE f == FeeFor(bytes, Rate(a))
<1>1. Rate(a) \in Nat /\ f \in Nat /\ Dust \in Nat
  BY RateIsCapped, FeeIsNatural, Constants
<1>2. ASSUME NEW cap \in OperatorCaps(a), ceiling = Max({Dust, FeeFor(bytes, cap)})
      PROVE  ceiling \in Nat /\ Dust <= ceiling /\ f <= ceiling
  <2>1. cap \in Nat /\ Rate(a) <= cap
    BY CapsAreNatural, RateIsCapped
  <2>2. FeeFor(bytes, cap) \in Nat /\ f <= FeeFor(bytes, cap)
    BY <1>1, <2>1, FeeIsNatural, FeeIsMonotone
  <2>. QED
    BY <1>1, <1>2, <2>2, MaxOfTwo
<1>3. ASSUME ceiling = Max({Dust, BurnBackstop * FeeFor(bytes, Anchor(a))})
      PROVE  ceiling \in Nat /\ Dust <= ceiling /\ f <= ceiling
  <2>. DEFINE g == FeeFor(bytes, Anchor(a))
              burn == BurnBackstop * Anchor(a)
  <2>1. Anchor(a) \in Nat /\ BurnBackstop \in Nat
    BY AnchorIsPositive, Constants
  <2>2. burn \in Nat /\ Rate(a) <= burn
    BY <2>1, RateIsCapped
  <2>3. g \in Nat
    BY <2>1, FeeIsNatural
  <2>4. FeeFor(bytes, burn) \in Nat /\ f <= FeeFor(bytes, burn)
    BY <1>1, <2>2, FeeIsNatural, FeeIsMonotone
  <2>5. FeeFor(bytes, burn) <= BurnBackstop * g
    BY <2>1, FeeOfMultiple
  <2>6. BurnBackstop * g \in Nat
    BY <2>1, <2>3
  <2>. HIDE DEF f, g, burn
  <2>7. f <= BurnBackstop * g
    BY <1>1, <2>4, <2>5, <2>6
  <2>. QED
    BY <1>1, <1>3, <2>6, <2>7, MaxOfTwo DEF g
<1>4. \/ \E cap \in OperatorCaps(a) : ceiling = Max({Dust, FeeFor(bytes, cap)})
      \/ ceiling = Max({Dust, BurnBackstop * FeeFor(bytes, Anchor(a))})
  BY DEF CeilingsFor
<1>. QED
  BY <1>2, <1>3, <1>4

\* What is bounded by a set of amounts and never negative: it exceeds none of them
\* unless it is nothing, and it reaches one.
LEMMA Clamped ==
    ASSUME NEW S \in SUBSET Int, S # {}, NEW b \in Int, \A x \in S : b <= x
    PROVE  /\ Max({0, Min(S)}) \in Nat
           /\ Max({0, Min(S)}) > 0 => \A x \in S : Max({0, Min(S)}) <= x
           /\ \E x \in S : Max({0, Min(S)}) >= x
<1>1. Min(S) \in S /\ \A y \in S : Min(S) <= y
  BY LeastInt
<1>2. Min(S) \in Int
  BY <1>1
<1>3. Max({0, Min(S)}) = IF 0 >= Min(S) THEN 0 ELSE Min(S)
  BY <1>2, MaxOfTwo
<1>. QED
  BY <1>1, <1>2, <1>3

\* packageFeeUpliftSatoshis: with it the package pays the rate.
LEMMA UpliftPaysThePackage ==
    ASSUME NEW a, Quoted(a), NEW current \in Int, NEW bytes \in Nat,
           NEW p, p.size \in Nat, p.fees \in Nat
    PROVE  /\ PackageUplift(a, current, bytes, p) \in Nat
           /\ p.size > 0 => FeeFor(p.size + bytes, Rate(a)) <= p.fees + current + PackageUplift(a, current, bytes, p)
<1>1. p.size + bytes \in Nat /\ FeeFor(p.size + bytes, Rate(a)) \in Nat
  <2>1. p.size + bytes \in Nat /\ Rate(a) \in Nat
    BY RateIsCapped
  <2>. QED
    BY <2>1, FeeIsNatural
<1>. DEFINE f == FeeFor(p.size + bytes, Rate(a))
<1>2. f \in Nat
  BY <1>1
<1>3. PackageUplift(a, current, bytes, p) = IF p.size = 0 THEN 0 ELSE Max({0, f - p.fees - current})
  BY DEF PackageUplift
<1>. HIDE DEF f
<1>4. Max({0, f - p.fees - current}) \in Nat /\ Max({0, f - p.fees - current}) >= f - p.fees - current
  BY <1>2, MaxOfTwo
<1>. QED
  BY <1>2, <1>3, <1>4 DEF f

-----------------------------------------------------------------------------
(* What a request's amounts are.                                           *)

LEMMA MemberOfSeq ==
    ASSUME NEW S, NEW s \in Seq(S), NEW i \in 1 .. Len(s)
    PROVE  s[i] \in S
OBVIOUS

LEMMA AskTypes ==
    ASSUME NEW a \in Asks
    PROVE  /\ {a.outputs, a.bytes, a.stripped, a.surcharge, a.revealBytes, a.paymentBytes, a.strippedFloor, a.cpfp} \subseteq Nat
           /\ a.fee # None => a.fee \in Nat
           /\ a.relay \in Nat
           /\ a.legs \in Seq(Nat) /\ a.utxos \in Seq([value : Nat, unconfirmed : BOOLEAN]) /\ a.utxos # <<>>
           /\ Rate(a) \in Nat
           /\ a.padded \in BOOLEAN /\ a.change \in BOOLEAN /\ a.exact \in BOOLEAN
           /\ a.outputs = 0 => a.surcharge = 0 /\ a.paymentBytes = 0
           /\ a.padded => Len(a.legs) = 1 /\ a.outputs = 0
           /\ a.legs # <<>> => (a.padded <=> a.revealBytes = 0)
<1>1. Rate(a) \in Nat
  BY AsksAndCallsAreMarkets, RateIsCapped
<1>2. a.outputs > 0 <=> a.paymentBytes > 0
  BY AsksAssumption
<1>3. {a.outputs, a.paymentBytes} \subseteq Nat
  BY AsksAssumption
<1>4. a.outputs = 0 => a.paymentBytes = 0
  BY <1>2, <1>3
<1>. QED
  BY <1>1, <1>4, AsksAssumption DEF Maybe

LEMMA LegShareIsNatural ==
    ASSUME NEW a \in Asks, NEW i \in 1 .. Len(a.legs)
    PROVE  LegShare(a, i) \in Nat /\ LegShare(a, i) >= OutputFloor /\ LegShare(a, i) >= FeeFor(a.legs[i], Rate(a))
<1>1. a.legs[i] \in Nat /\ Rate(a) \in Nat
  BY AskTypes
<1>2. FeeFor(a.legs[i], Rate(a)) \in Nat
  BY <1>1, FeeIsNatural
<1>. QED
  BY <1>2, MaxOfTwo, Constants DEF LegShare

\* The legs' shares add up, and a single leg's share is the sum.
LEMMA LegsAddUp ==
    ASSUME NEW a \in Asks
    PROVE  BaseLegs(a) \in Nat /\ (Len(a.legs) = 1 => BaseLegs(a) = LegShare(a, 1))
<1>. DEFINE N == Len(a.legs)
            Step(f, n) == IF n = 0 THEN 0 ELSE f[n - 1] + LegShare(a, n)
            Totals(m) == {f \in [0 .. m -> Nat] : \A n \in 0 .. m : f[n] = Step(f, n)}
            upTo == CHOOSE f : f = [n \in 0 .. N |-> Step(f, n)]
<1>1. N \in Nat /\ \A i \in 1 .. N : LegShare(a, i) \in Nat
  BY AskTypes, LegShareIsNatural
<1>2. Totals(0) # {}
  <2>. DEFINE f == [n \in 0 .. 0 |-> 0]
  <2>1. f \in Totals(0)
    OBVIOUS
  <2>. QED
    BY <2>1
<1>3. ASSUME NEW m \in 1 .. N, Totals(m - 1) # {}
      PROVE  Totals(m) # {}
  <2>1. PICK f \in Totals(m - 1) : TRUE
    BY <1>3
  <2>2. f \in [0 .. (m - 1) -> Nat] /\ \A n \in 0 .. (m - 1) : f[n] = Step(f, n)
    BY <2>1
  <2>. DEFINE g == [n \in 0 .. m |-> IF n = m THEN f[m - 1] + LegShare(a, m) ELSE f[n]]
  <2>3. f[m - 1] \in Nat /\ LegShare(a, m) \in Nat
    BY <1>1, <2>2
  <2>4. g \in [0 .. m -> Nat]
    BY <2>2, <2>3
  <2>5. ASSUME NEW n \in 0 .. m PROVE g[n] = Step(g, n)
    <3>1. CASE n = m
      BY <2>2, <3>1
    <3>2. CASE n # m
      <4>1. n \in 0 .. (m - 1) /\ g[n] = f[n] /\ f[n] = Step(f, n)
        BY <2>2, <3>2
      <4>2. n # 0 => n - 1 \in 0 .. m /\ n - 1 # m /\ g[n - 1] = f[n - 1]
        BY <4>1
      <4>. QED
        BY <4>1, <4>2
    <3>. QED
      BY <3>1, <3>2
  <2>6. g \in Totals(m)
    BY <2>4, <2>5
  <2>. QED
    BY <2>6
<1>4. Totals(N) # {}
  <2>. SUFFICES ASSUME Totals(N) = {} PROVE FALSE
    OBVIOUS
  <2>. DEFINE Bad == {m \in 0 .. N : Totals(m) = {}}
  <2>. HIDE DEF Totals
  <2>1. Bad \in SUBSET Nat /\ Bad # {}
    BY <1>1
  <2>2. PICK m \in Bad : \A y \in Bad : m <= y
    <3>. HIDE DEF Bad
    <3>. QED
      BY <2>1, LeastOf
  <2>3. m # 0 /\ m \in 1 .. N /\ Totals(m) = {}
    BY <1>1, <1>2, <2>2
  <2>4. m - 1 \in 0 .. N /\ m - 1 \notin Bad
    BY <1>1, <2>2, <2>3
  <2>5. Totals(m - 1) # {}
    BY <2>4
  <2>. QED
    BY <1>3, <2>3, <2>5
<1>5. PICK f \in Totals(N) : TRUE
  BY <1>4
<1>6. f = [n \in 0 .. N |-> Step(f, n)]
  <2>1. f \in [0 .. N -> Nat] /\ \A n \in 0 .. N : f[n] = Step(f, n)
    BY <1>5
  <2>. HIDE DEF Step
  <2>. QED
    BY <2>1
<1>7. upTo = [n \in 0 .. N |-> Step(upTo, n)]
  <2>. HIDE DEF Step
  <2>. QED
    BY <1>6
<1>. HIDE DEF upTo
<1>8. \A n \in 0 .. N : upTo[n] = Step(upTo, n)
  <2>. HIDE DEF Step
  <2>. QED
    BY <1>7
<1>9. \A n \in 0 .. N : upTo[n] \in Nat
  <2>. SUFFICES ASSUME NEW bad \in 0 .. N, upTo[bad] \notin Nat PROVE FALSE
    OBVIOUS
  <2>. DEFINE Bad == {n \in 0 .. N : upTo[n] \notin Nat}
  <2>1. Bad \in SUBSET Nat /\ Bad # {}
    <3>1. bad \in Bad
      BY Zenon
    <3>2. N \in Nat
      BY <1>1, Zenon
    <3>. HIDE DEF N
    <3>3. Bad \subseteq Nat
      BY ONLY <3>2
    <3>. HIDE DEF Bad
    <3>. QED
      BY ONLY <3>1, <3>3
  <2>2. PICK m \in Bad : \A y \in Bad : m <= y
    <3>. HIDE DEF Bad
    <3>. QED
      BY <2>1, LeastOf
  <2>3. m \in 0 .. N /\ upTo[m] \notin Nat /\ m # 0
    BY <1>1, <1>8, <2>2
  <2>4. m - 1 \in 0 .. N /\ m - 1 \notin Bad
    BY <1>1, <2>2, <2>3
  <2>5. upTo[m - 1] \in Nat /\ LegShare(a, m) \in Nat
    BY <1>1, <2>3, <2>4
  <2>. QED
    BY <1>1, <1>8, <2>3, <2>5
<1>10. BaseLegs(a) = upTo[N]
  BY DEF BaseLegs, upTo
<1>11. N = 1 => upTo[N] = LegShare(a, 1)
  <2>. SUFFICES ASSUME N = 1 PROVE upTo[1] = LegShare(a, 1)
    OBVIOUS
  <2>1. 0 \in 0 .. N /\ 1 \in 0 .. N /\ 1 \in 1 .. N
    OBVIOUS
  <2>2. upTo[0] = 0
    BY <1>8, <2>1
  <2>3. upTo[1] = upTo[0] + LegShare(a, 1)
    BY <1>8, <2>1
  <2>. QED
    BY <1>1, <2>1, <2>2, <2>3
<1>. QED
  BY <1>1, <1>9, <1>10, <1>11

LEMMA AmountsAreNatural ==
    ASSUME NEW a \in Asks
    PROVE  /\ RevealFee(a) \in Nat /\ RevealPayments(a) \in Nat /\ RevealHeadroom(a) \in Nat
           /\ LegsValue(a) \in Nat /\ CommitValue(a) \in Nat
           /\ Paid(a) \in Nat /\ Surcharge(a) \in Nat
<1>1. FeeFor(a.revealBytes, Rate(a)) \in Nat /\ FeeFor(a.paymentBytes, Rate(a)) \in Nat
  <2>1. a.revealBytes \in Nat /\ a.paymentBytes \in Nat /\ Rate(a) \in Nat
    BY AskTypes
  <2>. QED
    BY <2>1, FeeIsNatural
<1>2. RevealFee(a) \in Nat
  <2>1. (IF OnLegs(a) THEN Dust ELSE OutputFloor) \in Nat
    BY Constants
  <2>. QED
    BY <1>1, <2>1, MaxOfTwo DEF RevealFee
<1>3. RevealPayments(a) \in Nat
  BY <1>1, AskTypes DEF RevealPayments
<1>4. BaseLegs(a) \in Nat
  BY LegsAddUp
<1>5. RevealHeadroom(a) \in Nat
  <2>1. Max({0, RevealFee(a) - BaseLegs(a)}) \in Nat
    BY <1>2, <1>4, MaxOfTwo
  <2>. QED
    BY <2>1, Constants DEF RevealHeadroom
<1>6. LegsValue(a) \in Nat
  BY <1>3, <1>4, <1>5, Constants DEF LegsValue
<1>7. CommitValue(a) \in Nat
  BY <1>2, <1>6, Constants DEF CommitValue
<1>. QED
  BY <1>2, <1>3, <1>5, <1>6, <1>7, AskTypes DEF Paid, Surcharge

\* The legs of a reveal hold its whole fee, its payments with their bytes, and the
\* floor of a change output where it pays nobody.
LEMMA LegsHoldTheReveal ==
    ASSUME NEW a \in Asks, ~a.padded
    PROVE  LegsValue(a) >= RevealFee(a) + RevealPayments(a) + (IF a.outputs = 0 THEN OutputFloor ELSE 0)
<1>1. RevealFee(a) \in Nat /\ RevealPayments(a) \in Nat /\ BaseLegs(a) \in Nat /\ OutputFloor \in Nat
  BY AmountsAreNatural, LegsAddUp, Constants
<1>2. Max({0, RevealFee(a) - BaseLegs(a)}) = IF 0 >= RevealFee(a) - BaseLegs(a) THEN 0 ELSE RevealFee(a) - BaseLegs(a)
  BY <1>1, MaxOfTwo
<1>3. LegsValue(a) = BaseLegs(a) + RevealPayments(a) + RevealHeadroom(a)
  BY DEF LegsValue
<1>. QED
  BY <1>1, <1>2, <1>3 DEF RevealHeadroom

-----------------------------------------------------------------------------
(* The invariant: what has been settled once the build has come so far.     *)

Emitted == {"stripped", "done"}
Funded == {"changeOut"} \cup Emitted
Prefunded == {"change", "INSUFFICIENT_FUNDS"} \cup Funded
Floored == {"prefund"} \cup Prefunded
Uplifted == {"floor"} \cup Floored
Judged == {"uplift"} \cup Uplifted
Checked == {"ceiling"} \cup Judged
Selected == {"relay"} \cup Checked

\* The accounts of the outputs, of the reveal's funding and of the reveal agree.
AccountsAgree ==
    /\ pc # "emit" =>
         /\ outputs = Paid(ask) + commit
         /\ commit >= CommitValue(ask)
         /\ commit - CommitValue(ask) = reveal.revealFee - RevealFee(ask)
         /\ reveal.commitValue = IF OnLegs(ask) THEN 0 ELSE commit
         /\ ask.revealBytes = 0 => commit = CommitValue(ask)
    /\ pc \in {"select", "relay", "ceiling", "uplift", "floor", "prefund"} => commit = CommitValue(ask)

\* What the inputs must exceed for the selection to stop.
StopTarget == Paid(ask) + CommitValue(ask) + Max({AskedFee, Dust})

SelectionEnds ==
    /\ pc = "emit" => count = 0
    /\ count <= Len(ask.utxos)
    /\ count > 0 => size > 0
    /\ pc = "select" /\ (ask.fee # None \/ count > 0) => fee = AskedFee
    /\ pc \in Selected =>
         /\ count > 0
         /\ count = Len(ask.utxos) \/ (~ask.exact /\ inputs > StopTarget)
    /\ pc \in {"relay", "ceiling", "uplift"} => fee = AskedFee

ChecksHold ==
    /\ pc \in Checked => SizeFee >= FeeFor(size, ask.relay) \/ Dust >= FeeFor(size, ask.relay)
    /\ pc \in Floored => SizeFee >= FeeFor(size, ask.relay)
    /\ pc \in Judged => \A ceiling \in FeeCeilings : SizeFee <= ceiling

\* Ancestors and transaction reach the rate, or a bound of the uplift is met.
AncestorsPaid ==
    \/ fee + ancestors.fees >= FeeFor(ancestors.size + size, Rate(ask))
    \/ Spare <= 0
    \/ fee >= AskedFee + ask.cpfp
    \/ \E ceiling \in FeeCeilings : fee >= ceiling

UpliftHeld ==
    /\ pc \in {"emit", "select", "relay", "ceiling", "uplift"} => ancestors.size = 0
    /\ pc \in Uplifted => fee >= AskedFee /\ (ancestors.size > 0 => AncestorsPaid)
    /\ pc = "floor" => fee = AskedFee \/ Spare >= 0
    /\ pc \in Floored => (fee = OwnFee /\ commit = CommitValue(ask)) \/ Spare >= 0

\* The reveal's package reaches the rate, or a bound of the prefund is met.
RevealPaid ==
    \/ fee + ancestors.fees + reveal.revealFee >= FeeFor(size + ancestors.size + ask.revealBytes, Rate(ask))
    \/ Spare <= 0
    \/ commit = CommitValue(ask) + ask.cpfp

ChangeKept ==
    /\ pc \in Prefunded /\ ask.revealBytes > 0 => RevealPaid
    /\ pc \in Funded => Spare >= 0 /\ (ask.change \/ Spare <= Dust)
    /\ pc = "INSUFFICIENT_FUNDS" => Spare < 0
    /\ pc \in Emitted => change = IF ask.change /\ Spare >= OutputFloor THEN Spare ELSE 0

FeeInv == ask \in Asks /\ TypeOK /\ AccountsAgree /\ SelectionEnds /\ ChecksHold /\ UpliftHeld /\ ChangeKept

LEMMA Derived ==
    ASSUME ask \in Asks, TypeOK
    PROVE  /\ AskedFee \in Nat /\ Spare \in Int /\ SizeFee \in Int
           /\ OwnFee = (IF AskedFee >= Dust + Surcharge(ask) THEN AskedFee ELSE Dust + Surcharge(ask))
           /\ StopTarget = Paid(ask) + CommitValue(ask) + (IF AskedFee >= Dust THEN AskedFee ELSE Dust)
           /\ FeeFor(size, ask.relay) \in Nat
           /\ \A ceiling \in FeeCeilings : ceiling \in Nat /\ Dust <= ceiling /\ FeeFor(size, Rate(ask)) <= ceiling
<1>1. size \in Nat /\ fee \in Nat /\ inputs \in Nat /\ outputs \in Nat
  BY DEF TypeOK
<1>2. Surcharge(ask) \in Nat /\ Rate(ask) \in Nat /\ ask.relay \in Nat /\ (ask.fee # None => ask.fee \in Nat)
  BY AskTypes, AmountsAreNatural
<1>3. FeeFor(size, Rate(ask)) \in Nat /\ FeeFor(size, ask.relay) \in Nat
  BY <1>1, <1>2, FeeIsNatural
<1>4. AskedFee \in Nat
  BY <1>2, <1>3 DEF AskedFee
<1>5. OwnFee = (IF AskedFee >= Dust + Surcharge(ask) THEN AskedFee ELSE Dust + Surcharge(ask))
  BY <1>2, <1>4, Constants, MaxOfTwo DEF OwnFee
<1>6. Max({AskedFee, Dust}) = IF AskedFee >= Dust THEN AskedFee ELSE Dust
  BY <1>4, Constants, MaxOfTwo
<1>7. \A ceiling \in FeeCeilings : ceiling \in Nat /\ Dust <= ceiling /\ FeeFor(size, Rate(ask)) <= ceiling
  BY <1>1, CeilingsStandOverTheRate, AsksAndCallsAreMarkets DEF FeeCeilings
<1>. QED
  BY <1>1, <1>2, <1>3, <1>4, <1>5, <1>6, <1>7 DEF Spare, SizeFee, StopTarget

\* What the request and the size alone decide.
LEMMA SameSize ==
    ASSUME UNCHANGED <<ask, size>>
    PROVE  AskedFee' = AskedFee /\ OwnFee' = OwnFee /\ StopTarget' = StopTarget /\ FeeCeilings' = FeeCeilings
BY DEF AskedFee, OwnFee, StopTarget, FeeCeilings

\* A step that only decides what runs next.
LEMMA OnlyDecides ==
    ASSUME FeeInv, UNCHANGED <<ask, count, inputs, size, fee, outputs, commit, reveal, ancestors, change>>
    PROVE  /\ AskedFee' = AskedFee /\ OwnFee' = OwnFee /\ StopTarget' = StopTarget /\ FeeCeilings' = FeeCeilings
           /\ Spare' = Spare /\ SizeFee' = SizeFee /\ AncestorsPaid' = AncestorsPaid /\ RevealPaid' = RevealPaid
<1>1. AskedFee' = AskedFee /\ OwnFee' = OwnFee /\ StopTarget' = StopTarget /\ FeeCeilings' = FeeCeilings
  BY SameSize
<1>2. Spare' = Spare /\ SizeFee' = SizeFee
  BY DEF Spare, SizeFee
<1>. QED
  BY <1>1, <1>2 DEF AncestorsPaid, RevealPaid

LEMMA InitFees == Init => FeeInv
<1>. SUFFICES ASSUME Init PROVE FeeInv
  OBVIOUS
<1>1. TypeOK
  BY Constants DEF Init, TypeOK, Steps
<1>2. Len(ask.utxos) \in Nat
  BY AskTypes DEF Init
<1>. QED
  BY <1>1, <1>2 DEF Init, FeeInv, AccountsAgree, SelectionEnds, ChecksHold, UpliftHeld, ChangeKept,
       Emitted, Funded, Prefunded, Floored, Uplifted, Judged, Checked, Selected

LEMMA EmitKeeps ==
    ASSUME FeeInv, EmitOutputs
    PROVE  FeeInv'
<1>1. ask' = ask /\ ask \in Asks /\ pc = "emit" /\ pc' = "select" /\ count' = 0 /\ ancestors' = ancestors /\ ancestors.size = 0
  BY DEF FeeInv, EmitOutputs, Goto, SelectionEnds, UpliftHeld
<1>2. /\ CommitValue(ask) \in Nat /\ RevealFee(ask) \in Nat /\ Paid(ask) \in Nat /\ Surcharge(ask) \in Nat
      /\ ask.bytes \in Nat /\ (ask.fee # None => ask.fee \in Nat) /\ Len(ask.utxos) \in Nat
  BY <1>1, AskTypes, AmountsAreNatural, SMTT(30)
<1>3. TypeOK'
  <2>1. reveal' \in [commitValue : Nat, revealFee : Nat]
    BY <1>2 DEF EmitOutputs
  <2>2. commit' \in Nat /\ outputs' \in Nat /\ size' \in Nat /\ fee' \in Nat
    <3>1. /\ commit' = CommitValue(ask) /\ outputs' = Paid(ask) + CommitValue(ask)
          /\ size' = ask.bytes + ChangeBytes
          /\ ask.fee = None => fee' = 0
          /\ ask.fee # None => fee' = ask.fee + Surcharge(ask)
      BY DEF EmitOutputs
    <3>2. ChangeBytes \in Nat
      BY Constants
    <3>3. commit' \in Nat /\ outputs' \in Nat /\ size' \in Nat
      BY ONLY <1>2, <3>1, <3>2
    <3>4. fee' \in Nat
      BY ONLY <1>2, <3>1
    <3>. QED
      BY ONLY <3>3, <3>4
  <2>3. inputs' = inputs /\ change' = change /\ ancestors' = ancestors /\ TypeOK
    BY DEF FeeInv, EmitOutputs
  <2>. QED
    BY <1>1, <2>1, <2>2, <2>3, Constants DEF TypeOK, Steps
<1>4. AccountsAgree'
  <2>1. reveal'.revealFee = RevealFee(ask) /\ reveal'.commitValue = (IF OnLegs(ask) THEN 0 ELSE CommitValue(ask))
    BY DEF EmitOutputs
  <2>. QED
    BY <1>1, <1>2, <2>1 DEF AccountsAgree, EmitOutputs
<1>5. SelectionEnds'
  <2>1. ask.fee # None => AskedFee' = fee'
    BY <1>1, <1>2 DEF AskedFee, EmitOutputs
  <2>. QED
    BY <1>1, <1>2, <2>1 DEF SelectionEnds, Selected, Checked, Judged, Uplifted, Floored, Prefunded, Funded, Emitted
<1>6. ChecksHold' /\ UpliftHeld' /\ ChangeKept'
  BY <1>1 DEF ChecksHold, UpliftHeld, ChangeKept, Checked, Judged, Uplifted, Floored, Prefunded, Funded, Emitted
<1>. QED
  BY <1>1, <1>3, <1>4, <1>5, <1>6 DEF FeeInv

LEMMA SelectKeeps ==
    ASSUME FeeInv, SelectInput
    PROVE  FeeInv'
<1>1. /\ UNCHANGED <<ask, pc, outputs, commit, reveal, ancestors, change>> /\ ask \in Asks /\ pc = "select"
      /\ count' = count + 1 /\ size' = size + InputBytes /\ TypeOK /\ count < Len(ask.utxos) /\ count < MaxInputs
      /\ inputs' = inputs + ask.utxos[count + 1].value
  BY DEF FeeInv, SelectInput, More
<1>2. /\ Surcharge(ask) \in Nat /\ Len(ask.utxos) \in Nat /\ Rate(ask) \in Nat
      /\ ask.utxos \in Seq([value : Nat, unconfirmed : BOOLEAN]) /\ (ask.fee # None => ask.fee \in Nat)
  BY <1>1, AskTypes, AmountsAreNatural, SMTT(30)
<1>3. count \in 0 .. MaxInputs /\ size \in Nat /\ inputs \in Nat /\ fee \in Nat
  BY <1>1 DEF TypeOK
<1>4. size' \in Nat /\ size' > 0 /\ count' \in 0 .. MaxInputs /\ count' > 0
  <2>1. InputBytes \in Nat /\ InputBytes > 0 /\ MaxInputs \in Nat
    BY Constants
  <2>2. count' = count + 1 /\ size' = size + InputBytes /\ count < MaxInputs
    BY ONLY <1>1
  <2>3. count \in Nat
    BY ONLY <1>3, <2>1
  <2>4. size' \in Nat /\ size' > 0
    BY ONLY <1>3, <2>1, <2>2
  <2>. QED
    BY ONLY <2>1, <2>2, <2>3, <2>4
<1>5. inputs' \in Nat
  <2>1. count + 1 \in 1 .. Len(ask.utxos)
    BY <1>1, <1>2, <1>3
  <2>2. ask.utxos[count + 1] \in [value : Nat, unconfirmed : BOOLEAN]
    BY <1>2, <2>1, MemberOfSeq
  <2>. QED
    BY <1>1, <1>3, <2>2
<1>6. fee' \in Nat /\ fee' = AskedFee'
  <2>1. CASE ask.fee = None
    <3>1. FeeFor(size', Rate(ask)) \in Nat
      BY <1>2, <1>4, FeeIsNatural
    <3>2. fee' = FeeFor(size', Rate(ask)) + Surcharge(ask)
      BY <2>1 DEF SelectInput
    <3>. QED
      BY <1>1, <1>2, <2>1, <3>1, <3>2 DEF AskedFee
  <2>2. CASE ask.fee # None
    <3>1. fee' = fee /\ fee = AskedFee
      BY <1>1, <2>2 DEF SelectInput, FeeInv, SelectionEnds
    <3>. QED
      BY <1>1, <1>3, <2>2, <3>1 DEF AskedFee
  <2>. QED
    BY <2>1, <2>2
<1>7. TypeOK'
  BY <1>1, <1>4, <1>5, <1>6 DEF TypeOK
<1>8. AccountsAgree'
  BY <1>1 DEF FeeInv, AccountsAgree
<1>9. SelectionEnds'
  BY <1>1, <1>2, <1>3, <1>4, <1>6 DEF SelectionEnds, Selected, Checked, Judged, Uplifted, Floored, Prefunded, Funded, Emitted
<1>10. ChecksHold' /\ UpliftHeld' /\ ChangeKept'
  BY <1>1 DEF FeeInv, ChecksHold, UpliftHeld, ChangeKept, Checked, Judged, Uplifted, Floored, Prefunded, Funded, Emitted
<1>. QED
  BY <1>1, <1>7, <1>8, <1>9, <1>10 DEF FeeInv

LEMMA CappedKeeps ==
    ASSUME FeeInv, RefuseCappedSelection
    PROVE  FeeInv'
<1>1. /\ UNCHANGED <<ask, count, inputs, size, fee, outputs, commit, reveal, ancestors, change>>
      /\ pc = "select" /\ pc' \in {"TOO_MANY_INPUTS", "NO_CONFIRMED_UTXO"}
  BY DEF RefuseCappedSelection, Goto
<1>2. TypeOK' /\ AccountsAgree'
  BY <1>1 DEF FeeInv, TypeOK, Refusals, AccountsAgree
<1>3. SelectionEnds' /\ ChecksHold' /\ UpliftHeld' /\ ChangeKept'
  BY <1>1 DEF FeeInv, SelectionEnds, ChecksHold, UpliftHeld, ChangeKept,
       Selected, Checked, Judged, Uplifted, Floored, Prefunded, Funded, Emitted
<1>. QED
  BY <1>1, <1>2, <1>3 DEF FeeInv

LEMMA EndKeeps ==
    ASSUME FeeInv, EndSelection
    PROVE  FeeInv'
<1>1. /\ UNCHANGED <<ask, count, inputs, size, fee, outputs, commit, reveal, ancestors, change>>
      /\ pc = "select" /\ pc' = "relay" /\ ~More /\ ask \in Asks /\ TypeOK
  BY DEF EndSelection, Goto, FeeInv
<1>2. TypeOK' /\ AccountsAgree'
  BY <1>1 DEF FeeInv, TypeOK, Steps, AccountsAgree
<1>3. /\ AskedFee \in Nat /\ AskedFee' = AskedFee /\ StopTarget' = StopTarget
      /\ StopTarget = Paid(ask) + CommitValue(ask) + (IF AskedFee >= Dust THEN AskedFee ELSE Dust)
  BY <1>1, Derived, SameSize
<1>4. count \in Nat /\ fee \in Nat /\ inputs \in Nat /\ outputs \in Nat
  BY <1>1 DEF TypeOK
<1>5. Len(ask.utxos) \in Nat \ {0}
  BY <1>1, AskTypes
<1>6. count > 0 /\ (count = Len(ask.utxos) \/ Enough)
  BY <1>1, <1>4, <1>5 DEF More, Enough, FeeInv, SelectionEnds
<1>7. fee = AskedFee /\ outputs = Paid(ask) + CommitValue(ask)
  BY <1>1, <1>6 DEF FeeInv, SelectionEnds, AccountsAgree
<1>8. Enough => ~ask.exact /\ inputs > StopTarget
  <2>1. TargetFee = IF AskedFee >= Dust THEN AskedFee ELSE Dust
    BY <1>3, <1>7, Constants, MaxOfTwo DEF TargetFee
  <2>. QED
    BY <1>3, <1>7, <2>1 DEF Enough
<1>9. SelectionEnds'
  BY <1>1, <1>3, <1>6, <1>7, <1>8 DEF FeeInv, SelectionEnds
<1>10. ChecksHold' /\ UpliftHeld' /\ ChangeKept'
  BY <1>1 DEF FeeInv, ChecksHold, UpliftHeld, ChangeKept, Checked, Judged, Uplifted, Floored, Prefunded, Funded, Emitted
<1>. QED
  BY <1>1, <1>2, <1>9, <1>10 DEF FeeInv

LEMMA RelayKeeps ==
    ASSUME FeeInv, RefuseInsufficientRelayFee
    PROVE  FeeInv'
<1>1. /\ UNCHANGED <<ask, count, inputs, size, fee, outputs, commit, reveal, ancestors, change>>
      /\ pc = "relay" /\ pc' \in {"ceiling", "BELOW_RELAY_MINIMUM"} /\ ask \in Asks /\ TypeOK
      /\ pc' = "ceiling" => SuppliedFee >= FeeFor(size, ask.relay)
  BY DEF RefuseInsufficientRelayFee, Goto, FeeInv
<1>2. TypeOK' /\ AccountsAgree'
  BY <1>1 DEF FeeInv, TypeOK, Steps, Refusals, AccountsAgree
<1>3. AskedFee' = AskedFee /\ StopTarget' = StopTarget /\ SizeFee' = SizeFee
  BY <1>1, OnlyDecides
<1>4. SelectionEnds'
  BY <1>1, <1>3 DEF FeeInv, SelectionEnds, Selected, Checked, Judged, Uplifted, Floored, Prefunded, Funded, Emitted
<1>5. SuppliedFee = SizeFee \/ SuppliedFee = Dust
  BY <1>1, Derived, MaxOfTwo, Constants DEF SuppliedFee
<1>6. ChecksHold'
  BY <1>1, <1>3, <1>5 DEF ChecksHold, Checked, Judged, Uplifted, Floored, Prefunded, Funded, Emitted
<1>7. UpliftHeld' /\ ChangeKept'
  BY <1>1 DEF FeeInv, UpliftHeld, ChangeKept, Uplifted, Floored, Prefunded, Funded, Emitted
<1>. QED
  BY <1>1, <1>2, <1>4, <1>6, <1>7 DEF FeeInv

LEMMA CeilingKeeps ==
    ASSUME FeeInv, RefuseExcessiveFee
    PROVE  FeeInv'
<1>1. /\ UNCHANGED <<ask, count, inputs, size, fee, outputs, commit, reveal, ancestors, change>>
      /\ pc = "ceiling" /\ pc' \in {"uplift", "FEE_TOO_HIGH"} /\ ask \in Asks /\ TypeOK
      /\ pc' = "uplift" => ask.fee = None \/ \A ceiling \in FeeCeilings : ~(SizeFee > ceiling)
  BY DEF RefuseExcessiveFee, Goto, FeeInv
<1>2. TypeOK' /\ AccountsAgree'
  BY <1>1 DEF FeeInv, TypeOK, Steps, Refusals, AccountsAgree
<1>3. AskedFee' = AskedFee /\ StopTarget' = StopTarget /\ SizeFee' = SizeFee /\ FeeCeilings' = FeeCeilings
  BY <1>1, OnlyDecides
<1>4. SelectionEnds'
  BY <1>1, <1>3 DEF FeeInv, SelectionEnds, Selected, Checked, Judged, Uplifted, Floored, Prefunded, Funded, Emitted
<1>5. pc' = "uplift" => \A ceiling \in FeeCeilings : SizeFee <= ceiling
  <2>1. SizeFee \in Int /\ \A ceiling \in FeeCeilings : ceiling \in Nat /\ FeeFor(size, Rate(ask)) <= ceiling
    BY <1>1, Derived
  <2>2. CASE ask.fee = None
    <3>1. fee = FeeFor(size, Rate(ask)) + Surcharge(ask) /\ fee \in Nat
      BY <1>1, <2>2 DEF FeeInv, SelectionEnds, AskedFee, Checked, TypeOK
    <3>2. Rate(ask) \in Nat /\ Surcharge(ask) \in Nat /\ size \in Nat
      BY <1>1, AskTypes, AmountsAreNatural DEF TypeOK
    <3>3. FeeFor(size, Rate(ask)) \in Nat
      BY <3>2, FeeIsNatural
    <3>4. SizeFee = FeeFor(size, Rate(ask))
      BY <3>1, <3>2, <3>3 DEF SizeFee
    <3>. QED
      BY <2>1, <3>4
  <2>3. CASE ask.fee # None
    BY <1>1, <2>1, <2>3
  <2>. QED
    BY <2>2, <2>3
<1>6. ChecksHold'
  BY <1>1, <1>3, <1>5 DEF FeeInv, ChecksHold, Checked, Judged, Uplifted, Floored, Prefunded, Funded, Emitted
<1>7. UpliftHeld' /\ ChangeKept'
  BY <1>1 DEF FeeInv, UpliftHeld, ChangeKept, Uplifted, Floored, Prefunded, Funded, Emitted
<1>. QED
  BY <1>1, <1>2, <1>4, <1>6, <1>7 DEF FeeInv

\* upliftAncestorFee: what it adds is in no bound's way, and it stops at one.
LEMMA UpliftIsBounded ==
    ASSUME ask \in Asks, TypeOK, NEW p \in Packages
    PROVE  /\ AncestorUplift(p) \in Nat
           /\ AncestorUplift(p) > 0 => AncestorUplift(p) <= Spare /\ \A ceiling \in FeeCeilings : fee + AncestorUplift(p) <= ceiling
           /\ \/ AncestorUplift(p) >= PackageUplift(ask, fee, size, p)
              \/ AncestorUplift(p) >= ask.cpfp
              \/ AncestorUplift(p) >= Spare
              \/ \E ceiling \in FeeCeilings : fee + AncestorUplift(p) >= ceiling
<1>. DEFINE wanted == PackageUplift(ask, fee, size, p)
            S == {wanted, ask.cpfp, Spare} \cup {ceiling - fee : ceiling \in FeeCeilings}
            low == IF Spare < 0 THEN Spare - fee ELSE -fee
            u == Max({0, Min(S)})
<1>1. fee \in Nat /\ size \in Nat /\ Spare \in Int /\ ask.cpfp \in Nat /\ \A ceiling \in FeeCeilings : ceiling \in Nat
  BY Derived, AskTypes DEF TypeOK
<1>2. wanted \in Nat
  <2>1. Quoted(ask)
    BY AsksAndCallsAreMarkets
  <2>2. p.size \in Nat /\ p.fees \in Nat
    BY FeeAssumption
  <2>3. fee \in Int /\ size \in Nat
    BY <1>1
  <2>. QED
    BY <2>1, <2>2, <2>3, UpliftPaysThePackage
<1>. HIDE DEF wanted
<1>3. S \in SUBSET Int /\ S # {} /\ low \in Int /\ \A x \in S : low <= x
  BY <1>1, <1>2
<1>4. \A x \in S : x = wanted \/ x = ask.cpfp \/ x = Spare \/ \E ceiling \in FeeCeilings : x = ceiling - fee
  OBVIOUS
<1>5. Spare \in S /\ \A ceiling \in FeeCeilings : ceiling - fee \in S
  OBVIOUS
<1>. HIDE DEF S, low
<1>6. u \in Nat /\ (u > 0 => \A x \in S : u <= x) /\ \E x \in S : u >= x
  BY <1>3, Clamped
<1>7. u = AncestorUplift(p)
  BY DEF AncestorUplift, S, wanted
<1>. HIDE DEF u
<1>8. u > 0 => u <= Spare /\ \A ceiling \in FeeCeilings : fee + u <= ceiling
  BY <1>1, <1>5, <1>6
<1>9. \/ u >= wanted \/ u >= ask.cpfp \/ u >= Spare
      \/ \E ceiling \in FeeCeilings : fee + u >= ceiling
  <2>1. PICK x \in S : u >= x
    BY <1>6
  <2>. QED
    BY <1>1, <1>4, <1>6, <2>1
<1>. QED
  BY <1>6, <1>7, <1>8, <1>9 DEF wanted

LEMMA UpliftKeeps ==
    ASSUME FeeInv, UpliftForAncestors
    PROVE  FeeInv'
<1>1. /\ UNCHANGED <<ask, count, inputs, size, outputs, commit, reveal, change>>
      /\ pc = "uplift" /\ pc' = "floor" /\ ask \in Asks /\ TypeOK /\ fee = AskedFee /\ ancestors.size = 0
  BY DEF UpliftForAncestors, Goto, FeeInv, SelectionEnds, UpliftHeld
<1>2. /\ AskedFee' = AskedFee /\ StopTarget' = StopTarget /\ FeeCeilings' = FeeCeilings
      /\ AskedFee \in Nat /\ Spare \in Int /\ SizeFee \in Int /\ \A ceiling \in FeeCeilings : ceiling \in Nat
  BY <1>1, SameSize, Derived
<1>3. fee \in Nat /\ size \in Nat /\ Surcharge(ask) \in Nat /\ ask.cpfp \in Nat /\ inputs \in Nat /\ outputs \in Nat
  BY <1>1, AskTypes, AmountsAreNatural DEF TypeOK
<1>4. (\A ceiling \in FeeCeilings : SizeFee <= ceiling) /\ (SizeFee >= FeeFor(size, ask.relay) \/ Dust >= FeeFor(size, ask.relay))
  BY <1>1 DEF FeeInv, ChecksHold, Checked, Judged
<1>5. FeeFor(size, ask.relay) \in Nat
  BY <1>1, Derived
<1>6. /\ fee' \in Nat /\ fee' >= fee /\ (fee' = fee \/ Spare' >= 0)
      /\ ancestors'.size \in Nat /\ ancestors'.fees \in Nat
      /\ \A ceiling \in FeeCeilings : SizeFee' <= ceiling
      /\ ancestors'.size > 0 => AncestorsPaid'
  <2>1. CASE SpendsUnconfirmed /\ ask.cpfp > 0
    <3>1. PICK p \in Packages : ancestors' = p /\ fee' = fee + AncestorUplift(p)
      BY <2>1 DEF UpliftForAncestors
    <3>. DEFINE u == AncestorUplift(p)
                wanted == PackageUplift(ask, fee, size, p)
                f == FeeFor(p.size + size, Rate(ask))
    <3>2. p.size \in Nat /\ p.fees \in Nat
      BY FeeAssumption
    <3>3. /\ u \in Nat /\ (u > 0 => u <= Spare /\ \A ceiling \in FeeCeilings : fee + u <= ceiling)
          /\ u >= wanted \/ u >= ask.cpfp \/ u >= Spare \/ \E ceiling \in FeeCeilings : fee + u >= ceiling
      BY <1>1, UpliftIsBounded
    <3>4. wanted \in Nat /\ (p.size > 0 => f <= p.fees + fee + wanted)
      <4>1. Quoted(ask)
        BY <1>1, AsksAndCallsAreMarkets
      <4>2. fee \in Int /\ size \in Nat
        BY <1>3
      <4>. QED
        BY <3>2, <4>1, <4>2, UpliftPaysThePackage
    <3>5. f \in Nat
      <4>1. p.size + size \in Nat /\ Rate(ask) \in Nat
        BY <1>1, <1>3, <3>2, AskTypes
      <4>. QED
        BY <4>1, FeeIsNatural
    <3>. HIDE DEF u, wanted, f
    <3>6. fee' = fee + u /\ ancestors' = p
      BY <3>1 DEF u
    <3>7. Spare' = Spare - u /\ SizeFee' = SizeFee + u
      BY <1>1, <1>3, <3>3, <3>6 DEF Spare, SizeFee
    <3>8. \A ceiling \in FeeCeilings : SizeFee' <= ceiling
      <4>1. SizeFee <= fee
        BY <1>3 DEF SizeFee
      <4>. QED
        BY <1>2, <1>3, <1>4, <3>3, <3>7, <4>1
    <3>9. p.size > 0 => AncestorsPaid'
      <4>. SUFFICES ASSUME p.size > 0 PROVE AncestorsPaid'
        OBVIOUS
      <4>1. CASE u >= wanted
        <5>1. fee' + p.fees >= f
          BY <1>3, <3>2, <3>3, <3>4, <3>5, <3>6, <4>1
        <5>2. f = FeeFor(ancestors'.size + size', Rate(ask'))
          BY <1>1, <3>6 DEF f
        <5>. QED
          BY <3>6, <5>1, <5>2 DEF AncestorsPaid
      <4>2. CASE u >= ask.cpfp
        BY <1>1, <1>2, <1>3, <3>3, <3>6, <4>2 DEF AncestorsPaid
      <4>3. CASE u >= Spare
        BY <1>2, <3>3, <3>7, <4>3 DEF AncestorsPaid
      <4>4. CASE \E ceiling \in FeeCeilings : fee + u >= ceiling
        BY <1>2, <3>6, <4>4 DEF AncestorsPaid
      <4>. QED
        BY <3>3, <4>1, <4>2, <4>3, <4>4
    <3>. QED
      BY <1>2, <1>3, <3>2, <3>3, <3>6, <3>7, <3>8, <3>9
  <2>2. CASE ~(SpendsUnconfirmed /\ ask.cpfp > 0)
    <3>1. ancestors' = ancestors /\ fee' = fee
      BY <2>2 DEF UpliftForAncestors
    <3>2. SizeFee' = SizeFee
      BY <1>1, <3>1 DEF SizeFee
    <3>. QED
      BY <1>1, <1>3, <1>4, <3>1, <3>2 DEF TypeOK
  <2>. QED
    BY <2>1, <2>2
<1>7. TypeOK'
  BY <1>1, <1>6 DEF TypeOK, Steps
<1>8. AccountsAgree'
  BY <1>1 DEF FeeInv, AccountsAgree
<1>9. SelectionEnds'
  BY <1>1, <1>2 DEF FeeInv, SelectionEnds, Selected, Checked, Judged, Uplifted, Floored, Prefunded, Funded, Emitted
<1>10. ChecksHold'
  <2>1. SizeFee' >= SizeFee
    BY <1>1, <1>3, <1>6 DEF SizeFee
  <2>2. SizeFee' \in Int
    BY <1>1, <1>3, <1>6 DEF SizeFee
  <2>3. SizeFee' >= FeeFor(size', ask'.relay) \/ Dust >= FeeFor(size', ask'.relay)
    BY <1>1, <1>2, <1>4, <1>5, <2>1, <2>2
  <2>. QED
    BY <1>1, <1>2, <1>6, <2>3 DEF ChecksHold, Floored, Prefunded, Funded, Emitted
<1>11. UpliftHeld'
  BY <1>1, <1>2, <1>6 DEF UpliftHeld, Floored, Prefunded, Funded, Emitted
<1>12. ChangeKept'
  BY <1>1 DEF ChangeKept, Prefunded, Funded, Emitted
<1>. QED
  BY <1>1, <1>7, <1>8, <1>9, <1>10, <1>11, <1>12 DEF FeeInv

LEMMA FloorKeeps ==
    ASSUME FeeInv, FloorEstimatedFee
    PROVE  FeeInv'
<1>1. /\ UNCHANGED <<ask, count, inputs, size, outputs, commit, reveal, ancestors, change>>
      /\ pc = "floor" /\ pc' = "prefund" /\ ask \in Asks /\ TypeOK /\ commit = CommitValue(ask)
      /\ fee' = Max({fee, Dust + Surcharge(ask)})
  BY DEF FloorEstimatedFee, Goto, FeeInv, AccountsAgree
<1>2. /\ AskedFee' = AskedFee /\ OwnFee' = OwnFee /\ StopTarget' = StopTarget /\ FeeCeilings' = FeeCeilings
      /\ AskedFee \in Nat /\ Spare \in Int /\ SizeFee \in Int
      /\ OwnFee = (IF AskedFee >= Dust + Surcharge(ask) THEN AskedFee ELSE Dust + Surcharge(ask))
      /\ FeeFor(size, ask.relay) \in Nat /\ \A ceiling \in FeeCeilings : ceiling \in Nat /\ Dust <= ceiling
  BY <1>1, SameSize, Derived
<1>3. /\ fee \in Nat /\ size \in Nat /\ Surcharge(ask) \in Nat /\ ask.cpfp \in Nat /\ inputs \in Nat /\ outputs \in Nat
      /\ Dust \in Nat /\ ancestors.fees \in Nat /\ ancestors.size \in Nat /\ Rate(ask) \in Nat
  BY <1>1, AskTypes, AmountsAreNatural, Constants DEF TypeOK
<1>4. fee' = (IF fee >= Dust + Surcharge(ask) THEN fee ELSE Dust + Surcharge(ask)) /\ fee' \in Nat /\ fee' >= fee
  BY <1>1, <1>3, MaxOfTwo
<1>5. /\ \A ceiling \in FeeCeilings : SizeFee <= ceiling
      /\ SizeFee >= FeeFor(size, ask.relay) \/ Dust >= FeeFor(size, ask.relay)
  BY <1>1 DEF FeeInv, ChecksHold, Checked, Judged, Uplifted
<1>6. fee >= AskedFee /\ (ancestors.size > 0 => AncestorsPaid) /\ (fee = AskedFee \/ Spare >= 0)
  BY <1>1 DEF FeeInv, UpliftHeld, Uplifted
<1>7. SizeFee' = (IF SizeFee >= Dust THEN SizeFee ELSE Dust)
  BY <1>1, <1>3, <1>4 DEF SizeFee
<1>8. Spare' \in Int /\ Spare' <= Spare /\ (fee' = fee => Spare' = Spare)
  BY <1>1, <1>3, <1>4 DEF Spare
<1>9. TypeOK'
  BY <1>1, <1>4 DEF TypeOK, Steps
<1>10. AccountsAgree'
  BY <1>1 DEF FeeInv, AccountsAgree
<1>11. SelectionEnds'
  BY <1>1, <1>2 DEF FeeInv, SelectionEnds, Selected, Checked, Judged, Uplifted, Floored, Prefunded, Funded, Emitted
<1>12. ChecksHold'
  <2>1. SizeFee' >= FeeFor(size', ask'.relay)
    BY <1>1, <1>2, <1>3, <1>5, <1>7
  <2>2. \A ceiling \in FeeCeilings' : SizeFee' <= ceiling
    BY <1>2, <1>5, <1>7
  <2>. QED
    BY <2>1, <2>2 DEF ChecksHold
<1>13. UpliftHeld'
  <2>1. ancestors.size > 0 => AncestorsPaid'
    <3>. SUFFICES ASSUME AncestorsPaid PROVE AncestorsPaid'
      BY <1>6
    <3>1. CASE fee + ancestors.fees >= FeeFor(ancestors.size + size, Rate(ask))
      <4>1. ancestors.size + size \in Nat
        BY <1>3
      <4>2. FeeFor(ancestors.size + size, Rate(ask)) \in Nat
        BY <1>3, <4>1, FeeIsNatural
      <4>3. fee' + ancestors.fees >= FeeFor(ancestors.size + size, Rate(ask))
        BY <1>3, <1>4, <3>1, <4>2
      <4>. QED
        BY <1>1, <4>3 DEF AncestorsPaid
    <3>2. CASE Spare <= 0
      BY <1>2, <1>8, <3>2 DEF AncestorsPaid
    <3>3. CASE fee >= AskedFee + ask.cpfp
      BY <1>1, <1>2, <1>3, <1>4, <3>3 DEF AncestorsPaid
    <3>4. CASE \E ceiling \in FeeCeilings : fee >= ceiling
      <4>1. \E ceiling \in FeeCeilings' : fee' >= ceiling
        BY <1>2, <1>3, <1>4, <3>4
      <4>. QED
        BY <4>1 DEF AncestorsPaid
    <3>. QED
      BY <3>1, <3>2, <3>3, <3>4 DEF AncestorsPaid
  <2>2. fee' = OwnFee \/ Spare' >= 0
    BY <1>2, <1>3, <1>4, <1>6, <1>8
  <2>3. fee' >= AskedFee
    BY <1>2, <1>3, <1>4, <1>6
  <2>4. (fee' = OwnFee' /\ commit' = CommitValue(ask')) \/ Spare' >= 0
    BY <1>1, <1>2, <2>2
  <2>. QED
    BY <1>1, <1>2, <2>1, <2>3, <2>4 DEF UpliftHeld
<1>14. ChangeKept'
  BY <1>1 DEF ChangeKept, Prefunded, Funded, Emitted
<1>. QED
  BY <1>1, <1>9, <1>10, <1>11, <1>12, <1>13, <1>14 DEF FeeInv

\* applyRevealPrefund: what the reveal is given is no more than its bound or the
\* change, nothing where there is no reveal, and stops only at one of them.
LEMMA PrefundIsBounded ==
    ASSUME ask \in Asks, TypeOK, size > 0
    PROVE  /\ Prefund \in Nat
           /\ Prefund > 0 => Prefund <= Spare
           /\ ask.revealBytes = 0 => Prefund = 0
           /\ ask.revealBytes > 0 =>
                \/ fee + ancestors.fees + reveal.revealFee + Prefund >= FeeFor(size + ancestors.size + ask.revealBytes, Rate(ask))
                \/ Prefund >= ask.cpfp
                \/ Prefund >= Spare
           /\ Prefund <= ask.cpfp
<1>. DEFINE pair == [size |-> size + ancestors.size, fees |-> fee + ancestors.fees]
            wanted == PackageUplift(ask, reveal.revealFee, ask.revealBytes, pair)
            f == FeeFor(pair.size + ask.revealBytes, Rate(ask))
            S == {wanted, ask.cpfp, Spare}
            low == IF Spare < 0 THEN Spare ELSE 0
            u == Max({0, Min(S)})
<1>1. /\ fee \in Nat /\ size \in Nat /\ Spare \in Int /\ ask.cpfp \in Nat /\ ask.revealBytes \in Nat
      /\ reveal.revealFee \in Nat /\ ancestors.size \in Nat /\ ancestors.fees \in Nat /\ Rate(ask) \in Nat
  BY Derived, AskTypes DEF TypeOK
<1>2. pair.size = size + ancestors.size /\ pair.fees = fee + ancestors.fees
  OBVIOUS
<1>3. pair.size \in Nat /\ pair.size > 0 /\ pair.fees \in Nat
  BY <1>1, <1>2
<1>. HIDE DEF pair
<1>4. wanted \in Nat /\ f <= pair.fees + reveal.revealFee + wanted
  <2>1. Quoted(ask)
    BY AsksAndCallsAreMarkets
  <2>2. reveal.revealFee \in Int /\ ask.revealBytes \in Nat
    BY <1>1
  <2>3. pair.size \in Nat /\ pair.fees \in Nat
    BY <1>3
  <2>. QED
    BY <1>3, <2>1, <2>2, <2>3, UpliftPaysThePackage
<1>5. f \in Nat
  <2>1. pair.size + ask.revealBytes \in Nat
    BY <1>1, <1>3
  <2>. QED
    BY <1>1, <2>1, FeeIsNatural
<1>6. f = FeeFor(size + ancestors.size + ask.revealBytes, Rate(ask))
  BY <1>2
<1>7. Prefund = IF ask.revealBytes = 0 \/ ask.cpfp = 0 THEN 0 ELSE u
  BY DEF Prefund, pair
<1>. HIDE DEF wanted, f
<1>8. S \in SUBSET Int /\ S # {} /\ low \in Int /\ \A x \in S : low <= x
  BY <1>1, <1>4
<1>9. \A x \in S : x = wanted \/ x = ask.cpfp \/ x = Spare
  OBVIOUS
<1>10. Spare \in S /\ ask.cpfp \in S
  OBVIOUS
<1>. HIDE DEF S, low
<1>11. u \in Nat /\ (u > 0 => \A x \in S : u <= x) /\ \E x \in S : u >= x
  BY <1>8, Clamped
<1>. HIDE DEF u
<1>12. u >= wanted \/ u >= ask.cpfp \/ u >= Spare
  BY <1>9, <1>11
<1>13. u >= wanted => fee + ancestors.fees + reveal.revealFee + u >= f
  BY <1>1, <1>2, <1>4, <1>5, <1>11
<1>14. u <= ask.cpfp /\ (u > 0 => u <= Spare)
  BY <1>1, <1>10, <1>11
<1>15. CASE ask.revealBytes = 0 \/ ask.cpfp = 0
  BY <1>1, <1>7, <1>15
<1>16. CASE ~(ask.revealBytes = 0 \/ ask.cpfp = 0)
  BY <1>6, <1>7, <1>11, <1>12, <1>13, <1>14, <1>16
<1>. QED
  BY <1>15, <1>16

LEMMA PrefundKeeps ==
    ASSUME FeeInv, PrefundRevealPackage
    PROVE  FeeInv'
<1>. DEFINE u == Prefund
<1>1. /\ UNCHANGED <<ask, count, inputs, size, fee, ancestors, change>>
      /\ pc = "prefund" /\ pc' = "change" /\ ask \in Asks /\ TypeOK /\ commit = CommitValue(ask)
      /\ commit' = commit + u /\ outputs' = outputs + u
      /\ reveal' = [commitValue |-> IF OnLegs(ask) THEN 0 ELSE reveal.commitValue + u, revealFee |-> reveal.revealFee + u]
  BY DEF PrefundRevealPackage, Goto, FeeInv, AccountsAgree
<1>2. /\ AskedFee' = AskedFee /\ OwnFee' = OwnFee /\ StopTarget' = StopTarget /\ FeeCeilings' = FeeCeilings
      /\ SizeFee' = SizeFee /\ Spare \in Int
  BY <1>1, SameSize, Derived DEF SizeFee
<1>3. /\ fee \in Nat /\ size \in Nat /\ ask.cpfp \in Nat /\ inputs \in Nat /\ outputs \in Nat /\ commit \in Nat
      /\ CommitValue(ask) \in Nat /\ RevealFee(ask) \in Nat /\ Paid(ask) \in Nat
      /\ ancestors.fees \in Nat /\ ancestors.size \in Nat /\ Rate(ask) \in Nat /\ ask.revealBytes \in Nat
      /\ reveal.commitValue \in Nat /\ reveal.revealFee \in Nat
  BY <1>1, AskTypes, AmountsAreNatural DEF TypeOK
<1>4. size > 0
  BY <1>1 DEF FeeInv, SelectionEnds, Selected, Checked, Judged, Uplifted, Floored
<1>5. /\ u \in Nat /\ (u > 0 => u <= Spare) /\ (ask.revealBytes = 0 => u = 0) /\ u <= ask.cpfp
      /\ ask.revealBytes > 0 =>
           \/ fee + ancestors.fees + reveal.revealFee + u >= FeeFor(size + ancestors.size + ask.revealBytes, Rate(ask))
           \/ u >= ask.cpfp
           \/ u >= Spare
  BY <1>1, <1>4, PrefundIsBounded
<1>. HIDE DEF u
<1>6. reveal'.revealFee = reveal.revealFee + u /\ reveal'.commitValue = (IF OnLegs(ask) THEN 0 ELSE reveal.commitValue + u)
  BY <1>1
<1>7. Spare' = Spare - u
  BY <1>1, <1>3, <1>5 DEF Spare
<1>8. TypeOK'
  <2>1. reveal' \in [commitValue : Nat, revealFee : Nat]
    BY <1>1, <1>3, <1>5
  <2>. QED
    BY <1>1, <1>3, <1>5, <2>1 DEF TypeOK, Steps
<1>9. AccountsAgree'
  <2>1. /\ outputs = Paid(ask) + commit /\ commit - CommitValue(ask) = reveal.revealFee - RevealFee(ask)
        /\ reveal.commitValue = IF OnLegs(ask) THEN 0 ELSE commit
    BY <1>1 DEF FeeInv, AccountsAgree
  <2>2. outputs' = Paid(ask) + commit' /\ commit' >= CommitValue(ask) /\ (ask.revealBytes = 0 => commit' = CommitValue(ask))
    BY <1>1, <1>3, <1>5, <2>1
  <2>3. commit' - CommitValue(ask) = reveal'.revealFee - RevealFee(ask)
    BY <1>1, <1>3, <1>5, <1>6, <2>1
  <2>4. reveal'.commitValue = IF OnLegs(ask) THEN 0 ELSE commit'
    BY <1>1, <1>6, <2>1
  <2>. QED
    BY <1>1, <2>2, <2>3, <2>4 DEF AccountsAgree
<1>10. SelectionEnds'
  BY <1>1, <1>2 DEF FeeInv, SelectionEnds, Selected, Checked, Judged, Uplifted, Floored, Prefunded, Funded, Emitted
<1>11. ChecksHold'
  BY <1>1, <1>2 DEF FeeInv, ChecksHold, Checked, Judged, Uplifted, Floored, Prefunded, Funded, Emitted
<1>12. UpliftHeld'
  <2>1. fee >= AskedFee /\ (ancestors.size > 0 => AncestorsPaid) /\ (fee = OwnFee \/ Spare >= 0)
    BY <1>1 DEF FeeInv, UpliftHeld, Uplifted, Floored
  <2>2. ancestors.size > 0 => AncestorsPaid'
    <3>1. Spare <= 0 => Spare' <= 0
      BY <1>2, <1>5, <1>7
    <3>. QED
      BY <1>1, <1>2, <2>1, <3>1 DEF AncestorsPaid
  <2>3. (fee' = OwnFee' /\ commit' = CommitValue(ask')) \/ Spare' >= 0
    <3>1. CASE u > 0
      BY <1>2, <1>5, <1>7, <3>1
    <3>2. CASE u = 0
      BY <1>1, <1>2, <1>3, <1>7, <2>1, <3>2
    <3>. QED
      BY <1>5, <3>1, <3>2
  <2>. QED
    BY <1>1, <1>2, <2>1, <2>2, <2>3 DEF UpliftHeld
<1>13. ChangeKept'
  <2>1. ask.revealBytes > 0 => RevealPaid'
    <3>. SUFFICES ASSUME ask.revealBytes > 0 PROVE RevealPaid'
      OBVIOUS
    <3>. DEFINE f == FeeFor(size + ancestors.size + ask.revealBytes, Rate(ask))
    <3>1. CASE fee + ancestors.fees + reveal.revealFee + u >= f
      <4>1. size + ancestors.size + ask.revealBytes \in Nat
        BY <1>3
      <4>2. f \in Nat
        BY <1>3, <4>1, FeeIsNatural
      <4>. HIDE DEF f
      <4>3. fee' + ancestors'.fees + reveal'.revealFee >= f
        BY <1>1, <1>3, <1>5, <1>6, <3>1, <4>2
      <4>. QED
        BY <1>1, <4>3 DEF RevealPaid, f
    <3>2. CASE u >= ask.cpfp
      BY <1>1, <1>3, <1>5, <3>2 DEF RevealPaid
    <3>3. CASE u >= Spare
      BY <1>2, <1>5, <1>7, <3>3 DEF RevealPaid
    <3>. QED
      BY <1>5, <3>1, <3>2, <3>3
  <2>. QED
    BY <1>1, <2>1 DEF ChangeKept, Funded, Emitted
<1>. QED
  BY <1>1, <1>8, <1>9, <1>10, <1>11, <1>12, <1>13 DEF FeeInv

\* A decision after the prefund keeps all that was settled before it.
LEMMA LateDecisionKeeps ==
    ASSUME FeeInv, UNCHANGED <<ask, count, inputs, size, fee, outputs, commit, reveal, ancestors>>,
           pc \in Prefunded, pc' \in Prefunded
    PROVE  AccountsAgree' /\ SelectionEnds' /\ ChecksHold' /\ UpliftHeld' /\ RevealPaid' = RevealPaid /\ Spare' = Spare
<1>1. /\ AskedFee' = AskedFee /\ OwnFee' = OwnFee /\ StopTarget' = StopTarget /\ FeeCeilings' = FeeCeilings
  BY SameSize
<1>2. Spare' = Spare /\ SizeFee' = SizeFee
  BY DEF Spare, SizeFee
<1>3. AncestorsPaid' = AncestorsPaid /\ RevealPaid' = RevealPaid
  BY <1>1, <1>2 DEF AncestorsPaid, RevealPaid
<1>4. pc \in Floored /\ pc \in Uplifted /\ pc \in Judged /\ pc \in Checked /\ pc \in Selected
  BY DEF Floored, Uplifted, Judged, Checked, Selected
<1>5. /\ pc' \notin {"emit", "select", "relay", "ceiling", "uplift", "floor", "prefund"}
      /\ pc \notin {"emit", "select", "relay", "ceiling", "uplift", "floor", "prefund"}
  BY DEF Prefunded, Funded, Emitted
<1>6. AccountsAgree'
  BY <1>5 DEF FeeInv, AccountsAgree
<1>7. SelectionEnds'
  BY <1>1, <1>4, <1>5 DEF FeeInv, SelectionEnds
<1>8. ChecksHold'
  BY <1>1, <1>2, <1>4 DEF FeeInv, ChecksHold
<1>9. UpliftHeld'
  BY <1>1, <1>2, <1>3, <1>4, <1>5 DEF FeeInv, UpliftHeld
<1>. QED
  BY <1>2, <1>3, <1>6, <1>7, <1>8, <1>9

LEMMA ComputeKeeps ==
    ASSUME FeeInv, ComputeChange
    PROVE  FeeInv'
<1>1. /\ UNCHANGED <<ask, count, inputs, size, fee, outputs, commit, reveal, ancestors, change>>
      /\ pc = "change" /\ ask \in Asks /\ TypeOK /\ pc \in Prefunded
  BY DEF ComputeChange, FeeInv, Prefunded
<1>2. pc' \in {"INSUFFICIENT_FUNDS", "changeOut", "CHANGE_ADDRESS_REQUIRED"}
  BY DEF ComputeChange, Goto
<1>3. TypeOK'
  BY <1>1, <1>2 DEF TypeOK, Steps, Refusals
<1>4. CASE pc' = "CHANGE_ADDRESS_REQUIRED"
  <2>1. AccountsAgree' /\ SelectionEnds'
    BY <1>1, <1>4 DEF FeeInv, AccountsAgree, SelectionEnds, Selected, Checked, Judged, Uplifted, Floored, Prefunded, Funded, Emitted
  <2>2. ChecksHold' /\ UpliftHeld' /\ ChangeKept'
    BY <1>1, <1>4 DEF ChecksHold, UpliftHeld, ChangeKept, Selected, Checked, Judged, Uplifted, Floored, Prefunded, Funded, Emitted
  <2>. QED
    BY <1>1, <1>3, <2>1, <2>2 DEF FeeInv
<1>5. CASE pc' # "CHANGE_ADDRESS_REQUIRED"
  <2>1. pc' \in Prefunded
    BY <1>2, <1>5 DEF Prefunded, Funded
  <2>2. AccountsAgree' /\ SelectionEnds' /\ ChecksHold' /\ UpliftHeld' /\ RevealPaid' = RevealPaid /\ Spare' = Spare
    BY <1>1, <2>1, LateDecisionKeeps
  <2>3. Spare \in Int /\ ask.change \in BOOLEAN /\ Dust \in Nat
    BY <1>1, Derived, AskTypes, Constants
  <2>4. pc' = "INSUFFICIENT_FUNDS" => Spare < 0
    BY <2>3 DEF ComputeChange, Goto
  <2>5. pc' = "changeOut" => Spare >= 0 /\ (ask.change \/ Spare <= Dust)
    BY <2>3 DEF ComputeChange, Goto
  <2>6. ask.revealBytes > 0 => RevealPaid
    BY <1>1 DEF FeeInv, ChangeKept
  <2>7. ChangeKept'
    BY <1>1, <1>2, <1>5, <2>2, <2>4, <2>5, <2>6 DEF ChangeKept, Funded, Emitted
  <2>. QED
    BY <1>1, <1>3, <2>2, <2>7 DEF FeeInv
<1>. QED
  BY <1>4, <1>5

LEMMA EmitChangeKeeps ==
    ASSUME FeeInv, EmitChange
    PROVE  FeeInv'
<1>1. /\ UNCHANGED <<ask, count, inputs, size, fee, outputs, commit, reveal, ancestors>>
      /\ pc = "changeOut" /\ pc' = "stripped" /\ ask \in Asks /\ TypeOK /\ pc \in Prefunded /\ pc' \in Prefunded
      /\ change' = IF ask.change /\ Spare >= OutputFloor THEN Spare ELSE 0
  BY DEF EmitChange, Goto, FeeInv, Prefunded, Funded, Emitted
<1>2. AccountsAgree' /\ SelectionEnds' /\ ChecksHold' /\ UpliftHeld' /\ RevealPaid' = RevealPaid /\ Spare' = Spare
  BY <1>1, LateDecisionKeeps
<1>3. Spare \in Int /\ Spare >= 0 /\ (ask.change \/ Spare <= Dust) /\ (ask.revealBytes > 0 => RevealPaid)
  BY <1>1, Derived DEF FeeInv, ChangeKept, Funded
<1>4. TypeOK'
  BY <1>1, <1>3 DEF TypeOK, Steps
<1>5. ChangeKept'
  BY <1>1, <1>2, <1>3 DEF ChangeKept, Funded, Emitted
<1>. QED
  BY <1>1, <1>2, <1>4, <1>5 DEF FeeInv

LEMMA StrippedKeeps ==
    ASSUME FeeInv, RefuseUnderStrippedFloor
    PROVE  FeeInv'
<1>1. /\ UNCHANGED <<ask, count, inputs, size, fee, outputs, commit, reveal, ancestors, change>>
      /\ pc = "stripped" /\ pc' \in {"done", "TX_BELOW_MIN_STANDARD_SIZE"} /\ ask \in Asks /\ TypeOK /\ pc \in Prefunded
  BY DEF RefuseUnderStrippedFloor, Goto, FeeInv, Prefunded, Funded, Emitted
<1>2. TypeOK'
  BY <1>1 DEF TypeOK, Refusals
<1>3. CASE pc' = "done"
  <2>1. AccountsAgree' /\ SelectionEnds' /\ ChecksHold' /\ UpliftHeld' /\ RevealPaid' = RevealPaid /\ Spare' = Spare
    BY <1>1, <1>3, LateDecisionKeeps DEF Prefunded, Funded, Emitted
  <2>2. ChangeKept'
    BY <1>1, <1>3, <2>1 DEF FeeInv, ChangeKept, Prefunded, Funded, Emitted
  <2>. QED
    BY <1>1, <1>2, <2>1, <2>2 DEF FeeInv
<1>4. CASE pc' # "done"
  <2>1. AccountsAgree' /\ SelectionEnds'
    BY <1>1, <1>4 DEF FeeInv, AccountsAgree, SelectionEnds, Selected, Checked, Judged, Uplifted, Floored, Prefunded, Funded, Emitted
  <2>2. ChecksHold' /\ UpliftHeld' /\ ChangeKept'
    BY <1>1, <1>4 DEF ChecksHold, UpliftHeld, ChangeKept, Selected, Checked, Judged, Uplifted, Floored, Prefunded, Funded, Emitted
  <2>. QED
    BY <1>1, <1>2, <2>1, <2>2 DEF FeeInv
<1>. QED
  BY <1>3, <1>4

LEMMA FeesStutter ==
    ASSUME FeeInv, UNCHANGED vars
    PROVE  FeeInv'
<1>1. UNCHANGED <<ask, pc, count, inputs, size, fee, outputs, commit, reveal, ancestors, change>>
  BY DEF vars
<1>2. AskedFee' = AskedFee /\ OwnFee' = OwnFee /\ StopTarget' = StopTarget /\ FeeCeilings' = FeeCeilings
  BY <1>1, SameSize
<1>3. Spare' = Spare /\ SizeFee' = SizeFee
  BY <1>1 DEF Spare, SizeFee
<1>4. AncestorsPaid' = AncestorsPaid /\ RevealPaid' = RevealPaid
  BY <1>1, <1>2, <1>3 DEF AncestorsPaid, RevealPaid
<1>5. TypeOK' /\ AccountsAgree' /\ SelectionEnds'
  BY <1>1, <1>2 DEF FeeInv, TypeOK, AccountsAgree, SelectionEnds
<1>6. ChecksHold' /\ UpliftHeld' /\ ChangeKept'
  BY <1>1, <1>2, <1>3, <1>4 DEF FeeInv, ChecksHold, UpliftHeld, ChangeKept
<1>. QED
  BY <1>1, <1>5, <1>6 DEF FeeInv

LEMMA FeesStep ==
    ASSUME FeeInv, [Next]_vars
    PROVE  FeeInv'
BY EmitKeeps, SelectKeeps, CappedKeeps, EndKeeps, RelayKeeps, CeilingKeeps, UpliftKeeps, FloorKeeps,
   PrefundKeeps, ComputeKeeps, EmitChangeKeeps, StrippedKeeps, FeesStutter DEF Next

-----------------------------------------------------------------------------
(* What the invariant says of a build that is done, and of one refused.     *)

LEMMA BuiltSettles ==
    ASSUME FeeInv, pc = "done"
    PROVE  /\ ask \in Asks /\ TypeOK /\ size > 0
           /\ outputs = Paid(ask) + commit /\ commit >= CommitValue(ask)
           /\ commit - CommitValue(ask) = reveal.revealFee - RevealFee(ask)
           /\ reveal.commitValue = (IF OnLegs(ask) THEN 0 ELSE commit)
           /\ ask.revealBytes = 0 => commit = CommitValue(ask)
           /\ Spare \in Int /\ Spare >= 0 /\ (ask.change \/ Spare <= Dust)
           /\ change = (IF ask.change /\ Spare >= OutputFloor THEN Spare ELSE 0)
           /\ MinerFee = fee + Spare - change
<1>1. ask \in Asks /\ TypeOK /\ pc \in Emitted /\ pc \in Funded /\ pc \in Selected
  BY DEF FeeInv, Selected, Checked, Judged, Uplifted, Floored, Prefunded, Funded, Emitted
<1>2. outputs = Paid(ask) + commit
  BY DEF FeeInv, AccountsAgree
<1>3. /\ commit >= CommitValue(ask) /\ commit - CommitValue(ask) = reveal.revealFee - RevealFee(ask)
      /\ reveal.commitValue = (IF OnLegs(ask) THEN 0 ELSE commit) /\ (ask.revealBytes = 0 => commit = CommitValue(ask))
  BY DEF FeeInv, AccountsAgree
<1>4. size > 0
  BY <1>1 DEF FeeInv, SelectionEnds
<1>5. Spare \in Int
  BY <1>1, Derived
<1>6. /\ Spare >= 0 /\ (ask.change \/ Spare <= Dust)
      /\ change = (IF ask.change /\ Spare >= OutputFloor THEN Spare ELSE 0)
  BY <1>1 DEF FeeInv, ChangeKept
<1>7. MinerFee = fee + Spare - change
  <2>1. inputs \in Nat /\ outputs \in Nat /\ fee \in Nat /\ commit \in Nat /\ change \in Nat /\ Paid(ask) \in Nat
    BY <1>1, AmountsAreNatural DEF TypeOK
  <2>. QED
    BY <1>2, <2>1 DEF MinerFee, Spare
<1>. QED
  BY <1>1, <1>2, <1>3, <1>4, <1>5, <1>6, <1>7

LEMMA NothingIsBurned == FeeInv => NothingBurned
<1>. SUFFICES ASSUME FeeInv PROVE NothingBurned
  OBVIOUS
<1>1. TypeOK
  BY DEF FeeInv
<1>. SUFFICES ASSUME pc = "done"
              PROVE  /\ MinerFee \in fee .. (fee + (IF ask.change THEN OutputFloor - 1 ELSE Dust))
                     /\ ask.revealBytes > 0 => commit - CommitValue(ask) = reveal.revealFee - RevealFee(ask)
                     /\ commit > 0 /\ ~OnLegs(ask) => commit = reveal.commitValue /\ commit - reveal.revealFee = Dust
  BY <1>1 DEF NothingBurned, Built
<1>2. MinerFee \in fee .. (fee + (IF ask.change THEN OutputFloor - 1 ELSE Dust))
  <2>1. fee \in Nat /\ Dust \in Nat \ {0} /\ OutputFloor \in Nat /\ OutputFloor >= Dust /\ ask.change \in BOOLEAN
    BY BuiltSettles, AskTypes, Constants DEF TypeOK
  <2>. QED
    BY <2>1, BuiltSettles
<1>3. commit > 0 /\ ~OnLegs(ask) => commit = reveal.commitValue /\ commit - reveal.revealFee = Dust
  <2>1. /\ commit \in Nat /\ reveal.revealFee \in Nat /\ ask.revealBytes \in Nat
        /\ CommitValue(ask) \in Nat /\ RevealFee(ask) \in Nat /\ Dust \in Nat
    BY BuiltSettles, AskTypes, AmountsAreNatural, Constants DEF TypeOK
  <2>2. ~OnLegs(ask) => CommitValue(ask) = (IF ask.revealBytes = 0 THEN 0 ELSE RevealFee(ask) + Dust)
    BY DEF CommitValue
  <2>. QED
    BY <2>1, <2>2, BuiltSettles
<1>. QED
  BY <1>2, <1>3, BuiltSettles

LEMMA FeeIsWithinBounds == FeeInv => FeeWithinBounds
BY DEF FeeInv, ChecksHold, FeeWithinBounds, Built, Judged, Uplifted, Floored, Prefunded, Funded, Emitted

LEMMA RefusalIsTrue == FeeInv => RefusedOnlyUnfunded
<1>. SUFFICES ASSUME FeeInv, pc = "INSUFFICIENT_FUNDS"
              PROVE  /\ inputs < Paid(ask) + CommitValue(ask) + OwnFee
                     /\ Surcharge(ask) = 0 /\ ~ask.exact => count = Len(ask.utxos)
  BY DEF RefusedOnlyUnfunded, UpliftNeverUnfunds, PlainStopIsFunded, StopIsFunded
<1>1. ask \in Asks /\ TypeOK /\ pc \in Floored /\ pc \in Selected
  BY DEF FeeInv, Selected, Checked, Judged, Uplifted, Floored, Prefunded
<1>2. /\ inputs \in Nat /\ outputs \in Nat /\ fee \in Nat /\ commit \in Nat /\ Paid(ask) \in Nat /\ CommitValue(ask) \in Nat
      /\ Surcharge(ask) \in Nat /\ Dust \in Nat /\ AskedFee \in Nat /\ Spare \in Int
      /\ OwnFee = (IF AskedFee >= Dust + Surcharge(ask) THEN AskedFee ELSE Dust + Surcharge(ask))
      /\ StopTarget = Paid(ask) + CommitValue(ask) + (IF AskedFee >= Dust THEN AskedFee ELSE Dust)
  BY <1>1, Derived, AmountsAreNatural, Constants DEF TypeOK
<1>3. Spare < 0 /\ fee = OwnFee /\ commit = CommitValue(ask) /\ outputs = Paid(ask) + commit
  <2>1. Spare < 0
    BY DEF FeeInv, ChangeKept
  <2>2. (fee = OwnFee /\ commit = CommitValue(ask)) \/ Spare >= 0
    BY <1>1 DEF FeeInv, UpliftHeld
  <2>3. outputs = Paid(ask) + commit
    BY DEF FeeInv, AccountsAgree
  <2>. QED
    BY <1>2, <2>1, <2>2, <2>3
<1>4. inputs < Paid(ask) + CommitValue(ask) + OwnFee
  BY <1>2, <1>3 DEF Spare
<1>5. ASSUME Surcharge(ask) = 0, ~ask.exact PROVE count = Len(ask.utxos)
  <2>1. count = Len(ask.utxos) \/ inputs > StopTarget
    BY <1>1 DEF FeeInv, SelectionEnds
  <2>2. StopTarget = Paid(ask) + CommitValue(ask) + OwnFee
    BY <1>2, <1>5
  <2>. QED
    BY <1>2, <1>4, <2>1, <2>2
<1>. QED
  BY <1>4, <1>5

LEMMA PackageIsAtTarget == FeeInv => PackageAtTarget
<1>. SUFFICES ASSUME FeeInv, pc = "done", ancestors.size + ask.revealBytes > 0
              PROVE  \/ fee + ancestors.fees + RevealPays >= FeeFor(size + ancestors.size + ask.revealBytes, Rate(ask))
                     \/ MinerFee = fee /\ change = 0
                     \/ commit = CommitValue(ask) + ask.cpfp
                     \/ ask.revealBytes = 0 /\ (fee >= AskedFee + ask.cpfp \/ \E ceiling \in FeeCeilings : fee >= ceiling)
  BY DEF PackageAtTarget, Built
<1>1. ask \in Asks /\ TypeOK
  BY DEF FeeInv
<1>2. /\ fee \in Nat /\ size \in Nat /\ commit \in Nat /\ reveal.revealFee \in Nat /\ ask.revealBytes \in Nat
      /\ ancestors.size \in Nat /\ ancestors.fees \in Nat /\ Dust \in Nat \ {0} /\ OutputFloor \in Nat /\ OutputFloor >= Dust
      /\ CommitValue(ask) \in Nat /\ RevealFee(ask) \in Nat
  BY <1>1, AskTypes, AmountsAreNatural, Constants DEF TypeOK
<1>3. RevealPays = reveal.revealFee
  BY <1>2, BuiltSettles DEF RevealPays
<1>4. Spare <= 0 => MinerFee = fee /\ change = 0
  BY <1>2, BuiltSettles
<1>5. CASE ask.revealBytes > 0
  <2>1. RevealPaid
    BY <1>5 DEF FeeInv, ChangeKept, Prefunded, Funded, Emitted
  <2>. QED
    BY <1>3, <1>4, <2>1 DEF RevealPaid
<1>6. CASE ask.revealBytes = 0
  <2>1. AncestorsPaid
    BY <1>2, <1>6 DEF FeeInv, UpliftHeld, Uplifted, Floored, Prefunded, Funded, Emitted
  <2>2. RevealFee(ask) = 0
    BY <1>6 DEF RevealFee
  <2>3. reveal.revealFee = 0
    BY <1>2, <1>6, <2>2, BuiltSettles
  <2>4. ancestors.size + size = size + ancestors.size + ask.revealBytes
    BY <1>2, <1>6
  <2>5. CASE fee + ancestors.fees >= FeeFor(ancestors.size + size, Rate(ask))
    BY <1>2, <1>3, <2>3, <2>4, <2>5
  <2>. QED
    BY <1>4, <1>6, <2>1, <2>5 DEF AncestorsPaid
<1>. QED
  BY <1>2, <1>5, <1>6

-----------------------------------------------------------------------------
(* The second call.                                                        *)

CallSteps == {"check", "pad", "sweep", "revealed", "NOT_FUNDED", "BELOW_RELAY_MINIMUM", "FEE_TOO_HIGH"}

\* A call is only made of a finished build on legs; what it settled is what its
\* request and the legs decide.
RevealInv ==
    /\ step \in {"idle"} \cup CallSteps
    /\ step # "idle" => pc = "done" /\ OnLegs(ask) /\ call \in Calls
    /\ step \in {"pad", "sweep", "revealed"} =>
         floored = ask.surcharge + Max({Dust, IF call.fee = None THEN 0 ELSE call.fee})
    /\ step = "pad" => ask.padded
    /\ step = "sweep" => ~ask.padded
    /\ step # "revealed" => pad = 0 /\ sweep = 0 /\ package = NoPackage
    /\ step = "revealed" /\ ask.padded => pad = Dust /\ sweep = 0 /\ package = NoPackage
    /\ step = "revealed" /\ ~ask.padded =>
         /\ pad = 0 /\ package \in {NoPackage, Commit, WithAncestors}
         /\ sweep = IF commit - ask.outputs - Kept(package) >= OutputFloor
                    THEN commit - ask.outputs - Kept(package) ELSE 0

AllInv == FeeInv /\ RevealInv

LEMMA RevealInits == RevealInit => AllInv
BY InitFees DEF RevealInit, AllInv, RevealInv, CallSteps, NoPackage

\* A finished build takes no further step of its own.
LEMMA BuiltStays ==
    ASSUME pc = "done", Next
    PROVE  FALSE
BY DEF Next, EmitOutputs, SelectInput, RefuseCappedSelection, EndSelection, RefuseInsufficientRelayFee,
   RefuseExcessiveFee, UpliftForAncestors, FloorEstimatedFee, PrefundRevealPackage, ComputeChange, EmitChange,
   RefuseUnderStrippedFloor

LEMMA RevealSteps ==
    ASSUME AllInv, [RevealNext]_<<vars, revealVars>>
    PROVE  AllInv'
<1>1. FeeInv'
  BY FeesStep DEF AllInv, RevealNext, CallReveal, CheckReveal, PadReveal, SweepReveal
<1>2. CASE Next /\ UNCHANGED revealVars
  <2>1. UNCHANGED <<call, step, floored, package, pad, sweep>>
    BY <1>2 DEF revealVars
  <2>2. step = "idle"
    BY <1>2, BuiltStays DEF AllInv, RevealInv
  <2>3. RevealInv'
    BY <2>1, <2>2 DEF AllInv, RevealInv
  <2>. QED
    BY <1>1, <2>3 DEF AllInv
<1>3. CASE CallReveal
  <2>1. UNCHANGED <<ask, pc>> /\ pc = "done" /\ OnLegs(ask) /\ call' \in Calls /\ step' \in {"check", "NOT_FUNDED"}
    BY <1>3 DEF CallReveal, vars
  <2>2. pad' = 0 /\ sweep' = 0 /\ package' = NoPackage
    BY <1>3 DEF CallReveal, AllInv, RevealInv
  <2>3. RevealInv'
    BY <2>1, <2>2 DEF RevealInv, CallSteps, NoPackage
  <2>. QED
    BY <1>1, <2>3 DEF AllInv
<1>4. CASE CheckReveal
  <2>1. UNCHANGED <<ask, pc, call, package, pad, sweep>> /\ step = "check"
    BY <1>4 DEF CheckReveal, vars
  <2>2. pc = "done" /\ OnLegs(ask) /\ call \in Calls /\ pad = 0 /\ sweep = 0 /\ package = NoPackage
    BY <2>1 DEF AllInv, RevealInv
  <2>3. \/ step' \in {"BELOW_RELAY_MINIMUM", "FEE_TOO_HIGH"}
        \/ /\ step' = IF ask.padded THEN "pad" ELSE "sweep"
           /\ floored' = ask.surcharge + Max({Dust, IF call.fee = None THEN 0 ELSE call.fee})
    BY <1>4 DEF CheckReveal
  <2>4. RevealInv'
    BY <2>1, <2>2, <2>3 DEF RevealInv, CallSteps, NoPackage
  <2>. QED
    BY <1>1, <2>4 DEF AllInv
<1>5. CASE PadReveal
  <2>1. UNCHANGED <<ask, pc, call, floored, package, sweep>> /\ step = "pad" /\ step' = "revealed" /\ pad' = Dust
    BY <1>5 DEF PadReveal, vars
  <2>2. /\ pc = "done" /\ OnLegs(ask) /\ call \in Calls /\ sweep = 0 /\ package = NoPackage /\ ask.padded
        /\ floored = ask.surcharge + Max({Dust, IF call.fee = None THEN 0 ELSE call.fee})
    BY <2>1 DEF AllInv, RevealInv
  <2>3. RevealInv'
    BY <2>1, <2>2 DEF RevealInv, CallSteps, NoPackage
  <2>. QED
    BY <1>1, <2>3 DEF AllInv
<1>6. CASE SweepReveal
  <2>1. UNCHANGED <<ask, pc, call, floored, pad, commit>> /\ UNCHANGED vars /\ step = "sweep" /\ step' = "revealed"
    BY <1>6 DEF SweepReveal, vars
  <2>2. /\ pc = "done" /\ OnLegs(ask) /\ call \in Calls /\ pad = 0 /\ ~ask.padded
        /\ floored = ask.surcharge + Max({Dust, IF call.fee = None THEN 0 ELSE call.fee})
    BY <2>1 DEF AllInv, RevealInv
  <2>3. PICK p \in {NoPackage, Commit, WithAncestors} :
          /\ package' = p
          /\ sweep' = IF commit - ask.outputs - Kept(p) >= OutputFloor THEN commit - ask.outputs - Kept(p) ELSE 0
    BY <1>6 DEF SweepReveal
  <2>4. NoPackage' = NoPackage /\ Commit' = Commit /\ WithAncestors' = WithAncestors
    BY <2>1 DEF NoPackage, Commit, WithAncestors, MinerFee, vars
  <2>5. Kept(package)' = Kept(p)
    <3>1. BaseKept' = BaseKept /\ RevealSize' = RevealSize
      BY <2>1 DEF BaseKept, RevealSize
    <3>. QED
      BY <2>1, <2>3, <3>1 DEF Kept
  <2>6. pad' = 0 /\ package' \in {NoPackage', Commit', WithAncestors'}
    BY <2>1, <2>2, <2>3, <2>4
  <2>7. sweep' = IF commit' - ask'.outputs - Kept(package)' >= OutputFloor
                 THEN commit' - ask'.outputs - Kept(package)' ELSE 0
    BY <2>1, <2>3, <2>5
  <2>8. RevealInv'
    BY <2>1, <2>2, <2>6, <2>7 DEF RevealInv, CallSteps
  <2>. QED
    BY <1>1, <2>8 DEF AllInv
<1>7. CASE UNCHANGED <<vars, revealVars>>
  <2>1. UNCHANGED <<ask, pc, commit, size, ancestors, inputs, change, call, step, floored, package, pad, sweep>>
    BY <1>7 DEF vars, revealVars
  <2>2. NoPackage' = NoPackage /\ Commit' = Commit /\ WithAncestors' = WithAncestors
    BY <2>1 DEF NoPackage, Commit, WithAncestors, MinerFee
  <2>3. Kept(package)' = Kept(package)
    BY <2>1 DEF Kept, BaseKept, RevealSize
  <2>4. RevealInv'
    BY <2>1, <2>2, <2>3 DEF AllInv, RevealInv
  <2>. QED
    BY <1>1, <2>4 DEF AllInv
<1>. QED
  BY <1>2, <1>3, <1>4, <1>5, <1>6, <1>7 DEF RevealNext

\* What a revealed call leaves to the outputs, whatever the package asks of it.
Reserve == IF ask.outputs = 0 THEN OutputFloor ELSE 0

LEMMA CallTypes ==
    ASSUME AllInv, step = "revealed"
    PROVE  /\ ask \in Asks /\ TypeOK /\ pc = "done" /\ OnLegs(ask) /\ call \in Calls /\ Quoted(call)
           /\ call.cpfp \in Nat /\ Rate(call) \in Nat /\ (call.fee # None => call.fee \in Nat)
           /\ RevealSize \in Nat /\ FeeFor(RevealSize, Rate(call)) \in Nat
           /\ floored \in Nat /\ BaseKept \in Nat
           /\ floored - ask.surcharge >= Dust
           /\ floored - ask.surcharge = Dust \/ (call.fee # None /\ floored - ask.surcharge = call.fee)
           /\ BaseKept = ask.surcharge + (IF floored - ask.surcharge >= FeeFor(RevealSize, Rate(call))
                                          THEN floored - ask.surcharge ELSE FeeFor(RevealSize, Rate(call)))
<1>1. ask \in Asks /\ TypeOK /\ pc = "done" /\ OnLegs(ask) /\ call \in Calls
  BY DEF AllInv, FeeInv, RevealInv
<1>2. Quoted(call)
  BY <1>1, AsksAndCallsAreMarkets
<1>3. call.cpfp \in Nat /\ (call.fee # None => call.fee \in Nat)
  BY <1>2 DEF Quoted, Maybe
<1>4. Rate(call) \in Nat
  BY <1>2, RateIsCapped
<1>5. ask.surcharge \in Nat /\ RevealSize \in Nat /\ Dust \in Nat
  BY <1>1, AskTypes, Constants DEF RevealSize
<1>6. FeeFor(RevealSize, Rate(call)) \in Nat
  BY <1>4, <1>5, FeeIsNatural
<1>7. floored = ask.surcharge + Max({Dust, IF call.fee = None THEN 0 ELSE call.fee})
  BY DEF AllInv, RevealInv
<1>8. /\ floored \in Nat /\ floored - ask.surcharge >= Dust
      /\ floored - ask.surcharge = Dust \/ (call.fee # None /\ floored - ask.surcharge = call.fee)
  <2>. DEFINE asked == IF call.fee = None THEN 0 ELSE call.fee
  <2>1. asked \in Nat /\ (asked = 0 \/ (call.fee # None /\ asked = call.fee))
    BY <1>3
  <2>2. floored = ask.surcharge + Max({Dust, asked})
    BY <1>7
  <2>. HIDE DEF asked
  <2>3. Max({Dust, asked}) = IF Dust >= asked THEN Dust ELSE asked
    BY <1>5, <2>1, MaxOfTwo
  <2>. QED
    BY <1>5, <2>1, <2>2, <2>3
<1>9. /\ BaseKept = ask.surcharge + (IF floored - ask.surcharge >= FeeFor(RevealSize, Rate(call))
                                     THEN floored - ask.surcharge ELSE FeeFor(RevealSize, Rate(call)))
      /\ BaseKept \in Nat
  BY <1>5, <1>6, <1>8, MaxOfTwo DEF BaseKept
<1>. QED
  BY <1>1, <1>2, <1>3, <1>4, <1>5, <1>6, <1>8, <1>9

\* upliftRevealForCommit and clampRevealUplift: what is kept is in no output's way,
\* and stops only where the package is paid for, the bound met or the money gone.
LEMMA KeptIsBounded ==
    ASSUME AllInv, step = "revealed", NEW p, p.size \in Nat, p.fees \in Nat
    PROVE  /\ Kept(p) \in Int /\ Kept(p) >= BaseKept /\ Kept(p) <= BaseKept + call.cpfp
           /\ Kept(p) > BaseKept => Kept(p) <= commit - ask.outputs - Reserve
           /\ \/ p.size > 0 => FeeFor(p.size + RevealSize, Rate(call)) <= p.fees + Kept(p)
              \/ Kept(p) >= BaseKept + call.cpfp
              \/ Kept(p) >= commit - ask.outputs - Reserve
<1>. DEFINE asked == PackageUplift(call, BaseKept, RevealSize, p)
            wanted == IF call.cpfp = 0 THEN 0 ELSE asked
            left == commit - ask.outputs - BaseKept - Reserve
            S == {wanted, call.cpfp, left}
            low == IF left < 0 THEN left ELSE 0
            u == Max({0, Min(S)})
            f == FeeFor(p.size + RevealSize, Rate(call))
<1>1. /\ call.cpfp \in Nat /\ BaseKept \in Nat /\ commit \in Nat /\ ask.outputs \in Nat /\ Reserve \in Nat
      /\ RevealSize \in Nat /\ Quoted(call) /\ Rate(call) \in Nat
  BY CallTypes, AskTypes, Constants DEF TypeOK, Reserve
<1>2. asked \in Nat /\ (p.size > 0 => f <= p.fees + BaseKept + asked)
  <2>1. Quoted(call) /\ BaseKept \in Int /\ RevealSize \in Nat
    BY <1>1
  <2>. QED
    BY <2>1, UpliftPaysThePackage
<1>3. f \in Nat
  <2>1. p.size + RevealSize \in Nat
    BY <1>1
  <2>. QED
    BY <1>1, <2>1, FeeIsNatural
<1>. HIDE DEF asked, f
<1>4. left \in Int /\ wanted \in Nat /\ left = commit - ask.outputs - BaseKept - Reserve
  BY <1>1, <1>2
<1>5. wanted = asked \/ call.cpfp = 0
  OBVIOUS
<1>6. Kept(p) = BaseKept + u
  BY DEF Kept, Reserve, asked
<1>. HIDE DEF wanted, left
<1>7. S \in SUBSET Int /\ S # {} /\ low \in Int /\ \A x \in S : low <= x
  BY <1>1, <1>4
<1>8. left \in S /\ call.cpfp \in S /\ \A x \in S : x = wanted \/ x = call.cpfp \/ x = left
  OBVIOUS
<1>. HIDE DEF S, low
<1>9. u \in Nat /\ (u > 0 => \A x \in S : u <= x) /\ \E x \in S : u >= x
  BY <1>7, Clamped
<1>. HIDE DEF u
<1>10. u <= call.cpfp /\ (u > 0 => u <= left) /\ (u >= wanted \/ u >= call.cpfp \/ u >= left)
  BY <1>1, <1>4, <1>8, <1>9
<1>11. u >= asked => (p.size > 0 => f <= p.fees + Kept(p))
  BY <1>1, <1>2, <1>3, <1>6, <1>9
<1>12. u >= asked \/ u >= call.cpfp \/ u >= left
  BY <1>1, <1>5, <1>9, <1>10
<1>13. Kept(p) \in Int /\ Kept(p) >= BaseKept /\ Kept(p) <= BaseKept + call.cpfp
  BY <1>1, <1>6, <1>9, <1>10
<1>14. Kept(p) > BaseKept => Kept(p) <= commit - ask.outputs - Reserve
  BY <1>1, <1>4, <1>6, <1>9, <1>10
<1>15. /\ u >= call.cpfp => Kept(p) >= BaseKept + call.cpfp
       /\ u >= left => Kept(p) >= commit - ask.outputs - Reserve
  BY <1>1, <1>4, <1>6, <1>9
<1>. QED
  BY <1>11, <1>12, <1>13, <1>14, <1>15 DEF f

\* The legs of one call hold what the other keeps: all it must keep, and what the
\* prefund added besides.
LEMMA LegsCoverTheCall ==
    ASSUME AllInv, step = "revealed", AsksNoMore, ~ask.padded
    PROVE  LET payments == FeeFor(ask.paymentBytes, Rate(ask))
           IN  /\ payments \in Nat
               /\ commit - ask.outputs - Reserve >= ask.surcharge + payments + reveal.revealFee
               /\ reveal.revealFee >= RevealFee(ask)
               /\ BaseKept <= ask.surcharge + payments + RevealFee(ask)
<1>. DEFINE payments == FeeFor(ask.paymentBytes, Rate(ask))
            own == FeeFor(ask.revealBytes, Rate(ask))
            priced == FeeFor(RevealSize, Rate(ask))
            now == FeeFor(RevealSize, Rate(call))
<1>1. /\ ask \in Asks /\ TypeOK /\ pc = "done" /\ OnLegs(ask) /\ Rate(call) \in Nat /\ RevealSize \in Nat /\ now \in Nat
      /\ floored \in Nat /\ BaseKept \in Nat
      /\ floored - ask.surcharge = Dust \/ (call.fee # None /\ floored - ask.surcharge = call.fee)
      /\ BaseKept = ask.surcharge + (IF floored - ask.surcharge >= now THEN floored - ask.surcharge ELSE now)
  BY CallTypes
<1>2. /\ ask.outputs \in Nat /\ ask.surcharge \in Nat /\ ask.revealBytes \in Nat /\ ask.paymentBytes \in Nat /\ Rate(ask) \in Nat
      /\ ask.revealBytes # 0
  BY <1>1, AskTypes DEF OnLegs
<1>3. payments \in Nat /\ own \in Nat /\ priced \in Nat
  BY <1>1, <1>2, FeeIsNatural
<1>4. now <= priced
  BY <1>1, <1>2, FeeIsMonotone DEF AsksNoMore
<1>5. priced <= own + payments
  BY <1>2, FeeIsSubadditive DEF RevealSize
<1>6. RevealPayments(ask) = ask.outputs + payments + ask.surcharge
  BY DEF RevealPayments
<1>7. RevealFee(ask) = Max({own, Dust})
  BY <1>1, <1>2 DEF RevealFee
<1>. HIDE DEF payments, own, priced, now
<1>8. RevealFee(ask) \in Nat /\ RevealFee(ask) >= own /\ RevealFee(ask) >= Dust
  BY <1>3, <1>7, Constants, MaxOfTwo
<1>9. floored - ask.surcharge <= RevealFee(ask)
  <2>1. call.fee # None => call.fee <= RevealFee(ask)
    BY DEF AsksNoMore
  <2>. QED
    BY <1>1, <1>8, <2>1
<1>10. BaseKept <= ask.surcharge + payments + RevealFee(ask)
  BY <1>1, <1>2, <1>3, <1>4, <1>5, <1>8, <1>9
<1>11. CommitValue(ask) = LegsValue(ask)
  BY <1>1 DEF CommitValue
<1>12. LegsValue(ask) >= RevealFee(ask) + RevealPayments(ask) + Reserve
  BY <1>1, LegsHoldTheReveal DEF Reserve
<1>13. commit - CommitValue(ask) = reveal.revealFee - RevealFee(ask) /\ commit >= CommitValue(ask)
  BY <1>1, BuiltSettles DEF AllInv
<1>14. commit \in Nat /\ reveal.revealFee \in Nat /\ LegsValue(ask) \in Nat /\ Reserve \in Nat
  BY <1>1, AmountsAreNatural, Constants DEF TypeOK, Reserve
<1>15. reveal.revealFee >= RevealFee(ask)
  BY <1>8, <1>11, <1>13, <1>14
<1>16. commit - ask.outputs - Reserve >= ask.surcharge + payments + reveal.revealFee
  BY <1>2, <1>3, <1>6, <1>8, <1>11, <1>12, <1>13, <1>14
<1>. QED
  BY <1>3, <1>10, <1>15, <1>16 DEF payments

\* What a swept reveal keeps, and sweeps.
LEMMA SweptReveal ==
    ASSUME AllInv, step = "revealed", ~ask.padded
    PROVE  /\ package.size \in Nat /\ package.fees \in Nat /\ pad = 0
           /\ sweep = (IF commit - ask.outputs - Kept(package) >= OutputFloor THEN commit - ask.outputs - Kept(package) ELSE 0)
<1>1. /\ pad = 0 /\ package \in {NoPackage, Commit, WithAncestors}
      /\ sweep = IF commit - ask.outputs - Kept(package) >= OutputFloor THEN commit - ask.outputs - Kept(package) ELSE 0
  BY DEF AllInv, RevealInv
<1>2. size \in Nat /\ ancestors.size \in Nat /\ ancestors.fees \in Nat /\ fee \in Nat /\ change \in Nat
  BY CallTypes DEF TypeOK
<1>3. MinerFee \in Nat
  <2>1. Spare \in Int /\ Spare >= 0 /\ MinerFee = fee + Spare - change /\ change = (IF ask.change /\ Spare >= OutputFloor THEN Spare ELSE 0)
    BY CallTypes, BuiltSettles DEF AllInv
  <2>. QED
    BY <1>2, <2>1
<1>4. \A p \in {NoPackage, Commit, WithAncestors} : p.size \in Nat /\ p.fees \in Nat
  BY <1>2, <1>3 DEF NoPackage, Commit, WithAncestors
<1>. QED
  BY <1>1, <1>4

\* Every chunk of a padded reveal is its only one: its leg holds its share and the pad.
LEMMA PaddedReveal ==
    ASSUME AllInv, step = "revealed", ask.padded
    PROVE  /\ pad = Dust /\ sweep = 0 /\ ask.outputs = 0 /\ ask.surcharge = 0
           /\ ask.legs[1] \in Nat
           /\ commit = LegShare(ask, 1) + Dust
           /\ LegShare(ask, 1) \in Nat /\ LegShare(ask, 1) >= Dust /\ LegShare(ask, 1) >= FeeFor(ask.legs[1], Rate(ask))
<1>1. pad = Dust /\ sweep = 0 /\ pc = "done"
  BY DEF AllInv, RevealInv
<1>2. ask \in Asks /\ OnLegs(ask)
  BY CallTypes
<1>3. ask.outputs = 0 /\ ask.surcharge = 0 /\ ask.paymentBytes = 0 /\ Len(ask.legs) = 1 /\ Rate(ask) \in Nat /\ ask.legs \in Seq(Nat)
  BY <1>2, AskTypes
<1>4. ask.revealBytes = 0
  BY <1>2, AskTypes DEF OnLegs
<1>5. 1 \in 1 .. Len(ask.legs) /\ ask.legs[1] \in Nat
  BY <1>3
<1>6. /\ LegShare(ask, 1) \in Nat /\ LegShare(ask, 1) >= OutputFloor
      /\ LegShare(ask, 1) >= FeeFor(ask.legs[1], Rate(ask))
  BY <1>2, <1>5, LegShareIsNatural
<1>7. BaseLegs(ask) = LegShare(ask, 1)
  BY <1>2, <1>3, LegsAddUp
<1>8. RevealPayments(ask) = 0
  BY <1>3, FeeForNothing DEF RevealPayments
<1>9. commit = LegsValue(ask)
  BY <1>1, <1>2, <1>4, BuiltSettles DEF AllInv, CommitValue
<1>10. commit = LegShare(ask, 1) + Dust
  BY <1>6, <1>7, <1>8, <1>9, Constants DEF LegsValue
<1>11. LegShare(ask, 1) >= Dust
  BY <1>6, Constants
<1>. QED
  BY <1>1, <1>3, <1>5, <1>6, <1>10, <1>11

LEMMA ValueIsLeft == AllInv => RevealLeavesValue
<1>. SUFFICES ASSUME AllInv, step = "revealed", AsksNoMore
              PROVE  ask.outputs + pad + sweep > 0
  BY DEF RevealLeavesValue, Revealed
<1>1. ask.outputs \in Nat /\ Dust \in Nat \ {0} /\ OutputFloor \in Nat /\ OutputFloor >= Dust /\ ask.surcharge \in Nat
  BY CallTypes, AskTypes, Constants
<1>2. CASE ask.padded
  BY <1>1, <1>2, PaddedReveal
<1>3. CASE ~ask.padded /\ ask.outputs > 0
  <2>1. pad = 0 /\ sweep \in Nat
    <3>1. Kept(package) \in Int /\ commit \in Nat
      BY <1>3, SweptReveal, KeptIsBounded, CallTypes DEF TypeOK
    <3>. QED
      BY <1>1, <1>3, <3>1, SweptReveal
  <2>. QED
    BY <1>1, <1>3, <2>1
<1>4. CASE ~ask.padded /\ ask.outputs = 0
  <2>. DEFINE payments == FeeFor(ask.paymentBytes, Rate(ask))
              k == Kept(package)
  <2>1. /\ payments \in Nat
        /\ commit - ask.outputs - Reserve >= ask.surcharge + payments + reveal.revealFee
        /\ reveal.revealFee >= RevealFee(ask)
        /\ BaseKept <= ask.surcharge + payments + RevealFee(ask)
    BY <1>4, LegsCoverTheCall
  <2>2. k \in Int /\ k >= BaseKept /\ (k > BaseKept => k <= commit - ask.outputs - Reserve)
    BY <1>4, SweptReveal, KeptIsBounded
  <2>3. BaseKept \in Nat /\ commit \in Nat /\ reveal.revealFee \in Nat /\ RevealFee(ask) \in Nat /\ Reserve = OutputFloor
    BY <1>4, CallTypes, AmountsAreNatural DEF TypeOK, Reserve
  <2>4. sweep = (IF commit - ask.outputs - k >= OutputFloor THEN commit - ask.outputs - k ELSE 0) /\ pad = 0
    BY <1>4, SweptReveal
  <2>. HIDE DEF payments, k
  <2>5. k <= commit - ask.outputs - OutputFloor
    BY <1>1, <2>1, <2>2, <2>3
  <2>. QED
    BY <1>1, <1>4, <2>2, <2>3, <2>4, <2>5
<1>. QED
  BY <1>1, <1>2, <1>3, <1>4

LEMMA RateIsPaid == AllInv => RevealPaysItsRate
<1>. DEFINE own == Max({Dust, FeeFor(IF ask.padded THEN ask.legs[1] ELSE RevealSize, Rate(call))}) + ask.surcharge
<1>. SUFFICES ASSUME AllInv, step = "revealed", AsksNoMore
              PROVE  /\ RevealMinerFee >= own
                     /\ ~ask.padded => RevealMinerFee < Max({own, floored}) + call.cpfp + OutputFloor
  BY DEF RevealPaysItsRate, Revealed
<1>1. /\ ask.outputs \in Nat /\ Dust \in Nat \ {0} /\ OutputFloor \in Nat \ {0} /\ ask.surcharge \in Nat /\ commit \in Nat
      /\ Rate(call) \in Nat /\ Rate(ask) \in Nat /\ Rate(call) <= Rate(ask) /\ call.cpfp \in Nat
  BY CallTypes, AskTypes, Constants DEF TypeOK, AsksNoMore
<1>2. CASE ask.padded
  <2>. DEFINE asked == FeeFor(ask.legs[1], Rate(call))
              priced == FeeFor(ask.legs[1], Rate(ask))
  <2>1. /\ pad = Dust /\ sweep = 0 /\ ask.outputs = 0 /\ ask.surcharge = 0 /\ ask.legs[1] \in Nat
        /\ commit = LegShare(ask, 1) + Dust
        /\ LegShare(ask, 1) \in Nat /\ LegShare(ask, 1) >= Dust /\ LegShare(ask, 1) >= priced
    BY <1>2, PaddedReveal
  <2>2. asked \in Nat /\ priced \in Nat /\ asked <= priced
    <3>. DEFINE leg == ask.legs[1]
    <3>1. leg \in Nat /\ leg <= leg
      BY <2>1
    <3>. HIDE DEF leg
    <3>2. /\ FeeFor(leg, Rate(call)) \in Nat /\ FeeFor(leg, Rate(ask)) \in Nat
          /\ FeeFor(leg, Rate(call)) <= FeeFor(leg, Rate(ask))
      BY <1>1, <3>1, FeeIsNatural, FeeIsMonotone
    <3>. QED
      BY <3>2 DEF leg
  <2>3. own = Max({Dust, asked})
    <3>1. Max({Dust, asked}) \in Nat
      BY <1>1, <2>2, MaxOfTwo
    <3>. QED
      BY <1>2, <2>1, <3>1
  <2>. HIDE DEF asked, priced, own
  <2>4. own <= LegShare(ask, 1)
    BY <1>1, <2>1, <2>2, <2>3, MaxOfTwo
  <2>5. RevealMinerFee = LegShare(ask, 1)
    BY <1>1, <2>1 DEF RevealMinerFee
  <2>6. own \in Nat
    BY <1>1, <2>2, <2>3, MaxOfTwo
  <2>. QED
    BY <1>2, <2>1, <2>4, <2>5, <2>6
<1>3. CASE ~ask.padded
  <2>. DEFINE payments == FeeFor(ask.paymentBytes, Rate(ask))
              now == FeeFor(RevealSize, Rate(call))
              k == Kept(package)
  <2>1. /\ payments \in Nat
        /\ commit - ask.outputs - Reserve >= ask.surcharge + payments + reveal.revealFee
        /\ reveal.revealFee >= RevealFee(ask)
        /\ BaseKept <= ask.surcharge + payments + RevealFee(ask)
    BY <1>3, LegsCoverTheCall
  <2>2. /\ k \in Int /\ k >= BaseKept /\ k <= BaseKept + call.cpfp
        /\ k > BaseKept => k <= commit - ask.outputs - Reserve
    BY <1>3, SweptReveal, KeptIsBounded
  <2>3. BaseKept \in Nat /\ reveal.revealFee \in Nat /\ RevealFee(ask) \in Nat /\ Reserve \in Nat
    BY <1>1, CallTypes, AmountsAreNatural DEF TypeOK, Reserve
  <2>4. sweep = (IF commit - ask.outputs - k >= OutputFloor THEN commit - ask.outputs - k ELSE 0) /\ pad = 0
    BY <1>3, SweptReveal
  <2>5. /\ now \in Nat /\ floored \in Nat /\ floored - ask.surcharge >= Dust
        /\ BaseKept = ask.surcharge + (IF floored - ask.surcharge >= now THEN floored - ask.surcharge ELSE now)
    BY CallTypes
  <2>6. own = (IF Dust >= now THEN Dust ELSE now) + ask.surcharge
    BY <1>1, <1>3, <2>5, MaxOfTwo
  <2>. HIDE DEF payments, now, k, own
  <2>7. k <= commit - ask.outputs
    BY <1>1, <2>1, <2>2, <2>3
  <2>8. RevealMinerFee = commit - ask.outputs - sweep
    <3>1. sweep \in Int
      BY <1>1, <2>2, <2>4
    <3>. QED
      BY <1>1, <2>4, <3>1 DEF RevealMinerFee
  <2>9. RevealMinerFee >= k /\ RevealMinerFee < k + OutputFloor /\ RevealMinerFee \in Int
    BY <1>1, <2>2, <2>4, <2>7, <2>8
  <2>10. own \in Nat /\ own <= BaseKept
    BY <1>1, <2>5, <2>6
  <2>11. Max({own, floored}) = IF own >= floored THEN own ELSE floored
    BY <2>5, <2>10, MaxOfTwo
  <2>12. BaseKept <= Max({own, floored}) /\ Max({own, floored}) \in Nat
    BY <1>1, <2>5, <2>6, <2>10, <2>11
  <2>. QED
    BY <1>1, <2>2, <2>3, <2>9, <2>10, <2>12
<1>. QED
  BY <1>2, <1>3

LEMMA RevealPackageIsAtTarget == AllInv => RevealPackageAtTarget
<1>. SUFFICES ASSUME AllInv, step = "revealed", package = WithAncestors, Rate(call) = Rate(ask), AsksNoMore
              PROVE  \/ package.fees + RevealMinerFee >= FeeFor(package.size + RevealSize, Rate(ask))
                     \/ change = 0
                     \/ reveal.revealFee = RevealFee(ask) + ask.cpfp
                     \/ RevealMinerFee >= BaseKept + call.cpfp
  BY DEF RevealPackageAtTarget, Revealed
<1>1. ask \in Asks /\ TypeOK /\ pc = "done" /\ OnLegs(ask) /\ FeeInv
  BY CallTypes DEF AllInv
<1>2. size > 0
  BY <1>1, BuiltSettles
<1>3. /\ size \in Nat /\ ancestors.size \in Nat /\ ancestors.fees \in Nat /\ fee \in Nat /\ commit \in Nat
      /\ ask.outputs \in Nat /\ ask.surcharge \in Nat /\ ask.revealBytes \in Nat /\ ask.paymentBytes \in Nat
      /\ Rate(ask) \in Nat /\ OutputFloor \in Nat /\ reveal.revealFee \in Nat /\ RevealFee(ask) \in Nat
      /\ BaseKept \in Nat /\ RevealSize \in Nat /\ CommitValue(ask) \in Nat /\ call.cpfp \in Nat /\ Reserve \in Nat
  BY <1>1, CallTypes, AskTypes, AmountsAreNatural, Constants DEF TypeOK, Reserve
<1>4. package.size = size + ancestors.size /\ package.fees = MinerFee + ancestors.fees /\ package.size > 0
  BY <1>2, <1>3 DEF WithAncestors
<1>5. ~ask.padded
  BY <1>4 DEF AllInv, RevealInv, NoPackage
<1>6. ask.revealBytes > 0
  BY <1>1, <1>3, <1>5, AskTypes DEF OnLegs
<1>7. /\ package.size \in Nat /\ package.fees \in Nat /\ pad = 0
      /\ sweep = (IF commit - ask.outputs - Kept(package) >= OutputFloor THEN commit - ask.outputs - Kept(package) ELSE 0)
  BY <1>5, SweptReveal
<1>. DEFINE k == Kept(package)
            payments == FeeFor(ask.paymentBytes, Rate(ask))
            target == FeeFor(size + ancestors.size + ask.revealBytes, Rate(ask))
            whole == FeeFor(package.size + RevealSize, Rate(ask))
<1>8. /\ k \in Int /\ k >= BaseKept
      /\ k > BaseKept => k <= commit - ask.outputs - Reserve
      /\ \/ whole <= package.fees + k
         \/ k >= BaseKept + call.cpfp
         \/ k >= commit - ask.outputs - Reserve
  <2>1. /\ Kept(package) \in Int /\ Kept(package) >= BaseKept
        /\ Kept(package) > BaseKept => Kept(package) <= commit - ask.outputs - Reserve
        /\ \/ package.size > 0 => FeeFor(package.size + RevealSize, Rate(call)) <= package.fees + Kept(package)
           \/ Kept(package) >= BaseKept + call.cpfp
           \/ Kept(package) >= commit - ask.outputs - Reserve
    BY <1>7, KeptIsBounded
  <2>. QED
    BY <1>4, <2>1
<1>9. /\ payments \in Nat
      /\ commit - ask.outputs - Reserve >= ask.surcharge + payments + reveal.revealFee
      /\ reveal.revealFee >= RevealFee(ask)
      /\ BaseKept <= ask.surcharge + payments + RevealFee(ask)
  BY <1>5, LegsCoverTheCall
<1>10. size + ancestors.size + ask.revealBytes \in Nat /\ target \in Nat /\ whole \in Nat
  <2>1. size + ancestors.size + ask.revealBytes \in Nat /\ package.size + RevealSize \in Nat
    BY <1>3, <1>7
  <2>. QED
    BY <1>3, <2>1, FeeIsNatural
<1>11. whole <= target + payments
  <2>1. package.size + RevealSize = (size + ancestors.size + ask.revealBytes) + ask.paymentBytes
    BY <1>3, <1>4 DEF RevealSize
  <2>. QED
    BY <1>3, <1>10, <2>1, FeeIsSubadditive
<1>12. RevealMinerFee \in Int /\ RevealMinerFee >= k
  <2>. HIDE DEF payments
  <2>1. sweep \in Int
    BY <1>3, <1>7, <1>8
  <2>2. RevealMinerFee = commit - ask.outputs - sweep
    BY <1>3, <1>7, <2>1 DEF RevealMinerFee
  <2>3. k <= commit - ask.outputs
    BY <1>3, <1>8, <1>9
  <2>. QED
    BY <1>3, <1>7, <1>8, <2>2, <2>3
<1>13. \/ fee + ancestors.fees + reveal.revealFee >= target
       \/ change = 0
       \/ reveal.revealFee = RevealFee(ask) + ask.cpfp
  <2>1. RevealPaid
    BY <1>1, <1>6 DEF FeeInv, ChangeKept, Prefunded, Funded, Emitted
  <2>2. Spare <= 0 => change = 0
    BY <1>1, <1>3, BuiltSettles, Constants
  <2>3. commit = CommitValue(ask) + ask.cpfp => reveal.revealFee = RevealFee(ask) + ask.cpfp
    <3>1. commit - CommitValue(ask) = reveal.revealFee - RevealFee(ask) /\ ask.cpfp \in Nat
      BY <1>1, BuiltSettles, AskTypes
    <3>. QED
      BY <1>3, <3>1
  <2>. QED
    BY <2>1, <2>2, <2>3 DEF RevealPaid
<1>14. package.fees >= fee + ancestors.fees
  <2>1. change \in Nat /\ Spare \in Int /\ MinerFee = fee + Spare - change /\ change <= Spare
    <3>1. /\ Spare \in Int /\ Spare >= 0 /\ MinerFee = fee + Spare - change
          /\ change = (IF ask.change /\ Spare >= OutputFloor THEN Spare ELSE 0)
      BY <1>1, BuiltSettles
    <3>. QED
      BY <3>1
  <2>. QED
    BY <1>3, <1>4, <2>1
<1>. HIDE DEF k, payments, target
<1>15. CASE k >= BaseKept + call.cpfp
  BY <1>3, <1>8, <1>12, <1>15
<1>16. CASE whole <= package.fees + k
  BY <1>7, <1>8, <1>10, <1>12, <1>16
<1>17. CASE k >= commit - ask.outputs - Reserve /\ fee + ancestors.fees + reveal.revealFee >= target
  <2>. HIDE DEF whole
  <2>1. k >= ask.surcharge + payments + reveal.revealFee
    BY <1>3, <1>8, <1>9, <1>17
  <2>2. whole <= package.fees + k
    BY <1>3, <1>7, <1>8, <1>9, <1>10, <1>11, <1>14, <1>17, <2>1
  <2>3. package.fees + RevealMinerFee >= whole
    BY <1>7, <1>8, <1>10, <1>12, <2>2
  <2>. QED
    BY <2>3 DEF whole
<1>. QED
  BY <1>8, <1>13, <1>15, <1>16, <1>17

-----------------------------------------------------------------------------
(* The theorems.                                                           *)

\* The amounts, the stages and the second call are consistent in every reachable
\* state (buildSteps in XChainEncoder.js, run once for the commit and once more
\* with p2shHash set).
THEOREM SettlementInvariant == RevealSpec => []AllInv
<1>1. RevealInit => AllInv
  BY RevealInits
<1>2. AllInv /\ [RevealNext]_<<vars, revealVars>> => AllInv'
  BY RevealSteps
<1>. QED
  BY <1>1, <1>2, PTL DEF RevealSpec

\* Every base unit that goes in comes out where the build said: the miner gets the
\* settled fee and at most an unauthorable change, and the prefund moves the
\* reveal's numbers with the output's (applyRevealPrefund, emitChangeAndPad).
THEOREM EveryUnitIsAccountedFor == RevealSpec => []NothingBurned
<1>1. AllInv => NothingBurned
  BY NothingIsBurned DEF AllInv
<1>. QED
  BY <1>1, SettlementInvariant, PTL

\* What is signed clears the relay floor and stands under every ceiling, though
\* two later steps raise the fee that was checked (refuseInsufficientRelayFee,
\* refuseExcessiveFee, upliftAncestorFee, floorEstimatedFee).
THEOREM SignedFeeIsWithinBounds == RevealSpec => []FeeWithinBounds
<1>1. AllInv => FeeWithinBounds
  BY FeeIsWithinBounds DEF AllInv
<1>. QED
  BY <1>1, SettlementInvariant, PTL

\* INSUFFICIENT_FUNDS is the truth (computeChange, selectInputs).
THEOREM RefusedOnlyWhenUnfunded == RevealSpec => []RefusedOnlyUnfunded
<1>1. AllInv => RefusedOnlyUnfunded
  BY RefusalIsTrue DEF AllInv
<1>. QED
  BY <1>1, SettlementInvariant, PTL

\* Ancestors, commit and reveal reach the rate together unless a named bound is met
\* (upliftForAncestors, prefundRevealPackage, upliftRevealForCommit).
THEOREM PackagesReachTheirRate == RevealSpec => []PackagesAtTarget
<1>1. AllInv => PackagesAtTarget
  BY PackageIsAtTarget, RevealPackageIsAtTarget DEF AllInv, PackagesAtTarget
<1>. QED
  BY <1>1, SettlementInvariant, PTL

\* The legs one call funded pay what the other settles, and no more than its share
\* goes to the miner (topUpFirstLeg, sweepP2shReveal, fundRevealFloorPad).
THEOREM LegsPayForTheReveal == RevealSpec => []LegsPayTheReveal
<1>1. AllInv => LegsPayTheReveal
  BY ValueIsLeft, RateIsPaid DEF LegsPayTheReveal
<1>. QED
  BY <1>1, SettlementInvariant, PTL
=============================================================================
