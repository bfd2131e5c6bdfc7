-------------------------- MODULE NodeCallsProofs ---------------------------
(***************************************************************************)
(* Proofs about ConcurrencyGate, for any requests, caps and batch limit,   *)
(* and about NodeCalls, which puts the node behind that gate: it           *)
(* implements ConcurrencyGate, so the gate's theorems hold of it; a wrong  *)
(* tier stays shut; and a repeated broadcast or a lookup tells the truth.  *)
(***************************************************************************)
EXTENDS NodeCalls, FiniteSetTheorems, TLAPS

-----------------------------------------------------------------------------
(* The gate.  SlotsAccounted is not inductive: that a wrapper gives back    *)
(* the slot it claimed takes that it claimed only a slot its own gate left, *)
(* and that nothing runs in a gate with a cap but behind such a claim.      *)
(* SlotOK says so of one request; the counters then follow from the         *)
(* holders, and the cap on the work from the cap on the counters.           *)

Capped(r) == Limit[GateOf(target[r])] > 0

SlotOK(r) ==
    /\ target[r] = "none" => slot[r] = "none" /\ ~claimed[r] /\ calls[r] = 0 /\ connection[r] = "none"
    /\ strays[r] = 0
    /\ slot[r] = "held" => Capped(r)
    /\ calls[r] > 0 => Wrapper(target[r]) = GateOf(target[r])
    /\ calls[r] > 0 /\ Capped(r) => claimed[r] /\ slot[r] = "held"
    /\ slot[r] = "held" => IF claimed[r] THEN calls[r] > 0 ELSE ~Over(r)

WithinLimit == \A g \in Gates : Limit[g] > 0 => inFlight[g] <= Limit[g]

GateInv ==
    /\ TypeOK
    /\ \A r \in Requests : SlotOK(r)
    /\ InFlightExact
    /\ WithinLimit

-----------------------------------------------------------------------------
(* The gate of a request, and its holders.                                  *)

LEMMA GateOfGate == ASSUME NEW t PROVE GateOf(t) \in Gates
  BY DEF GateOf, Gates

LEMMA HoldersFinite ==
  ASSUME NEW g
  PROVE  IsFiniteSet(Holders(g))
<1>1. Holders(g) \subseteq Requests
  BY DEF Holders
<1>. QED
  BY <1>1, GateAssumption, FS_Subset

\* A slot is given out: the counter and the holders grow together.
LEMMA SlotGiven ==
  ASSUME GateInv, NEW r \in Requests, NEW t \in Targets, NEW s \in {"none", "held", "released"},
         Arrives(r, t), slot' = [slot EXCEPT ![r] = s],
         inFlight' = [inFlight EXCEPT ![GateOf(t)] = @ + (IF s = "held" THEN 1 ELSE 0)]
  PROVE  InFlightExact'
<1>1. slot[r] = "none" /\ target[r] = "none"
  BY DEF GateInv, SlotOK, Arrives
<1>2. \A q \in Requests : q # r => slot'[q] = slot[q] /\ target'[q] = target[q]
  BY DEF GateInv, TypeOK, Arrives
<1>3. slot'[r] = s /\ target'[r] = t /\ t # "none"
  BY DEF GateInv, TypeOK, Arrives, Targets
<1>. SUFFICES ASSUME NEW g \in Gates
              PROVE  inFlight'[g] = Cardinality(Holders(g)')
  BY DEF InFlightExact
<1>4. inFlight[g] = Cardinality(Holders(g)) /\ inFlight[g] \in Nat
  BY DEF GateInv, InFlightExact, TypeOK
<1>5. CASE s = "held" /\ GateOf(t) = g
  <2>1. Holders(g)' = Holders(g) \cup {r}
    BY <1>2, <1>3, <1>5 DEF Holders
  <2>2. r \notin Holders(g)
    BY <1>1 DEF Holders
  <2>3. inFlight'[g] = inFlight[g] + 1
    BY <1>4, <1>5 DEF GateInv, TypeOK
  <2>. DEFINE H == Holders(g)
  <2>4. IsFiniteSet(H) /\ r \notin H
    BY <2>2, HoldersFinite
  <2>. HIDE DEF H
  <2>5. Cardinality(H \cup {r}) = Cardinality(H) + 1
    BY ONLY <2>4, FS_AddElement
  <2>. QED
    BY ONLY <1>4, <2>1, <2>3, <2>5 DEF H
<1>6. CASE ~(s = "held" /\ GateOf(t) = g)
  <2>1. Holders(g)' = Holders(g)
    BY <1>1, <1>2, <1>3, <1>6 DEF Holders
  <2>2. inFlight'[g] = inFlight[g]
    BY <1>4, <1>6, GateOfGate DEF GateInv, TypeOK
  <2>. QED
    BY <1>4, <2>1, <2>2
<1>. QED
  BY <1>5, <1>6

\* ... and shrink together, however often a slot is given back.
LEMMA SlotReleased ==
  ASSUME GateInv, NEW r \in Requests, target[r] # "none", Release(r), UNCHANGED target
  PROVE  InFlightExact'
<1>1. \A q \in Requests : q # r => slot'[q] = slot[q]
  BY DEF GateInv, TypeOK, Release
<1>2. slot'[r] = (IF slot[r] = "held" THEN "released" ELSE slot[r])
  BY DEF GateInv, TypeOK, Release
<1>. SUFFICES ASSUME NEW g \in Gates
              PROVE  inFlight'[g] = Cardinality(Holders(g)')
  BY DEF InFlightExact
<1>3. inFlight[g] = Cardinality(Holders(g)) /\ inFlight[g] \in Nat
  BY DEF GateInv, InFlightExact, TypeOK
<1>4. CASE slot[r] = "held" /\ GateOf(target[r]) = g
  <2>1. Holders(g)' = Holders(g) \ {r}
    BY <1>1, <1>2, <1>4 DEF Holders
  <2>2. r \in Holders(g)
    BY <1>4 DEF Holders
  <2>3. inFlight'[g] = inFlight[g] - 1
    BY <1>3, <1>4 DEF GateInv, TypeOK, Release
  <2>. DEFINE H == Holders(g)
  <2>4. IsFiniteSet(H) /\ r \in H
    BY <2>2, HoldersFinite
  <2>. HIDE DEF H
  <2>5. Cardinality(H \ {r}) = Cardinality(H) - 1
    BY ONLY <2>4, FS_RemoveElement
  <2>. QED
    BY ONLY <1>3, <2>1, <2>3, <2>5 DEF H
<1>5. CASE ~(slot[r] = "held" /\ GateOf(target[r]) = g)
  <2>1. Holders(g)' = Holders(g)
    BY <1>1, <1>2, <1>5 DEF Holders
  <2>2. inFlight'[g] = inFlight[g]
    BY <1>3, <1>5, GateOfGate DEF GateInv, TypeOK, Release
  <2>. QED
    BY <1>3, <2>1, <2>2
<1>. QED
  BY <1>4, <1>5

\* A step that moves no slot moves no holder, whoever arrives.
LEMMA SlotsStay ==
  ASSUME GateInv, UNCHANGED <<slot, inFlight>>,
         \/ UNCHANGED target
         \/ \E r \in Requests, t \in Targets : Arrives(r, t)
  PROVE  InFlightExact'
<1>1. \A q \in Requests : slot[q] = "held" => target'[q] = target[q]
  <2>1. CASE UNCHANGED target
    BY <2>1
  <2>2. CASE \E r \in Requests, t \in Targets : Arrives(r, t)
    <3>. PICK r \in Requests, t \in Targets : Arrives(r, t)
      BY <2>2
    <3>1. slot[r] = "none"
      BY DEF GateInv, SlotOK, Arrives
    <3>. QED
      BY <3>1 DEF Arrives, GateInv, TypeOK
  <2>. QED
    BY <2>1, <2>2
<1>. SUFFICES ASSUME NEW g \in Gates
              PROVE  inFlight'[g] = Cardinality(Holders(g)')
  BY DEF InFlightExact
<1>2. Holders(g)' = Holders(g)
  BY <1>1 DEF Holders
<1>. QED
  BY <1>2 DEF GateInv, InFlightExact

-----------------------------------------------------------------------------
(* Admission: a request with n calls gets slot state s, claimed or not.     *)

Admits(r, t, s, c, n) ==
    /\ Arrives(r, t) /\ ~Full(GateOf(t)) /\ UNCHANGED shed
    /\ slot' = [slot EXCEPT ![r] = s]
    /\ inFlight' = [inFlight EXCEPT ![GateOf(t)] = @ + (IF s = "held" THEN 1 ELSE 0)]
    /\ claimed' = [claimed EXCEPT ![r] = c]
    /\ calls' = [calls EXCEPT ![r] = n]
    /\ strays' = [strays EXCEPT ![r] = 0]
    /\ response' = [response EXCEPT ![r] = IF n = 0 THEN "sent" ELSE "none"]

\* What the admission has to respect: the slot is the gate's, claimed only if
\* the wrapper is its own, and kept only for work or for an open connection.
Respects(t, s, c, n) ==
    /\ s = "held" => Limit[GateOf(t)] > 0
    /\ n > 0 => Wrapper(t) = GateOf(t)
    /\ n > 0 /\ Limit[GateOf(t)] > 0 => c /\ s = "held"
    /\ s = "held" /\ c => n > 0

LEMMA AdmissionKeeps ==
  ASSUME GateInv, NEW r \in Requests, NEW t \in Targets, NEW s \in {"none", "held", "released"},
         NEW c \in BOOLEAN, NEW n \in 0 .. MaxBatch, Admits(r, t, s, c, n), Respects(t, s, c, n)
  PROVE  GateInv'
<1>. USE DEF Admits
<1>1. TypeOK'
  <2>1. inFlight' \in [Gates -> Nat]
    BY GateOfGate DEF GateInv, TypeOK
  <2>2. target' \in [Requests -> Targets \cup {"none"}] /\ connection' \in [Requests -> {"none", "open", "closed"}]
    BY DEF GateInv, TypeOK, Arrives
  <2>3. 0 \in 0 .. MaxBatch
    BY GateAssumption
  <2>. QED
    BY <2>1, <2>2, <2>3 DEF GateInv, TypeOK
<1>2. \A q \in Requests : SlotOK(q)'
  <2>. SUFFICES ASSUME NEW q \in Requests PROVE SlotOK(q)'
    OBVIOUS
  <2>1. CASE q = r
    <3>1. target'[q] = t /\ slot'[q] = s /\ claimed'[q] = c /\ calls'[q] = n /\ strays'[q] = 0
      BY <2>1 DEF GateInv, TypeOK, Arrives
    <3>2. connection'[q] = "open" /\ response'[q] # "finished"
      BY <2>1 DEF GateInv, TypeOK, Arrives
    <3>3. t # "none"
      BY DEF Targets
    <3>. QED
      BY <3>1, <3>2, <3>3 DEF SlotOK, Respects, Capped, Over
  <2>2. CASE q # r
    <3>1. /\ target'[q] = target[q] /\ slot'[q] = slot[q] /\ claimed'[q] = claimed[q] /\ calls'[q] = calls[q]
          /\ strays'[q] = strays[q] /\ connection'[q] = connection[q] /\ response'[q] = response[q]
      BY <2>2 DEF GateInv, TypeOK, Arrives
    <3>2. SlotOK(q)
      BY DEF GateInv
    <3>. QED
      BY <3>1, <3>2 DEF SlotOK, Capped, Over
  <2>. QED
    BY <2>1, <2>2
<1>3. InFlightExact'
  BY SlotGiven
<1>4. WithinLimit'
  <2>. SUFFICES ASSUME NEW g \in Gates, Limit[g] > 0 PROVE inFlight'[g] <= Limit[g]
    BY DEF WithinLimit
  <2>1. inFlight[g] \in Nat /\ Limit[g] \in Nat /\ inFlight[g] <= Limit[g]
    BY GateAssumption DEF GateInv, TypeOK, WithinLimit
  <2>2. GateOf(t) = g => inFlight[g] < Limit[g]
    BY <2>1 DEF Full
  <2>. QED
    BY <2>1, <2>2, GateOfGate DEF GateInv, TypeOK
<1>. QED
  BY <1>1, <1>2, <1>3, <1>4 DEF GateInv

LEMMA HoldHandle ==
  ASSUME GateInv, NEW r \in Requests, NEW t \in Targets, NEW n \in 0 .. MaxBatch,
         Arrives(r, t), ~Full(GateOf(t)), UNCHANGED shed, Hold(r, t, n), Handle(r, t, n, 0),
         n > 0 => Wrapper(t) = GateOf(t)
  PROVE  GateInv'
<1>. DEFINE g    == GateOf(t)
            held == Limit[g] > 0
            owns == held /\ Wrapper(t) = g
            s    == IF ~held THEN "none" ELSE IF owns /\ n = 0 THEN "released" ELSE "held"
<1>1. (CASE ~held -> "none" [] owns /\ n = 0 -> "released" [] OTHER -> "held") = s
  OBVIOUS
<1>2. (held /\ ~(owns /\ n = 0)) <=> s = "held"
  OBVIOUS
<1>3. slot' = [slot EXCEPT ![r] = s]
  BY <1>1 DEF Hold
<1>4. inFlight' = [inFlight EXCEPT ![g] = @ + (IF s = "held" THEN 1 ELSE 0)]
  BY <1>2 DEF Hold
<1>5. claimed' = [claimed EXCEPT ![r] = owns]
  BY DEF Hold
<1>6. Admits(r, t, s, owns, n)
  BY <1>3, <1>4, <1>5 DEF Admits, Handle
<1>7. Respects(t, s, owns, n)
  BY DEF Respects
<1>8. s \in {"none", "held", "released"} /\ owns \in BOOLEAN
  OBVIOUS
<1>. HIDE DEF s, owns, held, g
<1>. QED
  BY <1>6, <1>7, <1>8, AdmissionKeeps

LEMMA AdmitSingleKeeps ==
  ASSUME GateInv, NEW r \in Requests, NEW t \in Targets, AdmitSingle(r, t)
  PROVE  GateInv'
<1>. DEFINE n == IF t \in {"GET /openrpc.json", "GET /metrics", "no method"} THEN 0 ELSE 1
<1>1. Arrives(r, t) /\ t \notin {"call", "batch"} /\ ~Full(GateOf(t)) /\ UNCHANGED shed
  BY DEF AdmitSingle
<1>2. Hold(r, t, n) /\ Handle(r, t, n, 0)
  BY DEF AdmitSingle
<1>3. n \in 0 .. MaxBatch
  <2>1. MaxBatch \in Nat /\ MaxBatch >= 1
    BY GateAssumption
  <2>2. n = 0 \/ n = 1
    OBVIOUS
  <2>. HIDE DEF n
  <2>. QED
    BY <2>1, <2>2
<1>4. n > 0 => Wrapper(t) = GateOf(t)
  <2>1. CASE t \in {"GET /openrpc.json", "GET /metrics", "no method"}
    <3>1. n = 0
      BY <2>1
    <3>. HIDE DEF n
    <3>. QED
      BY <3>1
  <2>2. CASE t \in {"GET /status", "HEAD /status"}
    BY <2>2 DEF Wrapper, GateOf, IsProbe
  <2>. QED
    BY <1>1, <2>1, <2>2 DEF Targets
<1>. HIDE DEF n
<1>. QED
  BY <1>1, <1>2, <1>3, <1>4, HoldHandle

LEMMA AdmitCallKeeps ==
  ASSUME GateInv, NEW r \in Requests, NEW n \in {0, 1}, AdmitCall(r, n)
  PROVE  GateInv'
<1>1. Wrapper("call") = GateOf("call") /\ "call" \in Targets
  BY DEF Targets, Wrapper, GateOf, IsProbe
<1>2. n \in 0 .. MaxBatch
  BY GateAssumption
<1>. QED
  BY <1>1, <1>2, HoldHandle DEF AdmitCall

LEMMA AdmitBatchKeeps ==
  ASSUME GateInv, NEW r \in Requests, NEW n \in 0 .. (MaxBatch + 1), NEW k \in 0 .. n, AdmitBatch(r, n, k)
  PROVE  GateInv'
<1>1. Wrapper("batch") = GateOf("batch") /\ "batch" \in Targets
  BY DEF Targets, Wrapper, GateOf, IsProbe
<1>2. k = 0 /\ n - k \in 0 .. MaxBatch
  BY GateAssumption DEF AdmitBatch, BatchGuard
<1>3. Hold(r, "batch", n - k) /\ Handle(r, "batch", n - k, 0)
  BY <1>2 DEF AdmitBatch
<1>. QED
  BY <1>1, <1>2, <1>3, HoldHandle DEF AdmitBatch

\* A refused batch has a slot nobody claims: the connection's end frees it.
LEMMA RefuseBatchKeeps ==
  ASSUME GateInv, NEW r \in Requests, NEW n, NEW k, RefuseBatch(r, n, k)
  PROVE  GateInv'
<1>. DEFINE s == IF Limit[GateOf("batch")] > 0 THEN "held" ELSE "none"
<1>1. "batch" \in Targets /\ 0 \in 0 .. MaxBatch
  BY GateAssumption DEF Targets
<1>2. slot' = [slot EXCEPT ![r] = s]
  BY DEF RefuseBatch, AttachSlot
<1>3. inFlight' = [inFlight EXCEPT ![GateOf("batch")] = @ + (IF s = "held" THEN 1 ELSE 0)]
  BY DEF RefuseBatch, AttachSlot
<1>4. claimed[r] \in BOOLEAN /\ claimed' = [claimed EXCEPT ![r] = claimed[r]]
  BY DEF RefuseBatch, AttachSlot, GateInv, TypeOK
<1>5. ~claimed[r]
  BY DEF RefuseBatch, Arrives, GateInv, SlotOK
<1>6. Admits(r, "batch", s, claimed[r], 0)
  BY <1>2, <1>3, <1>4 DEF RefuseBatch, Handle, Admits
<1>7. Respects("batch", s, claimed[r], 0)
  BY <1>5 DEF Respects
<1>8. s \in {"none", "held", "released"}
  OBVIOUS
<1>. HIDE DEF s
<1>. QED
  BY <1>1, <1>4, <1>6, <1>7, <1>8, AdmissionKeeps

LEMMA ShedKeeps ==
  ASSUME GateInv, NEW r \in Requests, NEW t \in Targets, Shed(r, t)
  PROVE  GateInv'
<1>1. TypeOK'
  BY GateOfGate DEF GateInv, TypeOK, Shed, Arrives, work
<1>2. \A q \in Requests : SlotOK(q)'
  <2>. SUFFICES ASSUME NEW q \in Requests PROVE SlotOK(q)'
    OBVIOUS
  <2>1. SlotOK(q)
    BY DEF GateInv
  <2>2. slot'[q] = slot[q] /\ claimed'[q] = claimed[q] /\ calls'[q] = calls[q] /\ strays'[q] = strays[q]
    BY DEF Shed, work
  <2>3. CASE q = r
    <3>1. target[q] = "none" /\ target'[q] # "none"
      BY <2>3 DEF Shed, Arrives, GateInv, TypeOK, Targets
    <3>. QED
      BY <2>1, <2>2, <3>1 DEF SlotOK
  <2>4. CASE q # r
    <3>1. target'[q] = target[q] /\ connection'[q] = connection[q] /\ response'[q] = response[q]
      BY <2>4 DEF Shed, Arrives, GateInv, TypeOK
    <3>. QED
      BY <2>1, <2>2, <3>1 DEF SlotOK, Capped, Over
  <2>. QED
    BY <2>3, <2>4
<1>3. InFlightExact'
  BY SlotsStay DEF Shed
<1>4. WithinLimit'
  BY DEF GateInv, WithinLimit, Shed
<1>. QED
  BY <1>1, <1>2, <1>3, <1>4 DEF GateInv

-----------------------------------------------------------------------------
(* The ends: of a call, of a response, of a connection.                     *)

\* A step of an admitted request that at most gives its slot back.
LEMMA EndKeeps ==
  ASSUME GateInv, NEW r \in Requests, target[r] # "none",
         UNCHANGED <<target, shed, claimed, strays>>,
         Release(r) \/ UNCHANGED <<slot, inFlight>>,
         NEW n \in 0 .. MaxBatch, calls' = [calls EXCEPT ![r] = n], n <= calls[r],
         response' \in [Requests -> {"none", "sent", "finished"}],
         connection' \in [Requests -> {"none", "open", "closed"}],
         \A q \in Requests : q # r => response'[q] = response[q] /\ connection'[q] = connection[q],
         n > 0 /\ Capped(r) => slot'[r] = "held",
         slot'[r] = "held" => IF claimed[r] THEN n > 0 ELSE ~Over(r)'
  PROVE  GateInv'
<1>1. InFlightExact'
  BY SlotReleased, SlotsStay
<1>2. slot' \in [Requests -> {"none", "held", "released"}] /\ \A q \in Requests : q # r => slot'[q] = slot[q]
  BY DEF GateInv, TypeOK, Release
<1>3. slot'[r] = "held" => slot[r] = "held"
  BY DEF GateInv, TypeOK, Release
<1>4. \A g \in Gates : inFlight'[g] \in Nat /\ inFlight'[g] <= inFlight[g]
  <2>. SUFFICES ASSUME NEW g \in Gates PROVE inFlight'[g] \in Nat /\ inFlight'[g] <= inFlight[g]
    OBVIOUS
  <2>1. inFlight[g] \in Nat /\ inFlight[g] = Cardinality(Holders(g))
    BY DEF GateInv, TypeOK, InFlightExact
  <2>2. CASE UNCHANGED inFlight
    BY <2>1, <2>2
  <2>3. CASE Release(r)
    <3>1. CASE slot[r] = "held" /\ GateOf(target[r]) = g
      <4>1. r \in Holders(g)
        BY <3>1 DEF Holders
      <4>2. inFlight[g] # 0
        BY <2>1, <4>1, HoldersFinite, FS_EmptySet
      <4>3. inFlight'[g] = inFlight[g] - 1
        BY <2>1, <2>3, <3>1 DEF Release, GateInv, TypeOK
      <4>. QED
        BY <2>1, <4>2, <4>3
    <3>2. CASE ~(slot[r] = "held" /\ GateOf(target[r]) = g)
      <4>1. inFlight'[g] = inFlight[g]
        BY <2>1, <2>3, <3>2, GateOfGate DEF Release, GateInv, TypeOK
      <4>. QED
        BY <2>1, <4>1
    <3>. QED
      BY <3>1, <3>2
  <2>. QED
    BY <2>2, <2>3
<1>5. TypeOK'
  <2>1. inFlight' = [g \in Gates |-> inFlight'[g]]
    BY GateOfGate DEF Release, GateInv, TypeOK
  <2>2. inFlight' \in [Gates -> Nat]
    BY <1>4, <2>1
  <2>. QED
    BY <1>2, <2>2 DEF GateInv, TypeOK
<1>6. \A q \in Requests : SlotOK(q)'
  <2>. SUFFICES ASSUME NEW q \in Requests PROVE SlotOK(q)'
    OBVIOUS
  <2>1. SlotOK(q) /\ SlotOK(r)
    BY DEF GateInv
  <2>2. CASE q = r
    <3>1. calls'[q] = n /\ calls[q] \in Nat /\ n \in Nat
      BY <2>2 DEF GateInv, TypeOK
    <3>. QED
      BY <1>3, <2>1, <2>2, <3>1 DEF SlotOK, Capped, Over
  <2>3. CASE q # r
    <3>1. calls'[q] = calls[q] /\ slot'[q] = slot[q]
      BY <1>2, <2>3 DEF GateInv, TypeOK
    <3>. QED
      BY <2>1, <2>3, <3>1 DEF SlotOK, Capped, Over
  <2>. QED
    BY <2>2, <2>3
<1>7. WithinLimit'
  BY <1>4, GateAssumption DEF GateInv, WithinLimit, TypeOK
<1>. QED
  BY <1>1, <1>5, <1>6, <1>7 DEF GateInv

LEMMA CallEndsKeeps ==
  ASSUME GateInv, NEW r \in Requests, CallEnds(r)
  PROVE  GateInv'
<1>1. SlotOK(r) /\ calls[r] \in 1 .. MaxBatch /\ target[r] # "none"
  BY GateAssumption DEF CallEnds, GateInv, SlotOK, TypeOK
<1>2. calls' = [calls EXCEPT ![r] = calls[r] - 1] /\ calls[r] - 1 \in 0 .. MaxBatch
  BY <1>1, GateAssumption DEF CallEnds
<1>3. UNCHANGED <<target, shed, claimed, strays, connection>>
  BY DEF CallEnds
<1>4. response' \in [Requests -> {"none", "sent", "finished"}] /\ \A q \in Requests : q # r => response'[q] = response[q]
  BY DEF CallEnds, GateInv, TypeOK
<1>5. Release(r) \/ UNCHANGED <<slot, inFlight>>
  BY DEF CallEnds
<1>6. calls[r] - 1 > 0 /\ Capped(r) => slot'[r] = "held"
  BY <1>1 DEF CallEnds, SlotOK
<1>7. slot'[r] = "held" => claimed[r] /\ calls[r] - 1 > 0
  <2>1. CASE calls[r] = 1
    BY <1>1, <2>1 DEF CallEnds, SlotOK, Release, GateInv, TypeOK
  <2>2. CASE calls[r] # 1
    BY <1>1, <2>2 DEF CallEnds, SlotOK
  <2>. QED
    BY <2>1, <2>2
<1>8. calls[r] - 1 <= calls[r]
  BY <1>1
<1>9. connection' \in [Requests -> {"none", "open", "closed"}]
  BY <1>3 DEF GateInv, TypeOK
<1>. QED
  BY <1>1, <1>2, <1>3, <1>4, <1>5, <1>6, <1>7, <1>8, <1>9, EndKeeps

\* 'finish' and 'close': the connection is over, and an unclaimed slot goes.
LEMMA OverKeeps ==
  ASSUME GateInv, NEW r \in Requests, target[r] # "none", ReleaseIfUnclaimed(r),
         UNCHANGED <<target, shed, claimed, work>>,
         response' \in [Requests -> {"none", "sent", "finished"}],
         connection' \in [Requests -> {"none", "open", "closed"}],
         \A q \in Requests : q # r => response'[q] = response[q] /\ connection'[q] = connection[q]
  PROVE  GateInv'
<1>1. SlotOK(r) /\ calls[r] \in 0 .. MaxBatch
  BY DEF GateInv, TypeOK
<1>2. calls' = [calls EXCEPT ![r] = calls[r]] /\ UNCHANGED strays
  BY DEF work, GateInv, TypeOK
<1>3. Release(r) \/ UNCHANGED <<slot, inFlight>>
  BY DEF ReleaseIfUnclaimed
<1>4. ~claimed[r] => slot'[r] # "held"
  BY DEF ReleaseIfUnclaimed, Release, GateInv, TypeOK
<1>5. claimed[r] => slot'[r] = slot[r]
  BY DEF ReleaseIfUnclaimed
<1>6. calls[r] > 0 /\ Capped(r) => slot'[r] = "held"
  BY <1>1, <1>5 DEF SlotOK
<1>7. slot'[r] = "held" => claimed[r] /\ calls[r] > 0
  BY <1>1, <1>4, <1>5 DEF SlotOK
<1>8. calls[r] <= calls[r]
  BY <1>1
<1>. QED
  BY <1>1, <1>2, <1>3, <1>6, <1>7, <1>8, EndKeeps

LEMMA FinishKeeps ==
  ASSUME GateInv, NEW r \in Requests, Finish(r), target[r] # "none"
  PROVE  GateInv'
<1>1. /\ response' \in [Requests -> {"none", "sent", "finished"}]
      /\ connection' \in [Requests -> {"none", "open", "closed"}]
      /\ \A q \in Requests : q # r => response'[q] = response[q] /\ connection'[q] = connection[q]
  BY DEF Finish, GateInv, TypeOK
<1>. QED
  BY <1>1, OverKeeps DEF Finish

LEMMA CloseKeeps ==
  ASSUME GateInv, NEW r \in Requests, Close(r), target[r] # "none"
  PROVE  GateInv'
<1>1. /\ response' \in [Requests -> {"none", "sent", "finished"}]
      /\ connection' \in [Requests -> {"none", "open", "closed"}]
      /\ \A q \in Requests : q # r => response'[q] = response[q] /\ connection'[q] = connection[q]
  BY DEF Close, GateInv, TypeOK
<1>. QED
  BY <1>1, OverKeeps DEF Close

-----------------------------------------------------------------------------

LEMMA InitInv == Init => GateInv
<1>. SUFFICES ASSUME Init PROVE GateInv
  OBVIOUS
<1>. USE DEF Init
<1>1. TypeOK
  BY GateAssumption DEF TypeOK
<1>2. \A r \in Requests : SlotOK(r)
  BY DEF SlotOK
<1>3. InFlightExact
  <2>1. \A g \in Gates : Holders(g) = {}
    BY DEF Holders
  <2>. QED
    BY <2>1, FS_EmptySet DEF InFlightExact
<1>4. WithinLimit
  BY GateAssumption DEF WithinLimit
<1>. QED
  BY <1>1, <1>2, <1>3, <1>4 DEF GateInv

LEMMA StepInv == GateInv /\ [Next]_vars => GateInv'
<1>. SUFFICES ASSUME GateInv, [Next]_vars PROVE GateInv'
  OBVIOUS
<1>1. CASE UNCHANGED vars
  BY <1>1 DEF vars, gate, work, GateInv, TypeOK, SlotOK, Capped, Over, InFlightExact, Holders, WithinLimit
<1>2. ASSUME NEW r \in Requests, Arrive(r) PROVE GateInv'
  <2>1. ASSUME NEW t \in Targets, Shed(r, t) PROVE GateInv'
    BY <2>1, ShedKeeps
  <2>2. ASSUME NEW t \in Targets, AdmitSingle(r, t) PROVE GateInv'
    BY <2>2, AdmitSingleKeeps
  <2>3. ASSUME NEW n \in {0, 1}, AdmitCall(r, n) PROVE GateInv'
    BY <2>3, AdmitCallKeeps
  <2>4. ASSUME NEW n \in 0 .. (MaxBatch + 1), NEW k \in 0 .. n, AdmitBatch(r, n, k) PROVE GateInv'
    BY <2>4, AdmitBatchKeeps
  <2>5. ASSUME NEW n \in 0 .. (MaxBatch + 1), NEW k \in 0 .. n, RefuseBatch(r, n, k) PROVE GateInv'
    BY <2>5, RefuseBatchKeeps
  <2>. QED
    BY <1>2, <2>1, <2>2, <2>3, <2>4, <2>5 DEF Arrive
<1>3. ASSUME NEW r \in Requests, CallEnds(r) PROVE GateInv'
  BY <1>3, CallEndsKeeps
<1>4. ASSUME NEW r \in Requests, Finish(r) PROVE GateInv'
  <2>1. target[r] # "none"
    BY <1>4 DEF Finish, GateInv, SlotOK
  <2>. QED
    BY <1>4, <2>1, FinishKeeps
<1>5. ASSUME NEW r \in Requests, Close(r) PROVE GateInv'
  <2>1. target[r] # "none"
    BY <1>5 DEF Close, GateInv, SlotOK
  <2>. QED
    BY <1>5, <2>1, CloseKeeps
<1>. QED
  BY <1>1, <1>2, <1>3, <1>4, <1>5 DEF Next

LEMMA InvAccounts == GateInv => SlotsAccounted
<1>. SUFFICES ASSUME GateInv PROVE SlotsAccounted
  OBVIOUS
<1>1. NoLeakedSlot
  BY DEF GateInv, SlotOK, NoLeakedSlot
<1>. QED
  BY <1>1 DEF GateInv, SlotsAccounted

\* Whoever works behind a capped gate holds one of its slots.
LEMMA InvBoundsWork == GateInv => WorkWithinCap
<1>. SUFFICES ASSUME GateInv, NEW g \in Gates, Limit[g] > 0
              PROVE  LET busy == {r \in Requests : Working(r) /\ Wrapper(target[r]) = g}
                     IN  /\ Cardinality(busy) <= Limit[g]
                         /\ \A r \in busy : calls[r] + strays[r] <= MaxBatch
  BY DEF WorkWithinCap
<1>. DEFINE busy == {r \in Requests : Working(r) /\ Wrapper(target[r]) = g}
<1>1. \A r \in busy : calls[r] \in 0 .. MaxBatch /\ calls[r] > 0 /\ strays[r] = 0 /\ SlotOK(r)
  BY DEF GateInv, SlotOK, TypeOK, Working
<1>2. busy \subseteq Holders(g)
  <2>. SUFFICES ASSUME NEW r \in busy PROVE r \in Holders(g)
    OBVIOUS
  <2>1. SlotOK(r) /\ calls[r] > 0
    BY <1>1
  <2>2. target[r] # "none" /\ GateOf(target[r]) = g
    BY <2>1 DEF SlotOK
  <2>3. slot[r] = "held"
    BY <2>1, <2>2 DEF SlotOK, Capped
  <2>. QED
    BY <2>2, <2>3 DEF Holders
<1>3. Cardinality(busy) <= Cardinality(Holders(g)) /\ Cardinality(busy) \in Nat
  BY <1>2, HoldersFinite, FS_Subset, FS_CardinalityType
<1>4. Cardinality(Holders(g)) = inFlight[g] /\ inFlight[g] <= Limit[g] /\ inFlight[g] \in Nat /\ Limit[g] \in Nat
  BY GateAssumption DEF GateInv, InFlightExact, WithinLimit, TypeOK
<1>5. Cardinality(busy) <= Limit[g]
  BY <1>3, <1>4
<1>6. \A r \in busy : calls[r] + strays[r] <= MaxBatch
  BY <1>1, GateAssumption
<1>. QED
  BY <1>5, <1>6

\* No slot leaks and none is counted twice, whichever of 'finish', 'close' and
\* the settled handler comes first (concurrency_gate.js:47-99).
THEOREM GateAccounts == Spec => []SlotsAccounted
<1>. QED
  BY InitInv, StepInv, InvAccounts, PTL DEF Spec

\* However often clients hang up and come again, the work behind a gate stays
\* within its cap (concurrency_gate.js:57-64).
THEOREM GateBoundsWork == Spec => []WorkWithinCap
<1>. QED
  BY InitInv, StepInv, InvBoundsWork, PTL DEF Spec

\* The gate's counter is exact, and bounds the work (concurrency_gate.js:51-64).
THEOREM GateIsExact == Spec => []GateHolds
<1>1. SlotsAccounted /\ WorkWithinCap => GateHolds
  BY DEF GateHolds
<1>. QED
  BY <1>1, GateAccounts, GateBoundsWork, PTL

-----------------------------------------------------------------------------
(* The node behind it.  The histories are what the induction runs on: a     *)
(* fact that was true ever since a call was admitted is true now, so the    *)
(* node's verdict under way to it, and the RPC it awaits, are ones such a   *)
(* fact allows.                                                             *)

\* NodeCalls adds to the gate, and takes nothing from it.
LEMMA GateStep == [NodeNext]_allVars => [Next]_vars
<1>. SUFFICES ASSUME [NodeNext]_allVars PROVE [Next]_vars
  OBVIOUS
<1>. USE DEF Next
<1>1. CASE UNCHANGED allVars
  BY <1>1 DEF allVars
<1>2. ASSUME NEW r \in Requests, Arrival(r) PROVE Arrive(r)
  BY <1>2 DEF Arrival, Broadcast, GetTxStatus, Others, Probe, Arrive, Targets
<1>3. ASSUME NEW r \in Requests, NodeJudges(r) PROVE UNCHANGED vars
  BY <1>3 DEF NodeJudges
<1>4. ASSUME NEW r \in Requests, Returns(r) PROVE CallEnds(r) \/ UNCHANGED vars
  <2>. USE DEF Answer, Await, Pass, Refuse, Proceed
  <2>1. CASE TierRead(r)
    BY <2>1 DEF TierRead
  <2>2. CASE TierUnread(r)
    BY <2>2 DEF TierUnread
  <2>3. CASE GenesisRead(r)
    BY <2>3 DEF GenesisRead
  <2>4. CASE GenesisUnread(r)
    BY <2>4 DEF GenesisUnread
  <2>5. CASE ReplyArrives(r)
    BY <2>5 DEF ReplyArrives, LiftCap
  <2>6. CASE SendFails(r)
    BY <2>6 DEF SendFails
  <2>7. CASE RegtestRead(r)
    BY <2>7 DEF RegtestRead
  <2>8. CASE RegtestUnread(r)
    BY <2>8 DEF RegtestUnread
  <2>9. CASE MempoolRead(r)
    BY <2>9 DEF MempoolRead
  <2>10. CASE TrackerRead(r)
    BY <2>10 DEF TrackerRead
  <2>. QED
    BY <1>4, <2>1, <2>2, <2>3, <2>4, <2>5, <2>6, <2>7, <2>8, <2>9, <2>10 DEF Returns
<1>5. ASSUME NEW r \in Requests, PlainCallEnds(r) PROVE CallEnds(r)
  BY <1>5 DEF PlainCallEnds
<1>6. ASSUME NEW r \in Requests, ClientOrSocket(r) PROVE Finish(r) \/ Close(r)
  BY <1>6 DEF ClientOrSocket
<1>7. ASSUME NodeMoves PROVE UNCHANGED vars
  BY <1>7 DEF NodeMoves, JudgesAdrift, Mines, Drops, Reorganises, OutputsSpent, Moves, TrackerFollows
<1>. QED
  BY <1>1, <1>2, <1>3, <1>4, <1>5, <1>6, <1>7 DEF NodeNext

\* What runs behind the gate leaves it the gate it is: NodeCalls implements
\* ConcurrencyGate (concurrency_gate.js with api.js:341-363 in front of the methods).
THEOREM ImplementsGate == NodeSpec => Spec
<1>1. NodeInit => Init
  BY DEF NodeInit
<1>. QED
  BY <1>1, GateStep, PTL DEF NodeSpec, Spec

\* With the node behind it no slot leaks and none is counted twice.
THEOREM NodeGateAccounts == NodeSpec => []SlotsAccounted
<1>. QED
  BY ImplementsGate, GateAccounts

\* With the node behind it the work stays within the caps.
THEOREM NodeGateBoundsWork == NodeSpec => []WorkWithinCap
<1>. QED
  BY ImplementsGate, GateBoundsWork

\* With the node behind it the gate stays exact and bounds the work.
THEOREM NodeGateHolds == NodeSpec => []GateHolds
<1>. QED
  BY ImplementsGate, GateIsExact

-----------------------------------------------------------------------------
(* The invariant.                                                           *)

\* What the connector remembers of a wrong tier, it remembers for good.
TierOK ==
    /\ world.network # "none" /\ ChainTierMismatch(world.chain) => ~nodeTierOk
    /\ nodeTierMismatch = "wrong tier" =>
          world.network # "none" /\ ChainTierMismatch(world.chain) /\ chainNameCache = world.chain

\* What a history allows of the call it belongs to.
CallOK(r) ==
    /\ target[r] = "none" => stage[r] = "none"
    /\ stage[r] = "tier" => world.network # "none"
    /\ "shut" \in since[r] => stage[r] \in {"mempool", "tracker"}
    /\ "held" \in since[r] =>
          /\ place \in {"mempool", "chain"} /\ stage[r] # "regtest"
          /\ stage[r] = "reply" => reply[r] \in {"txid", "txn-already-known", "-27"}
    /\ "in mempool" \in since[r] => place = "mempool" /\ stage[r] # "tracker"
    /\ "indexed" \in since[r] => indexed = TRUE

NodeInv ==
    /\ GateInv
    /\ NodeTypeOK
    /\ TierOK
    /\ \A r \in Requests : CallOK(r)

LEMMA WorldFacts ==
  ASSUME NodeTypeOK
  PROVE  world.chain # "unread" /\ chainNameCache \in {"unread", world.chain}
<1>1. world \in WorldShape
  BY NodeCallsAssumption DEF NodeTypeOK
<1>. QED
  BY <1>1 DEF NodeTypeOK, WorldShape

LEMMA NodeInitInv == NodeInit => NodeInv
<1>. SUFFICES ASSUME NodeInit PROVE NodeInv
  OBVIOUS
<1>. USE DEF NodeInit
<1>1. GateInv
  BY InitInv
<1>2. NodeTypeOK
  BY DEF NodeTypeOK, Stages, Replies, Answers
<1>3. TierOK
  BY DEF TierOK
<1>4. \A r \in Requests : CallOK(r)
  BY DEF CallOK
<1>. QED
  BY <1>1, <1>2, <1>3, <1>4 DEF NodeInv

\* The part of the invariant about calls, and the types that go with it.
CallTypes ==
    /\ place \in {"absent", "mempool", "chain", "spent"} /\ indexed \in BOOLEAN
    /\ stage \in [Requests -> Stages]
    /\ reply \in [Requests -> Replies]
    /\ answer \in [Requests -> Answers]
    /\ since \in [Requests -> SUBSET FactNames]

\* A step of one call, in which the node at most takes a transaction that it
\* does not have: what is asked of it is that it leaves that call in order.
LEMMA CallStep ==
  ASSUME NodeInv, NEW r \in Requests, NEW s \in Stages, NEW v \in Replies, NEW a \in Answers,
         NEW h \in SUBSET FactNames,
         stage' = [stage EXCEPT ![r] = s], reply' = [reply EXCEPT ![r] = v],
         answer' = [answer EXCEPT ![r] = a], since' = [since EXCEPT ![r] = h],
         UNCHANGED <<world, indexed>>, UNCHANGED place \/ (place = "absent" /\ place' = "mempool"),
         \A q \in Requests : q # r => target'[q] = target[q],
         CallOK(r)'
  PROVE  CallTypes' /\ \A q \in Requests : CallOK(q)'
<1>1. CallTypes'
  BY DEF NodeInv, NodeTypeOK, CallTypes
<1>2. ASSUME NEW q \in Requests, q # r PROVE CallOK(q)'
  <2>1. /\ target'[q] = target[q] /\ stage'[q] = stage[q] /\ reply'[q] = reply[q]
        /\ since'[q] = since[q] /\ world' = world /\ indexed' = indexed
    BY <1>2 DEF NodeInv, NodeTypeOK
  <2>2. CallOK(q)
    BY DEF NodeInv
  <2>3. place \in {"mempool", "chain"} => place' = place
    OBVIOUS
  <2>. QED
    BY <2>1, <2>2, <2>3 DEF CallOK
<1>. QED
  BY <1>1, <1>2

\* A call that settles is in order whatever it answers.
LEMMA SettleStep ==
  ASSUME NodeInv, NEW r \in Requests, NEW a \in Answers, Answer(r, a), UNCHANGED <<world, place, indexed>>
  PROVE  CallTypes' /\ \A q \in Requests : CallOK(q)'
<1>1. UNCHANGED target
  BY DEF Answer, CallEnds
<1>2. target[r] # "none"
  BY DEF Answer, CallEnds, NodeInv, GateInv, SlotOK
<1>3. CallOK(r)'
  BY <1>1, <1>2 DEF Answer, Settle, CallOK, NodeInv, NodeTypeOK
<1>4. "over" \in Stages /\ "none" \in Replies /\ {} \in SUBSET FactNames
  BY DEF Stages, Replies
<1>. QED
  BY <1>1, <1>3, <1>4, CallStep DEF Answer, Settle

\* A call that awaits its next RPC is in order if its history allows that RPC.
LEMMA AwaitStep ==
  ASSUME NodeInv, NEW r \in Requests, NEW s \in Stages, Await(r, s), UNCHANGED <<world, place, indexed>>,
         stage[r] # "none", s \notin {"none", "reply"},
         s = "tier" => world.network # "none",
         "shut" \in since[r] => s \in {"mempool", "tracker"},
         "held" \in since[r] => s # "regtest",
         "in mempool" \in since[r] => s # "tracker"
  PROVE  CallTypes' /\ \A q \in Requests : CallOK(q)'
<1>1. UNCHANGED <<target, reply, answer, since>> /\ stage' = [stage EXCEPT ![r] = s]
  BY DEF Await, vars
<1>2. target[r] # "none"
  BY DEF NodeInv, CallOK
<1>3. stage'[r] = s /\ CallOK(r)
  BY <1>1 DEF NodeInv, NodeTypeOK
<1>4. CallOK(r)'
  BY <1>1, <1>2, <1>3 DEF CallOK
<1>5. reply[r] \in Replies /\ answer[r] \in Answers /\ since[r] \in SUBSET FactNames
  BY DEF NodeInv, NodeTypeOK
<1>6. /\ reply' = [reply EXCEPT ![r] = reply[r]] /\ answer' = [answer EXCEPT ![r] = answer[r]]
      /\ since' = [since EXCEPT ![r] = since[r]]
  BY <1>1 DEF NodeInv, NodeTypeOK
<1>. QED
  BY <1>1, <1>4, <1>5, <1>6, CallStep

\* The second submission, once the cap is lifted.
LEMMA ResendStep ==
  ASSUME NodeInv, NEW r \in Requests, stage[r] \in {"reply", "regtest"},
         stage' = [stage EXCEPT ![r] = "resend"], reply' = [reply EXCEPT ![r] = "none"],
         UNCHANGED <<vars, answer, since, world, place, indexed>>
  PROVE  CallTypes' /\ \A q \in Requests : CallOK(q)'
<1>1. CallOK(r)'
  BY DEF CallOK, NodeInv, NodeTypeOK, vars
<1>2. "resend" \in Stages /\ "none" \in Replies /\ answer[r] \in Answers /\ since[r] \in SUBSET FactNames
  BY DEF Stages, Replies, NodeInv, NodeTypeOK
<1>3. answer' = [answer EXCEPT ![r] = answer[r]] /\ since' = [since EXCEPT ![r] = since[r]]
  BY DEF NodeInv, NodeTypeOK
<1>. QED
  BY <1>1, <1>2, <1>3, CallStep DEF vars

-----------------------------------------------------------------------------
(* Action by action: the calls stay in order.                               *)

LEMMA VerdictTypes ==
  ASSUME place \in {"absent", "mempool", "chain", "spent"}, NEW c, NEW v \in Verdicts(c)
  PROVE  /\ v \in Replies
         /\ place \in {"mempool", "chain"} => v \in {"txid", "txn-already-known", "-27"}
         /\ v = "txid" => place \in {"mempool", "absent"}
<1>1. CASE place = "mempool"
  <2>1. Verdicts(c) = {"txid", "txn-already-known"}
    BY <1>1 DEF Verdicts
  <2>. QED
    BY <1>1, <2>1 DEF Replies
<1>2. CASE place = "chain"
  <2>1. Verdicts(c) = {"-27"}
    BY <1>2 DEF Verdicts
  <2>. QED
    BY <1>2, <2>1 DEF Replies
<1>3. CASE place = "spent"
  <2>1. Verdicts(c) = {"rejected"}
    BY <1>3 DEF Verdicts
  <2>. QED
    BY <1>3, <2>1 DEF Replies
<1>4. CASE place = "absent"
  <2>1. Verdicts(c) \in {{"rejected"}, {"over the cap"}, {"txid"}}
    BY <1>4 DEF Verdicts
  <2>. QED
    BY <1>4, <2>1 DEF Replies
<1>. QED
  BY <1>1, <1>2, <1>3, <1>4

\* The history of a call that is admitted now.
LEMMA FactsTrue ==
  /\ Facts(place, indexed, nodeTierMismatch) \subseteq FactNames
  /\ "held" \in Facts(place, indexed, nodeTierMismatch) => place \in {"mempool", "chain"}
  /\ "in mempool" \in Facts(place, indexed, nodeTierMismatch) => place = "mempool"
  /\ "indexed" \in Facts(place, indexed, nodeTierMismatch) => indexed
  /\ "shut" \in Facts(place, indexed, nodeTierMismatch) => nodeTierMismatch = "wrong tier"
<1>. DEFINE F == Facts(place, indexed, nodeTierMismatch)
<1>1. F \subseteq FactNames
  BY DEF Facts
<1>2. "held" \in F => place \in {"mempool", "chain"}
  BY DEF Facts, FactNames
<1>3. "in mempool" \in F => place = "mempool"
  BY DEF Facts, FactNames
<1>4. "indexed" \in F => indexed
  BY DEF Facts, FactNames
<1>5. "shut" \in F => nodeTierMismatch = "wrong tier"
  BY DEF Facts, FactNames
<1>. QED
  BY <1>1, <1>2, <1>3, <1>4, <1>5

\* A mismatch of the tier that was read refuses every check that starts later.
LEMMA ShutRefuses ==
  ASSUME NodeInv, nodeTierMismatch = "wrong tier"
  PROVE  FirstStage = "refused"
<1>1. world.network # "none" /\ ChainTierMismatch(world.chain) /\ chainNameCache = world.chain /\ nodeTierOk = FALSE
  BY DEF NodeInv, TierOK, NodeTypeOK
<1>2. chainNameCache # "unread"
  BY <1>1, WorldFacts DEF NodeInv
<1>. QED
  BY <1>1, <1>2 DEF FirstStage, ChainName

LEMMA FirstStages ==
  ASSUME NodeInv
  PROVE  /\ FirstStage \in {"checked", "genesis", "tier", "refused"}
         /\ FirstStage = "tier" => world.network # "none"
<1>1. AfterTier \in {"checked", "genesis"}
  BY DEF AfterTier
<1>2. CASE world.network = "none" \/ nodeTierOk
  BY <1>1, <1>2 DEF FirstStage
<1>3. CASE ~(world.network = "none" \/ nodeTierOk)
  BY <1>1, <1>3 DEF FirstStage
<1>. QED
  BY <1>2, <1>3

LEMMA ArrivesFacts ==
  ASSUME NodeInv, NEW r \in Requests, NEW t \in Targets, Arrives(r, t)
  PROVE  /\ stage[r] = "none" /\ target'[r] = t /\ t # "none"
         /\ \A q \in Requests : q # r => target'[q] = target[q]
BY DEF NodeInv, GateInv, TypeOK, CallOK, Arrives, Targets

LEMMA BroadcastOrdered ==
  ASSUME NodeInv, NEW r \in Requests, Broadcast(r)
  PROVE  CallTypes' /\ \A q \in Requests : CallOK(q)'
<1>. DEFINE first == FirstStage
            s == CASE first = "checked" -> "send" [] first = "refused" -> "over" [] OTHER -> first
            a == IF first = "refused" THEN "NODE_CHAIN_MISMATCH" ELSE answer[r]
            h == IF first = "refused" THEN since[r] ELSE Facts(place, indexed, nodeTierMismatch)
<1>1. Arrives(r, "call") /\ "call" \in Targets
  BY DEF Broadcast, AdmitCall, Targets
<1>2. /\ stage[r] = "none" /\ target'[r] # "none"
      /\ \A q \in Requests : q # r => target'[q] = target[q]
  BY <1>1, ArrivesFacts
<1>3. /\ first \in {"checked", "genesis", "tier", "refused"}
      /\ first = "tier" => world.network # "none"
      /\ first # "refused" => nodeTierMismatch # "wrong tier"
  BY FirstStages, ShutRefuses
<1>4. s \in {"send", "genesis", "tier", "over"} /\ (s = "tier" => first = "tier")
  BY <1>3
<1>5. stage' = [stage EXCEPT ![r] = s] /\ UNCHANGED <<world, place, indexed, reply>>
  BY DEF Broadcast, StartCheck, node
<1>6. answer' = [answer EXCEPT ![r] = a]
  BY DEF Broadcast
<1>7. since' = [since EXCEPT ![r] = h]
  BY DEF Broadcast, Begins, NodeInv, NodeTypeOK
<1>8. a \in Answers /\ h \in SUBSET FactNames
  BY FactsTrue DEF NodeInv, NodeTypeOK, Answers
<1>9. "shut" \notin h
  BY <1>2, <1>3, FactsTrue DEF NodeInv, CallOK
<1>10. ("held" \in h => place \in {"mempool", "chain"}) /\ ("in mempool" \in h => place = "mempool")
       /\ ("indexed" \in h => indexed = TRUE)
  BY FactsTrue DEF NodeInv, NodeTypeOK, CallOK
<1>. HIDE DEF first, s, a, h
<1>11. stage'[r] = s /\ since'[r] = h
  BY <1>5, <1>7 DEF NodeInv, NodeTypeOK
<1>12. CallOK(r)'
  BY <1>2, <1>3, <1>4, <1>5, <1>9, <1>10, <1>11 DEF CallOK
<1>13. s \in Stages /\ reply[r] \in Replies /\ reply' = [reply EXCEPT ![r] = reply[r]]
  BY <1>4, <1>5 DEF Stages, NodeInv, NodeTypeOK
<1>. QED
  BY <1>2, <1>5, <1>6, <1>7, <1>8, <1>12, <1>13, CallStep

LEMMA ProbeOrdered ==
  ASSUME NodeInv, NEW r \in Requests, NEW t \in Targets, Probe(r, t)
  PROVE  CallTypes' /\ \A q \in Requests : CallOK(q)'
<1>. DEFINE first == FirstStage
            s == CASE first = "checked" -> "over" [] first = "refused" -> "over" [] OTHER -> first
<1>1. Arrives(r, t)
  BY DEF Probe, AdmitSingle
<1>2. /\ stage[r] = "none" /\ target'[r] # "none" /\ CallOK(r)
      /\ \A q \in Requests : q # r => target'[q] = target[q]
  BY <1>1, ArrivesFacts DEF NodeInv
<1>3. first \in {"checked", "genesis", "tier", "refused"} /\ (first = "tier" => world.network # "none")
  BY FirstStages
<1>4. s \in {"genesis", "tier", "over"} /\ (s = "tier" => first = "tier")
  BY <1>3
<1>5. stage' = [stage EXCEPT ![r] = s] /\ UNCHANGED <<world, place, indexed, reply, answer, since>>
  BY DEF Probe, StartCheck, node
<1>. HIDE DEF first, s
<1>6. stage'[r] = s
  BY <1>5 DEF NodeInv, NodeTypeOK
<1>7. CallOK(r)'
  BY <1>2, <1>3, <1>4, <1>5, <1>6 DEF CallOK
<1>8. /\ s \in Stages /\ reply[r] \in Replies /\ answer[r] \in Answers /\ since[r] \in SUBSET FactNames
      /\ reply' = [reply EXCEPT ![r] = reply[r]] /\ answer' = [answer EXCEPT ![r] = answer[r]]
      /\ since' = [since EXCEPT ![r] = since[r]]
  BY <1>4, <1>5 DEF Stages, NodeInv, NodeTypeOK
<1>. QED
  BY <1>2, <1>5, <1>7, <1>8, CallStep

LEMMA GetTxStatusOrdered ==
  ASSUME NodeInv, NEW r \in Requests, GetTxStatus(r)
  PROVE  CallTypes' /\ \A q \in Requests : CallOK(q)'
<1>. DEFINE h == Facts(place, indexed, nodeTierMismatch)
<1>1. Arrives(r, "call") /\ "call" \in Targets
  BY DEF GetTxStatus, AdmitCall, Targets
<1>2. /\ stage[r] = "none" /\ target'[r] # "none"
      /\ \A q \in Requests : q # r => target'[q] = target[q]
  BY <1>1, ArrivesFacts
<1>3. /\ stage' = [stage EXCEPT ![r] = "mempool"] /\ UNCHANGED <<world, place, indexed, reply, answer>>
      /\ since' = [since EXCEPT ![r] = h]
  BY DEF GetTxStatus, Begins, node
<1>4. h \in SUBSET FactNames
  BY FactsTrue
<1>5. ("held" \in h => place \in {"mempool", "chain"}) /\ ("in mempool" \in h => place = "mempool")
       /\ ("indexed" \in h => indexed = TRUE)
  BY FactsTrue DEF NodeInv, NodeTypeOK
<1>. HIDE DEF h
<1>6. stage'[r] = "mempool" /\ since'[r] = h
  BY <1>3 DEF NodeInv, NodeTypeOK
<1>7. CallOK(r)'
  BY <1>2, <1>3, <1>5, <1>6 DEF CallOK
<1>8. /\ "mempool" \in Stages /\ reply[r] \in Replies /\ answer[r] \in Answers
      /\ reply' = [reply EXCEPT ![r] = reply[r]] /\ answer' = [answer EXCEPT ![r] = answer[r]]
  BY <1>3 DEF Stages, NodeInv, NodeTypeOK
<1>. QED
  BY <1>2, <1>3, <1>4, <1>7, <1>8, CallStep

\* Requests that have no part in this module, and steps of the gate alone.
LEMMA FrameOrdered ==
  ASSUME NodeInv, UNCHANGED nodeVars,
         \A q \in Requests : target'[q] = target[q] \/ (target[q] = "none" /\ target'[q] # "none")
  PROVE  CallTypes' /\ \A q \in Requests : CallOK(q)'
<1>1. UNCHANGED <<world, place, indexed, stage, reply, answer, since>>
  BY DEF nodeVars, node, call
<1>2. CallTypes'
  BY <1>1 DEF CallTypes, NodeInv, NodeTypeOK
<1>3. ASSUME NEW q \in Requests PROVE CallOK(q)'
  <2>1. CallOK(q)
    BY DEF NodeInv
  <2>. QED
    BY <1>1, <2>1 DEF CallOK
<1>. QED
  BY <1>2, <1>3

LEMMA OthersOrdered ==
  ASSUME NodeInv, NEW r \in Requests, Others(r)
  PROVE  CallTypes' /\ \A q \in Requests : CallOK(q)'
<1>1. PICK t \in Targets : Arrives(r, t)
  BY DEF Others, Shed, AdmitSingle, AdmitCall, AdmitBatch, RefuseBatch, Targets
<1>2. \A q \in Requests : target'[q] = target[q] \/ (target[q] = "none" /\ target'[q] # "none")
  BY <1>1, ArrivesFacts DEF Arrives
<1>3. UNCHANGED nodeVars
  BY DEF Others
<1>. QED
  BY <1>2, <1>3, FrameOrdered

LEMMA NodeJudgesOrdered ==
  ASSUME NodeInv, NEW r \in Requests, NodeJudges(r)
  PROVE  CallTypes' /\ \A q \in Requests : CallOK(q)'
<1>1. PICK v \in Verdicts(stage[r] = "send") :
        /\ Judges(stage[r] = "send", v)
        /\ reply' = [reply EXCEPT ![r] = v]
  BY DEF NodeJudges
<1>2. place \in {"absent", "mempool", "chain", "spent"}
  BY DEF NodeInv, NodeTypeOK
<1>3. /\ v \in Replies
      /\ place \in {"mempool", "chain"} => v \in {"txid", "txn-already-known", "-27"}
      /\ v = "txid" => place \in {"mempool", "absent"}
  BY <1>2, VerdictTypes
<1>4. UNCHANGED place \/ (place = "absent" /\ place' = "mempool")
  BY <1>1, <1>3 DEF Judges
<1>5. /\ stage[r] \in {"send", "resend"} /\ stage' = [stage EXCEPT ![r] = "reply"]
      /\ UNCHANGED <<target, world, indexed, answer, since>>
  BY DEF NodeJudges, vars
<1>6. stage'[r] = "reply" /\ reply'[r] = v /\ CallOK(r)
  BY <1>1, <1>5 DEF NodeInv, NodeTypeOK
<1>7. CallOK(r)'
  BY <1>3, <1>4, <1>5, <1>6 DEF CallOK
<1>8. /\ "reply" \in Stages /\ answer[r] \in Answers /\ since[r] \in SUBSET FactNames
      /\ answer' = [answer EXCEPT ![r] = answer[r]] /\ since' = [since EXCEPT ![r] = since[r]]
  BY <1>5 DEF Stages, NodeInv, NodeTypeOK
<1>. QED
  BY <1>1, <1>3, <1>4, <1>5, <1>7, <1>8, CallStep

\* A check that goes on: to the block-0 hash, to the node, or to its end.
LEMMA CheckOrdered ==
  ASSUME NodeInv, NEW r \in Requests, stage[r] \in {"tier", "genesis"}, UNCHANGED <<world, place, indexed>>,
         Pass(r) \/ Refuse(r) \/ Proceed(r, AfterTier)
  PROVE  CallTypes' /\ \A q \in Requests : CallOK(q)'
<1>1. "shut" \notin since[r]
  BY DEF NodeInv, CallOK
<1>2. AfterTier \in {"checked", "genesis"}
  BY DEF AfterTier
<1>3. {"over", "send", "genesis"} \subseteq Stages /\ "NODE_CHAIN_MISMATCH" \in Answers
  BY DEF Stages, Answers
<1>4. CASE Answer(r, "NODE_CHAIN_MISMATCH")
  BY <1>3, <1>4, SettleStep
<1>5. CASE Await(r, "over")
  BY <1>1, <1>3, <1>5, AwaitStep
<1>6. CASE Await(r, "send")
  BY <1>1, <1>3, <1>6, AwaitStep
<1>7. CASE Await(r, "genesis")
  BY <1>1, <1>3, <1>7, AwaitStep
<1>. QED
  BY <1>2, <1>4, <1>5, <1>6, <1>7 DEF Pass, Refuse, Proceed

LEMMA ReplyOrdered ==
  ASSUME NodeInv, NEW r \in Requests, ReplyArrives(r)
  PROVE  CallTypes' /\ \A q \in Requests : CallOK(q)'
<1>1. stage[r] = "reply" /\ UNCHANGED <<world, place, indexed>> /\ CallOK(r)
  BY DEF ReplyArrives, node, NodeInv
<1>2. {"txid", "TX_ALREADY_IN_CHAIN", "NODE_REJECTED"} \subseteq Answers /\ "regtest" \in Stages
  BY DEF Answers, Stages
<1>3. CASE reply[r] = "txid"
  BY <1>1, <1>2, <1>3, SettleStep DEF ReplyArrives
<1>4. CASE reply[r] = "over the cap"
  <2>1. "held" \notin since[r] /\ "shut" \notin since[r]
    BY <1>1, <1>4 DEF CallOK
  <2>2. LiftCap(r)
    BY <1>4 DEF ReplyArrives
  <2>3. CASE ChainName = "unread"
    <3>1. Await(r, "regtest")
      BY <2>2, <2>3 DEF LiftCap
    <3>. QED
      BY <1>1, <1>2, <2>1, <3>1, AwaitStep
  <2>4. CASE ChainName = "regtest"
    <3>1. /\ stage' = [stage EXCEPT ![r] = "resend"] /\ reply' = [reply EXCEPT ![r] = "none"]
          /\ UNCHANGED <<vars, answer, since>>
      BY <2>2, <2>4 DEF LiftCap
    <3>. QED
      BY <1>1, <3>1, ResendStep
  <2>5. CASE ChainName \notin {"unread", "regtest"}
    <3>1. Answer(r, "NODE_REJECTED")
      BY <2>2, <2>5 DEF LiftCap
    <3>. QED
      BY <1>1, <1>2, <3>1, SettleStep
  <2>. QED
    BY <2>3, <2>4, <2>5
<1>5. CASE reply[r] \notin {"txid", "over the cap"}
  <2>1. Answer(r, Rejection(reply[r]))
    BY <1>5 DEF ReplyArrives
  <2>2. Rejection(reply[r]) \in Answers
    BY <1>2 DEF Rejection
  <2>. QED
    BY <1>1, <2>1, <2>2, SettleStep
<1>. QED
  BY <1>3, <1>4, <1>5

LEMMA RegtestOrdered ==
  ASSUME NodeInv, NEW r \in Requests, RegtestRead(r) \/ RegtestUnread(r)
  PROVE  CallTypes' /\ \A q \in Requests : CallOK(q)'
<1>1. stage[r] = "regtest" /\ UNCHANGED <<world, place, indexed>>
  BY DEF RegtestRead, RegtestUnread, node
<1>2. "NODE_REJECTED" \in Answers
  BY DEF Answers
<1>3. CASE Answer(r, "NODE_REJECTED")
  BY <1>1, <1>2, <1>3, SettleStep
<1>4. CASE /\ stage' = [stage EXCEPT ![r] = "resend"] /\ reply' = [reply EXCEPT ![r] = "none"]
           /\ UNCHANGED <<vars, answer, since>>
  BY <1>1, <1>4, ResendStep
<1>. QED
  BY <1>3, <1>4 DEF RegtestRead, RegtestUnread

LEMMA SendFailsOrdered ==
  ASSUME NodeInv, NEW r \in Requests, SendFails(r)
  PROVE  CallTypes' /\ \A q \in Requests : CallOK(q)'
<1>1. "internal error" \in Answers
  BY DEF Answers
<1>. QED
  BY <1>1, SettleStep DEF SendFails

LEMMA LookupOrdered ==
  ASSUME NodeInv, NEW r \in Requests, MempoolRead(r) \/ TrackerRead(r)
  PROVE  CallTypes' /\ \A q \in Requests : CallOK(q)'
<1>1. stage[r] \in {"mempool", "tracker"} /\ UNCHANGED <<world, place, indexed>> /\ CallOK(r)
  BY DEF MempoolRead, TrackerRead, node, NodeInv
<1>2. {"internal error", "mempool", "chain", "unknown"} \subseteq Answers /\ "tracker" \in Stages
  BY DEF Answers, Stages
<1>3. CASE \E a \in {"internal error", "mempool", "chain", "unknown"} : Answer(r, a)
  BY <1>1, <1>2, <1>3, SettleStep
<1>4. CASE Await(r, "tracker") /\ place # "mempool"
  <2>1. "in mempool" \notin since[r]
    BY <1>1, <1>4 DEF CallOK
  <2>. QED
    BY <1>1, <1>2, <1>4, <2>1, AwaitStep
<1>5. MempoolRead(r) => \/ \E a \in {"internal error", "mempool"} : Answer(r, a)
                        \/ Await(r, "tracker") /\ place # "mempool"
  BY DEF MempoolRead, MempoolEntryAbsent
<1>6. TrackerRead(r) => \E a \in {"internal error", "chain", "unknown"} : Answer(r, a)
  BY DEF TrackerRead
<1>. QED
  BY <1>3, <1>4, <1>5, <1>6

\* The node or the tracker moves: what a history keeps is true afterwards.
LEMMA MovesOrdered ==
  ASSUME NodeInv, NodeMoves
  PROVE  CallTypes' /\ \A q \in Requests : CallOK(q)'
<1>. DEFINE F == Facts(place', indexed', nodeTierMismatch')
<1>1. UNCHANGED <<target, world, memo, stage, reply, answer>> /\ since' = [q \in Requests |-> since[q] \cap F]
  BY DEF NodeMoves, JudgesAdrift, Mines, Drops, Reorganises, OutputsSpent, Moves, TrackerFollows, Remember, vars
<1>2. place' \in {"absent", "mempool", "chain", "spent"} /\ indexed' \in BOOLEAN
  <2>1. place' \in {place, "mempool", "chain", "absent", "spent"}
    BY DEF NodeMoves, JudgesAdrift, Judges, Mines, Drops, Reorganises, OutputsSpent, Moves, TrackerFollows
  <2>2. indexed' = indexed \/ indexed' = ~indexed
    BY DEF NodeMoves, JudgesAdrift, Mines, Drops, Reorganises, OutputsSpent, Moves, TrackerFollows
  <2>. QED
    BY <2>1, <2>2 DEF NodeInv, NodeTypeOK
<1>3. ("held" \in F => place' \in {"mempool", "chain"}) /\ ("in mempool" \in F => place' = "mempool")
      /\ ("indexed" \in F => indexed')
  BY DEF Facts, FactNames
<1>. HIDE DEF F
<1>4. CallTypes'
  BY <1>1, <1>2 DEF CallTypes, NodeInv, NodeTypeOK
<1>5. ASSUME NEW q \in Requests PROVE CallOK(q)'
  <2>1. CallOK(q) /\ since'[q] = since[q] \cap F
    BY <1>1 DEF NodeInv
  <2>2. indexed' => indexed' = TRUE
    BY <1>2
  <2>. QED
    BY <1>1, <1>3, <2>1, <2>2 DEF CallOK
<1>. QED
  BY <1>4, <1>5

LEMMA CallsOrdered == NodeInv /\ [NodeNext]_allVars => CallTypes' /\ \A q \in Requests : CallOK(q)'
<1>. SUFFICES ASSUME NodeInv, [NodeNext]_allVars PROVE CallTypes' /\ \A q \in Requests : CallOK(q)'
  OBVIOUS
<1>1. CASE UNCHANGED allVars
  BY <1>1, FrameOrdered DEF allVars, vars
<1>2. CASE NodeMoves
  BY <1>2, MovesOrdered
<1>3. ASSUME NEW r \in Requests, Arrival(r) PROVE CallTypes' /\ \A q \in Requests : CallOK(q)'
  <2>1. {"GET /status", "HEAD /status"} \subseteq Targets
    BY DEF Targets
  <2>. QED
    BY <1>3, <2>1, BroadcastOrdered, GetTxStatusOrdered, OthersOrdered, ProbeOrdered DEF Arrival
<1>4. ASSUME NEW r \in Requests, NodeJudges(r) PROVE CallTypes' /\ \A q \in Requests : CallOK(q)'
  BY <1>4, NodeJudgesOrdered
<1>5. ASSUME NEW r \in Requests, Returns(r) PROVE CallTypes' /\ \A q \in Requests : CallOK(q)'
  <2>1. CASE TierRead(r) \/ TierUnread(r) \/ GenesisRead(r) \/ GenesisUnread(r)
    <3>1. stage[r] \in {"tier", "genesis"} /\ UNCHANGED <<world, place, indexed>>
      BY <2>1 DEF TierRead, TierUnread, GenesisRead, GenesisUnread, node
    <3>2. Pass(r) \/ Refuse(r) \/ Proceed(r, AfterTier)
      BY <2>1 DEF TierRead, TierUnread, GenesisRead, GenesisUnread
    <3>. QED
      BY <3>1, <3>2, CheckOrdered
  <2>. QED
    BY <1>5, <2>1, ReplyOrdered, RegtestOrdered, SendFailsOrdered, LookupOrdered DEF Returns
<1>6. ASSUME NEW r \in Requests, PlainCallEnds(r) \/ ClientOrSocket(r)
      PROVE  CallTypes' /\ \A q \in Requests : CallOK(q)'
  BY <1>6, FrameOrdered DEF PlainCallEnds, ClientOrSocket, CallEnds, Finish, Close
<1>. QED
  BY <1>1, <1>2, <1>3, <1>4, <1>5, <1>6 DEF NodeNext

-----------------------------------------------------------------------------
(* What the connector remembers.                                            *)

MemoTypes ==
    /\ world \in Worlds
    /\ chainNameCache \in {"unread", world.chain}
    /\ nodeTierOk \in BOOLEAN /\ nodeGenesisOk \in BOOLEAN
    /\ nodeTierMismatch \in {"none", "wrong tier", "wrong genesis"}

LEMMA StartCheckRemembers ==
  ASSUME NodeInv, NEW r \in Requests, NEW p, NEW f, StartCheck(r, p, f)
  PROVE  MemoTypes' /\ TierOK'
<1>1. /\ UNCHANGED <<world, chainNameCache, nodeGenesisOk>>
      /\ nodeTierMismatch' = IF FirstStage = "refused" THEN "wrong tier" ELSE nodeTierMismatch
      /\ nodeTierOk' = (nodeTierOk \/ (ChainName # "unread" /\ FirstStage # "refused" /\ world.network # "none"))
  BY DEF StartCheck
<1>2. MemoTypes'
  BY <1>1 DEF MemoTypes, NodeInv, NodeTypeOK
<1>3. FirstStage = "refused" =>
        world.network # "none" /\ nodeTierOk = FALSE /\ ChainName # "unread" /\ ChainTierMismatch(ChainName)
  <2>. SUFFICES ASSUME FirstStage = "refused"
                PROVE  world.network # "none" /\ nodeTierOk = FALSE /\ ChainName # "unread" /\ ChainTierMismatch(ChainName)
    OBVIOUS
  <2>1. AfterTier # "refused"
    BY DEF AfterTier
  <2>2. ~(world.network = "none" \/ nodeTierOk)
    BY <2>1 DEF FirstStage
  <2>3. FirstStage = CASE ChainName = "unread"         -> "tier"
                       [] ChainTierMismatch(ChainName) -> "refused"
                       [] OTHER                        -> AfterTier
    BY <2>2 DEF FirstStage
  <2>4. ChainName # "unread"
    <3>. SUFFICES ASSUME ChainName = "unread" PROVE FALSE
      OBVIOUS
    <3>1. ~ChainTierMismatch(ChainName)
      BY DEF ChainTierMismatch, Recognised
    <3>2. FirstStage = "tier"
      BY <2>3, <3>1
    <3>. QED
      BY <3>2
  <2>5. ChainTierMismatch(ChainName)
    <3>. SUFFICES ASSUME ~ChainTierMismatch(ChainName) PROVE FALSE
      OBVIOUS
    <3>1. FirstStage = AfterTier
      BY <2>3, <2>4
    <3>. QED
      BY <2>1, <3>1
  <2>6. nodeTierOk = FALSE
    BY <2>2 DEF NodeInv, NodeTypeOK
  <2>. QED
    BY <2>2, <2>4, <2>5, <2>6
<1>4. ChainName # "unread" => ChainName = world.chain /\ chainNameCache = world.chain
  BY DEF ChainName, NodeInv, NodeTypeOK
<1>5. world.network # "none" /\ ChainTierMismatch(world.chain) /\ ~nodeTierOk /\ ChainName # "unread"
        => FirstStage = "refused"
  BY <1>4 DEF FirstStage
<1>6. TierOK
  BY DEF NodeInv
<1>7. ChainTierMismatch(world.chain)' <=> ChainTierMismatch(world.chain)
  BY <1>1 DEF ChainTierMismatch
<1>8. (world.network # "none" /\ ChainTierMismatch(world.chain) => ~nodeTierOk)'
  BY <1>1, <1>5, <1>6, <1>7 DEF TierOK
<1>9. (nodeTierMismatch = "wrong tier" =>
        world.network # "none" /\ ChainTierMismatch(world.chain) /\ chainNameCache = world.chain)'
  BY <1>1, <1>3, <1>4, <1>6, <1>7 DEF TierOK
<1>. QED
  BY <1>2, <1>8, <1>9 DEF TierOK

LEMMA Remembers == NodeInv /\ [NodeNext]_allVars => MemoTypes' /\ TierOK'
<1>. SUFFICES ASSUME NodeInv, [NodeNext]_allVars PROVE MemoTypes' /\ TierOK'
  OBVIOUS
<1>1. CASE UNCHANGED <<world, memo>>
  BY <1>1 DEF memo, MemoTypes, TierOK, ChainTierMismatch, NodeInv, NodeTypeOK
<1>2. ASSUME NEW r \in Requests, Arrival(r) PROVE (UNCHANGED <<world, memo>>) \/ (MemoTypes' /\ TierOK')
  BY <1>2, StartCheckRemembers DEF Arrival, Broadcast, Probe, GetTxStatus, Others, nodeVars
<1>3. ASSUME NEW r \in Requests, TierRead(r) PROVE MemoTypes' /\ TierOK'
  <2>1. /\ chainNameCache' = world.chain /\ UNCHANGED <<world, nodeGenesisOk>>
        /\ IF ChainTierMismatch(world.chain)
           THEN nodeTierMismatch' = "wrong tier" /\ nodeTierOk' = nodeTierOk
           ELSE nodeTierMismatch' = nodeTierMismatch /\ nodeTierOk' = TRUE
    BY <1>3 DEF TierRead
  <2>2. world.network # "none"
    BY <1>3 DEF TierRead, NodeInv, CallOK
  <2>3. MemoTypes'
    BY <2>1 DEF MemoTypes, NodeInv, NodeTypeOK
  <2>4. ChainTierMismatch(world.chain)' <=> ChainTierMismatch(world.chain)
    BY <2>1 DEF ChainTierMismatch
  <2>5. TierOK'
    BY <2>1, <2>2, <2>4 DEF TierOK, NodeInv
  <2>. QED
    BY <2>3, <2>5
<1>4. ASSUME NEW r \in Requests, GenesisRead(r) PROVE MemoTypes' /\ TierOK'
  <2>1. /\ UNCHANGED <<world, chainNameCache, nodeTierOk>>
        /\ nodeTierMismatch' \in {"none", "wrong genesis"} /\ nodeGenesisOk' \in {nodeGenesisOk, TRUE}
    BY <1>4 DEF GenesisRead
  <2>. QED
    BY <2>1 DEF MemoTypes, TierOK, ChainTierMismatch, NodeInv, NodeTypeOK
<1>5. ASSUME NEW r \in Requests, RegtestRead(r) PROVE MemoTypes' /\ TierOK'
  <2>1. chainNameCache' = world.chain /\ UNCHANGED <<world, nodeTierOk, nodeTierMismatch, nodeGenesisOk>>
    BY <1>5 DEF RegtestRead
  <2>. QED
    BY <2>1 DEF MemoTypes, TierOK, ChainTierMismatch, NodeInv, NodeTypeOK
<1>6. ASSUME NEW r \in Requests, Returns(r)
      PROVE  UNCHANGED <<world, memo>> \/ TierRead(r) \/ GenesisRead(r) \/ RegtestRead(r)
  BY <1>6 DEF Returns, TierUnread, GenesisUnread, ReplyArrives, SendFails, RegtestUnread, MempoolRead, TrackerRead
<1>7. ASSUME NEW r \in Requests, NodeJudges(r) \/ PlainCallEnds(r) \/ ClientOrSocket(r)
      PROVE  UNCHANGED <<world, memo>>
  BY <1>7 DEF NodeJudges, PlainCallEnds, ClientOrSocket, nodeVars
<1>8. ASSUME NodeMoves PROVE UNCHANGED <<world, memo>>
  BY <1>8 DEF NodeMoves, JudgesAdrift, Mines, Drops, Reorganises, OutputsSpent, Moves, TrackerFollows
<1>9. CASE UNCHANGED allVars
  BY <1>1, <1>9 DEF allVars, nodeVars
<1>. QED
  BY <1>1, <1>2, <1>3, <1>4, <1>5, <1>6, <1>7, <1>8, <1>9 DEF NodeNext

LEMMA AdriftTyped == NodeInv /\ [NodeNext]_allVars => adrift' \subseteq {"send", "resend"}
<1>. SUFFICES ASSUME NodeInv, [NodeNext]_allVars PROVE adrift' \subseteq {"send", "resend"}
  OBVIOUS
<1>1. adrift \subseteq {"send", "resend"}
  BY DEF NodeInv, NodeTypeOK
<1>2. ASSUME NEW r \in Requests, SendFails(r) PROVE adrift' \subseteq {"send", "resend"}
  BY <1>1, <1>2 DEF SendFails
<1>3. ASSUME NEW r \in Requests, Returns(r) PROVE adrift' = adrift \/ SendFails(r)
  BY <1>3 DEF Returns, TierRead, TierUnread, GenesisRead, GenesisUnread, ReplyArrives, RegtestRead,
       RegtestUnread, MempoolRead, TrackerRead, node
<1>4. ASSUME NEW r \in Requests, Arrival(r) \/ NodeJudges(r) \/ PlainCallEnds(r) \/ ClientOrSocket(r)
      PROVE  adrift' = adrift
  BY <1>4 DEF Arrival, Broadcast, Probe, StartCheck, GetTxStatus, Others, NodeJudges, PlainCallEnds,
       ClientOrSocket, nodeVars, node
<1>5. ASSUME NodeMoves PROVE adrift' \subseteq adrift
  BY <1>5 DEF NodeMoves, JudgesAdrift, Mines, Drops, Reorganises, OutputsSpent, Moves, TrackerFollows
<1>6. CASE UNCHANGED allVars
  BY <1>1, <1>6 DEF allVars, nodeVars, node
<1>. QED
  BY <1>1, <1>2, <1>3, <1>4, <1>5, <1>6 DEF NodeNext

LEMMA NodeStepInv == NodeInv /\ [NodeNext]_allVars => NodeInv'
<1>. SUFFICES ASSUME NodeInv, [NodeNext]_allVars PROVE NodeInv'
  OBVIOUS
<1>1. GateInv'
  BY GateStep, StepInv DEF NodeInv
<1>2. NodeTypeOK' /\ TierOK' /\ \A r \in Requests : CallOK(r)'
  BY CallsOrdered, Remembers, AdriftTyped DEF CallTypes, MemoTypes, NodeTypeOK
<1>. QED
  BY <1>1, <1>2 DEF NodeInv

LEMMA NodeInvariant == NodeSpec => []NodeInv
<1>. QED
  BY NodeInitInv, NodeStepInv, PTL DEF NodeSpec

\* A tier mismatch that any call has read keeps every later broadcast from the
\* node, whatever the node, the network and other calls do (node_queries.js:50-70).
THEOREM TierMismatchHolds == NodeSpec => []WrongTierStaysShut
<1>1. NodeInv => WrongTierStaysShut
  <2>. SUFFICES ASSUME NodeInv PROVE WrongTierStaysShut
    OBVIOUS
  <2>1. nodeTierMismatch = "wrong tier" => FirstStage = "refused"
    BY ShutRefuses
  <2>2. \A r \in Requests : "shut" \in since[r] => stage[r] \notin {"send", "reply", "regtest", "resend"}
    BY DEF NodeInv, CallOK
  <2>. QED
    BY <2>1, <2>2 DEF NodeInv, WrongTierStaysShut
<1>. QED
  BY <1>1, NodeInvariant, PTL

-----------------------------------------------------------------------------
(* What a call answers.                                                     *)

\* What the action property asks of one request.
Truthful(r) ==
    answer'[r] # answer[r] =>
       /\ "held" \in since[r] => answer'[r] # "NODE_REJECTED"
       /\ {"in mempool", "indexed"} \cap since[r] # {} => answer'[r] # "unknown"

\* An answer is truthful if it is no rejection of what the node holds, and no
\* ignorance of what either service has.
LEMMA AnswerTruthful ==
  ASSUME NodeInv, NEW p \in Requests, NEW a, Answer(p, a),
         "held" \in since[p] => a # "NODE_REJECTED",
         {"in mempool", "indexed"} \cap since[p] # {} => a # "unknown"
  PROVE  \A r \in Requests : Truthful(r)
<1>1. answer' = [answer EXCEPT ![p] = a]
  BY DEF Answer, Settle
<1>2. ASSUME NEW r \in Requests, answer'[r] # answer[r] PROVE r = p /\ answer'[r] = a
  BY <1>1, <1>2 DEF NodeInv, NodeTypeOK
<1>. QED
  BY <1>2 DEF Truthful

LEMMA StillTruthful ==
  ASSUME UNCHANGED answer
  PROVE  \A r \in Requests : Truthful(r)
BY DEF Truthful

LEMMA BroadcastTruthful ==
  ASSUME NodeInv, NEW p \in Requests, Broadcast(p)
  PROVE  \A r \in Requests : Truthful(r)
<1>1. answer' = [answer EXCEPT ![p] = IF FirstStage = "refused" THEN "NODE_CHAIN_MISMATCH" ELSE @]
  BY DEF Broadcast
<1>2. ASSUME NEW r \in Requests, answer'[r] # answer[r] PROVE answer'[r] = "NODE_CHAIN_MISMATCH"
  BY <1>1, <1>2 DEF NodeInv, NodeTypeOK
<1>. QED
  BY <1>2 DEF Truthful

LEMMA ReplyTruthful ==
  ASSUME NodeInv, NEW p \in Requests, ReplyArrives(p)
  PROVE  \A r \in Requests : Truthful(r)
<1>1. stage[p] = "reply" /\ CallOK(p)
  BY DEF ReplyArrives, NodeInv
<1>2. "held" \in since[p] => reply[p] \in {"txid", "txn-already-known", "-27"}
  BY <1>1 DEF CallOK
<1>3. CASE reply[p] = "txid"
  BY <1>3, AnswerTruthful DEF ReplyArrives
<1>4. CASE reply[p] = "over the cap"
  <2>1. LiftCap(p) /\ "held" \notin since[p]
    BY <1>2, <1>4 DEF ReplyArrives
  <2>2. UNCHANGED answer \/ Answer(p, "NODE_REJECTED")
    BY <2>1 DEF LiftCap, Await
  <2>. QED
    BY <2>1, <2>2, AnswerTruthful, StillTruthful
<1>5. CASE reply[p] \notin {"txid", "over the cap"}
  <2>1. Answer(p, Rejection(reply[p]))
    BY <1>5 DEF ReplyArrives
  <2>2. "held" \in since[p] => Rejection(reply[p]) # "NODE_REJECTED"
    BY <1>2, <1>5 DEF Rejection, IsAlreadyKnown
  <2>3. Rejection(reply[p]) # "unknown"
    BY DEF Rejection
  <2>. QED
    BY <2>1, <2>2, <2>3, AnswerTruthful
<1>. QED
  BY <1>3, <1>4, <1>5

LEMMA LookupTruthful ==
  ASSUME NodeInv, NEW p \in Requests, MempoolRead(p) \/ TrackerRead(p)
  PROVE  \A r \in Requests : Truthful(r)
<1>1. CallOK(p)
  BY DEF NodeInv
<1>2. MempoolRead(p) => UNCHANGED answer \/ \E a \in {"mempool", "internal error"} : Answer(p, a)
  BY DEF MempoolRead, Await
<1>3. CASE TrackerRead(p)
  <2>1. PICK how \in {IF indexed THEN "chain" ELSE "unknown", "internal error"} : Answer(p, how)
    BY <1>3 DEF TrackerRead
  <2>2. stage[p] = "tracker"
    BY <1>3 DEF TrackerRead
  <2>3. {"in mempool", "indexed"} \cap since[p] # {} => how # "unknown"
    BY <1>1, <2>2 DEF CallOK
  <2>4. how # "NODE_REJECTED"
    OBVIOUS
  <2>. QED
    BY <2>1, <2>3, <2>4, AnswerTruthful
<1>. QED
  BY <1>2, <1>3, AnswerTruthful, StillTruthful

LEMMA ReturnsTruthful ==
  ASSUME NodeInv, NEW p \in Requests, Returns(p)
  PROVE  \A r \in Requests : Truthful(r)
<1>1. CASE TierRead(p) \/ TierUnread(p) \/ GenesisRead(p) \/ GenesisUnread(p)
  <2>1. Pass(p) \/ Refuse(p) \/ Proceed(p, AfterTier)
    BY <1>1 DEF TierRead, TierUnread, GenesisRead, GenesisUnread
  <2>2. UNCHANGED answer \/ Answer(p, "NODE_CHAIN_MISMATCH")
    BY <2>1 DEF Pass, Refuse, Proceed, Await
  <2>. QED
    BY <2>2, AnswerTruthful, StillTruthful
<1>2. CASE RegtestRead(p) \/ RegtestUnread(p)
  <2>1. "held" \notin since[p]
    BY <1>2 DEF RegtestRead, RegtestUnread, NodeInv, CallOK
  <2>2. UNCHANGED answer \/ Answer(p, "NODE_REJECTED")
    BY <1>2 DEF RegtestRead, RegtestUnread
  <2>. QED
    BY <2>1, <2>2, AnswerTruthful, StillTruthful
<1>3. CASE SendFails(p)
  BY <1>3, AnswerTruthful DEF SendFails
<1>. QED
  BY <1>1, <1>2, <1>3, ReplyTruthful, LookupTruthful DEF Returns

\* A caller that asks again is told the truth whatever the other requests
\* and the node do: never that what the node holds was rejected, never that what
\* either service has is unknown (json_rpc_methods.js:224-232, 290-298).
THEOREM RepeatIsTruthful == NodeSpec => RepeatTellsTheTruth
<1>1. ASSUME NodeInv, [NodeNext]_allVars PROVE \A r \in Requests : Truthful(r)
  <2>1. ASSUME NEW p \in Requests, Arrival(p) PROVE UNCHANGED answer \/ Broadcast(p)
    BY <2>1 DEF Arrival, GetTxStatus, Others, Probe, nodeVars, call
  <2>2. ASSUME NEW p \in Requests, NodeJudges(p) \/ PlainCallEnds(p) \/ ClientOrSocket(p)
        PROVE  UNCHANGED answer
    BY <2>2 DEF NodeJudges, PlainCallEnds, ClientOrSocket, nodeVars, call
  <2>3. ASSUME NodeMoves PROVE UNCHANGED answer
    BY <2>3 DEF NodeMoves, JudgesAdrift, Mines, Drops, Reorganises, OutputsSpent, Moves, TrackerFollows
  <2>4. CASE UNCHANGED allVars
    BY <2>4, StillTruthful DEF allVars, nodeVars, call
  <2>. QED
    BY <1>1, <2>1, <2>2, <2>3, <2>4, StillTruthful, BroadcastTruthful, ReturnsTruthful DEF NodeNext
<1>2. (NodeInv /\ [NodeNext]_allVars) =>
        [\A r \in Requests : answer'[r] # answer[r] =>
          /\ "held" \in since[r] => answer'[r] # "NODE_REJECTED"
          /\ {"in mempool", "indexed"} \cap since[r] # {} => answer'[r] # "unknown"]_allVars
  BY <1>1 DEF Truthful
<1>. QED
  BY <1>2, NodeInvariant, PTL DEF NodeSpec, RepeatTellsTheTruth
=============================================================================
