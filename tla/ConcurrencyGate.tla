-------------------------- MODULE ConcurrencyGate --------------------------
(***************************************************************************)
(* The in-flight concurrency gates as api.js mounts them: probeGate in     *)
(* front of the probes, requestGate in front of everything else, and the   *)
(* hold() wrapper that binds a slot to the work of the handler behind it.  *)
(*                                                                         *)
(* Everything from the gates to the handler's first await is one turn of   *)
(* the event loop, so a request is admitted, routed and claimed in one     *)
(* step.  After it the calls it started, the response it was sent and the  *)
(* client's connection each end when they like.                            *)
(***************************************************************************)
EXTENDS Integers, FiniteSets

CONSTANTS
    Requests,
    Limit,          \* gate -> its cap, 0 where the operator disabled it
    MaxBatch        \* the longest batch the batch guard lets pass

Gates == {"probe", "request"}

\* What a request may ask for.  "batch" has a length and may hold a notification.
Targets == {"GET /status", "HEAD /status", "GET /openrpc.json", "GET /metrics", "call", "batch", "no method"}

ASSUME GateAssumption ==
    /\ Limit \in [Gates -> Nat]
    /\ MaxBatch \in Nat \ {0}
    /\ IsFiniteSet(Requests)

VARIABLES
    target,     \* request -> what it asks for, "none" before it arrives
    inFlight,   \* gate -> its counter
    shed,       \* gate -> how many it refused
    slot,       \* request -> "none", "held" or "released"
    claimed,    \* request -> whether a hold() wrapper answers for the slot
    calls,      \* request -> calls the router waits for
    strays,     \* request -> calls that run and that nobody waits for; nothing says when they end
    response,   \* request -> "none", "sent" (written by the handler), "finished"
    connection  \* request -> "none", "open", "closed"

gate == <<inFlight, shed>>
work == <<calls, strays>>
vars == <<target, gate, slot, claimed, work, response, connection>>

Init ==
    /\ target = [r \in Requests |-> "none"]
    /\ inFlight = [g \in Gates |-> 0]
    /\ shed = [g \in Gates |-> 0]
    /\ slot = [r \in Requests |-> "none"]
    /\ claimed = [r \in Requests |-> FALSE]
    /\ calls = [r \in Requests |-> 0]
    /\ strays = [r \in Requests |-> 0]
    /\ response = [r \in Requests |-> "none"]
    /\ connection = [r \in Requests |-> "none"]

-----------------------------------------------------------------------------

\* Fault variant: the predicate forgets that HEAD dispatches to a GET route.
IsProbeGetOnly(t) == t \in {"GET /status", "GET /openrpc.json"}

IsProbe(t) == t \in {"GET /status", "HEAD /status", "GET /openrpc.json"}

GateOf(t) == IF IsProbe(t) THEN "probe" ELSE "request"

\* The gate whose hold() wraps the handler of a route.
Wrapper(t) ==
    CASE t \in {"GET /status", "HEAD /status"} -> "probe"
      [] t \in {"call", "batch", "no method"}  -> "request"
      [] OTHER                                 -> "unwrapped"

\* Fault variant: only the length of a batch is looked at.
BatchGuardLengthOnly(n, notifications) == n <= MaxBatch

BatchGuard(n, notifications) == n <= MaxBatch /\ notifications = 0

\* Fault variant: a release that does not remember it has run.
ReleaseTwice(r) ==
    /\ slot' = [slot EXCEPT ![r] = IF @ = "none" THEN @ ELSE "released"]
    /\ inFlight' = [inFlight EXCEPT ![GateOf(target[r])] = @ - (IF slot[r] = "none" THEN 0 ELSE 1)]

\* The release of an admitted request's slot: it counts down once.
Release(r) ==
    /\ slot' = [slot EXCEPT ![r] = IF @ = "held" THEN "released" ELSE @]
    /\ inFlight' = [inFlight EXCEPT ![GateOf(target[r])] = @ - (IF slot[r] = "held" THEN 1 ELSE 0)]

\* releaseIfUnclaimed, the listener of 'finish' and of 'close'.
ReleaseIfUnclaimed(r) == IF claimed[r] THEN UNCHANGED <<slot, inFlight>> ELSE Release(r)

\* The handler behind the gates: what it starts, and whether it answers at once.
Handle(r, t, started, unwaited) ==
    /\ calls' = [calls EXCEPT ![r] = started]
    /\ strays' = [strays EXCEPT ![r] = unwaited]
    /\ response' = [response EXCEPT ![r] = IF started = 0 THEN "sent" ELSE "none"]

\* attachSlot: an admitted request has a slot, which nobody has claimed.
AttachSlot(r, t, started) ==
    LET g == GateOf(t)
    IN  /\ claimed' = claimed
        /\ slot' = [slot EXCEPT ![r] = IF Limit[g] > 0 THEN "held" ELSE "none"]
        /\ inFlight' = [inFlight EXCEPT ![g] = @ + (IF Limit[g] > 0 THEN 1 ELSE 0)]

\* hold(): the wrapper claims the slot its own gate left on the request, and
\* gives it back when the handler settles: for one without awaited calls, now.
Hold(r, t, started) ==
    LET g    == GateOf(t)
        held == Limit[g] > 0
        owns == held /\ Wrapper(t) = g
    IN  /\ claimed' = [claimed EXCEPT ![r] = owns]
        /\ slot' = [slot EXCEPT ![r] =
                      CASE ~held                -> "none"
                        [] held /\ owns /\ started = 0 -> "released"
                        [] OTHER                -> "held"]
        /\ inFlight' = [inFlight EXCEPT ![g] = @ + (IF held /\ ~(owns /\ started = 0) THEN 1 ELSE 0)]

Arrives(r, t) ==
    /\ target[r] = "none"
    /\ target' = [target EXCEPT ![r] = t]
    /\ connection' = [connection EXCEPT ![r] = "open"]

Full(g) == Limit[g] > 0 /\ inFlight[g] >= Limit[g]

\* The (cap+1)th request: an immediate 429 and no slot.
Shed(r, t) ==
    /\ Arrives(r, t)
    /\ Full(GateOf(t))
    /\ shed' = [shed EXCEPT ![GateOf(t)] = @ + 1]
    /\ response' = [response EXCEPT ![r] = "sent"]
    /\ UNCHANGED <<inFlight, slot, claimed, work>>

\* A JSON-RPC call whose method settles at once, or awaits something first.
AdmitCall(r, started) ==
    /\ Arrives(r, "call")
    /\ ~Full(GateOf("call"))
    /\ Hold(r, "call", started) /\ Handle(r, "call", started, 0)
    /\ UNCHANGED shed

\* /status asks the tracker; the spec, the metrics and an unknown method are
\* answered on the spot.
AdmitSingle(r, t) ==
    /\ Arrives(r, t) /\ t \notin {"call", "batch"}
    /\ ~Full(GateOf(t))
    /\ LET started == IF t \in {"GET /openrpc.json", "GET /metrics", "no method"} THEN 0 ELSE 1
       IN  Hold(r, t, started) /\ Handle(r, t, started, 0)
    /\ UNCHANGED shed

\* A batch of n entries, some of them notifications.  The router starts every
\* entry and waits for those with an id.
AdmitBatch(r, n, notifications) ==
    /\ Arrives(r, "batch")
    /\ ~Full(GateOf("batch"))
    /\ BatchGuard(n, notifications)
    /\ Hold(r, "batch", n - notifications)
    /\ Handle(r, "batch", n - notifications, notifications)
    /\ UNCHANGED shed

\* The batch guard answers 400 above the router, so nobody claims the slot.
RefuseBatch(r, n, notifications) ==
    /\ Arrives(r, "batch")
    /\ ~Full(GateOf("batch"))
    /\ ~BatchGuard(n, notifications)
    /\ AttachSlot(r, "batch", 0)
    /\ Handle(r, "batch", 0, 0)
    /\ UNCHANGED shed

\* A call ends, in a result or an error, whether the client waits or not.  The
\* last one settles the handler: the response is written, the slot returned.
CallEnds(r) ==
    /\ calls[r] > 0
    /\ calls' = [calls EXCEPT ![r] = @ - 1]
    /\ IF calls[r] = 1
       THEN /\ response' = [response EXCEPT ![r] = "sent"]
            /\ IF claimed[r] THEN Release(r) ELSE UNCHANGED <<slot, inFlight>>
       ELSE UNCHANGED <<response, slot, inFlight>>
    /\ UNCHANGED <<target, shed, claimed, strays, connection>>

\* 'finish': the response went out on a connection that was still there.
Finish(r) ==
    /\ response[r] = "sent" /\ connection[r] = "open"
    /\ response' = [response EXCEPT ![r] = "finished"]
    /\ ReleaseIfUnclaimed(r)
    /\ UNCHANGED <<target, shed, claimed, work, connection>>

\* Fault variant: only 'finish' is listened to.
CloseUnheard(r) ==
    /\ connection[r] = "open"
    /\ connection' = [connection EXCEPT ![r] = "closed"]
    /\ UNCHANGED <<target, gate, slot, claimed, work, response>>

\* 'close': after 'finish', or in the middle of anything when a client hangs up.
Close(r) ==
    /\ connection[r] = "open"
    /\ connection' = [connection EXCEPT ![r] = "closed"]
    /\ ReleaseIfUnclaimed(r)
    /\ UNCHANGED <<target, shed, claimed, work, response>>

Arrive(r) ==
    \/ \E t \in Targets : Shed(r, t) \/ AdmitSingle(r, t)
    \/ \E started \in {0, 1} : AdmitCall(r, started)
    \/ \E n \in 0 .. (MaxBatch + 1) : \E k \in 0 .. n : AdmitBatch(r, n, k) \/ RefuseBatch(r, n, k)

Next ==
    \E r \in Requests :
        Arrive(r) \/ CallEnds(r) \/ Finish(r) \/ Close(r)

Spec == Init /\ [][Next]_vars

-----------------------------------------------------------------------------

\* The types; `calls' has a bound, a counter is never negative.
TypeOK ==
    /\ target \in [Requests -> Targets \cup {"none"}]
    /\ inFlight \in [Gates -> Nat]
    /\ shed \in [Gates -> Nat]
    /\ slot \in [Requests -> {"none", "held", "released"}]
    /\ claimed \in [Requests -> BOOLEAN]
    /\ calls \in [Requests -> 0 .. MaxBatch]
    /\ strays \in [Requests -> 0 .. MaxBatch]
    /\ response \in [Requests -> {"none", "sent", "finished"}]
    /\ connection \in [Requests -> {"none", "open", "closed"}]

\* The requests a gate's counter stands for.
Holders(g) == {r \in Requests : target[r] # "none" /\ GateOf(target[r]) = g /\ slot[r] = "held"}

InFlightExact == \A g \in Gates : inFlight[g] = Cardinality(Holders(g))

Over(r) == response[r] = "finished" \/ connection[r] = "closed"

NoLeakedSlot ==
    \A r \in Requests : slot[r] = "held" => (IF claimed[r] THEN calls[r] > 0 ELSE ~Over(r))

\* The counter is the number of slots out, though 'finish', 'close' and the
\* settled handler may all three try to give one back, and a slot is out only
\* for a request that is still being answered or worked on: an aborted or
\* refused one cannot ratchet the gate shut (concurrency_gate.js:51-56), and no
\* release too many takes the counter below zero (TypeOK).
SlotsAccounted == TypeOK /\ InFlightExact /\ NoLeakedSlot

Working(r) == calls[r] + strays[r] > 0

\* The cap bounds the work and not the sockets: however often clients hang up
\* and come again, no more requests of a gate are at work than it admits, and
\* none of them at more calls than a full batch has (lines 57-64, api.js:341-363).
WorkWithinCap ==
    \A g \in Gates :
        LET busy == {r \in Requests : Working(r) /\ Wrapper(target[r]) = g}
        IN  Limit[g] > 0 =>
              /\ Cardinality(busy) <= Limit[g]
              /\ \A r \in busy : calls[r] + strays[r] <= MaxBatch

\* The gate is what it says: its counter is exact and bounds the work behind it.
GateHolds == SlotsAccounted /\ WorkWithinCap

\* A full gate opens again, whether its clients stay or vanish.
GateReopens == \A g \in Gates : Full(g) ~> ~Full(g)
=============================================================================
