--------------------------- MODULE RequestMetrics ---------------------------
(***************************************************************************)
(* What /metrics tells of the server's requests: the timing middleware at  *)
(* the front of the stack, with the two events that may end a request, the *)
(* route label and its cap, and the registry's cap on a metric's series.   *)
(*                                                                         *)
(* The scrape's own requests pass the middleware uncounted and have no     *)
(* part here.  A connection serves one request after another.              *)
(***************************************************************************)
EXTENDS Naturals, FiniteSets

CONSTANTS
    Connections,
    Routes, Segments,   \* the routes' labels, and first segments of no route
    Root,               \* "/", the label of a path without segments, and a route
    Overflow,           \* "/_unmatched"
    Methods, Statuses,
    UnmatchedCap,       \* UNMATCHED_ROUTE_LABEL_CAP
    MaxSeries,          \* DEFAULT_MAX_SERIES
    MaxRequests         \* bound: requests in a behaviour

ASSUME RequestMetricsAssumption ==
    /\ IsFiniteSet(Connections) /\ IsFiniteSet(Routes) /\ IsFiniteSet(Methods)
    /\ Root \in Routes /\ Routes \cap Segments = {}
    /\ {Overflow, "none"} \cap (Routes \cup Segments) = {}
    /\ UnmatchedCap \in Nat /\ MaxSeries \in Nat /\ MaxRequests \in Nat

VARIABLES
    request,                \* connection -> its request's path, or "none"
    done,                   \* connection -> whether finish has run for it
    httpInFlight,           \* http_requests_in_flight
    unmatchedRouteLabels,   \* _unmatchedRouteLabels
    series,                 \* metric -> its label tuples
    counted,                \* metric -> the observations in them
    seriesDropped,          \* xchain_metrics_series_dropped_total
    arrived                 \* history: the requests begun

registry == <<series, counted, seriesDropped>>
metricsVars == <<request, done, httpInFlight, unmatchedRouteLabels, registry, arrived>>

Metrics == {"http_requests_total", "http_request_duration_seconds"}

MetricsInit ==
    /\ request = [c \in Connections |-> "none"]
    /\ done = [c \in Connections |-> FALSE]
    /\ httpInFlight = 0
    /\ unmatchedRouteLabels = {}
    /\ series = [m \in Metrics |-> {}]
    /\ counted = [m \in Metrics |-> 0]
    /\ seriesDropped = [m \in Metrics |-> 0]
    /\ arrived = 0

-----------------------------------------------------------------------------

\* A request reaches the middleware.
Arrive(c) ==
    /\ request[c] = "none" /\ arrived < MaxRequests
    /\ \E path \in Routes \cup Segments : request' = [request EXCEPT ![c] = path]
    /\ done' = [done EXCEPT ![c] = FALSE]
    /\ httpInFlight' = httpInFlight + 1
    /\ arrived' = arrived + 1
    /\ UNCHANGED <<unmatchedRouteLabels, registry>>

\* Fault variant: every segment gets a label of its own.
RouteLabelUncapped(path, matched) ==
    IF matched \/ path \in unmatchedRouteLabels \cup {Root}
    THEN [label |-> path, labels |-> unmatchedRouteLabels]
    ELSE [label |-> path, labels |-> unmatchedRouteLabels \cup {path}]

\* routeLabel, with what it leaves of the set of labels given out.
RouteLabel(path, matched) ==
    IF matched \/ path \in unmatchedRouteLabels \cup {Root}
    THEN [label |-> path, labels |-> unmatchedRouteLabels]
    ELSE IF Cardinality(unmatchedRouteLabels) < UnmatchedCap
    THEN [label |-> path, labels |-> unmatchedRouteLabels \cup {path}]
    ELSE [label |-> Overflow, labels |-> unmatchedRouteLabels]

\* Whether a metric has, or may still take, a series.
Takes(metric, labels) ==
    labels \in series[metric] \/ Cardinality(series[metric]) < MaxSeries

\* Fault variant: what the cap turns away is forgotten.
ObserveSilently(at) ==
    /\ series' = [m \in Metrics |-> IF Takes(m, at[m]) THEN series[m] \cup {at[m]} ELSE series[m]]
    /\ counted' = [m \in Metrics |-> IF Takes(m, at[m]) THEN counted[m] + 1 ELSE counted[m]]
    /\ UNCHANGED seriesDropped

\* One observation on each metric, or one drop.
Observe(at) ==
    /\ series' = [m \in Metrics |-> IF Takes(m, at[m]) THEN series[m] \cup {at[m]} ELSE series[m]]
    /\ counted' = [m \in Metrics |-> IF Takes(m, at[m]) THEN counted[m] + 1 ELSE counted[m]]
    /\ seriesDropped' = [m \in Metrics |-> IF Takes(m, at[m]) THEN seriesDropped[m] ELSE seriesDropped[m] + 1]

\* A request that has been shed or hung up before the router saw it is unmatched.
Record(c) ==
    \E method \in Methods, status \in Statuses, matched \in (IF request[c] \in Routes THEN BOOLEAN ELSE {FALSE}) :
        LET route == RouteLabel(request[c], matched)
        IN  /\ unmatchedRouteLabels' = route.labels
            /\ Observe([m \in Metrics |-> IF m = "http_requests_total"
                                          THEN <<method, route.label, status>>
                                          ELSE <<method, route.label>>])

\* Fault variant: each event runs it.
FinishEachTime(c) ==
    /\ httpInFlight' = httpInFlight - 1
    /\ done' = [done EXCEPT ![c] = TRUE]
    /\ Record(c)

\* What both events run, once.
Finish(c) ==
    IF done[c]
    THEN UNCHANGED <<done, httpInFlight, unmatchedRouteLabels, registry>>
    ELSE /\ httpInFlight' = httpInFlight - 1
         /\ done' = [done EXCEPT ![c] = TRUE]
         /\ Record(c)

\* The response is handed over; its close is still to come.
ResponseFinishes(c) ==
    /\ request[c] # "none" /\ ~done[c]
    /\ Finish(c)
    /\ UNCHANGED <<request, arrived>>

\* After the response, or instead of it.
ResponseCloses(c) ==
    /\ request[c] # "none"
    /\ Finish(c)
    /\ request' = [request EXCEPT ![c] = "none"]
    /\ UNCHANGED arrived

MetricsNext == \E c \in Connections : Arrive(c) \/ ResponseFinishes(c) \/ ResponseCloses(c)

MetricsSpec == MetricsInit /\ [][MetricsNext]_metricsVars

-----------------------------------------------------------------------------

Open == {c \in Connections : request[c] # "none" /\ ~done[c]}

MetricsTypeOK ==
    /\ request \in [Connections -> Routes \cup Segments \cup {"none"}]
    /\ done \in [Connections -> BOOLEAN]
    /\ unmatchedRouteLabels \subseteq Routes \cup Segments
    /\ \A m \in Metrics : Cardinality(series[m]) <= MaxSeries

\* The gauge is the number of requests without an answer and goes back to nothing
\* with them, in whatever order the events of overlapping requests come and
\* whichever of a request's two events come at all (index.js:229-232, 254-257).
InFlightIsOpen ==
    /\ MetricsTypeOK
    /\ httpInFlight = Cardinality(Open)

\* Every request that has ended is on each metric once, counted or told as dropped:
\* the caps lose no request unsaid (metrics.js:25-29, 116-129).
EndedIsTold ==
    \A m \in Metrics : counted[m] + seriesDropped[m] + Cardinality(Open) = arrived

\* The gauge and the metrics agree on every request, whatever the order of the
\* events: it is open, or it has been told once.
RequestsTold == InFlightIsOpen /\ EndedIsTold

\* Segments that match no route spend no more of the budget than their cap and the
\* overflow: while the budget covers the routes beside those in every method in
\* use, no latency of a request is dropped, whatever paths are asked for and
\* however many (index.js:81-88).
UnmatchedLeaveRoom ==
    (UnmatchedCap + 1 + Cardinality(Routes)) * Cardinality(Methods) <= MaxSeries
        => seriesDropped["http_request_duration_seconds"] = 0
=============================================================================
