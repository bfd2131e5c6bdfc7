--------------------------- MODULE MCOperatorView ---------------------------
(***************************************************************************)
(* What an operator is shown of the server: the lines of LogShipper, the   *)
(* series of RequestMetrics and the window of MaintenanceWindow.  They     *)
(* share no state, so a behaviour is of one of them, its part, and the     *)
(* others stay as they started.                                            *)
(*                                                                         *)
(* Lines: batches of two and a buffer of three, so that a failed batch     *)
(* finds room for all, one or none of its lines.  Requests: two            *)
(* connections, two routes, three segments for one label of their own, and *)
(* one method: the budget just holds the latencies, and the totals, which  *)
(* have a label more, outgrow it.  Probes: two, with a window of two and a *)
(* clock that holds two windows and more, before and after a probe.        *)
(***************************************************************************)
EXTENDS LogShipper, RequestMetrics, MaintenanceWindow

CONSTANTS root, status, s1, s2, s3, one, two, get, fleet, board

VARIABLE part

MCInit ==
    /\ part \in {"lines", "requests", "probes"}
    /\ Init /\ MetricsInit /\ WindowInit

MCNext ==
    /\ \/ part = "lines" /\ Next /\ UNCHANGED <<metricsVars, windowVars>>
       \/ part = "requests" /\ MetricsNext /\ UNCHANGED <<vars, windowVars>>
       \/ part = "probes" /\ WindowNext /\ UNCHANGED <<vars, metricsVars>>
    /\ UNCHANGED part

\* The shipper's fairness; its actions change nothing in the other parts.
MCSpec ==
    /\ MCInit /\ [][MCNext]_<<vars, metricsVars, windowVars, part>>
    /\ WF_vars(Tick) /\ WF_vars(PostSucceeds \/ PostFails)
=============================================================================
