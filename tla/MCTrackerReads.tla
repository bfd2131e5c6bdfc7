--------------------------- MODULE MCTrackerReads ---------------------------
(***************************************************************************)
(* TrackerReads over chains of at most two blocks with two names, so that  *)
(* a rewind can come back at the same height, and an address that fits a   *)
(* page, needs two, or exceeds the cap, depending on the chain.            *)
(***************************************************************************)
EXTENDS TrackerReads

FirstOutputs(b) == IF b = "a" THEN {1, 2, 3} ELSE {1, 2, 4}

MCOutputsOf ==
    [c \in Chains |->
        CASE Len(c) = 0 -> {}
          [] Len(c) = 1 -> FirstOutputs(c[1])
          [] OTHER      -> IF c[2] = "a" THEN FirstOutputs(c[1]) \cup {5} ELSE FirstOutputs(c[1]) \ {1}]
=============================================================================
