--------------------------- MODULE MCReservations ---------------------------
(***************************************************************************)
(* Instances of Reservations for TLC: outpoints of two transactions, a     *)
(* TTL of two ticks, and sets of jobs.  Greedy candidates come in the      *)
(* order of their values, o1 before o2 before o3, as filterAndOrderUtxos   *)
(* leaves them; a caller that names its inputs keeps its own order.        *)
(***************************************************************************)
EXTENDS Reservations

CONSTANTS o1, o2, o3

Job(utxos, need, exact, keyed) ==
    [utxos |-> utxos, need |-> need, exact |-> exact, keyed |-> keyed, outputs |-> need]

TxOfOutpoint == [o \in {o1, o2, o3} |-> IF o = o1 THEN "t1" ELSE "t2"]

\* Keyed greedy builds that need one input or both, a named set, and a payment
\* that needs the whole of another address and waits for nothing.
MixedJobs == {Job(<<o1, o2>>, 1, FALSE, TRUE), Job(<<o1, o2>>, 2, FALSE, TRUE),
              Job(<<o2, o1>>, 1, TRUE, FALSE), Job(<<o2, o3>>, 2, FALSE, FALSE)}

\* One commit outpoint, spent by cancels and by builds.
CommitJobs == {Job(<<o1>>, 1, FALSE, FALSE), Job(<<o1>>, 1, TRUE, FALSE)}

\* The commit outpoint among a build's other candidates.
CancelJobs == {Job(<<o1, o2>>, 2, FALSE, FALSE), Job(<<o1>>, 1, TRUE, FALSE)}

\* Calls of one kind are interchangeable: every job is given to every build.
Symmetry == Permutations(Builds) \cup Permutations(Cancels)
=============================================================================
