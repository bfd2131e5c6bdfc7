--------------------------- MODULE MCInstanceLock ---------------------------
(***************************************************************************)
(* InstanceLock on one host with two boots, one of which runs the command  *)
(* line every container of a deployment has, the other a developer's own.  *)
(* The waits are cut to the fewest passes that still fail, repeat and give *)
(* up.                                                                     *)
(***************************************************************************)
EXTENDS InstanceLock

CONSTANTS b1, b2, node, nodeByHand

MCTwoCommands == [b \in Boots |-> IF b = b1 THEN node ELSE nodeByHand]
=============================================================================
