----------------------------- MODULE MCNodeCalls -----------------------------
(***************************************************************************)
(* NodeCalls with one slot in either gate: two requests fill a gate, are   *)
(* shed by it, and come back after an abort.  The worlds are a regtest     *)
(* node whose accumulated fees put the transaction over the cap, a main    *)
(* network, a main network with a cap, a node of another tier, one of      *)
(* another coin, and an encoder with nothing configured or pinned.         *)
(***************************************************************************)
EXTENDS NodeCalls

MCLimit == [g \in Gates |-> 1]

World(chain, network, coin, pinned, policy) ==
    [chain |-> chain, network |-> network, coin |-> coin, pinned |-> pinned, policy |-> policy]

MCWorlds ==
    { World("regtest", "regtest", "ours", TRUE, "over the cap"),
      World("mainnet", "mainnet", "ours", TRUE, "valid"),
      World("mainnet", "mainnet", "ours", FALSE, "over the cap"),
      World("testnet", "mainnet", "other", TRUE, "valid"),
      World("mainnet", "mainnet", "other", TRUE, "invalid"),
      World("unrecognised", "none", "ours", FALSE, "valid") }
=============================================================================
