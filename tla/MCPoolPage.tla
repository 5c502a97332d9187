----------------------------- MODULE MCPoolPage -----------------------------
(* Small instances of PoolPage.  Two loads, two events, a wallet that comes *)
(* and goes, failing reads and reward claims are too many states together, *)
(* so a behaviour belongs to one of three scenes, each with bounds of its  *)
(* own: two loads at a time with one event and a wallet, whose reads do    *)
(* not fail; two loads with two events and no wallet; and one load with    *)
(* everything.                                                             *)
EXTENDS PoolPage, FiniteSets, TLC

VARIABLE scene

MCScenes ==
  {[atOnce |-> 2, events |-> 1, wallets |-> Wallets, fails |-> FALSE, claims |-> FALSE],
   [atOnce |-> 2, events |-> 2, wallets |-> {},      fails |-> TRUE,  claims |-> FALSE],
   [atOnce |-> 1, events |-> 2, wallets |-> Wallets, fails |-> TRUE,  claims |-> TRUE]}

MCInit == Init /\ scene \in MCScenes

MCNext ==
  /\ Next /\ UNCHANGED scene
  /\ Cardinality({l \in Loads : loads'[l] # Idle}) <= scene.atOnce
  /\ chain' <= scene.events
  /\ wallet' \in scene.wallets \cup {Nothing}
  /\ submitting'.kind = "claim" => scene.claims
  /\ ~scene.fails => \A l \in Loads : loads'[l].at # "failed" /\ ~loads'[l].detached

MCSpec == MCInit /\ [][MCNext]_<<vars, scene>>

Alike == Permutations(Loads)
=============================================================================
