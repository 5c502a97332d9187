--------------------------- MODULE MCRewardToken ----------------------------
(* A small instance of RewardToken: two signers and one address that only  *)
(* holds tokens, two contracts that may be linked as the core contract.    *)
EXTENDS RewardToken

CONSTANTS a1, a2
=============================================================================
