--------------------------- MODULE MCTalambagCore ---------------------------
(* A small instance of TalambagCore: two signers and the contract, one     *)
(* token and one asset that is no token contract.  The holdings sum to     *)
(* more than I128Max, so that a transfer can overflow its receiver.        *)
EXTENDS TalambagCore

CONSTANTS a1, a2

MCInitialTokens ==
  [t \in Tokens |-> [h \in Holders |-> CASE h = a1 -> 2 [] h = a2 -> 1 [] OTHER -> 0]]
=============================================================================
