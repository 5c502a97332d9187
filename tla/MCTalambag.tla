----------------------------- MODULE MCTalambag -----------------------------
(* Small instances of the pair of contracts: each funded account starts    *)
(* with one token, the contract with none.  A second core contract, other, *)
(* may be linked and call as it likes.  With I128Max = 1 the reward totals *)
(* are at their limit after one deposit.                                   *)
EXTENDS Talambag

CONSTANTS a1, a2, Funded

MCInitialTokens ==
  [t \in Tokens |-> [h \in Holders |-> IF h \in Funded THEN 1 ELSE 0]]
=============================================================================
