------------------------------- MODULE Ledger -------------------------------
(* What both contracts take from the Soroban ledger they run on: the       *)
(* addresses and the widths of the numbers they store.                     *)
EXTENDS Naturals, FiniteSets

CONSTANTS
  Accounts,  (* addresses that can sign a transaction                     *)
  Holders,   (* every address: what can own tokens or be made a member    *)
  None,      (* an unset optional address                                 *)
  U32Max,    (* largest u32                                               *)
  I128Max    (* largest i128                                              *)

ASSUME LedgerAssumption ==
  /\ Accounts \subseteq Holders
  /\ IsFiniteSet(Holders)
  /\ U32Max \in Nat \ {0}
  /\ I128Max \in Nat \ {0}

GroupIds == 1 .. U32Max
PoolIds  == 1 .. U32Max
Amounts  == 1 .. I128Max
I128     == 0 .. I128Max
=============================================================================
