----------------------------- MODULE OneHandoff -----------------------------
(***************************************************************************)
(* What the gas station promises about the transactions it is given: an    *)
(* operation is claimed for one transaction, once and for ever, and that   *)
(* transaction is handed to the relayer at most once.                      *)
(***************************************************************************)
CONSTANTS OperationIds, Transactions, Nobody

VARIABLES
  claim,   (* what each operation is claimed for, or Nobody           *)
  given    (* the operations whose transaction was handed over        *)

handoffVars == <<claim, given>>

HandoffInit ==
  /\ claim = [id \in OperationIds |-> Nobody]
  /\ given = [id \in OperationIds |-> {}]

Claim(id, tx) ==
  /\ claim[id] = Nobody
  /\ claim' = [claim EXCEPT ![id] = tx]
  /\ UNCHANGED given

Give(id) ==
  /\ claim[id] # Nobody
  /\ given[id] = {}
  /\ given' = [given EXCEPT ![id] = {<<1, claim[id]>>}]
  /\ UNCHANGED claim

HandoffNext ==
  \E id \in OperationIds : Give(id) \/ \E tx \in Transactions : Claim(id, tx)

HandoffSpec == HandoffInit /\ [][HandoffNext]_handoffVars
=============================================================================
