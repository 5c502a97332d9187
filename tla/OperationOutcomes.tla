------------------------- MODULE OperationOutcomes --------------------------
(***************************************************************************)
(* What browsers and the gas station agree on about an operation: it is    *)
(* under way once the station has taken it, it ends one way and for good,  *)
(* and whatever the station says of it meanwhile is that it is pending or  *)
(* how it has ended.                                                       *)
(***************************************************************************)
CONSTANT Ids

VARIABLE outcome   (* absent, under way, or how each operation ended       *)

Ends == {"succeeded", "failed"}

OutcomesInit == outcome = [id \in Ids |-> "absent"]

Take(id) ==
  /\ outcome[id] = "absent"
  /\ outcome' = [outcome EXCEPT ![id] = "underway"]

End(id) ==
  /\ outcome[id] = "underway"
  /\ \E end \in Ends : outcome' = [outcome EXCEPT ![id] = end]

OutcomesNext == \E id \in Ids : Take(id) \/ End(id)

OutcomesSpec == OutcomesInit /\ [][OutcomesNext]_outcome

(* What may be said of an operation.                                       *)
Sayable(id) ==
  IF outcome[id] = "absent" THEN {} ELSE {"pending"} \cup ({outcome[id]} \cap Ends)
=============================================================================
