---------------------------- MODULE MCGasStation ----------------------------
(* Small instances of GasStation.  Two wallets: w1 signed t1, w2 signed   *)
(* t3.  Operations share nothing but the relayer, which keeps them apart,  *)
(* so requests meet on one operation id.                                   *)
EXTENDS GasStation, TLC

CONSTANTS w1, w2, t1, t3

MCSourceOf == [t \in Transactions |-> IF t = t3 THEN w2 ELSE w1]

Identical == Permutations(Handlers)
=============================================================================
