------------------------------ MODULE MCIndexer ------------------------------
(* Small instances of Indexer: pages of one or two events, ledgers of up   *)
(* to two, so that a page boundary may fall inside a ledger.               *)
EXTENDS Indexer, TLC

CONSTANTS p1, p2

Alike == Permutations(Processes)
=============================================================================
