------------------------------- MODULE Browser ------------------------------
(* What the browser's modules share: tabs of one origin have one local     *)
(* storage and one cookie jar.  A read and a write of local storage made   *)
(* without an await in between are one step.                               *)
EXTENDS Naturals, Sequences

CONSTANTS
  Tabs,      (* open tabs of the application                              *)
  Wallets,   (* Stellar accounts of the user                              *)
  Nothing    (* null                                                      *)

ASSUME BrowserAssumption == Nothing \notin Wallets
=============================================================================
