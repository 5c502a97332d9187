------------------------------- MODULE Escrow -------------------------------
(***************************************************************************)
(* What the core contract promises the people who put money in it.  A pot  *)
(* holds an amount of one asset; the custodian's reserve of a token is     *)
(* what it really owns of it.  Money enters and leaves a pot together with *)
(* the reserve; the reserve may also receive money no pot is credited for. *)
(* This module knows nothing of groups, members, roles or identifiers.     *)
(***************************************************************************)
EXTENDS Naturals

CONSTANTS
  PotKeys,   (* names a pot may have                       *)
  Assets,    (* what a pot may be denominated in           *)
  Tokens,    (* the assets that can be moved               *)
  Amounts    (* the amounts one payment may have           *)

VARIABLES
  pots,      (* the open pots: key -> [asset, amount]      *)
  reserve    (* what the custodian owns of each token      *)

escrowVars == <<pots, reserve>>

EscrowInit ==
  /\ DOMAIN pots = {}
  /\ reserve \in [Tokens -> Nat]

Open(k, a) ==
  /\ k \notin DOMAIN pots
  /\ pots' = [x \in DOMAIN pots \cup {k} |->
                IF x = k THEN [asset |-> a, amount |-> 0] ELSE pots[x]]
  /\ UNCHANGED reserve

PayIn(k, n) ==
  /\ pots[k].asset \in Tokens
  /\ pots' = [pots EXCEPT ![k].amount = @ + n]
  /\ reserve' = [reserve EXCEPT ![pots[k].asset] = @ + n]

PayOut(k, n) ==
  /\ pots[k].asset \in Tokens
  /\ n <= pots[k].amount
  /\ pots' = [pots EXCEPT ![k].amount = @ - n]
  /\ reserve' = [reserve EXCEPT ![pots[k].asset] = @ - n]

(* The organizer names the custodian itself as the payee: the money leaves *)
(* the pot and stays in the reserve.                                       *)
Strand(k, n) ==
  /\ n <= pots[k].amount
  /\ pots' = [pots EXCEPT ![k].amount = @ - n]
  /\ UNCHANGED reserve

Donate(t, n) ==
  /\ reserve' = [reserve EXCEPT ![t] = @ + n]
  /\ UNCHANGED pots

EscrowNext ==
  \/ \E k \in PotKeys, a \in Assets : Open(k, a)
  \/ \E k \in DOMAIN pots, n \in Amounts : PayIn(k, n) \/ PayOut(k, n) \/ Strand(k, n)
  \/ \E t \in Tokens, n \in Amounts : Donate(t, n)

EscrowSpec == EscrowInit /\ [][EscrowNext]_escrowVars
=============================================================================
