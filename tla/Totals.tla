------------------------------- MODULE Totals -------------------------------
(***************************************************************************)
(* The total of a finite family of natural numbers, as the number of its   *)
(* units: the family f owns the units <<k, 1>>, ..., <<k, f[k]>> for every *)
(* key k.  Counting units needs no recursion, so the laws of totals follow *)
(* from the laws of cardinality (module TotalsProofs).                     *)
(***************************************************************************)
EXTENDS Naturals, FiniteSets

Units(f) == UNION { {k} \X (1 .. f[k]) : k \in DOMAIN f }

Total(f) == Cardinality(Units(f))
=============================================================================
