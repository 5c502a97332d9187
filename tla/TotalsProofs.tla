---------------------------- MODULE TotalsProofs ----------------------------
(***************************************************************************)
(* The laws of totals the invariance proofs need.  Every one follows from  *)
(* TotalSplit: a family's total is the value at one key plus the total of  *)
(* the rest.                                                               *)
(***************************************************************************)
EXTENDS Totals, FiniteSetTheorems, Functions, TLAPS

(* The family f without the key k.                                         *)
Without(f, k) == [x \in DOMAIN f \ {k} |-> f[x]]

(* The units a single key owns are as many as its value.                   *)
LEMMA UnitsOfKey ==
  ASSUME NEW k, NEW n \in Nat
  PROVE  IsFiniteSet({k} \X (1 .. n)) /\ Cardinality({k} \X (1 .. n)) = n
<1>1. IsFiniteSet({k}) /\ Cardinality({k}) = 1
  BY FS_Singleton
<1>2. IsFiniteSet(1 .. n) /\ Cardinality(1 .. n) = n
  BY FS_Interval
<1>3. /\ IsFiniteSet({k} \X (1 .. n))
      /\ Cardinality({k} \X (1 .. n)) = Cardinality({k}) * Cardinality(1 .. n)
  BY <1>1, <1>2, FS_Product, Zenon
<1>4. 1 * n = n
  OBVIOUS
<1> QED
  BY <1>1, <1>2, <1>3, <1>4, Zenon

(* A finite family of natural numbers has finitely many units.             *)
LEMMA UnitsFinite ==
  ASSUME NEW D, IsFiniteSet(D), NEW f \in [D -> Nat]
  PROVE  IsFiniteSet(Units(f)) /\ Total(f) \in Nat
<1> DEFINE h == [k \in D |-> {k} \X (1 .. f[k])]
           Parts == {{k} \X (1 .. f[k]) : k \in D}
<1>1. h \in Surjection(D, Parts)
  BY DEF Surjection
<1>2. IsFiniteSet(Parts)
  BY <1>1, FS_Surjection, Zenon
<1>3. ASSUME NEW P \in Parts
      PROVE  IsFiniteSet(P)
  <2>1. PICK k \in D : P = {k} \X (1 .. f[k])
    OBVIOUS
  <2>2. f[k] \in Nat
    OBVIOUS
  <2> QED
    BY <2>1, <2>2, UnitsOfKey, Zenon
<1>4. IsFiniteSet(UNION Parts)
  BY <1>2, <1>3, FS_UNION, Zenon
<1>5. Units(f) = UNION Parts
  BY DEF Units
<1> QED
  BY <1>4, <1>5, FS_CardinalityType DEF Total

(* A total splits into the value at one key and the total of the others.   *)
THEOREM TotalSplit ==
  ASSUME NEW D, IsFiniteSet(D), NEW f \in [D -> Nat], NEW k \in D
  PROVE  /\ Total(Without(f, k)) \in Nat
         /\ Total(f) = f[k] + Total(Without(f, k))
<1> DEFINE g == Without(f, k)
           own == {k} \X (1 .. f[k])
<1>1. g \in [D \ {k} -> Nat] /\ DOMAIN f = D /\ DOMAIN g = D \ {k}
  BY DEF Without
<1>2. IsFiniteSet(D \ {k})
  BY FS_RemoveElement
<1>3. IsFiniteSet(Units(g)) /\ Total(g) \in Nat
  BY <1>1, <1>2, UnitsFinite, Zenon
<1>4. f[k] \in Nat
  OBVIOUS
<1>5. IsFiniteSet(own) /\ Cardinality(own) = f[k]
  BY <1>4, UnitsOfKey, Zenon
<1>6. Units(f) = Units(g) \cup own
  BY <1>1 DEF Units, Without
<1>7. Units(g) \cap own = {}
  BY <1>1 DEF Units, Without
<1>8. Cardinality(Units(g) \cup own)
        = Cardinality(Units(g)) + Cardinality(own) - Cardinality(Units(g) \cap own)
  <2> HIDE DEF own
  <2> QED
    BY <1>3, <1>5, FS_Union, Zenon
<1>9. Cardinality({}) = 0
  BY FS_EmptySet
<1> QED
  BY <1>3, <1>4, <1>5, <1>6, <1>7, <1>8, <1>9 DEF Total

(* Changing the value at one key changes the total by the difference.      *)
THEOREM TotalExcept ==
  ASSUME NEW D, IsFiniteSet(D), NEW f \in [D -> Nat], NEW h \in [D -> Nat],
         NEW k \in D, \A x \in D \ {k} : h[x] = f[x]
  PROVE  /\ Total(f) \in Nat /\ Total(h) \in Nat
         /\ Total(h) - h[k] = Total(f) - f[k]
<1>1. Without(h, k) = Without(f, k)
  BY DEF Without
<1>2. /\ Total(Without(f, k)) \in Nat
      /\ Total(f) = f[k] + Total(Without(f, k))
      /\ Total(h) = h[k] + Total(Without(h, k))
  BY TotalSplit, Zenon
<1>3. f[k] \in Nat /\ h[k] \in Nat
  OBVIOUS
<1> QED
  BY <1>1, <1>2, <1>3

(* A new key with value 0 leaves the total as it was.                      *)
THEOREM TotalExtend ==
  ASSUME NEW D, IsFiniteSet(D), NEW f \in [D -> Nat], NEW k, k \notin D,
         NEW h \in [D \cup {k} -> Nat], \A x \in D : h[x] = f[x], h[k] = 0
  PROVE  Total(h) = Total(f)
<1>1. IsFiniteSet(D \cup {k})
  BY FS_AddElement
<1>2. Without(h, k) = f
  BY DEF Without
<1>3. /\ Total(Without(h, k)) \in Nat
      /\ Total(h) = h[k] + Total(Without(h, k))
  <2>1. k \in D \cup {k}
    OBVIOUS
  <2> QED
    BY <1>1, <2>1, TotalSplit, Zenon
<1> QED
  BY <1>2, <1>3

(* No member of a family exceeds its total.                                *)
THEOREM TotalBounds ==
  ASSUME NEW D, IsFiniteSet(D), NEW f \in [D -> Nat], NEW k \in D
  PROVE  f[k] <= Total(f)
<1>1. /\ Total(Without(f, k)) \in Nat
      /\ Total(f) = f[k] + Total(Without(f, k))
  BY TotalSplit, Zenon
<1>2. f[k] \in Nat
  OBVIOUS
<1> QED
  BY <1>1, <1>2

(* A family of zeros, an empty one in particular, has total 0.             *)
THEOREM TotalZero ==
  ASSUME NEW D, NEW f \in [D -> Nat], \A x \in D : f[x] = 0
  PROVE  Total(f) = 0
<1>1. Units(f) = {}
  BY DEF Units
<1> QED
  BY <1>1, FS_EmptySet DEF Total
=============================================================================
