-------------------------------- MODULE Sums --------------------------------
(***************************************************************************)
(* The sum of a Nat-valued function over a finite set, as the number of    *)
(* units it hands out: x contributes the pairs <<x, 1>> .. <<x, f[x]>>.    *)
(* Stating a sum as a cardinality needs no recursion, so what one update   *)
(* of f does to it (SumsProofs) follows from the finite-set theorems.      *)
(***************************************************************************)
EXTENDS Naturals, FiniteSets

UnitsOf(f, x) == {x} \X (1 .. f[x])

Units(f, S) == UNION {UnitsOf(f, x) : x \in S}

Total(f, S) == Cardinality(Units(f, S))
=============================================================================
