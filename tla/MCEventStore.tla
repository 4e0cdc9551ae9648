----------------------------- MODULE MCEventStore -----------------------------
(***************************************************************************)
(* A small instance of EventStore: two events of the same length, so that  *)
(* one can be read in the place of the other, and a shorter one.           *)
(***************************************************************************)
EXTENDS EventStore, TLC

CONSTANTS e1, e2, e3

MCBodyLen == (e1 :> 2) @@ (e2 :> 2) @@ (e3 :> 1)

\* Events of one length are not told apart by the code.
Symmetry == Permutations({e1, e2})
=============================================================================
