------------------------------ MODULE MCLending ------------------------------
(***************************************************************************)
(* A small instance of Lending: one liquidity provider, one borrower and   *)
(* the treasury that receives fees, two books, so that the vault can be    *)
(* re-wired under open loans.                                              *)
(***************************************************************************)
EXTENDS Lending, FiniteSetsExt, TLC

CONSTANTS lp, bor, treasury

MCHolders == {lp, bor, treasury}
MCEndowment == [h \in MCHolders |-> IF h = lp THEN 40 ELSE IF h = bor THEN 2 ELSE 0]

\* Neither the books nor the ids of their loans are told apart by the code.
Symmetry == Permutations(Books) \cup Permutations(LoanIds)

\* Counting units agrees with the community fold on every small function.
ASSUME TotalIsTheSum ==
  \A f \in [1 .. 3 -> 0 .. 3] :
    Total(f, 1 .. 3) = MapThenSumSet(LAMBDA x : f[x], 1 .. 3)
=============================================================================
