------------------------------- MODULE Lending -------------------------------
(***************************************************************************)
(* The vault and its books implement LpClaims: cash is the vault's USDC,   *)
(* and the debt counted is that of the open loans of the wired book, read  *)
(* from the loan records and not from the outstandingPrincipal counter.    *)
(***************************************************************************)
EXTENDS LoanBook

AllLoans == Books \X LoanIds

CountedDebt ==
  [l \in AllLoans |-> IF l[1] = loanBook THEN Owed(l[1])[l[2]] ELSE 0]

Claims == INSTANCE LpClaims WITH
            Loans <- AllLoans, cash <- usdc[Vault], debt <- CountedDebt,
            supply <- totalSupply

\* Every transaction of the contracts is a trade, a loan, a recovery or a
\* change of book as LP holders see them, or does not concern them.
ImplementsLpClaims == Claims!Spec
=============================================================================
