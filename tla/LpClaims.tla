------------------------------ MODULE LpClaims ------------------------------
(***************************************************************************)
(* What the lending contracts promise the holders of vLP, without shares   *)
(* of individual holders, fees, borrowers or transfers: the pool's cash,   *)
(* the debt it counts as an asset, and the supply of claims on both.       *)
(***************************************************************************)
EXTENDS Integers, FiniteSets, Sums

CONSTANTS
  Loans,          \* a finite set
  VirtualShares   \* what the price of an empty pool is set by; positive

VARIABLES
  cash,    \* USDC the pool holds
  debt,    \* per loan, the principal the pool counts as an asset
  supply   \* claims in existence

claims == <<cash, debt, supply>>

Assets == cash + Total(debt, Loans)

Init ==
  /\ cash = 0
  /\ debt = [l \in Loans |-> 0]
  /\ supply = 0

\* Claims are bought, sold or given to the pool, never below their price.
Trade ==
  /\ debt' = debt
  /\ (Assets' + 1) * (supply + VirtualShares) >= (Assets + 1) * (supply' + VirtualShares)

\* Cash becomes debt of the same amount.
Lend(l) ==
  /\ debt[l] = 0
  /\ cash' < cash
  /\ debt' = [debt EXCEPT ![l] = cash - cash']
  /\ supply' = supply

\* A debt is settled: in full, or for what its collateral brought.
Recover(l) ==
  /\ debt[l] # 0
  /\ debt' = [debt EXCEPT ![l] = 0]
  /\ cash' >= cash
  /\ supply' = supply

\* The pool counts another book of loans from now on; no cash moves.
Rebase ==
  /\ debt' \in [Loans -> Nat]
  /\ UNCHANGED <<cash, supply>>

Next ==
  \/ Trade
  \/ \E l \in Loans : Lend(l) \/ Recover(l)
  \/ Rebase

Spec == Init /\ [][Next]_claims
=============================================================================
