------------------------------- MODULE LpVault -------------------------------
(***************************************************************************)
(* contracts/src/LpVault.sol: the ERC-4626 pool that funds every loan, its *)
(* two-step LoanBook wiring and its draw path.                             *)
(***************************************************************************)
EXTENDS Erc4626

CONSTANTS
  Books,          \* the LoanBook contracts deployed for this vault
  NoBook          \* address(0) in loanBook and pendingLoanBook

ASSUME VaultAssumption == NoBook \notin Books

VARIABLES
  loanBook,              \* the wired LoanBook
  pendingLoanBook,       \* the LoanBook that may accept
  outstandingPrincipal   \* ILoanBook: what each book reports as lent out

vaultVars == <<ledger, loanBook, pendingLoanBook, calls>>

-----------------------------------------------------------------------------
(* Total assets and the value of a share.                                  *)

\* Mutant: loans out are no longer assets.
TotalAssetsIdleOnly == usdc[Vault]

TotalAssets ==
  usdc[Vault] + (IF loanBook = NoBook THEN 0 ELSE outstandingPrincipal[loanBook])

\* OpenZeppelin prices a share at (totalAssets + 1) : (totalSupply + virtual).
PricedAssets == TotalAssets + 1
PricedShares == totalSupply + VirtualShares

-----------------------------------------------------------------------------
VaultInit ==
  /\ LedgerInit
  /\ loanBook = NoBook
  /\ pendingLoanBook = NoBook

\* The four entry points of ERC4626; each rounds in favour of the vault.
Deposit(h, assets) ==
  TakeIn(h, assets, Floor(assets * PricedShares, PricedAssets))

Mint(h, minted) ==
  TakeIn(h, Ceil(minted * PricedAssets, PricedShares), minted)

Withdraw(h, assets) ==
  /\ assets <= Floor(shares[h] * PricedAssets, PricedShares)
  /\ PayOut(h, assets, Ceil(assets * PricedShares, PricedAssets))

Redeem(h, burned) ==
  PayOut(h, Floor(burned * PricedAssets, PricedShares), burned)

LpStep ==
  /\ \E h \in Lps :
       \/ \E assets \in Amounts : Deposit(h, assets) \/ Withdraw(h, assets)
       \/ \E s \in ShareAmounts : Mint(h, s) \/ Redeem(h, s)
  /\ UNCHANGED <<loanBook, pendingLoanBook>>

Donate(h, amount) ==
  /\ SendToVault(h, amount)
  /\ UNCHANGED <<loanBook, pendingLoanBook>>

-----------------------------------------------------------------------------
(* Wiring.                                                                 *)

\* A fresh proposal silently replaces the pending one; address(0) clears it.
ProposeLoanBook(next) ==
  /\ pendingLoanBook' = next
  /\ UNCHANGED <<usdc, shares, totalSupply, loanBook, calls>>

AcceptLoanBook(sender) ==
  /\ pendingLoanBook # NoBook
  /\ sender = pendingLoanBook
  /\ loanBook' = pendingLoanBook
  /\ pendingLoanBook' = NoBook
  /\ UNCHANGED <<usdc, shares, totalSupply, calls>>

-----------------------------------------------------------------------------
(* drawFor, as a predicate on the caller and the balances it would leave:  *)
(* a transaction of the book may draw twice.                               *)

\* Mutant: any caller may draw once a book is wired.
MayDrawAnyone(sender, bal, amount) == loanBook # NoBook /\ amount <= bal[Vault]

MayDraw(sender, bal, amount) ==
  /\ loanBook # NoBook
  /\ sender = loanBook
  /\ amount <= bal[Vault]

Drawn(bal, to, amount) == Transferred(bal, Vault, to, amount)
=============================================================================
