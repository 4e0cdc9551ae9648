------------------------------ MODULE LoanBook ------------------------------
(***************************************************************************)
(* contracts/src/LoanBook.sol over the vault it draws from.  Every         *)
(* state-changing call is onlyOwner, so the one caller is the agent's      *)
(* origination key and an action is one of its transactions.  Several      *)
(* books exist because the vault can be re-wired to a successor while the  *)
(* loans of its predecessor are still open.                                *)
(***************************************************************************)
EXTENDS LpVault

CONSTANTS
  LoanIds,      \* loan ids (bytes32)
  NoOne,        \* address(0) as borrower or fee receiver
  Borrowers,    \* the addresses loans are paid to
  Treasuries,   \* the addresses setFeeReceiver is called with
  Principals,   \* the principals an origination may name
  FeeChoices,   \* the fees setOriginationFeeBps is called with
  FeeBpsCap     \* FEE_BPS_CAP

BPS == 10000

ASSUME BookAssumption ==
  /\ IsFiniteSet(LoanIds)
  /\ NoOne \notin Accounts
  /\ Borrowers \subseteq Holders
  /\ Treasuries \subseteq Holders
  /\ Principals \subseteq Nat
  /\ FeeChoices \subseteq Nat
  /\ FeeBpsCap \in Nat /\ FeeBpsCap < BPS

VARIABLES
  status,       \* loans[id].status of each book
  borrower,     \* loans[id].borrower
  principal,    \* loans[id].principal
  feeBps,       \* origination fee of each book
  feeReceiver   \* who receives it

loanVars == <<status, borrower, principal>>
feeVars == <<feeBps, feeReceiver>>
bookVars == <<outstandingPrincipal, loanVars, feeVars>>
vars == <<vaultVars, bookVars>>

Statuses == {"None", "Active", "Repaid", "Liquidated"}

-----------------------------------------------------------------------------
BookInit ==
  /\ outstandingPrincipal = [b \in Books |-> 0]
  /\ status = [b \in Books |-> [i \in LoanIds |-> "None"]]
  /\ borrower = [b \in Books |-> [i \in LoanIds |-> NoOne]]
  /\ principal = [b \in Books |-> [i \in LoanIds |-> 0]]
  /\ feeBps = [b \in Books |-> 0]
  /\ feeReceiver = [b \in Books |-> NoOne]

Init == VaultInit /\ BookInit

\* Mutant: the cap is not enforced.
SetFeeUncapped(b, newBps) ==
  /\ feeBps' = [feeBps EXCEPT ![b] = newBps]
  /\ UNCHANGED <<vaultVars, outstandingPrincipal, loanVars, feeReceiver>>

SetOriginationFeeBps(b, newBps) ==
  /\ newBps <= FeeBpsCap
  /\ feeBps' = [feeBps EXCEPT ![b] = newBps]
  /\ UNCHANGED <<vaultVars, outstandingPrincipal, loanVars, feeReceiver>>

SetFeeReceiver(b, receiver) ==
  /\ receiver # NoOne
  /\ feeReceiver' = [feeReceiver EXCEPT ![b] = receiver]
  /\ UNCHANGED <<vaultVars, outstandingPrincipal, loanVars, feeBps>>

AcceptLpVaultWiring(b) ==
  /\ loanBook # b
  /\ AcceptLoanBook(b)
  /\ UNCHANGED bookVars

\* The fee an origination of book b charges on p.
Fee(b, p) ==
  IF feeBps[b] # 0 /\ feeReceiver[b] # NoOne THEN (p * feeBps[b]) \div BPS ELSE 0

\* Mutant: the fee is drawn on top of the principal.
FeeOnTop(b, to, p) == Drawn(Drawn(usdc, to, p), feeReceiver[b], Fee(b, p))

\* The draws of one origination: the borrower's share, then the fee.
FundedBalances(b, to, p) ==
  LET fee == Fee(b, p)
      net == Drawn(usdc, to, p - fee)
  IN  IF fee = 0 THEN net ELSE Drawn(net, feeReceiver[b], fee)

\* Each draw of the transaction must find its USDC in the vault.
Fundable(b, to, p) ==
  LET fee == Fee(b, p)
  IN  /\ fee < p
      /\ MayDraw(b, usdc, p - fee)
      /\ fee # 0 => MayDraw(b, Drawn(usdc, to, p - fee), fee)

Originate(b, i, to, p) ==
  /\ p # 0
  /\ status[b][i] = "None"
  /\ Fundable(b, to, p)
  /\ status' = [status EXCEPT ![b][i] = "Active"]
  /\ borrower' = [borrower EXCEPT ![b][i] = to]
  /\ principal' = [principal EXCEPT ![b][i] = p]
  /\ outstandingPrincipal' = [outstandingPrincipal EXCEPT ![b] = @ + p]
  /\ usdc' = FundedBalances(b, to, p)
  /\ UNCHANGED <<shares, totalSupply, loanBook, pendingLoanBook, calls, feeVars>>

\* Mutant: the exposure falls by what was recovered.
CloseByProceeds(b, i, outcome, payer, amount) ==
  /\ status[b][i] = "Active"
  /\ status' = [status EXCEPT ![b][i] = outcome]
  /\ outstandingPrincipal' = [outstandingPrincipal EXCEPT ![b] = @ - amount]
  /\ amount <= usdc[payer]
  /\ usdc' = Transferred(usdc, payer, Vault, amount)
  /\ UNCHANGED <<shares, totalSupply, loanBook, pendingLoanBook, calls,
                 borrower, principal, feeVars>>

\* The end of a loan: its principal leaves the book's exposure and `amount`
\* is pulled from an account into the vault.
Close(b, i, outcome, payer, amount) ==
  /\ status[b][i] = "Active"
  /\ status' = [status EXCEPT ![b][i] = outcome]
  /\ outstandingPrincipal' = [outstandingPrincipal EXCEPT ![b] = @ - principal[b][i]]
  /\ amount <= usdc[payer]
  /\ usdc' = Transferred(usdc, payer, Vault, amount)
  /\ UNCHANGED <<shares, totalSupply, loanBook, pendingLoanBook, calls,
                 borrower, principal, feeVars>>

MarkRepaid(b, i) == Close(b, i, "Repaid", borrower[b][i], principal[b][i])

\* proceeds = 0 records a total loss and pulls nothing.
MarkLiquidated(b, i, escrow, proceeds) == Close(b, i, "Liquidated", escrow, proceeds)

-----------------------------------------------------------------------------
VaultStep ==
  /\ \/ LpStep /\ CountCall
     \/ \E h \in Donors, amount \in Amounts : Donate(h, amount) /\ CountCall
     \/ \E next \in Books \cup {NoBook} : ProposeLoanBook(next)
  /\ UNCHANGED bookVars

BookStep(b) ==
  \/ \E bps \in FeeChoices : SetOriginationFeeBps(b, bps)
  \/ \E t \in Treasuries : SetFeeReceiver(b, t)
  \/ AcceptLpVaultWiring(b)
  \/ \E i \in LoanIds, to \in Borrowers, p \in Principals : Originate(b, i, to, p)
  \/ \E i \in LoanIds : MarkRepaid(b, i)
  \/ \E i \in LoanIds, escrow \in Borrowers, proceeds \in Amounts \cup {0} :
       MarkLiquidated(b, i, escrow, proceeds)

Next == VaultStep \/ \E b \in Books : BookStep(b)

Spec == Init /\ [][Next]_vars

-----------------------------------------------------------------------------
TypeOK ==
  /\ usdc \in [Accounts -> Nat]
  /\ shares \in [Lps -> Nat]
  /\ totalSupply \in Nat
  /\ calls \in 0 .. MaxCalls
  /\ loanBook \in Books \cup {NoBook}
  /\ pendingLoanBook \in Books \cup {NoBook}
  /\ outstandingPrincipal \in [Books -> Nat]
  /\ status \in [Books -> [LoanIds -> Statuses]]
  /\ borrower \in [Books -> [LoanIds -> Borrowers \cup {NoOne}]]
  /\ principal \in [Books -> [LoanIds -> Nat]]
  /\ feeBps \in [Books -> 0 .. FeeBpsCap]
  /\ feeReceiver \in [Books -> Treasuries \cup {NoOne}]

-----------------------------------------------------------------------------
(* Safety.                                                                 *)

\* The principal a book still has out on loan i.
Owed(b) ==
  [i \in LoanIds |-> IF status[b][i] = "Active" THEN principal[b][i] ELSE 0]

\* What LpVault.totalAssets() trusts: the counter a book maintains by hand in
\* originate, markRepaid and markLiquidated is the sum over its open loans,
\* for the wired book and for every book wired before it.
OutstandingIsActive ==
  \A b \in Books : outstandingPrincipal[b] = Total(Owed(b), LoanIds)

\* A loan follows None, Active, then Repaid or Liquidated, once; its borrower
\* and principal are those of its origination for ever after, whatever is
\* called on whichever book.
LifecycleStep(b, i) ==
  /\ <<status[b][i], status'[b][i]>> \in
       {<<s, s>> : s \in Statuses} \cup
       {<<"None", "Active">>, <<"Active", "Repaid">>, <<"Active", "Liquidated">>}
  /\ status[b][i] # "None" =>
       principal'[b][i] = principal[b][i] /\ borrower'[b][i] = borrower[b][i]

LoansFollowLifecycle ==
  [][\A b \in Books, i \in LoanIds : LifecycleStep(b, i)]_vars

\* Loan i of the wired book is being originated.
Lends(i) ==
  /\ loanBook \in Books
  /\ status[loanBook][i] = "None" /\ status'[loanBook][i] = "Active"

\* USDC leaves the vault in two ways only: to an LP whose shares are burned,
\* or as exactly the principal (fee included) of one new loan of the wired
\* book.  A book that was replaced can no longer reach the vault's money.
VaultPaysLpsAndLoansOnly ==
  [][usdc'[Vault] < usdc[Vault] =>
       \/ totalSupply' < totalSupply
       \/ \E i \in LoanIds :
            Lends(i) /\ usdc[Vault] - usdc'[Vault] = principal'[loanBook][i]]_vars

\* Loan i of the wired book is being liquidated.
WritesOff(i) ==
  /\ loanBook \in Books
  /\ status[loanBook][i] = "Active" /\ status'[loanBook][i] = "Liquidated"

\* No call makes a share worth less: not an origination with its fee split,
\* not a repayment, not the rounding of anyone's deposit or withdrawal.  Two
\* do by design: a liquidation, by no more than the principal it writes off,
\* and wiring another book, whose exposure replaces that of the last one.
SharePriceHolds ==
  [][\/ PricedAssets' * PricedShares >= PricedAssets * PricedShares'
     \/ /\ totalSupply' = totalSupply
        /\ \E i \in LoanIds :
             WritesOff(i) /\ TotalAssets' >= TotalAssets - principal[loanBook][i]
     \/ loanBook' # loanBook]_vars

-----------------------------------------------------------------------------
(* What makes the invariants inductive.                                    *)

\* No vLP exists that no LP holds, so burning an LP's shares never underflows.
SupplyIsHeld == totalSupply = Total(shares, Lps)

\* A repayment always has an account to pull from and something to pull.
LoansHaveTerms ==
  \A b \in Books, i \in LoanIds :
    status[b][i] # "None" => borrower[b][i] \in Borrowers /\ principal[b][i] # 0

IInv == TypeOK /\ OutstandingIsActive /\ SupplyIsHeld /\ LoansHaveTerms
=============================================================================
