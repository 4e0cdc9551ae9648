---------------------------- MODULE LendingProofs ----------------------------
(***************************************************************************)
(* Theorems about the vault and its books, for every set of holders, books *)
(* and loan ids and every amount: first the inductive invariant and the    *)
(* price of a share, then the refinement of LpClaims, whose initial states *)
(* map to initial states and every transaction to a step of the abstract   *)
(* pool or to a stutter.                                                   *)
(***************************************************************************)
EXTENDS Lending, SumsProofs

\* Integer division of naturals gives a natural; rounding up is no different.
LEMMA DivisionNat ==
  ASSUME NEW n \in Nat, NEW d \in Nat \ {0}
  PROVE  /\ Floor(n, d) \in Nat
         /\ Ceil(n, d) \in Nat
         /\ Floor(n, d) * d <= n
         /\ n <= Ceil(n, d) * d
<1>1. Floor(n, d) \in Nat /\ Floor(n, d) * d <= n
  BY DEF Floor
<1>2. n + d - 1 \in Nat
  OBVIOUS
<1>3. Ceil(n, d) \in Nat /\ n <= Ceil(n, d) * d
  BY <1>2 DEF Ceil
<1>4. QED
  BY <1>1, <1>3

\* A covered transfer leaves natural balances, and moves the two accounts only.
LEMMA TransferType ==
  ASSUME NEW bal \in [Accounts -> Nat], NEW from \in Accounts, NEW to \in Accounts,
         NEW amount \in Nat, amount <= bal[from]
  PROVE  Transferred(bal, from, to, amount) \in [Accounts -> Nat]
BY DEF Transferred

LEMMA Addresses ==
  /\ Vault \in Accounts
  /\ Lps \subseteq Accounts /\ Donors \subseteq Accounts
  /\ Borrowers \subseteq Accounts /\ Treasuries \subseteq Accounts
  /\ \A h \in Holders : h # Vault
  /\ IsFiniteSet(Lps)
<1>1. IsFiniteSet(Lps)
  BY PoolAssumption, VaultAssumption, FS_Subset
<1>2. QED
  BY <1>1, PoolAssumption, VaultAssumption, BookAssumption DEF Accounts

-----------------------------------------------------------------------------
(* The inductive invariant, one operation at a time.                       *)

LEMMA InitInv == Init => IInv
<1> SUFFICES ASSUME Init PROVE IInv
  OBVIOUS
<1> USE DEF Init, VaultInit, LedgerInit, BookInit
<1>1. TypeOK
  BY PoolAssumption, VaultAssumption, BookAssumption DEF TypeOK, Accounts, Statuses
<1>2. OutstandingIsActive
  <2> SUFFICES ASSUME NEW b \in Books
               PROVE  outstandingPrincipal[b] = Total(Owed(b), LoanIds)
    BY DEF OutstandingIsActive
  <2>1. \A i \in LoanIds : Owed(b)[i] = 0
    BY DEF Owed
  <2>2. Total(Owed(b), LoanIds) = 0
    BY <2>1, TotalZero
  <2>3. QED
    BY <2>2
<1>3. SupplyIsHeld
  <2>1. Total(shares, Lps) = 0
    BY TotalZero
  <2>2. QED
    BY <2>1 DEF SupplyIsHeld
<1>4. LoansHaveTerms
  BY DEF LoansHaveTerms
<1>5. QED
  BY <1>1, <1>2, <1>3, <1>4 DEF IInv

\* As long as no loan and no counter changes, what holds of them stands.
LEMMA SameLoans ==
  ASSUME OutstandingIsActive, LoansHaveTerms,
         UNCHANGED <<outstandingPrincipal, status, principal, borrower>>
  PROVE  OutstandingIsActive' /\ LoansHaveTerms'
BY DEF OutstandingIsActive, LoansHaveTerms, Owed

\* Minting to one LP raises the supply by what that LP received.
LEMMA TakeInInv ==
  ASSUME IInv, NEW h \in Lps, NEW assets \in Nat, NEW minted \in Nat,
         TakeIn(h, assets, minted), CountCall,
         UNCHANGED <<loanBook, pendingLoanBook, bookVars>>
  PROVE  IInv'
<1> USE DEF IInv, bookVars, loanVars, feeVars
<1>1. usdc' \in [Accounts -> Nat]
  BY Addresses, TransferType DEF TakeIn, TypeOK
<1>2. shares' \in [Lps -> Nat]
  BY DEF TakeIn, TypeOK
<1>3. totalSupply' \in Nat /\ calls' \in 0 .. MaxCalls
  BY PoolAssumption, VaultAssumption DEF TakeIn, TypeOK, CountCall
<1>4. TypeOK'
  BY <1>1, <1>2, <1>3 DEF TypeOK
<1>5. SupplyIsHeld'
  <2>1. shares \in [Lps -> Nat] /\ \A y \in Lps \ {h} : shares'[y] = shares[y]
    BY DEF TakeIn, TypeOK
  <2>2. Total(shares', Lps) = Total(shares, Lps) - shares[h] + shares'[h]
    BY <1>2, <2>1, Addresses, TotalUpdate
  <2>3. Total(shares, Lps) \in Nat
    BY <2>1, Addresses, TotalNat
  <2>4. shares'[h] = shares[h] + minted /\ totalSupply' = totalSupply + minted
    BY <2>1 DEF TakeIn
  <2>5. QED
    BY <2>1, <2>2, <2>3, <2>4 DEF SupplyIsHeld
<1>6. QED
  BY <1>4, <1>5, SameLoans

\* Burning the shares of one LP cannot underflow the supply: they are part of it.
LEMMA PayOutInv ==
  ASSUME IInv, NEW h \in Lps, NEW assets \in Nat, NEW burned \in Nat,
         PayOut(h, assets, burned), CountCall,
         UNCHANGED <<loanBook, pendingLoanBook, bookVars>>
  PROVE  IInv'
<1> USE DEF IInv, bookVars, loanVars, feeVars
<1>1. usdc' \in [Accounts -> Nat]
  BY Addresses, TransferType DEF PayOut, TypeOK
<1>2. shares' \in [Lps -> Nat]
  BY DEF PayOut, TypeOK
<1>3. shares \in [Lps -> Nat] /\ \A y \in Lps \ {h} : shares'[y] = shares[y]
  BY DEF PayOut, TypeOK
<1>4. /\ Total(shares, Lps) \in Nat
      /\ shares[h] <= Total(shares, Lps)
  BY <1>3, Addresses, TotalNat
<1>5. totalSupply' \in Nat /\ calls' \in 0 .. MaxCalls
  BY <1>3, <1>4, PoolAssumption, VaultAssumption DEF PayOut, TypeOK, SupplyIsHeld, CountCall
<1>6. TypeOK'
  BY <1>1, <1>2, <1>5 DEF TypeOK
<1>7. SupplyIsHeld'
  <2>1. Total(shares', Lps) = Total(shares, Lps) - shares[h] + shares'[h]
    BY <1>2, <1>3, Addresses, TotalUpdate
  <2>2. shares'[h] = shares[h] - burned /\ totalSupply' = totalSupply - burned
    BY <1>3 DEF PayOut
  <2>3. QED
    BY <1>3, <1>4, <2>1, <2>2 DEF SupplyIsHeld
<1>8. QED
  BY <1>6, <1>7, SameLoans

\* Prices are positive, so every rounding yields a natural number.
LEMMA PricesNat ==
  ASSUME TypeOK
  PROVE  /\ TotalAssets \in Nat
         /\ PricedAssets \in Nat \ {0}
         /\ PricedShares \in Nat \ {0}
<1>1. usdc[Vault] \in Nat
  BY Addresses DEF TypeOK
<1>2. loanBook # NoBook => outstandingPrincipal[loanBook] \in Nat
  BY DEF TypeOK
<1>3. TotalAssets \in Nat
  BY <1>1, <1>2 DEF TotalAssets
<1>4. QED
  BY <1>3, PoolAssumption, VaultAssumption DEF PricedAssets, PricedShares, TypeOK

LEMMA LpStepInv ==
  ASSUME IInv, LpStep, CountCall, UNCHANGED bookVars
  PROVE  IInv'
<1>1. PICK h \in Lps :
        \/ \E assets \in Amounts : Deposit(h, assets) \/ Withdraw(h, assets)
        \/ \E s \in ShareAmounts : Mint(h, s) \/ Redeem(h, s)
  BY DEF LpStep
<1>2. UNCHANGED <<loanBook, pendingLoanBook, bookVars>>
  BY DEF LpStep
<1>3. /\ PricedAssets \in Nat \ {0} /\ PricedShares \in Nat \ {0}
      /\ shares[h] \in Nat
      /\ Amounts \subseteq Nat /\ ShareAmounts \subseteq Nat
  BY PricesNat, PoolAssumption, VaultAssumption DEF IInv, TypeOK
<1>4. CASE \E assets \in Amounts : Deposit(h, assets) \/ Withdraw(h, assets)
  <2>1. PICK assets \in Amounts : Deposit(h, assets) \/ Withdraw(h, assets)
    BY <1>4
  <2>2. assets * PricedShares \in Nat
    BY <1>3
  <2>3. /\ Floor(assets * PricedShares, PricedAssets) \in Nat
        /\ Ceil(assets * PricedShares, PricedAssets) \in Nat
    BY <1>3, <2>2, DivisionNat
  <2>4. QED
    BY <1>2, <1>3, <2>1, <2>3, TakeInInv, PayOutInv DEF Deposit, Withdraw
<1>5. CASE \E s \in ShareAmounts : Mint(h, s) \/ Redeem(h, s)
  <2>1. PICK s \in ShareAmounts : Mint(h, s) \/ Redeem(h, s)
    BY <1>5
  <2>2. s * PricedAssets \in Nat
    BY <1>3
  <2>3. /\ Floor(s * PricedAssets, PricedShares) \in Nat
        /\ Ceil(s * PricedAssets, PricedShares) \in Nat
    BY <1>3, <2>2, DivisionNat
  <2>4. QED
    BY <1>2, <1>3, <2>1, <2>3, TakeInInv, PayOutInv DEF Mint, Redeem
<1>6. QED
  BY <1>1, <1>4, <1>5
LEMMA DonateInv ==
  ASSUME IInv, NEW h \in Donors, NEW amount \in Nat, Donate(h, amount), CountCall,
         UNCHANGED bookVars
  PROVE  IInv'
<1> USE DEF IInv, bookVars, loanVars, feeVars
<1>1. usdc' \in [Accounts -> Nat]
  BY Addresses, TransferType DEF Donate, SendToVault, TypeOK
<1>2. TypeOK'
  BY <1>1, PoolAssumption, VaultAssumption DEF TypeOK, Donate, SendToVault, CountCall
<1>3. SupplyIsHeld'
  BY DEF SupplyIsHeld, Donate, SendToVault
<1>4. QED
  BY <1>2, <1>3, SameLoans

LEMMA VaultStepInv ==
  ASSUME IInv, VaultStep
  PROVE  IInv'
<1>1. UNCHANGED bookVars
  BY DEF VaultStep
<1>2. CASE LpStep /\ CountCall
  BY <1>1, <1>2, LpStepInv
<1>3. CASE \E h \in Donors, amount \in Amounts : Donate(h, amount) /\ CountCall
  BY <1>1, <1>3, DonateInv, PoolAssumption, VaultAssumption
<1>4. CASE \E next \in Books \cup {NoBook} : ProposeLoanBook(next)
  <2>1. TypeOK'
    BY <1>1, <1>4 DEF IInv, TypeOK, ProposeLoanBook, bookVars, loanVars, feeVars
  <2>2. SupplyIsHeld'
    BY <1>4 DEF IInv, SupplyIsHeld, ProposeLoanBook
  <2>3. OutstandingIsActive' /\ LoansHaveTerms'
    BY <1>1, SameLoans DEF IInv, bookVars, loanVars
  <2>4. QED
    BY <2>1, <2>2, <2>3 DEF IInv
<1>5. QED
  BY <1>2, <1>3, <1>4 DEF VaultStep

-----------------------------------------------------------------------------
(* The operations of a book.                                               *)

\* A fee is a natural number.
LEMMA FeeNat ==
  ASSUME TypeOK, NEW b \in Books, NEW p \in Nat
  PROVE  Fee(b, p) \in Nat
<1>1. feeBps[b] \in Nat
  BY BookAssumption DEF TypeOK
<1>2. p * feeBps[b] \in Nat /\ BPS \in Nat \ {0}
  BY <1>1 DEF BPS
<1>3. Floor(p * feeBps[b], BPS) \in Nat
  BY <1>2, DivisionNat
<1>4. QED
  BY <1>3 DEF Fee, Floor

\* However the fee splits it, an origination takes exactly its principal out
\* of the vault, and only the wired book can make one.
LEMMA Funding ==
  ASSUME TypeOK, NEW b \in Books, NEW to \in Borrowers, NEW p \in Nat, Fundable(b, to, p)
  PROVE  /\ FundedBalances(b, to, p) \in [Accounts -> Nat]
         /\ FundedBalances(b, to, p)[Vault] = usdc[Vault] - p
         /\ loanBook = b
<1> DEFINE fee == Fee(b, p)
           net == Drawn(usdc, to, p - fee)
<1>1. /\ usdc \in [Accounts -> Nat]
      /\ to \in Accounts /\ Vault \in Accounts /\ to # Vault
  BY Addresses, BookAssumption DEF TypeOK
<1>2. /\ fee \in Nat /\ fee < p /\ p - fee \in Nat
      /\ p - fee <= usdc[Vault]
      /\ loanBook = b
  BY FeeNat DEF Fundable, MayDraw
<1>3. /\ net \in [Accounts -> Nat]
      /\ net[Vault] = usdc[Vault] - (p - fee)
  <2>1. net \in [Accounts -> Nat]
    BY <1>1, <1>2, TransferType DEF Drawn
  <2>2. net[Vault] = usdc[Vault] - (p - fee)
    BY <1>1 DEF Drawn, Transferred
  <2>3. QED
    BY <2>1, <2>2
<1>4. CASE fee = 0
  BY <1>1, <1>2, <1>3, <1>4 DEF FundedBalances
<1>5. CASE fee # 0
  <2>1. fee <= net[Vault]
    BY <1>5 DEF Fundable, MayDraw
  <2>2. feeReceiver[b] \in Accounts /\ feeReceiver[b] # Vault
    BY <1>5, Addresses, BookAssumption DEF Fee, TypeOK
  <2>3. Drawn(net, feeReceiver[b], fee) \in [Accounts -> Nat]
    BY <1>1, <1>2, <1>3, <2>1, <2>2, TransferType DEF Drawn
  <2>4. Drawn(net, feeReceiver[b], fee)[Vault] = net[Vault] - fee
    BY <1>1, <1>3, <2>2 DEF Drawn, Transferred
  <2>5. FundedBalances(b, to, p) = Drawn(net, feeReceiver[b], fee)
    BY <1>5 DEF FundedBalances
  <2>6. usdc[Vault] \in Nat
    BY <1>1
  <2>7. QED
    BY <1>2, <1>3, <2>3, <2>4, <2>5, <2>6
<1>6. QED
  BY <1>4, <1>5

\* The sum over the loans of one book follows a change of one of its loans.
LEMMA OneLoanChanges ==
  ASSUME IInv, TypeOK', NEW b \in Books, NEW i \in LoanIds,
         \A c \in Books, j \in LoanIds :
           <<c, j>> # <<b, i>> =>
             status'[c][j] = status[c][j] /\ principal'[c][j] = principal[c][j],
         \A c \in Books \ {b} : outstandingPrincipal'[c] = outstandingPrincipal[c],
         outstandingPrincipal'[b]
           = outstandingPrincipal[b] - Owed(b)[i] + Owed(b)'[i]
  PROVE  OutstandingIsActive'
<1>1. \A c \in Books : Owed(c) \in [LoanIds -> Nat] /\ Owed(c)' \in [LoanIds -> Nat]
  BY DEF IInv, TypeOK, Owed
<1>2. ASSUME NEW c \in Books, c # b
      PROVE  outstandingPrincipal'[c] = Total(Owed(c)', LoanIds)
  <2>1. Owed(c)' = Owed(c)
    BY <1>2 DEF Owed
  <2>2. QED
    BY <1>2, <2>1 DEF IInv, OutstandingIsActive
<1>3. outstandingPrincipal'[b] = Total(Owed(b)', LoanIds)
  <2>1. \A j \in LoanIds \ {i} : Owed(b)'[j] = Owed(b)[j]
    BY DEF Owed
  <2>2. Total(Owed(b)', LoanIds) = Total(Owed(b), LoanIds) - Owed(b)[i] + Owed(b)'[i]
    BY <1>1, <2>1, TotalUpdate, BookAssumption
  <2>3. QED
    BY <2>2 DEF IInv, OutstandingIsActive
<1>4. QED
  BY <1>2, <1>3 DEF OutstandingIsActive

LEMMA OriginateInv ==
  ASSUME IInv, NEW b \in Books, NEW i \in LoanIds, NEW to \in Borrowers,
         NEW p \in Principals, Originate(b, i, to, p)
  PROVE  IInv'
<1> USE DEF IInv
<1>1. p \in Nat
  BY BookAssumption
<1>2. usdc' \in [Accounts -> Nat]
  BY <1>1, Funding DEF Originate
<1>3. /\ status' \in [Books -> [LoanIds -> Statuses]]
      /\ borrower' \in [Books -> [LoanIds -> Borrowers \cup {NoOne}]]
      /\ principal' \in [Books -> [LoanIds -> Nat]]
  BY <1>1 DEF Originate, TypeOK, Statuses
<1>4. outstandingPrincipal' \in [Books -> Nat]
  BY <1>1 DEF Originate, TypeOK
<1>5. TypeOK'
  BY <1>2, <1>3, <1>4 DEF Originate, TypeOK, feeVars
<1>6. OutstandingIsActive'
  <2>1. \A c \in Books, j \in LoanIds :
          <<c, j>> # <<b, i>> =>
            status'[c][j] = status[c][j] /\ principal'[c][j] = principal[c][j]
    BY DEF Originate, TypeOK
  <2>2. \A c \in Books \ {b} : outstandingPrincipal'[c] = outstandingPrincipal[c]
    BY DEF Originate, TypeOK
  <2>3. Owed(b)[i] = 0 /\ Owed(b)'[i] = p
    BY DEF Originate, TypeOK, Owed
  <2>4. outstandingPrincipal'[b] = outstandingPrincipal[b] - Owed(b)[i] + Owed(b)'[i]
    BY <1>1, <2>3 DEF Originate, TypeOK
  <2>5. QED
    BY <1>5, <2>1, <2>2, <2>4, OneLoanChanges
<1>7. SupplyIsHeld'
  BY DEF Originate, SupplyIsHeld
<1>8. LoansHaveTerms'
  BY DEF Originate, LoansHaveTerms, TypeOK
<1>9. QED
  BY <1>5, <1>6, <1>7, <1>8

\* A close takes the loan's principal off a counter that contains it.
LEMMA CloseInv ==
  ASSUME IInv, NEW b \in Books, NEW i \in LoanIds,
         NEW outcome \in {"Repaid", "Liquidated"}, NEW payer \in Borrowers,
         NEW amount \in Nat, Close(b, i, outcome, payer, amount)
  PROVE  IInv'
<1> USE DEF IInv
<1>1. usdc' \in [Accounts -> Nat]
  BY Addresses, TransferType DEF Close, TypeOK
<1>2. status' \in [Books -> [LoanIds -> Statuses]]
  BY DEF Close, TypeOK, Statuses
<1>3. Owed(b)[i] = principal[b][i] /\ Owed(b)'[i] = 0
  BY DEF Close, TypeOK, Owed
<1>4. outstandingPrincipal[b] \in Nat /\ principal[b][i] <= outstandingPrincipal[b]
  <2>1. Owed(b) \in [LoanIds -> Nat]
    BY DEF TypeOK, Owed
  <2>2. Owed(b)[i] <= Total(Owed(b), LoanIds)
    BY <2>1, TotalNat, BookAssumption
  <2>3. QED
    BY <1>3, <2>2 DEF OutstandingIsActive, TypeOK
<1>5. outstandingPrincipal' \in [Books -> Nat]
  <2>1. principal[b][i] \in Nat
    BY DEF TypeOK
  <2>2. QED
    BY <1>4, <2>1 DEF Close, TypeOK
<1>6. TypeOK'
  BY <1>1, <1>2, <1>5 DEF Close, TypeOK, feeVars
<1>7. OutstandingIsActive'
  <2>1. \A c \in Books, j \in LoanIds :
          <<c, j>> # <<b, i>> =>
            status'[c][j] = status[c][j] /\ principal'[c][j] = principal[c][j]
    BY DEF Close, TypeOK
  <2>2. \A c \in Books \ {b} : outstandingPrincipal'[c] = outstandingPrincipal[c]
    BY DEF Close, TypeOK
  <2>3. outstandingPrincipal'[b] = outstandingPrincipal[b] - Owed(b)[i] + Owed(b)'[i]
    BY <1>3, <1>4 DEF Close, TypeOK
  <2>4. QED
    BY <1>6, <2>1, <2>2, <2>3, OneLoanChanges
<1>8. SupplyIsHeld'
  BY DEF Close, SupplyIsHeld
<1>9. LoansHaveTerms'
  BY DEF Close, LoansHaveTerms, TypeOK
<1>10. QED
  BY <1>6, <1>7, <1>8, <1>9
\* The operations that touch neither loans nor money.
LEMMA AdminInv ==
  ASSUME IInv, NEW b \in Books,
         \/ \E bps \in FeeChoices : SetOriginationFeeBps(b, bps)
         \/ \E t \in Treasuries : SetFeeReceiver(b, t)
         \/ AcceptLpVaultWiring(b)
  PROVE  IInv'
<1> USE DEF IInv, vaultVars, ledger, bookVars, loanVars, feeVars
<1>1. CASE \E bps \in FeeChoices : SetOriginationFeeBps(b, bps)
  <2>1. PICK bps \in FeeChoices : SetOriginationFeeBps(b, bps)
    BY <1>1
  <2>2. bps \in 0 .. FeeBpsCap
    BY <2>1, BookAssumption DEF SetOriginationFeeBps
  <2>3. TypeOK'
    BY <2>1, <2>2 DEF TypeOK, SetOriginationFeeBps
  <2>4. SupplyIsHeld'
    BY <2>1 DEF SupplyIsHeld, SetOriginationFeeBps
  <2>5. QED
    BY <2>1, <2>3, <2>4, SameLoans DEF SetOriginationFeeBps
<1>2. CASE \E t \in Treasuries : SetFeeReceiver(b, t)
  <2>1. PICK t \in Treasuries : SetFeeReceiver(b, t)
    BY <1>2
  <2>2. TypeOK'
    BY <2>1 DEF TypeOK, SetFeeReceiver
  <2>3. SupplyIsHeld'
    BY <2>1 DEF SupplyIsHeld, SetFeeReceiver
  <2>4. QED
    BY <2>1, <2>2, <2>3, SameLoans DEF SetFeeReceiver
<1>3. CASE AcceptLpVaultWiring(b)
  <2>1. TypeOK'
    BY <1>3 DEF TypeOK, AcceptLpVaultWiring, AcceptLoanBook
  <2>2. SupplyIsHeld'
    BY <1>3 DEF SupplyIsHeld, AcceptLpVaultWiring, AcceptLoanBook
  <2>3. QED
    BY <1>3, <2>1, <2>2, SameLoans DEF AcceptLpVaultWiring
<1>4. QED
  BY <1>1, <1>2, <1>3

LEMMA BookStepInv ==
  ASSUME IInv, NEW b \in Books, BookStep(b)
  PROVE  IInv'
<1>1. CASE \/ \E bps \in FeeChoices : SetOriginationFeeBps(b, bps)
           \/ \E t \in Treasuries : SetFeeReceiver(b, t)
           \/ AcceptLpVaultWiring(b)
  BY <1>1, AdminInv
<1>2. CASE \E i \in LoanIds, to \in Borrowers, p \in Principals : Originate(b, i, to, p)
  BY <1>2, OriginateInv
<1>3. CASE \E i \in LoanIds : MarkRepaid(b, i)
  <2>1. PICK i \in LoanIds : Close(b, i, "Repaid", borrower[b][i], principal[b][i])
    BY <1>3 DEF MarkRepaid
  <2>2. borrower[b][i] \in Borrowers /\ principal[b][i] \in Nat
    BY <2>1 DEF Close, IInv, LoansHaveTerms, TypeOK
  <2>3. QED
    BY <2>1, <2>2, CloseInv
<1>4. CASE \E i \in LoanIds, escrow \in Borrowers, proceeds \in Amounts \cup {0} :
             MarkLiquidated(b, i, escrow, proceeds)
  <2>1. PICK i \in LoanIds, escrow \in Borrowers, proceeds \in Amounts \cup {0} :
          Close(b, i, "Liquidated", escrow, proceeds)
    BY <1>4 DEF MarkLiquidated
  <2>2. proceeds \in Nat
    BY PoolAssumption, VaultAssumption
  <2>3. QED
    BY <2>1, <2>2, CloseInv
<1>5. QED
  BY <1>1, <1>2, <1>3, <1>4 DEF BookStep

LEMMA NextInv == IInv /\ [Next]_vars => IInv'
<1> SUFFICES ASSUME IInv, [Next]_vars PROVE IInv'
  OBVIOUS
<1>1. CASE VaultStep
  BY <1>1, VaultStepInv
<1>2. CASE \E b \in Books : BookStep(b)
  BY <1>2, BookStepInv
<1>3. CASE UNCHANGED vars
  BY <1>3 DEF IInv, TypeOK, OutstandingIsActive, Owed, SupplyIsHeld,
              LoansHaveTerms, vars, vaultVars, ledger, bookVars, loanVars, feeVars
<1>4. QED
  BY <1>1, <1>2, <1>3 DEF Next

\* The counters, the share supply and the loan records stay consistent under
\* every sequence of transactions (LpVault.sol and LoanBook.sol).
THEOREM Invariance == Spec => []IInv
BY InitInv, NextInv, PTL DEF Spec

\* Every variable stays in its type: no balance, no supply and no exposure
\* ever underflows.
THEOREM TypeCorrect == Spec => []TypeOK
<1>1. IInv => TypeOK
  BY DEF IInv
<1>2. QED
  BY <1>1, Invariance, PTL

\* outstandingPrincipal is at all times the sum over the open loans, for any
\* number of books and loans and any history of re-wirings.
THEOREM ExposureIsExact == Spec => []OutstandingIsActive
<1>1. IInv => OutstandingIsActive
  BY DEF IInv
<1>2. QED
  BY <1>1, Invariance, PTL

-----------------------------------------------------------------------------
(* Action properties.                                                      *)

\* A loan that exists keeps its terms, and a closed one stays closed.
THEOREM LifecycleHolds == Spec => LoansFollowLifecycle
<1>1. ASSUME IInv, [Next]_vars
      PROVE  [\A b \in Books, i \in LoanIds : LifecycleStep(b, i)]_vars
  <2> SUFFICES ASSUME Next, NEW b \in Books, NEW i \in LoanIds
               PROVE  LifecycleStep(b, i)
    BY <1>1
  <2>1. status[b][i] \in Statuses
    BY <1>1 DEF IInv, TypeOK
  <2>2. CASE UNCHANGED loanVars
    BY <2>1, <2>2 DEF LifecycleStep, loanVars
  <2>3. CASE \E c \in Books, j \in LoanIds, to \in Borrowers, p \in Principals :
               Originate(c, j, to, p)
    BY <1>1, <2>1, <2>3 DEF IInv, TypeOK, Originate, LifecycleStep, Statuses
  <2>4. ASSUME NEW c \in Books, NEW j \in LoanIds, NEW outcome \in {"Repaid", "Liquidated"},
               NEW payer, NEW amount, Close(c, j, outcome, payer, amount)
        PROVE  LifecycleStep(b, i)
    BY <1>1, <2>1, <2>4 DEF IInv, TypeOK, Close, LifecycleStep, Statuses
  <2>5. CASE VaultStep
    BY <2>2, <2>5 DEF VaultStep, bookVars
  <2>6. ASSUME NEW c \in Books, BookStep(c)
        PROVE  LifecycleStep(b, i)
    BY <2>2, <2>3, <2>4, <2>6
       DEF BookStep, SetOriginationFeeBps, SetFeeReceiver, AcceptLpVaultWiring,
           bookVars, MarkRepaid, MarkLiquidated
  <2>7. QED
    BY <2>5, <2>6 DEF Next
<1>2. QED
  BY <1>1, Invariance, PTL DEF Spec, LoansFollowLifecycle
-----------------------------------------------------------------------------
(* The price of a share and the vault's cash, one operation at a time.     *)

PriceHolds == PricedAssets' * PricedShares >= PricedAssets * PricedShares'

LEMMA TakeInAssets ==
  ASSUME TypeOK, NEW h \in Lps, NEW assets \in Nat, NEW minted \in Nat,
         TakeIn(h, assets, minted), UNCHANGED <<loanBook, outstandingPrincipal>>
  PROVE  /\ usdc'[Vault] = usdc[Vault] + assets
         /\ PricedAssets' = PricedAssets + assets
         /\ PricedShares' = PricedShares + minted
<1>1. usdc[Vault] \in Nat /\ usdc'[Vault] = usdc[Vault] + assets
  BY Addresses, PoolAssumption, VaultAssumption DEF TypeOK, TakeIn, Transferred
<1>2. loanBook # NoBook => outstandingPrincipal[loanBook] \in Nat
  BY DEF TypeOK
<1>3. PricedAssets' = PricedAssets + assets
  BY <1>1, <1>2 DEF PricedAssets, TotalAssets
<1>4. PricedShares' = PricedShares + minted
  BY PoolAssumption, VaultAssumption DEF PricedShares, TakeIn, TypeOK
<1>5. QED
  BY <1>1, <1>3, <1>4

LEMMA PayOutAssets ==
  ASSUME TypeOK, NEW h \in Lps, NEW assets \in Nat, NEW burned \in Nat,
         PayOut(h, assets, burned), UNCHANGED <<loanBook, outstandingPrincipal>>
  PROVE  /\ usdc'[Vault] = usdc[Vault] - assets
         /\ PricedAssets' = PricedAssets - assets
         /\ PricedShares' = PricedShares - burned
<1>1. usdc[Vault] \in Nat /\ usdc'[Vault] = usdc[Vault] - assets
  BY Addresses, PoolAssumption, VaultAssumption DEF TypeOK, PayOut, Transferred
<1>2. loanBook # NoBook => outstandingPrincipal[loanBook] \in Nat
  BY DEF TypeOK
<1>3. PricedAssets' = PricedAssets - assets
  BY <1>1, <1>2 DEF PricedAssets, TotalAssets
<1>4. PricedShares' = PricedShares - burned
  BY PoolAssumption, VaultAssumption DEF PricedShares, PayOut, TypeOK
<1>5. QED
  BY <1>1, <1>3, <1>4

\* The four roundings: no entry point lowers the price, and the vault's cash
\* only falls when shares are burned.
LEMMA LpStepPrice ==
  ASSUME TypeOK, LpStep, UNCHANGED outstandingPrincipal
  PROVE  /\ PriceHolds
         /\ usdc'[Vault] < usdc[Vault] => totalSupply' < totalSupply
<1>1. PICK h \in Lps :
        \/ \E assets \in Amounts : Deposit(h, assets) \/ Withdraw(h, assets)
        \/ \E s \in ShareAmounts : Mint(h, s) \/ Redeem(h, s)
  BY DEF LpStep
<1>2. UNCHANGED <<loanBook, outstandingPrincipal>>
  BY DEF LpStep
<1>3. /\ PricedAssets \in Nat \ {0} /\ PricedShares \in Nat \ {0}
      /\ usdc[Vault] \in Nat /\ totalSupply \in Nat
      /\ Amounts \subseteq Nat /\ ShareAmounts \subseteq Nat
  BY PricesNat, Addresses, PoolAssumption, VaultAssumption DEF TypeOK
<1>4. ASSUME NEW assets \in Nat, NEW minted \in Nat, TakeIn(h, assets, minted),
             minted * PricedAssets <= assets * PricedShares
      PROVE  PriceHolds /\ usdc'[Vault] >= usdc[Vault]
  <2>1. /\ usdc'[Vault] = usdc[Vault] + assets
        /\ PricedAssets' = PricedAssets + assets
        /\ PricedShares' = PricedShares + minted
    BY <1>2, <1>4, TakeInAssets
  <2>2. (PricedAssets + assets) * PricedShares >= PricedAssets * (PricedShares + minted)
    BY <1>3, <1>4, BuyingHoldsPrice
  <2>3. QED
    BY <1>3, <2>1, <2>2 DEF PriceHolds
<1>5. ASSUME NEW assets \in Nat, NEW burned \in Nat, PayOut(h, assets, burned),
             assets * PricedShares <= burned * PricedAssets
      PROVE  PriceHolds /\ (usdc'[Vault] < usdc[Vault] => totalSupply' < totalSupply)
  <2>1. /\ usdc'[Vault] = usdc[Vault] - assets
        /\ PricedAssets' = PricedAssets - assets
        /\ PricedShares' = PricedShares - burned
    BY <1>2, <1>5, PayOutAssets
  <2>2. (PricedAssets - assets) * PricedShares >= PricedAssets * (PricedShares - burned)
    BY <1>3, <1>5, SellingHoldsPrice
  <2>3. usdc'[Vault] < usdc[Vault] => assets # 0
    BY <1>3, <2>1
  <2>4. assets # 0 => burned # 0
    <3>1. assets # 0 => assets * PricedShares > 0
      BY <1>3
    <3>2. burned = 0 => burned * PricedAssets = 0
      BY <1>3
    <3>3. QED
      BY <1>3, <1>5, <3>1, <3>2
  <2>5. totalSupply' = totalSupply - burned
    BY <1>5 DEF PayOut
  <2>6. QED
    BY <1>3, <2>1, <2>2, <2>3, <2>4, <2>5 DEF PriceHolds
<1>6. CASE \E assets \in Amounts : Deposit(h, assets) \/ Withdraw(h, assets)
  <2>1. PICK assets \in Amounts : Deposit(h, assets) \/ Withdraw(h, assets)
    BY <1>6
  <2>2. assets \in Nat /\ assets * PricedShares \in Nat
    BY <1>3
  <2>3. CASE Deposit(h, assets)
    <3> DEFINE minted == Floor(assets * PricedShares, PricedAssets)
    <3>1. minted \in Nat /\ minted * PricedAssets <= assets * PricedShares
      BY <1>3, <2>2, DivisionNat
    <3>2. TakeIn(h, assets, minted)
      BY <2>3 DEF Deposit
    <3> HIDE DEF minted
    <3>3. QED
      <4>1. PriceHolds /\ usdc'[Vault] >= usdc[Vault]
        BY <1>4, <2>2, <3>1, <3>2
      <4>2. usdc'[Vault] \in Nat
        BY <1>2, <1>3, <2>2, <3>1, <3>2, TakeInAssets
      <4>3. QED
        BY <1>3, <4>1, <4>2
  <2>4. CASE Withdraw(h, assets)
    <3> DEFINE burned == Ceil(assets * PricedShares, PricedAssets)
    <3>1. burned \in Nat /\ assets * PricedShares <= burned * PricedAssets
      BY <1>3, <2>2, DivisionNat
    <3>2. PayOut(h, assets, burned)
      BY <2>4 DEF Withdraw
    <3> HIDE DEF burned
    <3>3. QED
      BY <1>5, <2>2, <3>1, <3>2
  <2>5. QED
    BY <2>1, <2>3, <2>4
<1>7. CASE \E s \in ShareAmounts : Mint(h, s) \/ Redeem(h, s)
  <2>1. PICK s \in ShareAmounts : Mint(h, s) \/ Redeem(h, s)
    BY <1>7
  <2>2. s \in Nat /\ s * PricedAssets \in Nat
    BY <1>3
  <2>3. CASE Mint(h, s)
    <3> DEFINE assets == Ceil(s * PricedAssets, PricedShares)
    <3>1. assets \in Nat /\ s * PricedAssets <= assets * PricedShares
      BY <1>3, <2>2, DivisionNat
    <3>2. TakeIn(h, assets, s)
      BY <2>3 DEF Mint
    <3> HIDE DEF assets
    <3>3. QED
      <4>1. PriceHolds /\ usdc'[Vault] >= usdc[Vault]
        BY <1>4, <2>2, <3>1, <3>2
      <4>2. usdc'[Vault] \in Nat
        BY <1>2, <1>3, <2>2, <3>1, <3>2, TakeInAssets
      <4>3. QED
        BY <1>3, <4>1, <4>2
  <2>4. CASE Redeem(h, s)
    <3> DEFINE assets == Floor(s * PricedAssets, PricedShares)
    <3>1. assets \in Nat /\ assets * PricedShares <= s * PricedAssets
      BY <1>3, <2>2, DivisionNat
    <3>2. PayOut(h, assets, s)
      BY <2>4 DEF Redeem
    <3> HIDE DEF assets
    <3>3. QED
      BY <1>5, <2>2, <3>1, <3>2
  <2>5. QED
    BY <2>1, <2>3, <2>4
<1>8. QED
  BY <1>1, <1>6, <1>7
\* An origination moves cash into debt: assets and price stand still.
LEMMA OriginateAssets ==
  ASSUME TypeOK, NEW b \in Books, NEW i \in LoanIds, NEW to \in Borrowers,
         NEW p \in Principals, Originate(b, i, to, p)
  PROVE  /\ loanBook = b
         /\ usdc'[Vault] = usdc[Vault] - p
         /\ PricedAssets' = PricedAssets
         /\ PricedShares' = PricedShares
<1>1. p \in Nat /\ usdc[Vault] \in Nat /\ outstandingPrincipal[b] \in Nat
  BY BookAssumption, Addresses DEF TypeOK
<1>2. loanBook = b /\ usdc'[Vault] = usdc[Vault] - p
  BY <1>1, Funding DEF Originate
<1>3. outstandingPrincipal'[b] = outstandingPrincipal[b] + p /\ UNCHANGED <<loanBook, totalSupply>>
  BY DEF Originate, TypeOK
<1>4. PricedAssets' = PricedAssets
  BY <1>1, <1>2, <1>3, PoolAssumption, VaultAssumption DEF PricedAssets, TotalAssets
<1>5. QED
  BY <1>2, <1>3, <1>4 DEF PricedShares

\* A close brings `amount` into the vault and, if the book is the wired one,
\* takes the principal off the assets.
LEMMA CloseAssets ==
  ASSUME IInv, NEW b \in Books, NEW i \in LoanIds, NEW outcome,
         NEW payer \in Borrowers, NEW amount \in Nat,
         Close(b, i, outcome, payer, amount)
  PROVE  /\ usdc'[Vault] = usdc[Vault] + amount
         /\ TotalAssets' = TotalAssets + amount
                             - (IF loanBook = b THEN principal[b][i] ELSE 0)
         /\ TotalAssets \in Nat /\ TotalAssets' \in Int /\ principal[b][i] \in Nat
         /\ PricedShares' = PricedShares
<1>1. /\ usdc[Vault] \in Nat /\ principal[b][i] \in Nat
      /\ \A c \in Books : outstandingPrincipal[c] \in Nat
      /\ loanBook \in Books \cup {NoBook}
  BY Addresses DEF IInv, TypeOK
<1>2. usdc'[Vault] = usdc[Vault] + amount
  <2>1. payer \in Accounts /\ payer # Vault /\ Vault \in Accounts
    BY Addresses, BookAssumption
  <2>2. QED
    BY <1>1, <2>1 DEF Close, Transferred, IInv, TypeOK
<1>3. /\ UNCHANGED <<loanBook, totalSupply>>
      /\ \A c \in Books : outstandingPrincipal'[c] =
           IF c = b THEN outstandingPrincipal[c] - principal[b][i] ELSE outstandingPrincipal[c]
  BY DEF Close, IInv, TypeOK
<1>4. TotalAssets' = TotalAssets + amount - (IF loanBook = b THEN principal[b][i] ELSE 0)
  <2>1. CASE loanBook = NoBook
    <3>1. b # NoBook
      BY PoolAssumption, VaultAssumption
    <3>2. QED
      BY <1>1, <1>2, <1>3, <2>1, <3>1 DEF TotalAssets
  <2>2. CASE loanBook \in Books
    <3>1. loanBook # NoBook
      BY <2>2, PoolAssumption, VaultAssumption
    <3>2. QED
      BY <1>1, <1>2, <1>3, <2>2, <3>1 DEF TotalAssets
  <2>3. QED
    BY <1>1, <2>1, <2>2
<1>5. TotalAssets \in Nat
  BY PricesNat DEF IInv
<1>6. QED
  BY <1>1, <1>2, <1>3, <1>4, <1>5 DEF PricedShares

\* Where a step leaves cash, counters, wiring and supply alone, prices hold.
LEMMA IdlePrice ==
  ASSUME TypeOK, UNCHANGED <<usdc, totalSupply, loanBook, outstandingPrincipal>>
  PROVE  PriceHolds /\ usdc'[Vault] = usdc[Vault]
<1>1. PricedAssets' = PricedAssets /\ PricedShares' = PricedShares
  BY DEF PricedAssets, PricedShares, TotalAssets
<1>2. PricedAssets * PricedShares \in Nat
  BY PricesNat
<1>3. QED
  BY <1>1, <1>2 DEF PriceHolds

LEMMA DonatePrice ==
  ASSUME TypeOK, NEW h \in Donors, NEW amount \in Nat, Donate(h, amount),
         UNCHANGED outstandingPrincipal
  PROVE  /\ PriceHolds
         /\ usdc'[Vault] = usdc[Vault] + amount
<1>1. /\ usdc[Vault] \in Nat
      /\ h \in Accounts /\ h # Vault /\ Vault \in Accounts
  BY Addresses, PoolAssumption, VaultAssumption DEF TypeOK
<1>2. usdc'[Vault] = usdc[Vault] + amount
  BY <1>1 DEF Donate, SendToVault, Transferred, TypeOK
<1>3. PricedAssets' = PricedAssets + amount /\ PricedShares' = PricedShares
  <2>1. loanBook # NoBook => outstandingPrincipal[loanBook] \in Nat
    BY DEF TypeOK
  <2>2. QED
    BY <1>1, <1>2, <2>1 DEF Donate, SendToVault, PricedAssets, PricedShares, TotalAssets
<1>4. PricedAssets \in Nat /\ PricedShares \in Nat
  BY PricesNat
<1>5. (PricedAssets + amount) * PricedShares
        = PricedAssets * PricedShares + amount * PricedShares
  BY <1>4
<1>6. PricedAssets * PricedShares \in Nat /\ amount * PricedShares \in Nat
  BY <1>4
<1>7. QED
  BY <1>2, <1>3, <1>5, <1>6 DEF PriceHolds

\* What one step does to the cash of the vault and to the price of a share.
PaidOut ==
  usdc'[Vault] < usdc[Vault] =>
    \/ totalSupply' < totalSupply
    \/ \E i \in LoanIds :
         Lends(i) /\ usdc[Vault] - usdc'[Vault] = principal'[loanBook][i]

PriceStep ==
  \/ PriceHolds
  \/ /\ totalSupply' = totalSupply
     /\ \E i \in LoanIds :
          WritesOff(i) /\ TotalAssets' >= TotalAssets - principal[loanBook][i]
  \/ loanBook' # loanBook

LEMMA VaultStepMoney ==
  ASSUME IInv, VaultStep
  PROVE  PaidOut /\ PriceStep
<1>1. UNCHANGED outstandingPrincipal /\ TypeOK /\ usdc[Vault] \in Nat
  BY Addresses DEF VaultStep, bookVars, IInv, TypeOK
<1>2. CASE LpStep
  BY <1>1, <1>2, LpStepPrice DEF PaidOut, PriceStep
<1>3. CASE \E h \in Donors, amount \in Amounts : Donate(h, amount)
  <2>1. PICK h \in Donors, amount \in Amounts : Donate(h, amount)
    BY <1>3
  <2>2. amount \in Nat
    BY PoolAssumption, VaultAssumption
  <2>3. PriceHolds /\ usdc'[Vault] = usdc[Vault] + amount
    BY <1>1, <2>1, <2>2, DonatePrice
  <2>4. QED
    BY <1>1, <2>2, <2>3 DEF PaidOut, PriceStep
<1>4. CASE \E next \in Books \cup {NoBook} : ProposeLoanBook(next)
  <2>1. UNCHANGED <<usdc, totalSupply, loanBook, outstandingPrincipal>>
    BY <1>1, <1>4 DEF ProposeLoanBook
  <2>2. QED
    BY <1>1, <2>1, IdlePrice DEF PaidOut, PriceStep
<1>5. QED
  BY <1>2, <1>3, <1>4 DEF VaultStep

LEMMA OriginateMoney ==
  ASSUME IInv, NEW b \in Books, NEW i \in LoanIds, NEW to \in Borrowers,
         NEW p \in Principals, Originate(b, i, to, p)
  PROVE  PaidOut /\ PriceStep
<1>1. /\ loanBook = b /\ usdc'[Vault] = usdc[Vault] - p
      /\ PricedAssets' = PricedAssets /\ PricedShares' = PricedShares
  BY OriginateAssets DEF IInv
<1>2. /\ PricedAssets * PricedShares \in Nat
      /\ usdc[Vault] \in Nat /\ p \in Nat
  BY PricesNat, Addresses, BookAssumption DEF IInv, TypeOK
<1>3. Lends(i) /\ principal'[b][i] = p
  BY <1>1 DEF Lends, Originate, IInv, TypeOK
<1>4. QED
  BY <1>1, <1>2, <1>3 DEF PaidOut, PriceStep, PriceHolds

LEMMA CloseMoney ==
  ASSUME IInv, NEW b \in Books, NEW i \in LoanIds,
         NEW outcome \in {"Repaid", "Liquidated"}, NEW payer \in Borrowers,
         NEW amount \in Nat, Close(b, i, outcome, payer, amount),
         outcome = "Repaid" => amount = principal[b][i]
  PROVE  PaidOut /\ PriceStep
<1>1. /\ usdc'[Vault] = usdc[Vault] + amount
      /\ TotalAssets' = TotalAssets + amount
                          - (IF loanBook = b THEN principal[b][i] ELSE 0)
      /\ TotalAssets \in Nat /\ TotalAssets' \in Int /\ principal[b][i] \in Nat
      /\ PricedShares' = PricedShares
  BY CloseAssets
<1>2. usdc[Vault] \in Nat /\ PricedShares \in Nat
  BY PricesNat, Addresses DEF IInv, TypeOK
<1>3. PaidOut
  BY <1>1, <1>2 DEF PaidOut
<1>4. CASE TotalAssets' >= TotalAssets
  <2> DEFINE gain == TotalAssets' - TotalAssets
  <2>1. gain \in Nat /\ PricedAssets' = PricedAssets + gain
    BY <1>1, <1>4 DEF PricedAssets
  <2>2. PricedAssets \in Nat
    BY <1>1 DEF PricedAssets
  <2> HIDE DEF gain
  <2>3. (PricedAssets + gain) * PricedShares >= PricedAssets * (PricedShares + 0)
    <3>1. 0 * PricedAssets <= gain * PricedShares
      <4>1. gain * PricedShares \in Nat
        BY <1>2, <2>1
      <4>2. QED
        BY <2>2, <4>1
    <3>2. QED
      BY <1>2, <2>1, <2>2, <3>1, BuyingHoldsPrice
  <2>4. QED
    BY <1>1, <1>2, <1>3, <2>1, <2>3 DEF PriceStep, PriceHolds
<1>5. CASE TotalAssets' < TotalAssets
  <2>1. loanBook = b /\ outcome = "Liquidated"
    BY <1>1, <1>5
  <2>2. TotalAssets' >= TotalAssets - principal[loanBook][i]
    BY <1>1, <2>1
  <2>3. WritesOff(i) /\ totalSupply' = totalSupply
    BY <2>1 DEF WritesOff, Close, IInv, TypeOK
  <2>4. QED
    BY <1>3, <2>2, <2>3 DEF PriceStep
<1>6. QED
  BY <1>1, <1>4, <1>5

LEMMA StepMoney == IInv /\ Next => PaidOut /\ PriceStep
<1> SUFFICES ASSUME IInv, Next PROVE PaidOut /\ PriceStep
  OBVIOUS
<1>1. CASE VaultStep
  BY <1>1, VaultStepMoney
<1>2. ASSUME NEW b \in Books, BookStep(b)
      PROVE  PaidOut /\ PriceStep
  <2>1. CASE \/ \E bps \in FeeChoices : SetOriginationFeeBps(b, bps)
             \/ \E t \in Treasuries : SetFeeReceiver(b, t)
    <3>1. UNCHANGED <<usdc, totalSupply, loanBook, outstandingPrincipal>>
      BY <2>1 DEF SetOriginationFeeBps, SetFeeReceiver, vaultVars, ledger
    <3>2. usdc[Vault] \in Nat
      BY Addresses DEF IInv, TypeOK
    <3>3. QED
      BY <3>1, <3>2, IdlePrice DEF IInv, PaidOut, PriceStep
  <2>2. CASE AcceptLpVaultWiring(b)
    <3>1. usdc' = usdc /\ loanBook' # loanBook
      BY <2>2 DEF AcceptLpVaultWiring, AcceptLoanBook
    <3>2. usdc[Vault] \in Nat
      BY Addresses DEF IInv, TypeOK
    <3>3. QED
      BY <3>1, <3>2 DEF PaidOut, PriceStep
  <2>3. CASE \E i \in LoanIds, to \in Borrowers, p \in Principals : Originate(b, i, to, p)
    BY <2>3, OriginateMoney
  <2>4. CASE \E i \in LoanIds : MarkRepaid(b, i)
    <3>1. PICK i \in LoanIds : Close(b, i, "Repaid", borrower[b][i], principal[b][i])
      BY <2>4 DEF MarkRepaid
    <3>2. borrower[b][i] \in Borrowers /\ principal[b][i] \in Nat
      BY <3>1 DEF Close, IInv, LoansHaveTerms, TypeOK
    <3>3. QED
      BY <3>1, <3>2, CloseMoney
  <2>5. CASE \E i \in LoanIds, escrow \in Borrowers, proceeds \in Amounts \cup {0} :
               MarkLiquidated(b, i, escrow, proceeds)
    <3>1. PICK i \in LoanIds, escrow \in Borrowers, proceeds \in Amounts \cup {0} :
            Close(b, i, "Liquidated", escrow, proceeds)
      BY <2>5 DEF MarkLiquidated
    <3>2. proceeds \in Nat
      BY PoolAssumption, VaultAssumption
    <3>3. QED
      BY <3>1, <3>2, CloseMoney
  <2>6. QED
    BY <1>2, <2>1, <2>2, <2>3, <2>4, <2>5 DEF BookStep
<1>3. QED
  BY <1>1, <1>2 DEF Next

\* The vault's USDC leaves it to LPs that burn shares and to new loans of the
\* wired book, for exactly their principal, and in no other way.
THEOREM VaultPaysOnly == Spec => VaultPaysLpsAndLoansOnly
<1>1. ASSUME IInv, [Next]_vars
      PROVE  [PaidOut]_vars
  BY <1>1, StepMoney
<1>2. QED
  BY <1>1, Invariance, PTL DEF Spec, VaultPaysLpsAndLoansOnly, PaidOut

\* No transaction lowers the value of a share but a liquidation, by at most
\* the principal written off, and a change of book.
THEOREM PriceOfAShare == Spec => SharePriceHolds
<1>1. ASSUME IInv, [Next]_vars
      PROVE  [PriceStep]_vars
  BY <1>1, StepMoney
<1>2. QED
  BY <1>1, Invariance, PTL DEF Spec, SharePriceHolds, PriceStep, PriceHolds

-----------------------------------------------------------------------------
(* The refinement of LpClaims.                                             *)

\* The counted debt is a natural number per loan, and its sum is what
\* LpVault reads from the counter of the wired book.
LEMMA CountedDebtType ==
  ASSUME TypeOK
  PROVE  CountedDebt \in [AllLoans -> Nat]
BY DEF TypeOK, CountedDebt, Owed, AllLoans

\* Counting the units of the wired book's loans over all pairs of book and
\* loan is counting them over its own loans.
LEMMA DebtOfWiredBook ==
  ASSUME TypeOK, loanBook \in Books
  PROVE  Total(CountedDebt, AllLoans) = Total(Owed(loanBook), LoanIds)
<1> DEFINE O == Owed(loanBook)
           U == Units(O, LoanIds)
           W == Units(CountedDebt, AllLoans)
           m == [u \in U |-> <<<<loanBook, u[1]>>, u[2]>>]
<1>1. O \in [LoanIds -> Nat]
  BY DEF TypeOK, Owed
<1>2. IsFiniteSet(U)
  BY <1>1, UnitsFinite, BookAssumption
<1>3. \A l \in AllLoans :
        l = <<l[1], l[2]>> /\ l[1] \in Books /\ l[2] \in LoanIds
        /\ CountedDebt[l] = (IF l[1] = loanBook THEN O[l[2]] ELSE 0)
  BY DEF AllLoans, CountedDebt
<1>4. \A u \in U : /\ u = <<u[1], u[2]>> /\ u[1] \in LoanIds
                   /\ u[2] \in 1 .. O[u[1]]
  BY DEF Units, UnitsOf
<1>5. \A i \in LoanIds : \A k \in 1 .. O[i] : <<i, k>> \in U
  BY DEF Units, UnitsOf
<1>6. \A w \in W : /\ w = <<w[1], w[2]>> /\ w[1] \in AllLoans
                   /\ w[2] \in 1 .. CountedDebt[w[1]]
  BY DEF Units, UnitsOf
<1>7. \A l \in AllLoans : \A k \in 1 .. CountedDebt[l] : <<l, k>> \in W
  BY DEF Units, UnitsOf
<1>8. \A i \in LoanIds : /\ <<loanBook, i>> \in AllLoans
                         /\ CountedDebt[<<loanBook, i>>] = O[i]
  BY DEF AllLoans, CountedDebt
<1> HIDE DEF O, U, W
<1>9. m \in Bijection(U, W)
  <2>1. m \in [U -> W]
    BY <1>4, <1>7, <1>8
  <2>2. \A u, v \in U : m[u] = m[v] => u = v
    BY <1>4
  <2>3. \A w \in W : \E u \in U : m[u] = w
    <3> SUFFICES ASSUME NEW w \in W PROVE \E u \in U : m[u] = w
      OBVIOUS
    <3>1. w = <<w[1], w[2]>> /\ w[1] \in AllLoans /\ w[2] \in 1 .. CountedDebt[w[1]]
      BY <1>6
    <3>2. w[1][1] = loanBook /\ w[1] = <<loanBook, w[1][2]>> /\ w[1][2] \in LoanIds
      BY <1>3, <3>1
    <3>3. w[2] \in 1 .. O[w[1][2]]
      BY <1>8, <3>1, <3>2
    <3>4. <<w[1][2], w[2]>> \in U
      BY <1>5, <3>2, <3>3
    <3>5. m[<<w[1][2], w[2]>>] = w
      BY <3>1, <3>2, <3>4
    <3>6. QED
      BY <3>4, <3>5
  <2>4. QED
    BY <2>1, <2>2, <2>3 DEF Bijection, Injection, IsInjective, Surjection
<1>10. Cardinality(W) = Cardinality(U)
  <2>1. ExistsBijection(U, W)
    BY <1>9 DEF ExistsBijection
  <2>2. QED
    BY <1>2, <2>1, FS_Bijection
<1>11. QED
  BY <1>10 DEF O, U, W, Total

\* The abstract pool's assets are the vault's totalAssets().
LEMMA AssetsAgree == IInv => Claims!Assets = TotalAssets
<1> SUFFICES ASSUME IInv PROVE Claims!Assets = TotalAssets
  OBVIOUS
<1>1. Claims!Assets = usdc[Vault] + Total(CountedDebt, AllLoans)
  <2>1. \A S : Claims!Cardinality(S) = Cardinality(S)
    BY DEF Claims!Cardinality, Cardinality
  <2>2. Claims!Units(CountedDebt, AllLoans) = Units(CountedDebt, AllLoans)
    BY DEF Claims!Units, Claims!UnitsOf, Units, UnitsOf
  <2>3. QED
    BY <2>1, <2>2 DEF Claims!Assets, Claims!Total, Total
<1>2. CASE loanBook \in Books
  <2>1. Total(CountedDebt, AllLoans) = outstandingPrincipal[loanBook]
    BY <1>2, DebtOfWiredBook DEF IInv, OutstandingIsActive
  <2>2. loanBook # NoBook
    BY <1>2, PoolAssumption, VaultAssumption
  <2>3. QED
    BY <1>1, <2>1, <2>2 DEF TotalAssets
<1>3. CASE loanBook = NoBook
  <2>1. \A l \in AllLoans : CountedDebt[l] = 0
    BY <1>3, PoolAssumption, VaultAssumption DEF AllLoans, CountedDebt
  <2>2. Total(CountedDebt, AllLoans) = 0
    BY <2>1, TotalZero
  <2>3. QED
    BY <1>1, <1>3, <2>2 DEF TotalAssets
<1>4. QED
  BY <1>2, <1>3 DEF IInv, TypeOK

LEMMA AssetsAgreeNext == IInv' => Claims!Assets' = TotalAssets'
<1>1. IInv' => (Claims!Assets = TotalAssets)'
  BY AssetsAgree, PTL
<1>2. QED
  BY <1>1

-----------------------------------------------------------------------------
LEMMA InitRefines == Init => Claims!Init
<1> SUFFICES ASSUME Init PROVE Claims!Init
  OBVIOUS
<1>1. usdc[Vault] = 0 /\ totalSupply = 0
  BY Addresses DEF Init, VaultInit, LedgerInit
<1>2. CountedDebt = [l \in AllLoans |-> 0]
  BY DEF Init, BookInit, CountedDebt, Owed, AllLoans
<1>3. QED
  BY <1>1, <1>2 DEF Claims!Init

\* A step that leaves the counted debt alone and lowers no price is a trade.
LEMMA TradeRefines ==
  ASSUME IInv, IInv', PriceHolds, CountedDebt' = CountedDebt
  PROVE  Claims!Trade
<1>1. Claims!Assets = TotalAssets /\ Claims!Assets' = TotalAssets'
  BY AssetsAgree, AssetsAgreeNext
<1>2. QED
  BY <1>1 DEF Claims!Trade, PriceHolds, PricedAssets, PricedShares

LEMMA VaultStepRefines ==
  ASSUME IInv, IInv', VaultStep
  PROVE  Claims!Trade
<1>1. /\ UNCHANGED <<status, principal, loanBook>>
  BY DEF VaultStep, bookVars, loanVars, LpStep, Donate, SendToVault, ProposeLoanBook
<1>2. CountedDebt' = CountedDebt
  BY <1>1 DEF CountedDebt, Owed
<1>3. PriceHolds
  BY <1>1, VaultStepMoney DEF PriceStep, WritesOff
<1>4. QED
  BY <1>2, <1>3, TradeRefines

LEMMA OriginateRefines ==
  ASSUME IInv, NEW b \in Books, NEW i \in LoanIds, NEW to \in Borrowers,
         NEW p \in Principals, Originate(b, i, to, p)
  PROVE  Claims!Lend(<<b, i>>)
<1>1. /\ loanBook = b /\ loanBook' = b
      /\ usdc'[Vault] = usdc[Vault] - p
      /\ totalSupply' = totalSupply
  BY OriginateAssets DEF Originate, Fundable, MayDraw, IInv
<1>2. p \in Nat /\ p # 0 /\ usdc[Vault] \in Nat
  BY BookAssumption, Addresses DEF Originate, IInv, TypeOK
<1>3. CountedDebt[<<b, i>>] = 0
  BY DEF Originate, CountedDebt, Owed, AllLoans
<1>4. CountedDebt' = [CountedDebt EXCEPT ![<<b, i>>] = p]
  <2>1. \A l \in AllLoans :
          CountedDebt'[l] = IF l = <<b, i>> THEN p ELSE CountedDebt[l]
    <3> SUFFICES ASSUME NEW c \in Books, NEW j \in LoanIds
                 PROVE  CountedDebt'[<<c, j>>]
                          = IF <<c, j>> = <<b, i>> THEN p ELSE CountedDebt[<<c, j>>]
      BY DEF AllLoans
    <3>1. /\ <<c, j>> \in AllLoans
          /\ status'[c][j] = IF <<c, j>> = <<b, i>> THEN "Active" ELSE status[c][j]
          /\ principal'[c][j] = IF <<c, j>> = <<b, i>> THEN p ELSE principal[c][j]
      BY DEF Originate, IInv, TypeOK, AllLoans
    <3>2. QED
      BY <1>1, <3>1 DEF CountedDebt, Owed
  <2>2. CountedDebt' \in [AllLoans -> {CountedDebt'[l] : l \in AllLoans}]
    BY DEF CountedDebt
  <2>3. DOMAIN CountedDebt = AllLoans
    BY DEF CountedDebt
  <2>4. QED
    BY <2>1, <2>2, <2>3
<1>5. (usdc[Vault])' < usdc[Vault] /\ usdc[Vault] - (usdc[Vault])' = p
  BY <1>1, <1>2
<1>6. CountedDebt' = [CountedDebt EXCEPT ![<<b, i>>] = usdc[Vault] - (usdc[Vault])']
  BY <1>4, <1>5
<1>7. QED
  BY <1>1, <1>3, <1>5, <1>6 DEF Claims!Lend

LEMMA CloseRefines ==
  ASSUME IInv, IInv', NEW b \in Books, NEW i \in LoanIds,
         NEW outcome \in {"Repaid", "Liquidated"}, NEW payer \in Borrowers,
         NEW amount \in Nat, Close(b, i, outcome, payer, amount)
  PROVE  Claims!Trade \/ Claims!Recover(<<b, i>>)
<1>1. /\ usdc'[Vault] = usdc[Vault] + amount
      /\ TotalAssets' = TotalAssets + amount
                          - (IF loanBook = b THEN principal[b][i] ELSE 0)
      /\ TotalAssets \in Nat /\ principal[b][i] \in Nat
      /\ PricedShares' = PricedShares
  BY CloseAssets
<1>2. loanBook' = loanBook /\ totalSupply' = totalSupply /\ usdc[Vault] \in Nat
  BY Addresses DEF Close, IInv, TypeOK
<1>3. \A l \in AllLoans :
        CountedDebt'[l] = IF l = <<b, i>> THEN 0 ELSE CountedDebt[l]
  <2> SUFFICES ASSUME NEW c \in Books, NEW j \in LoanIds
               PROVE  CountedDebt'[<<c, j>>]
                        = IF <<c, j>> = <<b, i>> THEN 0 ELSE CountedDebt[<<c, j>>]
    BY DEF AllLoans
  <2>1. /\ <<c, j>> \in AllLoans
        /\ status'[c][j] = IF <<c, j>> = <<b, i>> THEN outcome ELSE status[c][j]
        /\ principal'[c][j] = principal[c][j]
    BY DEF Close, IInv, TypeOK, AllLoans
  <2>2. QED
    BY <1>2, <2>1 DEF CountedDebt, Owed
<1>4. CountedDebt' = [CountedDebt EXCEPT ![<<b, i>>] = 0]
  <2>1. CountedDebt' \in [AllLoans -> {CountedDebt'[l] : l \in AllLoans}]
    BY DEF CountedDebt
  <2>2. DOMAIN CountedDebt = AllLoans
    BY DEF CountedDebt
  <2>3. QED
    BY <1>3, <2>1, <2>2
<1>5. CASE loanBook = b
  <2>1. CountedDebt[<<b, i>>] # 0
    BY <1>5 DEF CountedDebt, Owed, AllLoans, Close, IInv, LoansHaveTerms
  <2>2. usdc'[Vault] >= usdc[Vault]
    BY <1>1, <1>2
  <2>3. QED
    BY <1>2, <1>4, <2>1, <2>2 DEF Claims!Recover
<1>6. CASE loanBook # b
  <2>1. CountedDebt[<<b, i>>] = 0
    BY <1>6 DEF CountedDebt, AllLoans
  <2>2. CountedDebt' = CountedDebt
    <3>1. CountedDebt \in [AllLoans -> {CountedDebt[l] : l \in AllLoans}]
      BY DEF CountedDebt
    <3>2. QED
      BY <1>4, <2>1, <3>1
  <2>3. PriceHolds
    <3>1. PricedAssets' = PricedAssets + amount /\ PricedAssets \in Nat /\ PricedShares \in Nat
      BY <1>1, <1>6, PricesNat DEF PricedAssets, IInv
    <3>2. 0 * PricedAssets <= amount * PricedShares
      <4>1. amount * PricedShares \in Nat
        BY <3>1
      <4>2. QED
        BY <3>1, <4>1
    <3>3. (PricedAssets + amount) * PricedShares >= PricedAssets * (PricedShares + 0)
      BY <3>1, <3>2, BuyingHoldsPrice
    <3>4. QED
      BY <1>1, <3>1, <3>3 DEF PriceHolds
  <2>4. QED
    BY <2>2, <2>3, TradeRefines
<1>7. QED
  BY <1>5, <1>6

LEMMA BookStepRefines ==
  ASSUME IInv, IInv', NEW b \in Books, BookStep(b)
  PROVE  [Claims!Next]_Claims!claims
<1>1. CASE \/ \E bps \in FeeChoices : SetOriginationFeeBps(b, bps)
           \/ \E t \in Treasuries : SetFeeReceiver(b, t)
  <2>1. UNCHANGED <<usdc, totalSupply, loanBook, status, principal>>
    BY <1>1 DEF SetOriginationFeeBps, SetFeeReceiver, vaultVars, ledger, loanVars
  <2>2. CountedDebt' = CountedDebt
    BY <2>1 DEF CountedDebt, Owed
  <2>3. QED
    BY <2>1, <2>2 DEF Claims!claims
<1>2. CASE AcceptLpVaultWiring(b)
  <2>1. CountedDebt' \in [AllLoans -> Nat]
    BY DEF IInv, TypeOK, CountedDebt, Owed, AllLoans
  <2>2. UNCHANGED <<usdc, totalSupply>>
    BY <1>2 DEF AcceptLpVaultWiring, AcceptLoanBook
  <2>3. Claims!Rebase
    BY <2>1, <2>2 DEF Claims!Rebase
  <2>4. QED
    BY <2>3 DEF Claims!Next
<1>3. CASE \E i \in LoanIds, to \in Borrowers, p \in Principals : Originate(b, i, to, p)
  <2>1. PICK i \in LoanIds, to \in Borrowers, p \in Principals : Originate(b, i, to, p)
    BY <1>3
  <2>2. Claims!Lend(<<b, i>>) /\ <<b, i>> \in AllLoans
    BY <2>1, OriginateRefines DEF AllLoans
  <2>3. QED
    BY <2>2 DEF Claims!Next
<1>4. ASSUME NEW i \in LoanIds, NEW outcome \in {"Repaid", "Liquidated"},
             NEW payer \in Borrowers, NEW amount \in Nat,
             Close(b, i, outcome, payer, amount)
      PROVE  Claims!Next
  <2>1. Claims!Trade \/ Claims!Recover(<<b, i>>)
    BY <1>4, CloseRefines
  <2>2. <<b, i>> \in AllLoans
    BY DEF AllLoans
  <2>3. QED
    BY <2>1, <2>2 DEF Claims!Next
<1>5. CASE \E i \in LoanIds : MarkRepaid(b, i)
  <2>1. PICK i \in LoanIds : Close(b, i, "Repaid", borrower[b][i], principal[b][i])
    BY <1>5 DEF MarkRepaid
  <2>2. borrower[b][i] \in Borrowers /\ principal[b][i] \in Nat
    BY <2>1 DEF Close, IInv, LoansHaveTerms, TypeOK
  <2>3. QED
    BY <1>4, <2>1, <2>2
<1>6. CASE \E i \in LoanIds, escrow \in Borrowers, proceeds \in Amounts \cup {0} :
             MarkLiquidated(b, i, escrow, proceeds)
  <2>1. PICK i \in LoanIds, escrow \in Borrowers, proceeds \in Amounts \cup {0} :
          Close(b, i, "Liquidated", escrow, proceeds)
    BY <1>6 DEF MarkLiquidated
  <2>2. proceeds \in Nat
    BY PoolAssumption, VaultAssumption
  <2>3. QED
    BY <1>4, <2>1, <2>2
<1>7. QED
  BY <1>1, <1>2, <1>3, <1>5, <1>6 DEF BookStep

\* The contracts implement what LP holders are promised, for every set of
\* holders, books and loans.
THEOREM Refinement == Spec => ImplementsLpClaims
<1>1. IInv /\ IInv' /\ [Next]_vars => [Claims!Next]_Claims!claims
  <2> SUFFICES ASSUME IInv, IInv', [Next]_vars
               PROVE  [Claims!Next]_Claims!claims
    OBVIOUS
  <2>1. CASE VaultStep
    BY <2>1, VaultStepRefines DEF Claims!Next
  <2>2. CASE \E b \in Books : BookStep(b)
    BY <2>2, BookStepRefines
  <2>3. CASE UNCHANGED vars
    BY <2>3 DEF vars, vaultVars, ledger, bookVars, loanVars, Claims!claims, CountedDebt, Owed
  <2>4. QED
    BY <2>1, <2>2, <2>3 DEF Next
<1>2. QED
  BY <1>1, InitRefines, Invariance, PTL DEF Spec, ImplementsLpClaims, Claims!Spec
=============================================================================
