----------------------------- MODULE PricingProofs -----------------------------
(***************************************************************************)
(* Theorems about what positions are worth: the agents' pools, for every   *)
(* set of holders, books and positions, every cap and every amount; the    *)
(* average the mark pollers compute, for every list of trades; and the     *)
(* marks and traces of the services that watch open loans, for every set   *)
(* of loans and ticks and any number of restarts.                          *)
(***************************************************************************)
EXTENDS AgentClaims, MarkFeed, SumsProofs, SequenceTheorems

SupplyIsHeld == totalSupply = Total(shares, Lps)

AgentInv ==
  /\ TypeOK
  /\ SupplyIsHeld
  /\ NotionalMirrored
  /\ RelayerAccountedFor

-----------------------------------------------------------------------------
(* Lemmas.                                                                 *)

\* Both roundings of a division of naturals are naturals.
LEMMA DivisionNat ==
  ASSUME NEW n \in Nat, NEW d \in Nat \ {0}
  PROVE  /\ Floor(n, d) \in Nat /\ Floor(n, d) * d <= n
         /\ Ceil(n, d) \in Nat /\ n <= Ceil(n, d) * d
<1>1. Floor(n, d) \in Nat /\ Floor(n, d) * d <= n
  BY DEF Floor
<1>2. n + d - 1 \in Nat
  OBVIOUS
<1>3. Ceil(n, d) \in Nat /\ n <= Ceil(n, d) * d
  BY <1>2 DEF Ceil
<1> QED  BY <1>1, <1>3

\* Rounding up stops at the first multiple that is large enough.
LEMMA CeilLeast ==
  ASSUME NEW n \in Nat, NEW d \in Nat \ {0}, NEW q \in Nat, n <= q * d
  PROVE  Ceil(n, d) <= q
<1> DEFINE c == Ceil(n, d)
<1>1. c \in Nat /\ c * d <= n + d - 1
  <2>1. n + d - 1 \in Nat
    OBVIOUS
  <2> QED  BY <2>1 DEF Ceil
<1>2. q * d \in Nat /\ (q + 1) * d = q * d + d
  OBVIOUS
<1>3. c * d < (q + 1) * d
  BY <1>1, <1>2
<1>4. c >= q + 1 => c * d >= (q + 1) * d
  BY <1>1
<1> HIDE DEF c
<1>5. c * d \in Nat /\ (q + 1) * d \in Nat
  BY <1>1
<1> QED  BY <1>1, <1>3, <1>4, <1>5 DEF c

\* A covered transfer leaves natural balances and moves two accounts only.
LEMMA Transfers ==
  ASSUME NEW bal \in [Accounts -> Nat], NEW from \in Accounts, NEW to \in Accounts,
         from # to, NEW amount \in Nat, amount <= bal[from]
  PROVE  /\ Transferred(bal, from, to, amount) \in [Accounts -> Nat]
         /\ Transferred(bal, from, to, amount)[from] = bal[from] - amount
         /\ Transferred(bal, from, to, amount)[to] = bal[to] + amount
         /\ \A a \in Accounts \ {from, to} : Transferred(bal, from, to, amount)[a] = bal[a]
BY DEF Transferred

LEMMA Addresses ==
  /\ Vault \in Accounts /\ Relayer \in Accounts /\ Relayer # Vault
  /\ \A h \in Lps \cup Donors : h \in Accounts \ {Vault, Relayer}
  /\ IsFiniteSet(Lps)
<1>1. IsFiniteSet(Lps)
  BY PoolAssumption, FS_Subset
<1> QED  BY <1>1, PoolAssumption, AgentAssumption DEF Accounts

\* What no position, counter or balance of the relayer takes part in.
LEMMA BooksStand ==
  ASSUME NotionalMirrored, RelayerAccountedFor,
         UNCHANGED <<books, openPositionsValue, marks>>, usdc'[Relayer] = usdc[Relayer]
  PROVE  NotionalMirrored' /\ RelayerAccountedFor'
BY DEF NotionalMirrored, RelayerAccountedFor, Cost, books, positions, totals

-----------------------------------------------------------------------------
(* Depositors and donors.                                                  *)

LEMMA TakeInInv ==
  ASSUME AgentInv, NEW h \in Lps, NEW assets \in Nat, NEW minted \in Nat,
         TakeIn(h, assets, minted), CountCall,
         UNCHANGED <<wiring, openPositionsValue, marks, books>>
  PROVE  AgentInv'
<1> USE DEF AgentInv
<1>1. usdc' \in [Accounts -> Nat] /\ usdc'[Relayer] = usdc[Relayer]
  <2>1. /\ usdc \in [Accounts -> Nat] /\ assets <= usdc[h]
        /\ usdc' = Transferred(usdc, h, Vault, assets)
    BY DEF TakeIn, TypeOK
  <2>2. /\ h \in Accounts /\ Vault \in Accounts /\ h # Vault
        /\ Relayer \in Accounts \ {h, Vault}
    BY Addresses
  <2> QED  BY <2>1, <2>2, Transfers
<1>2. shares \in [Lps -> Nat] /\ shares' = [shares EXCEPT ![h] = @ + minted]
  BY DEF TakeIn, TypeOK
<1>3. shares' \in [Lps -> Nat] /\ totalSupply' \in Nat /\ calls' \in Nat
  <2>1. totalSupply \in Nat /\ calls \in Nat
    BY DEF TypeOK
  <2>2. totalSupply' = totalSupply + minted /\ calls' = calls + 1
    BY DEF TakeIn, CountCall
  <2> QED  BY <1>2, <2>1, <2>2
<1>4. SupplyIsHeld'
  <2>1. shares \in [Lps -> Nat] /\ \A y \in Lps \ {h} : shares'[y] = shares[y]
    BY <1>2
  <2>2. Total(shares', Lps) = Total(shares, Lps) - shares[h] + shares'[h]
    BY <1>3, <2>1, Addresses, TotalUpdate
  <2>3. Total(shares, Lps) \in Nat
    BY <1>2, Addresses, TotalNat
  <2>4. shares'[h] = shares[h] + minted /\ totalSupply' = totalSupply + minted
    BY <1>2 DEF TakeIn
  <2> QED  BY <1>2, <2>2, <2>3, <2>4 DEF SupplyIsHeld
<1>5. TypeOK'
  BY <1>1, <1>3 DEF TypeOK, wiring, books, positions, totals
<1> QED  BY <1>1, <1>4, <1>5, BooksStand

\* The shares of one LP are part of the supply: burning them cannot underflow.
LEMMA PayOutInv ==
  ASSUME AgentInv, NEW h \in Lps, NEW assets \in Nat, NEW burned \in Nat,
         PayOut(h, assets, burned), CountCall,
         UNCHANGED <<wiring, openPositionsValue, marks, books>>
  PROVE  AgentInv'
<1> USE DEF AgentInv
<1>1. usdc' \in [Accounts -> Nat] /\ usdc'[Relayer] = usdc[Relayer]
  BY Addresses, Transfers DEF PayOut, TypeOK
<1>2. /\ shares \in [Lps -> Nat] /\ burned <= shares[h]
      /\ shares' = [shares EXCEPT ![h] = @ - burned]
  BY DEF PayOut, TypeOK
<1>3. shares' \in [Lps -> Nat] /\ calls' \in Nat
  <2>1. calls \in Nat /\ calls' = calls + 1
    BY DEF TypeOK, CountCall
  <2> QED  BY <1>2, <2>1
<1>4. Total(shares, Lps) \in Nat /\ shares[h] <= Total(shares, Lps)
  BY <1>2, Addresses, TotalNat
<1>5. SupplyIsHeld' /\ totalSupply' \in Nat
  <2>1. shares \in [Lps -> Nat] /\ \A y \in Lps \ {h} : shares'[y] = shares[y]
    BY <1>2
  <2>2. Total(shares', Lps) = Total(shares, Lps) - shares[h] + shares'[h]
    BY <1>3, <2>1, Addresses, TotalUpdate
  <2>3. shares'[h] = shares[h] - burned /\ totalSupply' = totalSupply - burned
    BY <1>2 DEF PayOut
  <2>4. shares[h] \in Nat
    BY <1>2
  <2> QED  BY <1>2, <1>4, <2>2, <2>3, <2>4 DEF SupplyIsHeld
<1>6. TypeOK'
  BY <1>1, <1>3, <1>5 DEF TypeOK, wiring, books, positions, totals
<1> QED  BY <1>1, <1>5, <1>6, BooksStand

\* Prices are positive, so every rounding yields a natural number.
LEMMA PricesNat ==
  ASSUME TypeOK
  PROVE  /\ TotalAssets \in Nat
         /\ PricedAssets \in Nat \ {0} /\ PricedShares \in Nat \ {0}
         /\ MaxDeposit \in Nat
BY Addresses, PoolAssumption, AgentAssumption
   DEF TypeOK, TotalAssets, PricedAssets, PricedShares, MaxDeposit

LEMMA LpInv ==
  ASSUME AgentInv, LpStep
  PROVE  AgentInv'
<1>1. PICK h \in Lps :
        \/ \E assets \in Amounts : Deposit(h, assets) \/ Withdraw(h, assets)
        \/ \E s \in ShareAmounts : Mint(h, s) \/ Redeem(h, s)
  BY DEF LpStep
<1>2. CountCall /\ UNCHANGED <<wiring, openPositionsValue, marks, books>>
  BY DEF LpStep
<1>3. /\ PricedAssets \in Nat \ {0} /\ PricedShares \in Nat \ {0}
      /\ Amounts \subseteq Nat /\ ShareAmounts \subseteq Nat
  BY PricesNat, PoolAssumption DEF AgentInv
<1>4. ASSUME NEW assets \in Amounts, Deposit(h, assets) \/ Withdraw(h, assets)
      PROVE  AgentInv'
  <2>1. assets \in Nat /\ assets * PricedShares \in Nat
    BY <1>3
  <2>2. /\ Floor(assets * PricedShares, PricedAssets) \in Nat
        /\ Ceil(assets * PricedShares, PricedAssets) \in Nat
    BY <1>3, <2>1, DivisionNat
  <2> QED  BY <1>2, <1>4, <2>1, <2>2, TakeInInv, PayOutInv DEF Deposit, Withdraw
<1>5. ASSUME NEW s \in ShareAmounts, Mint(h, s) \/ Redeem(h, s)
      PROVE  AgentInv'
  <2>1. s \in Nat /\ s * PricedAssets \in Nat
    BY <1>3
  <2>2. /\ Floor(s * PricedAssets, PricedShares) \in Nat
        /\ Ceil(s * PricedAssets, PricedShares) \in Nat
    BY <1>3, <2>1, DivisionNat
  <2> QED  BY <1>2, <1>5, <2>1, <2>2, TakeInInv, PayOutInv DEF Mint, Redeem
<1> QED  BY <1>1, <1>4, <1>5

\* Steps that move neither shares nor positions, and no USDC of the relayer.
LEMMA IdleInv ==
  ASSUME AgentInv,
         \/ \E h \in Donors, amount \in Amounts : Donate(h, amount)
         \/ \E newValue \in Marks : MarkPositions(newValue)
         \/ \E next \in Books \cup {NoBook} : ProposePositionBook(next)
         \/ \E b \in Books : AcceptVaultWiring(b)
         \/ UNCHANGED vars
  PROVE  AgentInv'
<1> USE DEF AgentInv
<1>1. CASE \E h \in Donors, amount \in Amounts : Donate(h, amount)
  <2>1. PICK h \in Donors, amount \in Amounts : Donate(h, amount)
    BY <1>1
  <2>2. /\ usdc \in [Accounts -> Nat] /\ amount \in Nat /\ amount <= usdc[h]
        /\ usdc' = Transferred(usdc, h, Vault, amount)
        /\ UNCHANGED <<shares, totalSupply, wiring, openPositionsValue, marks, books>>
    BY <2>1, PoolAssumption DEF Donate, SendToVault, TypeOK
  <2>3. /\ h \in Accounts /\ Vault \in Accounts /\ h # Vault
        /\ Relayer \in Accounts \ {h, Vault}
    BY Addresses
  <2>4. usdc' \in [Accounts -> Nat] /\ usdc'[Relayer] = usdc[Relayer]
    BY <2>2, <2>3, Transfers
  <2>5. calls' \in Nat
    <3>1. calls \in Nat /\ calls' = calls + 1
      BY <2>1 DEF TypeOK, Donate, CountCall
    <3> QED  BY <3>1
  <2>6. TypeOK' /\ SupplyIsHeld'
    BY <2>2, <2>4, <2>5 DEF TypeOK, SupplyIsHeld, wiring, books, positions, totals
  <2> QED  BY <2>2, <2>4, <2>6, BooksStand
<1>2. CASE \E newValue \in Marks : MarkPositions(newValue)
  <2>1. PICK newValue \in Marks : MarkPositions(newValue)
    BY <1>2
  <2>2. /\ UNCHANGED <<ledger, calls, wiring, books>>
        /\ marks' = marks + 1 /\ marks \in Nat /\ openPositionsValue' \in Nat
    BY <2>1, AgentAssumption DEF MarkPositions, TypeOK
  <2>3. TypeOK' /\ SupplyIsHeld' /\ RelayerAccountedFor'
    BY <2>2 DEF TypeOK, SupplyIsHeld, RelayerAccountedFor,
                ledger, wiring, books, positions, totals
  <2>4. marks' # 0
    BY <2>2
  <2>5. NotionalMirrored'
    BY <2>2, <2>4 DEF NotionalMirrored, Cost, books, positions, totals
  <2> QED  BY <2>3, <2>5
<1>3. CASE \/ \E next \in Books \cup {NoBook} : ProposePositionBook(next)
           \/ \E b \in Books : AcceptVaultWiring(b)
           \/ UNCHANGED vars
  <2>1. /\ UNCHANGED <<ledger, calls, openPositionsValue, marks, books>>
        /\ {positionBook', pendingPositionBook'} \subseteq Books \cup {NoBook}
    BY <1>3 DEF ProposePositionBook, AcceptVaultWiring, vars, wiring, TypeOK
  <2>2. TypeOK' /\ SupplyIsHeld'
    BY <2>1 DEF TypeOK, SupplyIsHeld, ledger, books, positions, totals
  <2> QED  BY <2>1, <2>2, BooksStand DEF ledger
<1> QED  BY <1>1, <1>2, <1>3

-----------------------------------------------------------------------------
(* Positions.                                                              *)

\* If one position of book b changes, and the counter of b with it by as much,
\* every counter still is the cost of the open positions of its book.
LEMMA OnePositionChanges ==
  ASSUME TypeOK, TypeOK', NotionalMirrored, NEW b \in Books, NEW id \in PositionIds,
         \A c \in Books, j \in PositionIds :
           <<c, j>> # <<b, id>> => status'[c][j] = status[c][j] /\ size'[c][j] = size[c][j],
         \A c \in Books \ {b} : openNotional'[c] = openNotional[c],
         openNotional'[b] = openNotional[b] - Cost(b)[id] + Cost(b)'[id]
  PROVE  \A c \in Books : openNotional'[c] = Total(Cost(c)', PositionIds)
<1>1. \A c \in Books : Cost(c) \in [PositionIds -> Nat] /\ Cost(c)' \in [PositionIds -> Nat]
  BY DEF TypeOK, Cost
<1>2. ASSUME NEW c \in Books, c # b
      PROVE  openNotional'[c] = Total(Cost(c)', PositionIds)
  <2>1. Cost(c)' = Cost(c)
    BY <1>2 DEF Cost
  <2> QED  BY <1>2, <2>1 DEF NotionalMirrored
<1>3. openNotional'[b] = Total(Cost(b)', PositionIds)
  <2>1. \A j \in PositionIds \ {id} : Cost(b)'[j] = Cost(b)[j]
    BY DEF Cost
  <2>2. Total(Cost(b)', PositionIds) = Total(Cost(b), PositionIds) - Cost(b)[id] + Cost(b)'[id]
    BY <1>1, <2>1, TotalUpdate, AgentAssumption
  <2> QED  BY <2>2 DEF NotionalMirrored
<1> QED  BY <1>2, <1>3

\* The sum over the books follows the counter of one book.
LEMMA OneBookChanges ==
  ASSUME NEW f \in [Books -> Nat], NEW g \in [Books -> Nat], NEW b \in Books,
         \A c \in Books \ {b} : g[c] = f[c]
  PROVE  /\ Total(g, Books) = Total(f, Books) - f[b] + g[b]
         /\ Total(f, Books) \in Nat /\ f[b] <= Total(f, Books)
BY TotalUpdate, TotalNat, AgentAssumption

LEMMA OpenInv ==
  ASSUME AgentInv, NEW b \in Books, NEW id \in PositionIds, NEW n \in Sizes, Open(b, id, n)
  PROVE  AgentInv'
<1> USE DEF AgentInv
<1>1. n \in Nat /\ Vault \in Accounts /\ Relayer \in Accounts /\ Relayer # Vault
  BY AgentAssumption, Addresses
<1>2. usdc' \in [Accounts -> Nat] /\ usdc'[Relayer] = usdc[Relayer] + n
  <2>1. /\ usdc \in [Accounts -> Nat] /\ n <= usdc[Vault]
        /\ usdc' = Transferred(usdc, Vault, Relayer, n)
    BY DEF Open, TypeOK
  <2> QED  BY <1>1, <2>1, Transfers
<1>3. /\ status' \in [Books -> [PositionIds -> Statuses]]
      /\ size' \in [Books -> [PositionIds -> Nat]]
      /\ openNotional' \in [Books -> Nat]
      /\ openPositionsValue \in Nat /\ openPositionsValue' = openPositionsValue + n
  <2>1. /\ status \in [Books -> [PositionIds -> Statuses]]
        /\ size \in [Books -> [PositionIds -> Nat]]
        /\ openNotional \in [Books -> Nat] /\ openPositionsValue \in Nat
    BY DEF TypeOK
  <2>2. openNotional' = [openNotional EXCEPT ![b] = @ + n]
    BY DEF Open
  <2>3. openNotional' \in [Books -> Nat]
    BY <1>1, <2>1, <2>2
  <2>4. status' \in [Books -> [PositionIds -> Statuses]]
    BY <2>1 DEF Open, Statuses
  <2>5. size' \in [Books -> [PositionIds -> Nat]]
    BY <1>1, <2>1 DEF Open
  <2> QED  BY <2>1, <2>3, <2>4, <2>5 DEF Open
<1>4. TypeOK'
  <2>1. openPositionsValue' \in Nat
    BY <1>1, <1>3
  <2> QED  BY <1>2, <1>3, <2>1 DEF TypeOK, Open, wiring
<1>5. SupplyIsHeld'
  BY DEF SupplyIsHeld, Open
<1>6. /\ \A c \in Books \ {b} : openNotional'[c] = openNotional[c]
      /\ openNotional'[b] = openNotional[b] + n /\ openNotional[b] \in Nat
  BY DEF Open, TypeOK
<1>7. Total(openNotional', Books) = Total(openNotional, Books) + n
      /\ Total(openNotional, Books) \in Nat
  <2>1. openNotional \in [Books -> Nat]
    BY DEF TypeOK
  <2>2. /\ Total(openNotional', Books)
             = Total(openNotional, Books) - openNotional[b] + openNotional'[b]
        /\ Total(openNotional, Books) \in Nat
    BY <1>3, <1>6, <2>1, OneBookChanges
  <2> QED  BY <1>1, <1>6, <2>2
<1>8. NotionalMirrored'
  <2>1. \A c \in Books, j \in PositionIds :
          <<c, j>> # <<b, id>> => status'[c][j] = status[c][j] /\ size'[c][j] = size[c][j]
    BY DEF Open, TypeOK
  <2>2. Cost(b)[id] = 0 /\ Cost(b)'[id] = n
    BY DEF Open, Unused, TypeOK, Cost
  <2>3. openNotional'[b] = openNotional[b] - Cost(b)[id] + Cost(b)'[id]
    BY <1>1, <1>6, <2>2
  <2>4. \A c \in Books : openNotional'[c] = Total(Cost(c)', PositionIds)
    BY <1>4, <1>6, <2>1, <2>3, OnePositionChanges
  <2>5. marks' = marks
    BY DEF Open
  <2> QED  BY <1>3, <1>7, <2>4, <2>5 DEF NotionalMirrored
<1>9. RelayerAccountedFor'
  <2>1. /\ usdc[Relayer] \in Nat /\ Endowment[Relayer] \in Nat
        /\ Total(lifetimeProceeds, Books) \in Nat /\ Total(lifetimeCostBasis, Books) \in Nat
    BY <1>1, TotalNat, AgentAssumption, PoolAssumption DEF TypeOK
  <2>2. lifetimeProceeds' = lifetimeProceeds /\ lifetimeCostBasis' = lifetimeCostBasis
    BY DEF Open
  <2> QED  BY <1>1, <1>2, <1>7, <2>1, <2>2 DEF RelayerAccountedFor
<1> QED  BY <1>4, <1>5, <1>8, <1>9

\* A close takes the position's cost off counters that contain it.
LEMMA CloseInv ==
  ASSUME AgentInv, NEW b \in Books, NEW id \in PositionIds, NEW p \in Proceeds,
         Close(b, id, p)
  PROVE  AgentInv'
<1> USE DEF AgentInv
<1> DEFINE n == size[b][id]
<1>1. /\ p \in Nat /\ n \in Nat /\ Vault \in Accounts /\ Relayer \in Accounts
      /\ Relayer # Vault
  BY AgentAssumption, Addresses DEF TypeOK
<1>2. /\ usdc' \in [Accounts -> Nat] /\ usdc'[Relayer] = usdc[Relayer] - p
      /\ usdc[Relayer] \in Nat
  <2>1. /\ usdc \in [Accounts -> Nat] /\ p <= usdc[Relayer]
        /\ usdc' = Transferred(usdc, Relayer, Vault, p)
    BY DEF Close, TypeOK
  <2> QED  BY <1>1, <2>1, Transfers
<1>3. Cost(b)[id] = n /\ Cost(b)'[id] = 0
  BY DEF Close, TypeOK, Cost
<1>4. n <= openNotional[b] /\ openNotional[b] \in Nat
  <2>1. Cost(b) \in [PositionIds -> Nat]
    BY DEF TypeOK, Cost
  <2>2. Cost(b)[id] <= Total(Cost(b), PositionIds)
    BY <2>1, TotalNat, AgentAssumption
  <2> QED  BY <1>3, <2>2 DEF NotionalMirrored, TypeOK
<1>5. /\ status' \in [Books -> [PositionIds -> Statuses]]
      /\ openNotional' = [openNotional EXCEPT ![b] = @ - n]
      /\ lifetimeCostBasis' = [lifetimeCostBasis EXCEPT ![b] = @ + n]
      /\ lifetimeProceeds' = [lifetimeProceeds EXCEPT ![b] = @ + p]
  BY DEF Close, TypeOK, Statuses, Booked
<1>6. /\ openNotional' \in [Books -> Nat] /\ openNotional \in [Books -> Nat]
      /\ lifetimeCostBasis' \in [Books -> Nat] /\ lifetimeCostBasis \in [Books -> Nat]
      /\ lifetimeProceeds' \in [Books -> Nat] /\ lifetimeProceeds \in [Books -> Nat]
  <2>1. openNotional[b] - n \in Nat
    BY <1>1, <1>4
  <2> HIDE DEF n
  <2> QED  BY <1>1, <1>5, <2>1 DEF TypeOK
<1>7. /\ openPositionsValue \in Nat /\ openPositionsValue' \in Nat
      /\ n <= openPositionsValue => openPositionsValue' = openPositionsValue - n
  BY <1>1 DEF Close, ValueLess, TypeOK
<1>8. TypeOK'
  BY <1>2, <1>5, <1>6, <1>7 DEF TypeOK, Close, wiring
<1>9. SupplyIsHeld'
  BY DEF SupplyIsHeld, Close
<1> HIDE DEF n
<1>10. /\ Total(openNotional', Books) = Total(openNotional, Books) - n
       /\ Total(openNotional, Books) \in Nat /\ n <= Total(openNotional, Books)
  <2>1. /\ Total(openNotional', Books)
             = Total(openNotional, Books) - openNotional[b] + openNotional'[b]
        /\ Total(openNotional, Books) \in Nat /\ openNotional[b] <= Total(openNotional, Books)
    <3>1. \A c \in Books \ {b} : openNotional'[c] = openNotional[c]
      BY <1>5, <1>6
    <3> QED  BY <1>6, <3>1, OneBookChanges
  <2>2. openNotional'[b] = openNotional[b] - n
    BY <1>5, <1>6
  <2> QED  BY <1>1, <1>4, <2>1, <2>2
<1>11. NotionalMirrored'
  <2>1. \A c \in Books, j \in PositionIds :
          <<c, j>> # <<b, id>> => status'[c][j] = status[c][j] /\ size'[c][j] = size[c][j]
    BY DEF Close, TypeOK
  <2>2. openNotional'[b] = openNotional[b] - Cost(b)[id] + Cost(b)'[id]
    BY <1>1, <1>3, <1>4, <1>5, <1>6
  <2>3. \A c \in Books \ {b} : openNotional'[c] = openNotional[c]
    BY <1>5, <1>6
  <2>4. \A c \in Books : openNotional'[c] = Total(Cost(c)', PositionIds)
    BY <1>8, <2>1, <2>2, <2>3, OnePositionChanges
  <2>5. marks' = marks
    BY DEF Close
  <2>6. marks = 0 => openPositionsValue' = Total(openNotional', Books)
    BY <1>7, <1>10 DEF NotionalMirrored
  <2> QED  BY <2>4, <2>5, <2>6 DEF NotionalMirrored
<1>12. RelayerAccountedFor'
  <2>1. /\ Total(lifetimeProceeds', Books) = Total(lifetimeProceeds, Books) + p
        /\ Total(lifetimeProceeds, Books) \in Nat
    <3>1. /\ Total(lifetimeProceeds', Books)
               = Total(lifetimeProceeds, Books) - lifetimeProceeds[b] + lifetimeProceeds'[b]
          /\ Total(lifetimeProceeds, Books) \in Nat
      <4>1. \A c \in Books \ {b} : lifetimeProceeds'[c] = lifetimeProceeds[c]
        BY <1>5, <1>6
      <4> QED  BY <1>6, <4>1, OneBookChanges
    <3>2. lifetimeProceeds'[b] = lifetimeProceeds[b] + p /\ lifetimeProceeds[b] \in Nat
      BY <1>5, <1>6
    <3> QED  BY <1>1, <3>1, <3>2
  <2>2. /\ Total(lifetimeCostBasis', Books) = Total(lifetimeCostBasis, Books) + n
        /\ Total(lifetimeCostBasis, Books) \in Nat
    <3>1. /\ Total(lifetimeCostBasis', Books)
               = Total(lifetimeCostBasis, Books) - lifetimeCostBasis[b] + lifetimeCostBasis'[b]
          /\ Total(lifetimeCostBasis, Books) \in Nat
      <4>1. \A c \in Books \ {b} : lifetimeCostBasis'[c] = lifetimeCostBasis[c]
        BY <1>5, <1>6
      <4> QED  BY <1>6, <4>1, OneBookChanges
    <3>2. lifetimeCostBasis'[b] = lifetimeCostBasis[b] + n /\ lifetimeCostBasis[b] \in Nat
      BY <1>5, <1>6
    <3> QED  BY <1>1, <3>1, <3>2
  <2>3. Endowment[Relayer] \in Nat
    BY AgentAssumption, PoolAssumption
  <2> QED  BY <1>1, <1>2, <1>10, <2>1, <2>2, <2>3 DEF RelayerAccountedFor
<1> QED  BY <1>8, <1>9, <1>11, <1>12

-----------------------------------------------------------------------------
(* Theorems.                                                               *)

LEMMA AgentInit == Init => AgentInv
<1> SUFFICES ASSUME Init PROVE AgentInv
  OBVIOUS
<1>1. TypeOK
  BY PoolAssumption, AgentAssumption DEF Init, LedgerInit, TypeOK, Accounts, Statuses
<1>2. SupplyIsHeld
  BY TotalZero DEF Init, LedgerInit, SupplyIsHeld
<1>3. \A b \in Books : Total(Cost(b), PositionIds) = 0
  BY TotalZero DEF Init, Cost
<1>4. /\ Total(openNotional, Books) = 0 /\ Total(lifetimeProceeds, Books) = 0
      /\ Total(lifetimeCostBasis, Books) = 0
  BY TotalZero DEF Init
<1>5. NotionalMirrored
  BY <1>3, <1>4 DEF Init, NotionalMirrored
<1>6. usdc[Relayer] = Endowment[Relayer] /\ Endowment[Relayer] \in Nat
  BY Addresses, PoolAssumption, AgentAssumption DEF Init, LedgerInit
<1>7. RelayerAccountedFor
  BY <1>4, <1>6 DEF RelayerAccountedFor
<1> QED  BY <1>1, <1>2, <1>5, <1>7 DEF AgentInv

\* The inductive invariant of pool and books.
THEOREM AgentInvariance == Spec => []AgentInv
<1>1. AgentInv /\ [Next]_vars => AgentInv'
  <2> SUFFICES ASSUME AgentInv, [Next]_vars PROVE AgentInv'
    OBVIOUS
  <2>1. CASE LpStep
    BY <2>1, LpInv
  <2>2. ASSUME NEW b \in Books, NEW id \in PositionIds,
               \/ \E n \in Sizes : Open(b, id, n)
               \/ \E p \in Proceeds : Close(b, id, p)
        PROVE  AgentInv'
    BY <2>2, OpenInv, CloseInv
  <2>3. CASE \/ \E h \in Donors, amount \in Amounts : Donate(h, amount)
             \/ \E newValue \in Marks : MarkPositions(newValue)
             \/ \E next \in Books \cup {NoBook} : ProposePositionBook(next)
             \/ \E b \in Books : AcceptVaultWiring(b)
             \/ UNCHANGED vars
    BY <2>3, IdleInv
  <2> QED  BY <2>1, <2>2, <2>3 DEF Next
<1> QED  BY <1>1, AgentInit, PTL DEF Spec

\* No balance, share count, value or notional of a pool ever underflows.
THEOREM AgentTypeCorrect == Spec => []TypeOK
<1>1. AgentInv => TypeOK
  BY DEF AgentInv
<1> QED  BY <1>1, AgentInvariance, PTL

\* I-PB-3 for any number of books and positions and any history of re-wirings.
THEOREM NotionalIsMirrored == Spec => []NotionalMirrored
<1>1. AgentInv => NotionalMirrored
  BY DEF AgentInv
<1> QED  BY <1>1, AgentInvariance, PTL

\* Every unit between a pool and its relayer is in the totals of the books.
THEOREM RelayerIsAccountedFor == Spec => []RelayerAccountedFor
<1>1. AgentInv => RelayerAccountedFor
  BY DEF AgentInv
<1> QED  BY <1>1, AgentInvariance, PTL

\* The assets after shares were minted for `assets`.
LEMMA TakeInAssets ==
  ASSUME TypeOK, NEW h \in Lps, NEW assets \in Nat, NEW minted \in Nat,
         TakeIn(h, assets, minted), UNCHANGED openPositionsValue
  PROVE  TotalAssets' = TotalAssets + assets /\ totalSupply' = totalSupply + minted
<1>1. /\ usdc \in [Accounts -> Nat] /\ assets <= usdc[h]
      /\ usdc' = Transferred(usdc, h, Vault, assets)
      /\ totalSupply' = totalSupply + minted
  BY DEF TakeIn, TypeOK
<1>2. h \in Accounts /\ Vault \in Accounts /\ h # Vault
  BY Addresses
<1>3. usdc'[Vault] = usdc[Vault] + assets /\ usdc[Vault] \in Nat
  BY <1>1, <1>2, Transfers
<1>4. openPositionsValue \in Nat /\ openPositionsValue' = openPositionsValue
  BY DEF TypeOK
<1> QED  BY <1>1, <1>3, <1>4 DEF TotalAssets

\* A call that takes in no more than the room under the cap respects it.
LEMMA RoomRespected ==
  ASSUME TypeOK, NEW h \in Lps, NEW assets \in Nat, NEW minted \in Nat,
         TakeIn(h, assets, minted), UNCHANGED openPositionsValue,
         assets <= MaxDeposit, MaxDeposit = 0 => minted = 0, totalSupply' > totalSupply
  PROVE  TotalAssets' <= MaxAum
<1>1. TotalAssets' = TotalAssets + assets /\ totalSupply' = totalSupply + minted
  BY TakeInAssets
<1>2. totalSupply \in Nat /\ TotalAssets \in Nat /\ MaxAum \in Nat
  BY PricesNat, AgentAssumption DEF TypeOK
<1>3. MaxDeposit # 0
  BY <1>1, <1>2
<1>4. MaxDeposit = MaxAum - TotalAssets
  BY <1>3 DEF MaxDeposit
<1> QED  BY <1>1, <1>2, <1>4

\* I-AP-4: depositors never lift a pool over its cap, through either entry point.
THEOREM AumCap == Spec => AumCapHolds
<1>1. ASSUME TypeOK, [Next]_vars, totalSupply' > totalSupply
      PROVE  TotalAssets' <= MaxAum
  <2>1. totalSupply \in Nat
    BY <1>1 DEF TypeOK
  <2>2. totalSupply' # totalSupply
    BY <1>1, <2>1
  <2>3. LpStep
    BY <1>1, <2>2 DEF Next, vars, ledger, Donate, SendToVault, MarkPositions,
                  ProposePositionBook, AcceptVaultWiring, Open, Close
  <2>4. PICK h \in Lps :
          \/ \E assets \in Amounts : Deposit(h, assets) \/ Withdraw(h, assets)
          \/ \E s \in ShareAmounts : Mint(h, s) \/ Redeem(h, s)
    BY <2>3 DEF LpStep
  <2>5. /\ UNCHANGED openPositionsValue /\ Amounts \subseteq Nat /\ ShareAmounts \subseteq Nat
        /\ PricedAssets \in Nat \ {0} /\ PricedShares \in Nat \ {0} /\ MaxDeposit \in Nat
    BY <1>1, <2>3, PricesNat, PoolAssumption DEF LpStep
  <2>6. ASSUME NEW assets \in Nat, NEW burned \in Nat, PayOut(h, assets, burned)
        PROVE  FALSE
    <3>1. totalSupply' = totalSupply - burned
      BY <2>6 DEF PayOut
    <3> QED  BY <1>1, <2>1, <2>6, <3>1
  <2>7. ASSUME NEW assets \in Amounts, Deposit(h, assets)
        PROVE  TotalAssets' <= MaxAum
    <3> DEFINE minted == Floor(assets * PricedShares, PricedAssets)
    <3>1. assets \in Nat /\ assets * PricedShares \in Nat
      BY <2>5
    <3>2. minted \in Nat
      BY <2>5, <3>1, DivisionNat
    <3>3. TakeIn(h, assets, minted) /\ assets <= MaxDeposit
      BY <2>7 DEF Deposit
    <3>4. assets = 0 => minted = 0
      BY <2>5 DEF Floor
    <3>5. MaxDeposit = 0 => minted = 0
      BY <2>5, <3>1, <3>3, <3>4
    <3> HIDE DEF minted
    <3> QED  BY <1>1, <2>5, <3>1, <3>2, <3>3, <3>5, RoomRespected
  <2>8. ASSUME NEW s \in ShareAmounts, Mint(h, s)
        PROVE  TotalAssets' <= MaxAum
    <3> DEFINE assets == Ceil(s * PricedAssets, PricedShares)
    <3>1. s \in Nat /\ s * PricedAssets \in Nat /\ MaxDeposit * PricedShares \in Nat
      BY <2>5
    <3>2. assets \in Nat
      BY <2>5, <3>1, DivisionNat
    <3>3. TakeIn(h, assets, s) /\ s <= MaxMint
      BY <2>8 DEF Mint
    <3>4. MaxMint \in Nat /\ MaxMint * PricedAssets <= MaxDeposit * PricedShares
      BY <2>5, <3>1, DivisionNat DEF MaxMint
    <3>5. s * PricedAssets <= MaxMint * PricedAssets
      BY <2>5, <3>1, <3>3, <3>4
    <3>6. s * PricedAssets <= MaxDeposit * PricedShares
      <4>1. MaxMint * PricedAssets \in Nat
        BY <2>5, <3>4
      <4> QED  BY <3>1, <3>4, <3>5, <4>1
    <3>7. assets <= MaxDeposit
      BY <2>5, <3>1, <3>6, CeilLeast
    <3>8. MaxDeposit = 0 => s = 0
      <4>1. MaxDeposit = 0 => MaxMint = 0
        BY <2>5 DEF MaxMint, Floor
      <4> QED  BY <3>1, <3>3, <3>4, <4>1
    <3> HIDE DEF assets
    <3> QED  BY <1>1, <2>5, <3>1, <3>2, <3>3, <3>7, <3>8, RoomRespected
  <2>9. ASSUME NEW assets \in Amounts, Withdraw(h, assets)
        PROVE  FALSE
    <3>1. assets \in Nat /\ assets * PricedShares \in Nat
      BY <2>5
    <3>2. Ceil(assets * PricedShares, PricedAssets) \in Nat
      BY <2>5, <3>1, DivisionNat
    <3> QED  BY <2>6, <2>9, <3>1, <3>2 DEF Withdraw
  <2>10. ASSUME NEW s \in ShareAmounts, Redeem(h, s)
         PROVE  FALSE
    <3>1. s \in Nat /\ s * PricedAssets \in Nat
      BY <2>5
    <3>2. Floor(s * PricedAssets, PricedShares) \in Nat
      BY <2>5, <3>1, DivisionNat
    <3> QED  BY <2>6, <2>10, <3>1, <3>2 DEF Redeem
  <2> QED  BY <2>4, <2>7, <2>8, <2>9, <2>10
<1>2. TypeOK /\ [Next]_vars => [totalSupply' > totalSupply => TotalAssets' <= MaxAum]_vars
  BY <1>1
<1> QED  BY <1>2, AgentTypeCorrect, PTL DEF Spec, AumCapHolds

\* I-PB-1: positions run once through their lifecycle, at a fixed size.
THEOREM PositionsRunOnceHolds == Spec => PositionsRunOnce
<1> DEFINE Runs ==
      \A b \in Books, id \in PositionIds :
        /\ status'[b][id] # status[b][id] =>
             <<status[b][id], status'[b][id]>> \in {<<"None", "Open">>, <<"Open", "Closed">>}
        /\ status[b][id] # "None" => size'[b][id] = size[b][id]
<1>1. ASSUME TypeOK, [Next]_vars
      PROVE  [Runs]_vars
  <2>1. CASE UNCHANGED positions
    BY <2>1 DEF positions
  <2>2. ASSUME NEW b \in Books, NEW id \in PositionIds, NEW n \in Sizes, Open(b, id, n)
        PROVE  Runs
    BY <1>1, <2>2 DEF TypeOK, Open, Unused
  <2>3. ASSUME NEW b \in Books, NEW id \in PositionIds, NEW p \in Proceeds, Close(b, id, p)
        PROVE  Runs
    BY <1>1, <2>3 DEF TypeOK, Close
  <2>4. CASE ~UNCHANGED positions
    BY <1>1, <2>2, <2>3, <2>4
       DEF Next, vars, books, LpStep, Donate, MarkPositions, ProposePositionBook,
           AcceptVaultWiring
  <2> QED  BY <2>1, <2>4
<1>2. TypeOK /\ [Next]_vars => [Runs]_vars
  BY <1>1
<1> QED  BY <1>2, AgentTypeCorrect, PTL DEF Spec, PositionsRunOnce

-----------------------------------------------------------------------------
(* The price of a share.                                                   *)

\* What is bought or sold keeps the price, if it is rounded for the pool.
LEMMA BoughtPrice ==
  ASSUME TypeOK, NEW h \in Lps, NEW assets \in Nat, NEW minted \in Nat,
         TakeIn(h, assets, minted), UNCHANGED openPositionsValue,
         minted * PricedAssets <= assets * PricedShares
  PROVE  PriceKept
<1>1. PricedAssets \in Nat /\ PricedShares \in Nat /\ TotalAssets \in Nat
  BY PricesNat
<1>2. TotalAssets' = TotalAssets + assets /\ totalSupply' = totalSupply + minted
  BY TakeInAssets
<1>3. (PricedAssets + assets) * PricedShares >= PricedAssets * (PricedShares + minted)
  BY <1>1, BuyingHoldsPrice
<1>4. totalSupply \in Nat /\ VirtualShares \in Nat
  BY PoolAssumption DEF TypeOK
<1>5. TotalAssets' + 1 = PricedAssets + assets /\ totalSupply' + VirtualShares = PricedShares + minted
  BY <1>1, <1>2, <1>4 DEF PricedAssets, PricedShares
<1> QED  BY <1>3, <1>5 DEF PriceKept

LEMMA SoldPrice ==
  ASSUME TypeOK, NEW h \in Lps, NEW assets \in Nat, NEW burned \in Nat,
         PayOut(h, assets, burned), UNCHANGED openPositionsValue,
         assets * PricedShares <= burned * PricedAssets
  PROVE  PriceKept
<1>1. PricedAssets \in Nat /\ PricedShares \in Nat /\ TotalAssets \in Nat
  BY PricesNat
<1>2. TotalAssets' = TotalAssets - assets /\ totalSupply' = totalSupply - burned
  <2>1. /\ usdc \in [Accounts -> Nat] /\ assets <= usdc[Vault]
        /\ usdc' = Transferred(usdc, Vault, h, assets)
        /\ totalSupply' = totalSupply - burned
    BY DEF PayOut, TypeOK
  <2>2. h \in Accounts /\ Vault \in Accounts /\ h # Vault
    BY Addresses
  <2>3. usdc'[Vault] = usdc[Vault] - assets /\ usdc[Vault] \in Nat
    BY <2>1, <2>2, Transfers
  <2>4. openPositionsValue \in Nat /\ openPositionsValue' = openPositionsValue
    BY DEF TypeOK
  <2> QED  BY <2>1, <2>3, <2>4 DEF TotalAssets
<1>3. (PricedAssets - assets) * PricedShares >= PricedAssets * (PricedShares - burned)
  BY <1>1, SellingHoldsPrice
<1>4. totalSupply \in Nat /\ VirtualShares \in Nat
  BY PoolAssumption DEF TypeOK
<1>5. TotalAssets' + 1 = PricedAssets - assets /\ totalSupply' + VirtualShares = PricedShares - burned
  BY <1>1, <1>2, <1>4 DEF PricedAssets, PricedShares
<1> QED  BY <1>3, <1>5 DEF PriceKept

\* The four entry points round against the caller.
LEMMA LpPrice ==
  ASSUME TypeOK, LpStep
  PROVE  PriceKept
<1>1. PICK h \in Lps :
        \/ \E assets \in Amounts : Deposit(h, assets) \/ Withdraw(h, assets)
        \/ \E s \in ShareAmounts : Mint(h, s) \/ Redeem(h, s)
  BY DEF LpStep
<1>2. /\ UNCHANGED openPositionsValue /\ Amounts \subseteq Nat /\ ShareAmounts \subseteq Nat
      /\ PricedAssets \in Nat \ {0} /\ PricedShares \in Nat \ {0}
  BY PricesNat, PoolAssumption DEF LpStep
<1>3. ASSUME NEW assets \in Amounts, Deposit(h, assets) \/ Withdraw(h, assets)
      PROVE  PriceKept
  <2>1. assets \in Nat /\ assets * PricedShares \in Nat
    BY <1>2
  <2>2. PICK minted \in Nat : minted = Floor(assets * PricedShares, PricedAssets)
    BY <1>2, <2>1, DivisionNat
  <2>3. minted * PricedAssets <= assets * PricedShares
    BY <1>2, <2>1, <2>2, DivisionNat
  <2>4. PICK burned \in Nat : burned = Ceil(assets * PricedShares, PricedAssets)
    BY <1>2, <2>1, DivisionNat
  <2>5. assets * PricedShares <= burned * PricedAssets
    BY <1>2, <2>1, <2>4, DivisionNat
  <2>6. TakeIn(h, assets, minted) \/ PayOut(h, assets, burned)
    BY <1>3, <2>2, <2>4 DEF Deposit, Withdraw
  <2> QED  BY <1>2, <2>1, <2>3, <2>5, <2>6, BoughtPrice, SoldPrice
<1>4. ASSUME NEW s \in ShareAmounts, Mint(h, s) \/ Redeem(h, s)
      PROVE  PriceKept
  <2>1. s \in Nat /\ s * PricedAssets \in Nat
    BY <1>2
  <2>2. PICK cost \in Nat : cost = Ceil(s * PricedAssets, PricedShares)
    BY <1>2, <2>1, DivisionNat
  <2>3. s * PricedAssets <= cost * PricedShares
    BY <1>2, <2>1, <2>2, DivisionNat
  <2>4. PICK paid \in Nat : paid = Floor(s * PricedAssets, PricedShares)
    BY <1>2, <2>1, DivisionNat
  <2>5. paid * PricedShares <= s * PricedAssets
    BY <1>2, <2>1, <2>4, DivisionNat
  <2>6. TakeIn(h, cost, s) \/ PayOut(h, paid, s)
    BY <1>4, <2>2, <2>4 DEF Mint, Redeem
  <2> QED  BY <1>2, <2>1, <2>3, <2>5, <2>6, BoughtPrice, SoldPrice
<1> QED  BY <1>1, <1>3, <1>4

\* Assets that do not fall under a constant supply keep the price.
LEMMA AssetsKeepPrice ==
  ASSUME TypeOK, UNCHANGED totalSupply, TotalAssets' \in Nat, TotalAssets' >= TotalAssets
  PROVE  PriceKept
<1>1. PricedAssets \in Nat /\ PricedShares \in Nat /\ TotalAssets \in Nat
  BY PricesNat
<1>2. PICK more \in Nat : TotalAssets' + 1 = PricedAssets + more
  <2>1. PICK after \in Nat : after = TotalAssets'
    OBVIOUS
  <2>2. PICK before \in Nat : before = TotalAssets
    BY <1>1
  <2>3. after >= before
    BY <2>1, <2>2, Zenon
  <2>4. after - before \in Nat /\ after + 1 = before + 1 + (after - before)
    BY <2>3
  <2> QED  BY <2>1, <2>2, <2>4 DEF PricedAssets
<1>3. (PricedAssets + more) * PricedShares >= PricedAssets * (PricedShares + 0)
  <2>1. 0 * PricedAssets <= more * PricedShares
    <3>1. more * PricedShares \in Nat /\ 0 * PricedAssets = 0
      BY <1>1
    <3> QED  BY <3>1
  <2> QED  BY <1>1, <2>1, BuyingHoldsPrice
<1>4. totalSupply' + VirtualShares = PricedShares /\ PricedShares + 0 = PricedShares
  BY <1>1 DEF PricedShares
<1> QED  BY <1>2, <1>3, <1>4 DEF PriceKept

\* A donation adds assets and no shares.
LEMMA DonatePrice ==
  ASSUME TypeOK, NEW h \in Donors, NEW amount \in Amounts, Donate(h, amount)
  PROVE  PriceKept
<1>1. /\ usdc \in [Accounts -> Nat] /\ amount \in Nat /\ amount <= usdc[h]
      /\ usdc' = Transferred(usdc, h, Vault, amount)
      /\ UNCHANGED <<totalSupply, openPositionsValue>> /\ openPositionsValue \in Nat
  BY PoolAssumption DEF Donate, SendToVault, TypeOK
<1>2. h \in Accounts /\ Vault \in Accounts /\ h # Vault
  BY Addresses
<1>3. usdc'[Vault] = usdc[Vault] + amount /\ usdc[Vault] \in Nat
  BY <1>1, <1>2, Transfers
<1>4. TotalAssets' \in Nat /\ TotalAssets' >= TotalAssets
  BY <1>1, <1>3 DEF TotalAssets
<1> QED  BY <1>1, <1>4, AssetsKeepPrice

\* Opening a position moves USDC into value.
LEMMA OpenPrice ==
  ASSUME TypeOK, NEW b \in Books, NEW id \in PositionIds, NEW n \in Sizes, Open(b, id, n)
  PROVE  PriceKept
<1>1. n \in Nat /\ Vault \in Accounts /\ Relayer \in Accounts /\ Relayer # Vault
  BY AgentAssumption, Addresses
<1>2. usdc'[Vault] = usdc[Vault] - n /\ usdc[Vault] \in Nat
  <2>1. /\ usdc \in [Accounts -> Nat] /\ n <= usdc[Vault]
        /\ usdc' = Transferred(usdc, Vault, Relayer, n)
    BY DEF Open, TypeOK
  <2> QED  BY <1>1, <2>1, Transfers
<1>3. openPositionsValue \in Nat /\ openPositionsValue' = openPositionsValue + n
  BY DEF Open, TypeOK
<1>4. TotalAssets' = TotalAssets /\ TotalAssets \in Nat
  BY <1>1, <1>2, <1>3 DEF TotalAssets
<1> QED  BY <1>4, AssetsKeepPrice DEF Open

\* A close takes off the position's size, never more than the value that is
\* left, and brings in its proceeds.
LEMMA ClosePrice ==
  ASSUME TypeOK, NEW b \in Books, NEW id \in PositionIds, NEW p \in Proceeds, Close(b, id, p)
  PROVE  \/ PriceKept
         \/ lifetimeProceeds'[b] - lifetimeProceeds[b] < lifetimeCostBasis'[b] - lifetimeCostBasis[b]
<1>1. p \in Nat /\ Vault \in Accounts /\ Relayer \in Accounts /\ Relayer # Vault
  BY AgentAssumption, Addresses
<1>2. PICK n \in Nat : n = size[b][id]
  BY DEF TypeOK
<1>3. usdc'[Vault] = usdc[Vault] + p /\ usdc[Vault] \in Nat
  <2>1. /\ usdc \in [Accounts -> Nat] /\ p <= usdc[Relayer]
        /\ usdc' = Transferred(usdc, Relayer, Vault, p)
    BY DEF Close, TypeOK
  <2> QED  BY <1>1, <2>1, Transfers
<1>4. /\ lifetimeProceeds'[b] = lifetimeProceeds[b] + p /\ lifetimeProceeds[b] \in Nat
      /\ lifetimeCostBasis'[b] = lifetimeCostBasis[b] + n /\ lifetimeCostBasis[b] \in Nat
  BY <1>2 DEF Close, Booked, TypeOK
<1>5. /\ openPositionsValue \in Nat
      /\ openPositionsValue' = IF n >= openPositionsValue THEN 0 ELSE openPositionsValue - n
  BY <1>2 DEF Close, ValueLess, TypeOK
<1>6. CASE p < n
  BY <1>1, <1>2, <1>4, <1>6
<1>7. CASE p >= n
  <2>1. TotalAssets' \in Nat /\ TotalAssets' >= TotalAssets
    BY <1>1, <1>3, <1>5, <1>7 DEF TotalAssets
  <2> QED  BY <2>1, AssetsKeepPrice DEF Close
<1> QED  BY <1>1, <1>2, <1>6, <1>7

\* A share loses value by a losing close or the owner's mark, and by nothing
\* else, whatever the amounts and however the entry points round.
THEOREM PriceFallsByTrades == Spec => PriceFallsByTradesOnly
<1> DEFINE Falls ==
      \/ PriceKept
      \/ marks' # marks
      \/ \E b \in Books :
           lifetimeProceeds'[b] - lifetimeProceeds[b] < lifetimeCostBasis'[b] - lifetimeCostBasis[b]
<1>1. ASSUME TypeOK, Next
      PROVE  Falls
  <2>1. CASE LpStep
    BY <1>1, <2>1, LpPrice
  <2>2. ASSUME NEW h \in Donors, NEW amount \in Amounts, Donate(h, amount)
        PROVE  PriceKept
    BY <1>1, <2>2, DonatePrice
  <2>3. ASSUME NEW newValue \in Marks, MarkPositions(newValue)
        PROVE  marks' # marks
    <3>1. marks \in Nat /\ marks' = marks + 1
      BY <1>1, <2>3 DEF MarkPositions, TypeOK
    <3> QED  BY <3>1
  <2>4. CASE \/ \E next \in Books \cup {NoBook} : ProposePositionBook(next)
             \/ \E b \in Books : AcceptVaultWiring(b)
    <3>1. UNCHANGED <<usdc, totalSupply, openPositionsValue>>
      BY <2>4 DEF ProposePositionBook, AcceptVaultWiring, ledger
    <3>2. TotalAssets' = TotalAssets /\ TotalAssets \in Nat
      BY <1>1, <3>1, PricesNat DEF TotalAssets
    <3> QED  BY <1>1, <3>1, <3>2, AssetsKeepPrice
  <2>5. ASSUME NEW b \in Books, NEW id \in PositionIds, NEW n \in Sizes, Open(b, id, n)
        PROVE  PriceKept
    BY <1>1, <2>5, OpenPrice
  <2>6. ASSUME NEW b \in Books, NEW id \in PositionIds, NEW p \in Proceeds, Close(b, id, p)
        PROVE  Falls
    BY <1>1, <2>6, ClosePrice
  <2> QED  BY <1>1, <2>1, <2>2, <2>3, <2>4, <2>5, <2>6 DEF Next
<1>2. TypeOK /\ [Next]_vars => [Falls]_vars
  BY <1>1
<1> QED  BY <1>2, AgentTypeCorrect, PTL DEF Spec, PriceFallsByTradesOnly

-----------------------------------------------------------------------------
(* The promise to depositors.                                              *)

\* An open position cost something.
Sized == \A b \in Books, id \in PositionIds : status[b][id] = "Open" => size[b][id] # 0

THEOREM OpenPositionsCost == Spec => []Sized
<1>1. Init => Sized
  BY DEF Init, Sized
<1>2. ASSUME TypeOK, Sized, [Next]_vars
      PROVE  Sized'
  <2>1. CASE UNCHANGED positions
    BY <1>2, <2>1 DEF positions, Sized
  <2>2. ASSUME NEW b \in Books, NEW id \in PositionIds, NEW n \in Sizes, Open(b, id, n)
        PROVE  Sized'
    BY <1>2, <2>2 DEF TypeOK, Sized, Open
  <2>3. ASSUME NEW b \in Books, NEW id \in PositionIds, NEW p \in Proceeds, Close(b, id, p)
        PROVE  Sized'
    BY <1>2, <2>3 DEF TypeOK, Sized, Close
  <2>4. CASE ~UNCHANGED positions
    BY <1>2, <2>2, <2>3, <2>4
       DEF Next, vars, books, LpStep, Donate, MarkPositions, ProposePositionBook,
           AcceptVaultWiring
  <2> QED  BY <2>1, <2>4
<1>3. TypeOK /\ Sized /\ [Next]_vars => Sized'
  BY <1>2
<1> QED  BY <1>1, <1>3, AgentTypeCorrect, PTL DEF Spec

LEMMA PositionsFinite ==
  /\ IsFiniteSet(AllPositions) /\ IsFiniteSet(Books) /\ IsFiniteSet(PositionIds)
  /\ \A p \in AllPositions : p = <<p[1], p[2]>> /\ p[1] \in Books /\ p[2] \in PositionIds
<1>1. IsFiniteSet(Books) /\ IsFiniteSet(PositionIds)
  BY AgentAssumption
<1>2. IsFiniteSet(AllPositions)
  BY <1>1, FS_Product DEF AllPositions
<1> QED  BY <1>1, <1>2 DEF AllPositions

LEMMA PaidForType ==
  ASSUME TypeOK
  PROVE  /\ PaidFor \in [AllPositions -> Nat]
         /\ \A b \in Books, id \in PositionIds :
              <<b, id>> \in AllPositions /\ PaidFor[<<b, id>>] = Cost(b)[id]
<1>1. \A b \in Books, id \in PositionIds : Cost(b)[id] \in Nat
  BY DEF Cost, TypeOK
<1> QED  BY <1>1 DEF PaidFor, AllPositions

\* What one book's positions cost, counted among those of all books.
LEMMA CostOfBook ==
  ASSUME TypeOK, NEW b \in Books
  PROVE  Total(Cost(b), PositionIds) = Total(PaidFor, {p \in AllPositions : p[1] = b})
<1> DEFINE G == {p \in AllPositions : p[1] = b}
           f == [p \in G |-> PaidFor[p]]
           m == [id \in PositionIds |-> <<b, id>>]
<1>1. IsFiniteSet(G) /\ IsFiniteSet(PositionIds)
  BY PositionsFinite, FS_Subset
<1>2. Cost(b) \in [PositionIds -> Nat] /\ f \in [G -> Nat]
  BY PaidForType DEF Cost, TypeOK
<1>3. \A id \in PositionIds : m[id] \in G /\ f[m[id]] = Cost(b)[id]
  BY PaidForType
<1>4. m \in Bijection(PositionIds, G)
  <2>1. m \in [PositionIds -> G]
    BY <1>3
  <2>2. \A i, j \in PositionIds : m[i] = m[j] => i = j
    OBVIOUS
  <2>3. \A p \in G : \E id \in PositionIds : m[id] = p
    BY PositionsFinite
  <2> QED  BY <2>1, <2>2, <2>3 DEF Bijection, Injection, IsInjective, Surjection
<1>5. \A p \in G : f[p] = PaidFor[p]
  OBVIOUS
<1> HIDE DEF f, m, G
<1>6. Total(Cost(b), PositionIds) = Total(f, G)
  BY <1>1, <1>2, <1>3, <1>4, TotalRenamed
<1>7. Total(f, G) = Total(PaidFor, G)
  BY <1>5, TotalSame
<1> QED  BY <1>6, <1>7 DEF G

\* The abstract pool's assets are the vault's totalAssets() until a mark.
LEMMA AssetsAgree == AgentInv /\ marks = 0 => Claims!Assets = TotalAssets
<1> SUFFICES ASSUME AgentInv, marks = 0  PROVE Claims!Assets = TotalAssets
  OBVIOUS
<1> USE DEF AgentInv
<1>1. Claims!Assets = usdc[Vault] + Total(PaidFor, AllPositions)
  <2>1. \A S : Claims!Cardinality(S) = Cardinality(S)
    BY DEF Claims!Cardinality, Cardinality
  <2>2. Claims!Units(PaidFor, AllPositions) = Units(PaidFor, AllPositions)
    BY DEF Claims!Units, Claims!UnitsOf, Units, UnitsOf
  <2> QED  BY <2>1, <2>2 DEF Claims!Assets, Claims!Total, Total
<1>2. Total(openNotional, Books) = Total(PaidFor, AllPositions)
  <2> DEFINE m == [p \in AllPositions |-> p[1]]
  <2>1. m \in [AllPositions -> Books]
    BY PositionsFinite
  <2>2. \A b \in Books : {p \in AllPositions : m[p] = b} = {p \in AllPositions : p[1] = b}
    OBVIOUS
  <2>3. \A b \in Books : openNotional[b] = Total(PaidFor, {p \in AllPositions : m[p] = b})
    BY <2>2, CostOfBook DEF NotionalMirrored
  <2>4. openNotional \in [Books -> Nat]
    BY DEF TypeOK
  <2> HIDE DEF m
  <2> QED  BY <2>1, <2>3, <2>4, PaidForType, PositionsFinite, TotalGrouped
<1> QED  BY <1>1, <1>2 DEF NotionalMirrored, TotalAssets

LEMMA AssetsAgreeNext == AgentInv' /\ marks' = 0 => Claims!Assets' = TotalAssets'
<1>1. (AgentInv /\ marks = 0)' => (Claims!Assets = TotalAssets)'
  BY AssetsAgree, PTL
<1> QED  BY <1>1

\* A step that leaves positions alone and the price of a share up is a trade.
LEMMA TradeRefines ==
  ASSUME AgentInv, AgentInv', marks = 0, marks' = 0, PriceKept, PaidFor' = PaidFor
  PROVE  Promised
<1>1. Claims!Assets = TotalAssets /\ Claims!Assets' = TotalAssets'
  BY AssetsAgree, AssetsAgreeNext
<1> QED  BY <1>1 DEF Promised, Claims!Trade, PriceKept, PricedAssets, PricedShares

\* One position of one book changes what was paid for at its place only.
LEMMA PaidForChanges ==
  ASSUME TypeOK, TypeOK', NEW b \in Books, NEW id \in PositionIds, NEW n \in Nat,
         \A c \in Books, j \in PositionIds :
           Cost(c)'[j] = IF <<c, j>> = <<b, id>> THEN n ELSE Cost(c)[j]
  PROVE  PaidFor' = [PaidFor EXCEPT ![<<b, id>>] = n]
<1>1. \A p \in AllPositions : PaidFor'[p] = IF p = <<b, id>> THEN n ELSE PaidFor[p]
  BY PositionsFinite DEF PaidFor
<1>2. DOMAIN PaidFor = AllPositions /\ PaidFor' = [p \in AllPositions |-> PaidFor'[p]]
  BY DEF PaidFor
<1> QED  BY <1>1, <1>2

\* Opening turns cash into a position of that cost.
LEMMA OpenRefines ==
  ASSUME TypeOK, TypeOK', NEW b \in Books, NEW id \in PositionIds, NEW n \in Sizes,
         Open(b, id, n)
  PROVE  Claims!Lend(<<b, id>>)
<1>1. n \in Nat /\ n # 0 /\ Vault \in Accounts /\ Relayer \in Accounts /\ Relayer # Vault
  BY AgentAssumption, Addresses DEF Open
<1>2. usdc'[Vault] = usdc[Vault] - n /\ usdc[Vault] \in Nat
  <2>1. /\ usdc \in [Accounts -> Nat] /\ n <= usdc[Vault]
        /\ usdc' = Transferred(usdc, Vault, Relayer, n)
    BY DEF Open, TypeOK
  <2> QED  BY <1>1, <2>1, Transfers
<1>3. PaidFor[<<b, id>>] = 0
  <2>1. Cost(b)[id] = 0
    BY DEF Open, Unused, Cost
  <2> QED  BY <2>1, PaidForType
<1>4. PaidFor' = [PaidFor EXCEPT ![<<b, id>>] = n]
  <2>1. \A c \in Books, j \in PositionIds :
          Cost(c)'[j] = IF <<c, j>> = <<b, id>> THEN n ELSE Cost(c)[j]
    BY DEF Open, Cost, TypeOK
  <2> QED  BY <1>1, <2>1, PaidForChanges
<1>5. usdc'[Vault] < usdc[Vault] /\ usdc[Vault] - usdc'[Vault] = n
  BY <1>1, <1>2
<1>6. totalSupply' = totalSupply
  BY DEF Open
<1> QED  BY <1>3, <1>4, <1>5, <1>6 DEF Claims!Lend

\* Closing ends the position, whatever it brought.
LEMMA CloseRefines ==
  ASSUME TypeOK, TypeOK', Sized, NEW b \in Books, NEW id \in PositionIds, NEW p \in Proceeds,
         Close(b, id, p)
  PROVE  Claims!Recover(<<b, id>>)
<1>1. p \in Nat /\ Vault \in Accounts /\ Relayer \in Accounts /\ Relayer # Vault
  BY AgentAssumption, Addresses
<1>2. usdc'[Vault] = usdc[Vault] + p /\ usdc[Vault] \in Nat
  <2>1. /\ usdc \in [Accounts -> Nat] /\ p <= usdc[Relayer]
        /\ usdc' = Transferred(usdc, Relayer, Vault, p)
    BY DEF Close, TypeOK
  <2> QED  BY <1>1, <2>1, Transfers
<1>3. PaidFor[<<b, id>>] # 0
  <2>1. Cost(b)[id] # 0
    BY DEF Close, Cost, Sized
  <2> QED  BY <2>1, PaidForType
<1>4. PaidFor' = [PaidFor EXCEPT ![<<b, id>>] = 0]
  <2>1. \A c \in Books, j \in PositionIds :
          Cost(c)'[j] = IF <<c, j>> = <<b, id>> THEN 0 ELSE Cost(c)[j]
    BY DEF Close, Cost, TypeOK
  <2> QED  BY <2>1, PaidForChanges
<1>5. usdc'[Vault] >= usdc[Vault]
  BY <1>1, <1>2
<1>6. totalSupply' = totalSupply
  BY DEF Close
<1> QED  BY <1>3, <1>4, <1>5, <1>6 DEF Claims!Recover

\* Until the owner marks, an agent's pool keeps the promise the lending pool
\* keeps, for every number of books and positions and every re-wiring.
THEOREM AgentRefinement == Spec => ImplementsLpClaims
<1>1. Init => Claims!Init
  <2> SUFFICES ASSUME Init  PROVE Claims!Init
    OBVIOUS
  <2>1. usdc[Vault] = 0 /\ totalSupply = 0
    BY Addresses DEF Init, LedgerInit
  <2>2. PaidFor = [p \in AllPositions |-> 0]
    BY DEF Init, PaidFor, Cost, AllPositions
  <2> QED  BY <2>1, <2>2 DEF Claims!Init
<1>2. ASSUME AgentInv, AgentInv', Sized, [Next]_vars
      PROVE  [Promised \/ marks' # 0]_(Claims!claims)
  <2> USE DEF AgentInv
  <2>1. CASE marks' # 0
    BY <2>1
  <2>2. ASSUME NEW b \in Books, NEW id \in PositionIds, NEW n \in Sizes, Open(b, id, n)
        PROVE  Promised
    BY <1>2, <2>2, OpenRefines, PaidForType DEF Promised
  <2>3. ASSUME NEW b \in Books, NEW id \in PositionIds, NEW p \in Proceeds, Close(b, id, p)
        PROVE  Promised
    BY <1>2, <2>3, CloseRefines, PaidForType DEF Promised
  <2>4. CASE marks' = 0 /\ (LpStep \/ \E h \in Donors, amount \in Amounts : Donate(h, amount))
    <3>1. UNCHANGED <<status, size, marks>>
      BY <2>4 DEF LpStep, Donate, books, positions
    <3>2. PaidFor' = PaidFor
      BY <3>1 DEF PaidFor, Cost
    <3>3. PriceKept
      BY <1>2, <2>4, LpPrice, DonatePrice
    <3> QED  BY <1>2, <2>4, <3>1, <3>2, <3>3, TradeRefines
  <2>5. CASE \/ \E next \in Books \cup {NoBook} : ProposePositionBook(next)
             \/ \E b \in Books : AcceptVaultWiring(b)
             \/ UNCHANGED vars
    <3>1. UNCHANGED <<usdc, totalSupply, status, size>>
      BY <2>5 DEF ProposePositionBook, AcceptVaultWiring, ledger, books, positions, vars
    <3>2. PaidFor' = PaidFor
      BY <3>1 DEF PaidFor, Cost
    <3> QED  BY <3>1, <3>2 DEF Claims!claims
  <2>6. CASE \E newValue \in Marks : MarkPositions(newValue)
    <3>1. marks \in Nat /\ marks' = marks + 1
      BY <1>2, <2>6 DEF MarkPositions, TypeOK
    <3> QED  BY <3>1
  <2> QED  BY <1>2, <2>1, <2>2, <2>3, <2>4, <2>5, <2>6 DEF Next
<1>3. AgentInv /\ AgentInv' /\ Sized /\ [Next]_vars => [Promised \/ marks' # 0]_(Claims!claims)
  BY <1>2
<1> QED  BY <1>1, <1>3, AgentInvariance, OpenPositionsCost, PTL DEF Spec, ImplementsLpClaims

-----------------------------------------------------------------------------
(* The average of a window.  The trades kept are ranked by time; the rank  *)
(* is a bijection, so the tape lists each of them once and in order; the   *)
(* window falls into one segment per place of the tape, in which the price *)
(* in force is that of the trade at this place.                            *)

Listing(list) ==
  /\ Len(list) \in Nat /\ DOMAIN list = 1 .. Len(list)
  /\ \A i \in DOMAIN list : list[i].at \in Int /\ list[i].price \in Nat

Earlier(list, i) == {j \in Kept(list) : Before(list, j, i)}
Rank(list, i) == Cardinality(Earlier(list, i))
Place(list, k) == CHOOSE i \in Kept(list) : Rank(list, i) = k - 1
Size(list) == Cardinality(Kept(list))

LEMMA VenueListings ==
  ASSUME NEW list \in VenueLists \cup {<<>>}
  PROVE  Listing(list)
<1>1. CASE list \in VenueLists
  <2>1. PICK Trades : /\ Trades = [tx : {list[i].tx : i \in DOMAIN list}, at : Int, price : Nat]
                      /\ list \in Seq(Trades)
    BY <1>1, TwapAssumption
  <2>2. Len(list) \in Nat /\ DOMAIN list = 1 .. Len(list)
    BY <2>1, LenProperties
  <2>3. \A i \in DOMAIN list : list[i] \in Trades
    BY <2>1, <2>2, ElementOfSeq
  <2>4. QED
    BY <2>1, <2>2, <2>3 DEF Listing
<1>2. CASE list = <<>>
  BY <1>2 DEF Listing
<1>3. QED
  BY <1>1, <1>2

LEMMA KeptFinite ==
  ASSUME NEW list, Listing(list)
  PROVE  /\ Kept(list) \in SUBSET (1 .. Len(list)) /\ Kept(list) \in SUBSET DOMAIN list
         /\ IsFiniteSet(Kept(list)) /\ Size(list) \in Nat
<1>1. Kept(list) \in SUBSET (1 .. Len(list)) /\ Kept(list) \in SUBSET DOMAIN list
  BY DEF Kept, Listing
<1>2. IsFiniteSet(1 .. Len(list))
  BY FS_Interval DEF Listing
<1>3. QED
  BY <1>1, <1>2, FS_Subset, FS_CardinalityType DEF Size

\* Time, and the venue's order where times agree, order the trades.
LEMMA BeforeOrders ==
  ASSUME NEW list, Listing(list),
         NEW i \in Kept(list), NEW j \in Kept(list), NEW k \in Kept(list)
  PROVE  /\ ~Before(list, i, i)
         /\ Before(list, i, j) /\ Before(list, j, k) => Before(list, i, k)
         /\ i # j => Before(list, i, j) \/ Before(list, j, i)
<1>1. /\ i \in Int /\ j \in Int /\ k \in Int
      /\ list[i].at \in Int /\ list[j].at \in Int /\ list[k].at \in Int
  BY KeptFinite DEF Listing
<1>2. QED
  BY <1>1 DEF Before

LEMMA RankType ==
  ASSUME NEW list, Listing(list), NEW i \in Kept(list)
  PROVE  /\ IsFiniteSet(Earlier(list, i))
         /\ Rank(list, i) \in Nat /\ Rank(list, i) + 1 <= Size(list)
<1>1. PICK rest : rest = Kept(list) \ {i}
  OBVIOUS
<1>2. IsFiniteSet(rest) /\ Cardinality(rest) = Size(list) - 1
  BY <1>1, KeptFinite, FS_RemoveElement DEF Size
<1>3. Earlier(list, i) \in SUBSET rest
  BY <1>1, BeforeOrders DEF Earlier
<1>4. IsFiniteSet(Earlier(list, i)) /\ Rank(list, i) <= Cardinality(rest)
  BY <1>2, <1>3, FS_Subset DEF Rank
<1>5. Rank(list, i) \in Nat
  BY <1>4, FS_CardinalityType DEF Rank
<1>6. QED
  BY <1>2, <1>4, <1>5, KeptFinite

LEMMA RankRises ==
  ASSUME NEW list, Listing(list), NEW i \in Kept(list), NEW j \in Kept(list),
         Before(list, i, j)
  PROVE  Rank(list, i) < Rank(list, j)
<1>1. PICK more : more = Earlier(list, i) \cup {i}
  OBVIOUS
<1>2. i \notin Earlier(list, i)
  BY BeforeOrders DEF Earlier
<1>3. Cardinality(more) = Rank(list, i) + 1
  BY <1>1, <1>2, RankType, FS_AddElement DEF Rank
<1>4. more \in SUBSET Earlier(list, j)
  BY <1>1, BeforeOrders DEF Earlier
<1>5. Cardinality(more) <= Rank(list, j)
  BY <1>4, RankType, FS_Subset DEF Rank
<1>6. QED
  BY <1>3, <1>5, RankType

LEMMA RankOrders ==
  ASSUME NEW list, Listing(list), NEW i \in Kept(list), NEW j \in Kept(list)
  PROVE  /\ Rank(list, i) = Rank(list, j) => i = j
         /\ Rank(list, i) < Rank(list, j) => Before(list, i, j)
<1>1. Rank(list, i) \in Nat /\ Rank(list, j) \in Nat
  BY RankType
<1>2. CASE i = j
  BY <1>1, <1>2
<1>3. CASE Before(list, i, j)
  BY <1>1, <1>3, RankRises
<1>4. CASE Before(list, j, i)
  <2>1. Rank(list, j) < Rank(list, i)
    BY <1>4, RankRises
  <2>2. QED
    BY <1>1, <2>1
<1>5. QED
  BY <1>2, <1>3, <1>4, BeforeOrders

\* Every rank is taken.
LEMMA PlaceRank ==
  ASSUME NEW list, Listing(list), NEW k \in 1 .. Size(list)
  PROVE  Place(list, k) \in Kept(list) /\ Rank(list, Place(list, k)) = k - 1
<1> DEFINE r == [i \in Kept(list) |-> Rank(list, i)]
           ranks == 0 .. Size(list) - 1
<1>1. Size(list) \in Nat /\ 0 \in Int /\ Size(list) - 1 \in Int
  BY KeptFinite
<1>2. IsFiniteSet(ranks) /\ Cardinality(ranks) = Size(list)
  BY <1>1, FS_Interval
<1>3. \A i \in Kept(list) : Rank(list, i) \in ranks
  BY <1>1, RankType
<1>4. r \in Injection(Kept(list), ranks)
  BY <1>3, RankOrders DEF Injection, IsInjective
<1>5. r \in Surjection(Kept(list), ranks)
  <2> HIDE DEF r, ranks
  <2> QED  BY <1>2, <1>4, FS_Injection DEF Size
<1>6. k - 1 \in ranks
  BY <1>1
<1>7. \E i \in Kept(list) : Rank(list, i) = k - 1
  BY <1>5, <1>6 DEF Surjection
<1>8. QED
  BY <1>7 DEF Place

LEMMA RankPlace ==
  ASSUME NEW list, Listing(list), NEW i \in Kept(list)
  PROVE  /\ Rank(list, i) + 1 \in 1 .. Size(list)
         /\ Place(list, Rank(list, i) + 1) = i
<1>1. PICK k \in Nat : k = Rank(list, i) + 1
  BY RankType
<1>2. k \in 1 .. Size(list) /\ k - 1 = Rank(list, i)
  BY <1>1, RankType, KeptFinite
<1>3. Place(list, k) \in Kept(list) /\ Rank(list, Place(list, k)) = Rank(list, i)
  BY <1>2, PlaceRank
<1>4. QED
  BY <1>1, <1>2, <1>3, RankOrders

LEMMA TapeShape ==
  ASSUME NEW list, Listing(list)
  PROVE  /\ Len(Tape(list)) = Size(list)
         /\ \A k \in 1 .. Size(list) : Tape(list)[k] = list[Place(list, k)]
<1>1. Tape(list) = [k \in 1 .. Size(list) |-> list[Place(list, k)]]
  BY DEF Tape, Size, Place, Rank, Earlier
<1>2. PICK n \in Nat : n = Size(list)
  BY KeptFinite
<1>3. PICK Trades : Trades = {list[Place(list, k)] : k \in 1 .. n}
  OBVIOUS
<1>4. PICK tape : tape = Tape(list)
  OBVIOUS
<1>5. tape \in [1 .. n -> Trades]
  BY <1>1, <1>2, <1>3, <1>4
<1>6. tape \in Seq(Trades) /\ Len(tape) = n
  BY <1>2, <1>5, SeqDef
<1>7. QED
  BY <1>1, <1>2, <1>4, <1>6

-----------------------------------------------------------------------------
(* The segments of the window.                                             *)

LEMMA Seams ==
  ASSUME NEW list, Listing(list)
  PROVE  /\ Starts(list)[0] = 0 /\ Starts(list)[Size(list) + 1] = WindowLen
         /\ \A k \in 0 .. Size(list) + 1 : Starts(list)[k] \in 0 .. WindowLen
         /\ \A k \in 1 .. Size(list) : Starts(list)[k] = Clamp(list[Place(list, k)].at)
         /\ \A k, m \in 0 .. Size(list) + 1 : k <= m => Starts(list)[k] <= Starts(list)[m]
<1>0. PICK n \in Nat : n = Size(list)
  BY KeptFinite
<1>1. Starts(list) = [k \in 0 .. n + 1 |->
        IF k = 0 THEN 0 ELSE IF k > n THEN WindowLen ELSE Clamp(Tape(list)[k].at)]
  BY <1>0, TapeShape DEF Starts
<1>2. WindowLen \in Nat \ {0}
  BY TwapAssumption
<1>3. \A k \in 1 .. n : /\ Place(list, k) \in Kept(list)
                        /\ list[Place(list, k)].at \in Int
                        /\ Tape(list)[k].at = list[Place(list, k)].at
  BY <1>0, PlaceRank, KeptFinite, TapeShape DEF Listing
<1>4. \A t \in Int : Clamp(t) \in 0 .. WindowLen
  BY <1>2 DEF Clamp
<1>5. \A t, u \in Int : t <= u => Clamp(t) <= Clamp(u)
  BY <1>2 DEF Clamp
<1>6. Starts(list)[0] = 0 /\ Starts(list)[n + 1] = WindowLen
  BY <1>1
<1>7. \A k \in 1 .. n : Starts(list)[k] = Clamp(list[Place(list, k)].at)
  BY <1>1, <1>3
<1>8. \A k \in 0 .. n + 1 : k = 0 \/ k = n + 1 \/ k \in 1 .. n
  OBVIOUS
<1>9. \A k \in 0 .. n + 1 : Starts(list)[k] \in 0 .. WindowLen
  <2>1. \A k \in 1 .. n : Starts(list)[k] \in 0 .. WindowLen
    BY <1>3, <1>4, <1>7
  <2>2. 0 \in 0 .. WindowLen /\ WindowLen \in 0 .. WindowLen
    BY <1>2
  <2>3. QED
    BY <1>6, <1>8, <2>1, <2>2
<1>10. ASSUME NEW k \in 1 .. n, NEW m \in 1 .. n, k < m
       PROVE  Starts(list)[k] <= Starts(list)[m]
  <2>1. Rank(list, Place(list, k)) < Rank(list, Place(list, m))
    BY <1>0, <1>10, PlaceRank
  <2>2. Before(list, Place(list, k), Place(list, m))
    BY <1>3, <2>1, RankOrders
  <2>3. list[Place(list, k)].at <= list[Place(list, m)].at
    BY <1>3, <2>2 DEF Before
  <2>4. QED
    BY <1>3, <1>5, <1>7, <2>3
<1>11. ASSUME NEW k \in 0 .. n + 1, NEW m \in 0 .. n + 1, k <= m
       PROVE  Starts(list)[k] <= Starts(list)[m]
  <2>1. Starts(list)[k] \in 0 .. WindowLen /\ Starts(list)[m] \in 0 .. WindowLen
    BY <1>9
  <2>2. CASE k = m
    BY <2>1, <2>2
  <2>3. CASE k = 0 \/ m = n + 1
    BY <1>2, <1>6, <2>1, <2>3
  <2>4. CASE k # m /\ k # 0 /\ m # n + 1
    <3>1. k \in 1 .. n /\ m \in 1 .. n /\ k < m
      BY <1>11, <2>4
    <3>2. QED
      BY <1>10, <3>1
  <2>5. QED
    BY <2>2, <2>3, <2>4
<1>12. QED
  BY <1>0, <1>6, <1>7, <1>9, <1>11

Seconds == 0 .. WindowLen - 1
Covers(list, k, s) == Starts(list)[k] <= s /\ s < Starts(list)[k + 1]
SegmentAt(list, s) == CHOOSE k \in 0 .. Size(list) : Covers(list, k, s)

\* Two segments share no second.
LEMMA SegmentsApart ==
  ASSUME NEW list, Listing(list), NEW s \in Seconds,
         NEW k \in 0 .. Size(list), NEW m \in 0 .. Size(list),
         Covers(list, k, s), Covers(list, m, s)
  PROVE  k = m
<1>1. PICK n \in Nat : n = Size(list)
  BY KeptFinite
<1>2. WindowLen \in Nat /\ s \in Int
  BY TwapAssumption DEF Seconds
<1>3. ASSUME NEW a \in 0 .. n, NEW b \in 0 .. n, a < b, Covers(list, a, s), Covers(list, b, s)
      PROVE  FALSE
  <2>1. a + 1 \in 0 .. n + 1 /\ b \in 0 .. n + 1 /\ a + 1 <= b
    BY <1>3
  <2>2. Starts(list)[a + 1] <= Starts(list)[b]
    BY <1>1, <2>1, Seams
  <2>3. Starts(list)[a + 1] \in 0 .. WindowLen /\ Starts(list)[b] \in 0 .. WindowLen
    BY <1>1, <2>1, Seams
  <2>4. QED
    BY <1>2, <1>3, <2>2, <2>3 DEF Covers
<1>4. k \in 0 .. n /\ m \in 0 .. n
  BY <1>1
<1>5. k < m \/ m < k \/ k = m
  BY <1>4
<1>6. QED
  BY <1>3, <1>4, <1>5

LEMMA SegmentFound ==
  ASSUME NEW list, Listing(list), NEW s \in Seconds
  PROVE  /\ SegmentAt(list, s) \in 0 .. Size(list)
         /\ Covers(list, SegmentAt(list, s), s)
<1>1. PICK n \in Nat : n = Size(list)
  BY KeptFinite
<1>2. WindowLen \in Nat /\ s \in Nat /\ s < WindowLen
  BY TwapAssumption DEF Seconds
<1> DEFINE T == {k \in 0 .. n : Starts(list)[k] <= s}
<1>3. 0 \in T
  BY <1>2, Seams
<1>4. T \in SUBSET (0 .. n) /\ T # {}
  BY <1>3
<1>5. PICK k \in T : \A m \in T : m <= k
  <2> HIDE DEF T
  <2> QED  BY <1>4, LargestExists
<1>6. s < Starts(list)[k + 1]
  <2>1. CASE k = n
    BY <1>1, <1>2, <2>1, Seams
  <2>2. CASE k # n
    <3>1. k + 1 \in 0 .. n /\ ~(k + 1 <= k)
      BY <2>2
    <3>2. k + 1 \notin T
      BY <1>5, <3>1
    <3>3. ~(Starts(list)[k + 1] <= s)
      BY <3>1, <3>2
    <3>4. Starts(list)[k + 1] \in 0 .. WindowLen
      <4>1. k + 1 \in 0 .. n + 1
        BY <3>1
      <4>2. QED
        BY <1>1, <4>1, Seams
    <3>5. QED
      BY <1>2, <3>3, <3>4
  <2>3. QED
    BY <2>1, <2>2
<1>7. k \in 0 .. Size(list) /\ Covers(list, k, s)
  BY <1>1, <1>6 DEF Covers
<1>8. QED
  BY <1>7 DEF SegmentAt

\* A segment is as long as there are seconds in it.
LEMMA SegmentLength ==
  ASSUME NEW list, Listing(list), NEW k \in 0 .. Size(list)
  PROVE  LET seconds == {s \in Seconds : SegmentAt(list, s) = k}
         IN  /\ IsFiniteSet(seconds) /\ Cardinality(seconds) = Lengths(list)[k]
             /\ Lengths(list)[k] \in Nat
             /\ DOMAIN Lengths(list) = 0 .. Size(list)
<1>1. PICK n \in Nat : n = Size(list)
  BY KeptFinite
<1>2. PICK seconds : seconds = {s \in Seconds : SegmentAt(list, s) = k}
  OBVIOUS
<1>3. PICK from : from = Starts(list)[k]
  OBVIOUS
<1>4. PICK to : to = Starts(list)[k + 1]
  OBVIOUS
<1>5. WindowLen \in Nat /\ from \in 0 .. WindowLen /\ to \in 0 .. WindowLen /\ from <= to
  <2>1. k \in 0 .. n + 1 /\ k + 1 \in 0 .. n + 1 /\ k <= k + 1
    BY <1>1
  <2>2. QED
    BY <1>1, <1>3, <1>4, <2>1, Seams, TwapAssumption
<1>6. Lengths(list)[k] = to - from /\ DOMAIN Lengths(list) = 0 .. n
  BY <1>1, <1>3, <1>4, TapeShape DEF Lengths
<1>7. seconds = from .. to - 1
  <2>1. ASSUME NEW s \in seconds PROVE s \in from .. to - 1
    <3>1. s \in Seconds /\ Covers(list, k, s)
      BY <1>2, SegmentFound
    <3>2. QED
      BY <1>3, <1>4, <1>5, <3>1 DEF Covers, Seconds
  <2>2. ASSUME NEW s \in from .. to - 1 PROVE s \in seconds
    <3>1. s \in Seconds /\ Covers(list, k, s)
      BY <1>3, <1>4, <1>5 DEF Covers, Seconds
    <3>2. SegmentAt(list, s) = k
      BY <3>1, SegmentFound, SegmentsApart
    <3>3. QED
      BY <1>2, <3>1, <3>2
  <2>3. QED
    BY <2>1, <2>2
<1>8. IsFiniteSet(from .. to - 1) /\ Cardinality(from .. to - 1) = to - from
  <2>1. from \in Int /\ to - 1 \in Int
    BY <1>5
  <2>2. PICK last \in Int : last = to - 1
    BY <2>1
  <2>3. /\ IsFiniteSet(from .. last)
        /\ Cardinality(from .. last) = IF from > last THEN 0 ELSE last - from + 1
    BY <2>1, FS_Interval
  <2>4. (IF from > last THEN 0 ELSE last - from + 1) = to - from
    BY <1>5, <2>2
  <2>5. QED
    BY <2>2, <2>3, <2>4
<1>9. IsFiniteSet(seconds) /\ Cardinality(seconds) = to - from /\ to - from \in Nat
  BY <1>5, <1>7, <1>8
<1>10. QED
  BY <1>1, <1>2, <1>6, <1>9

\* The price in force is that of the segment.
LEMMA SegmentPrice ==
  ASSUME NEW list, Listing(list), NEW s \in Seconds
  PROVE  InForce(list, s) = Prices(list)[SegmentAt(list, s)]
<1>1. PICK n \in Nat : n = Size(list)
  BY KeptFinite
<1>2. PICK k \in 0 .. n : k = SegmentAt(list, s)
  BY <1>1, SegmentFound
<1>3. /\ WindowLen \in Nat /\ s \in Nat /\ s < WindowLen
      /\ Starts(list)[k] <= s /\ s < Starts(list)[k + 1]
  BY <1>2, SegmentFound, TwapAssumption DEF Seconds, Covers
<1> DEFINE past == {i \in Kept(list) : list[i].at <= s}
<1>4. ASSUME NEW i \in past
      PROVE  Rank(list, i) + 1 <= k
  <2>1. PICK m \in 1 .. n : m = Rank(list, i) + 1 /\ Place(list, m) = i
    BY <1>1, RankPlace
  <2>2. list[i].at \in Int /\ list[i].at <= s
    BY KeptFinite DEF Listing
  <2>3. Starts(list)[m] <= s
    <3>1. Starts(list)[m] = Clamp(list[i].at)
      BY <1>1, <2>1, Seams
    <3>2. QED
      BY <1>3, <2>2, <3>1 DEF Clamp
  <2>4. SUFFICES ASSUME ~(m <= k) PROVE FALSE
    BY <2>1
  <2>5. k + 1 \in 0 .. n + 1 /\ m \in 0 .. n + 1 /\ k + 1 <= m
    BY <2>4
  <2>6. Starts(list)[k + 1] <= Starts(list)[m]
    BY <1>1, <2>5, Seams
  <2>7. Starts(list)[k + 1] \in 0 .. WindowLen /\ Starts(list)[m] \in 0 .. WindowLen
    BY <1>1, <2>5, Seams
  <2>8. QED
    BY <1>3, <2>3, <2>6, <2>7
<1>5. CASE k = 0
  <2>1. past = {}
    <3>1. ASSUME NEW i \in past PROVE FALSE
      BY <1>4, <1>5, RankType
    <3>2. QED
      BY <3>1
  <2>2. InForce(list, s) = Bootstrap(list)
    BY <2>1 DEF InForce
  <2>3. Prices(list)[k] = Bootstrap(list)
    BY <1>1, <1>5, TapeShape DEF Prices
  <2>4. QED
    BY <1>2, <2>2, <2>3
<1>6. CASE k # 0
  <2>1. k \in 1 .. n
    BY <1>6
  <2>2. PICK i : i = Place(list, k)
    OBVIOUS
  <2>3. i \in Kept(list) /\ Rank(list, i) = k - 1 /\ list[i].at \in Int
    BY <1>1, <2>1, <2>2, PlaceRank, KeptFinite DEF Listing
  <2>4. i \in past
    <3>1. Starts(list)[k] = Clamp(list[i].at)
      BY <1>1, <2>1, <2>2, Seams
    <3>2. list[i].at <= s
      BY <1>3, <2>3, <3>1 DEF Clamp
    <3>3. QED
      BY <2>3, <3>2
  <2>5. \A j \in past \ {i} : Before(list, j, i)
    <3> SUFFICES ASSUME NEW j \in past \ {i} PROVE Before(list, j, i)
      OBVIOUS
    <3>1. j \in Kept(list) /\ Rank(list, j) \in Nat /\ Rank(list, j) + 1 <= k
      BY <1>4, RankType
    <3>2. Rank(list, j) # k - 1
      BY <2>3, <3>1, RankOrders
    <3>3. Rank(list, j) < k - 1
      BY <2>1, <3>1, <3>2
    <3>4. QED
      BY <2>3, <3>1, <3>3, RankOrders
  <2>6. \A h \in past : (\A j \in past \ {h} : Before(list, j, h)) => h = i
    <3> SUFFICES ASSUME NEW h \in past, \A j \in past \ {h} : Before(list, j, h), h # i
                 PROVE  FALSE
      OBVIOUS
    <3>1. Before(list, i, h) /\ Before(list, h, i)
      BY <2>4, <2>5
    <3>2. QED
      BY <2>3, <3>1, BeforeOrders
  <2>7. (CHOOSE h \in past : \A j \in past \ {h} : Before(list, j, h)) = i
    <3> HIDE DEF past
    <3> QED  BY <2>4, <2>5, <2>6
  <2>8. InForce(list, s) = list[i].price
    BY <2>4, <2>7 DEF InForce
  <2>9. Prices(list)[k] = list[i].price
    BY <1>1, <2>1, <2>2, TapeShape DEF Prices
  <2>10. QED
    BY <1>2, <2>8, <2>9
<1>7. QED
  BY <1>5, <1>6

LEMMA PriceTypes ==
  ASSUME NEW list, Listing(list)
  PROVE  /\ DOMAIN Prices(list) = 0 .. Size(list)
         /\ \A k \in 0 .. Size(list) : Prices(list)[k] \in Nat
<1>1. PICK n \in Nat : n = Size(list)
  BY KeptFinite
<1>2. Prices(list) = [k \in 0 .. n |-> IF k = 0 THEN Bootstrap(list) ELSE Tape(list)[k].price]
  BY <1>1, TapeShape DEF Prices
<1>3. Bootstrap(list) \in Nat
  <2>1. CASE list = <<>>
    BY <2>1 DEF Bootstrap
  <2>2. CASE list # <<>> /\ 1 \in DOMAIN list
    BY <2>2 DEF Bootstrap, Listing
  <2>3. CASE 1 \notin DOMAIN list
    \* A listing is a function with the domain of the empty sequence.
    BY <2>3 DEF Listing, Bootstrap
  <2>4. QED
    BY <2>1, <2>2, <2>3
<1>4. \A k \in 1 .. n : Tape(list)[k].price \in Nat
  BY <1>1, TapeShape, PlaceRank, KeptFinite DEF Listing
<1>5. QED
  BY <1>1, <1>2, <1>3, <1>4

\* What the poller computes of a list of trades, and the whole of its window.
THEOREM TwapIsStepIntegral ==
  ASSUME NEW list, Listing(list)
  PROVE  /\ Numerator(list) = StepIntegral(list)
         /\ Denominator(list) = WindowLen
<1>1. PICK segments : segments = 0 .. Size(list)
  OBVIOUS
<1>2. PICK segment : segment = [s \in Seconds |-> SegmentAt(list, s)]
  OBVIOUS
<1>3. PICK price : price = [s \in Seconds |-> InForce(list, s)]
  OBVIOUS
<1>4. PICK weight : weight = [k \in segments |-> Prices(list)[k] * Lengths(list)[k]]
  OBVIOUS
<1>5. PICK ones : ones = [s \in Seconds |-> 1]
  OBVIOUS
<1>6. WindowLen \in Nat \ {0} /\ IsFiniteSet(Seconds) /\ Cardinality(Seconds) = WindowLen
  <2>1. WindowLen \in Nat \ {0} /\ 0 \in Int /\ WindowLen - 1 \in Int
    BY TwapAssumption
  <2>2. QED
    BY <2>1, FS_Interval DEF Seconds
<1>7. IsFiniteSet(segments)
  <2>1. 0 \in Int /\ Size(list) \in Int
    BY KeptFinite
  <2>2. QED
    BY <1>1, <2>1, FS_Interval
<1>8. segment \in [Seconds -> segments]
  BY <1>1, <1>2, SegmentFound
<1>9. \A k \in segments : /\ Lengths(list)[k] \in Nat /\ Prices(list)[k] \in Nat
                          /\ IsFiniteSet({s \in Seconds : segment[s] = k})
                          /\ Cardinality({s \in Seconds : segment[s] = k}) = Lengths(list)[k]
  <2> SUFFICES ASSUME NEW k \in segments
               PROVE  /\ Lengths(list)[k] \in Nat /\ Prices(list)[k] \in Nat
                      /\ IsFiniteSet({s \in Seconds : segment[s] = k})
                      /\ Cardinality({s \in Seconds : segment[s] = k}) = Lengths(list)[k]
    OBVIOUS
  <2>1. {s \in Seconds : segment[s] = k} = {s \in Seconds : SegmentAt(list, s) = k}
    BY <1>2
  <2>2. k \in 0 .. Size(list)
    BY <1>1
  <2>3. QED
    BY <2>1, <2>2, SegmentLength, PriceTypes
<1>10. DOMAIN Prices(list) = segments /\ DOMAIN Lengths(list) = segments
  BY <1>1, PriceTypes, TapeShape DEF Lengths
<1>11. price \in [Seconds -> Nat] /\ \A s \in Seconds : price[s] = Prices(list)[segment[s]]
  BY <1>2, <1>3, <1>8, <1>9, SegmentPrice
<1>12. Denominator(list) = WindowLen
  <2>1. PICK length : length = Lengths(list)
    OBVIOUS
  <2>2. length \in [segments -> Nat]
    BY <1>9, <1>10, <2>1 DEF Lengths
  <2>3. ones \in [Seconds -> Nat] /\ \A s \in Seconds : ones[s] = 1
    BY <1>5
  <2>4. \A k \in segments : length[k] = Total(ones, {s \in Seconds : segment[s] = k})
    <3> SUFFICES ASSUME NEW k \in segments
                 PROVE  length[k] = Total(ones, {s \in Seconds : segment[s] = k})
      OBVIOUS
    <3>1. PICK part : part = {s \in Seconds : segment[s] = k}
      OBVIOUS
    <3>2. IsFiniteSet(part) /\ Cardinality(part) = length[k] /\ length[k] \in Nat
      BY <1>9, <2>1, <3>1
    <3>3. Total(ones, part) = Cardinality(part) * 1
      BY <2>3, <3>1, <3>2, TotalConst
    <3>4. QED
      BY <3>1, <3>2, <3>3
  <2>5. Total(length, segments) = Total(ones, Seconds)
    BY <1>6, <1>7, <1>8, <2>2, <2>3, <2>4, TotalGrouped
  <2>6. Total(ones, Seconds) = Cardinality(Seconds) * 1
    BY <1>6, <2>3, TotalConst
  <2>7. QED
    BY <1>6, <1>10, <2>1, <2>5, <2>6 DEF Denominator, Sum
<1>13. Numerator(list) = StepIntegral(list)
  <2>1. weight \in [segments -> Nat]
    <3>1. \A p, len \in Nat : p * len \in Nat
      OBVIOUS
    <3>2. \A k \in segments : Prices(list)[k] * Lengths(list)[k] \in Nat
      BY <1>9, <3>1
    <3>3. QED
      BY <1>4, <3>2
  <2>2. \A k \in segments : weight[k] = Total(price, {s \in Seconds : segment[s] = k})
    <3> SUFFICES ASSUME NEW k \in segments
                 PROVE  weight[k] = Total(price, {s \in Seconds : segment[s] = k})
      OBVIOUS
    <3>1. PICK part : part = {s \in Seconds : segment[s] = k}
      OBVIOUS
    <3>2. PICK p \in Nat : p = Prices(list)[k]
      BY <1>9
    <3>3. PICK len \in Nat : len = Lengths(list)[k]
      BY <1>9
    <3>4. IsFiniteSet(part) /\ Cardinality(part) = len
      BY <1>9, <3>1, <3>3
    <3>5. \A s \in part : price[s] = p
      BY <1>11, <3>1, <3>2
    <3>6. Total(price, part) = len * p
      BY <3>4, <3>5, TotalConst
    <3>7. weight[k] = p * len
      BY <1>4, <3>2, <3>3
    <3>8. QED
      BY <3>1, <3>6, <3>7
  <2>3. Total(weight, segments) = Total(price, Seconds)
    BY <1>6, <1>7, <1>8, <1>11, <2>1, <2>2, TotalGrouped
  <2>4. Numerator(list) = Total(weight, segments)
    BY <1>4, <1>10 DEF Numerator, Sum
  <2>5. StepIntegral(list) = Total(price, Seconds)
    BY <1>3 DEF StepIntegral, Sum, Seconds
  <2>6. QED
    BY <2>3, <2>4, <2>5
<1>14. QED
  BY <1>12, <1>13

-----------------------------------------------------------------------------
(* The mark feed.  A process that is down polls nothing; only loans the    *)
(* log has opened are polled; a poller is between ticks once it reported   *)
(* on a removed loan, which no boot brings back; a tick that reports a gap *)
(* has failed; and a loan this life has traced and not marked is traced    *)
(* once more than its earlier lives allow only by a misfire, so that the   *)
(* ticks which still pass the look find room for their trace.              *)

Tracing(l) == {t \in Ticks : l \in emitting[t]}

DownIsSilent == ~up => pumping = {} /\ registry = {}

PolledIsOpen == \A l \in Loans : step[l] # "idle" => up /\ l \in opened

LateAndDone ==
  \A l \in Loans :
    late[l] > 0 => late[l] = 1 /\ step[l] = "idle" /\ l \in closed /\ l \notin registry

GapsFail == \A l \in Loans : step[l] = "gap" => l \in failing

\* The traces the lives before this one may have left.
Past == Cardinality(Ticks) * halts

TracesCounted ==
  \A l \in Loans :
    /\ l \notin seen => traces[l] <= Past + misfires[l]
    /\ traces[l] + Cardinality(Tracing(l)) <= Past + Cardinality(Ticks) + misfires[l]

FeedInv ==
  /\ FeedTypeOK
  /\ DownIsSilent /\ PolledIsOpen
  /\ LateAndDone
  /\ GapsFail /\ OneGapPerOutage
  /\ TracesCounted

LEMMA TracingCount ==
  ASSUME NEW l
  PROVE  /\ IsFiniteSet(Tracing(l)) /\ Cardinality(Tracing(l)) \in Nat
         /\ Cardinality(Ticks) \in Nat
         /\ Cardinality(Tracing(l)) <= Cardinality(Ticks)
<1>1. Tracing(l) \in SUBSET Ticks
  BY DEF Tracing
<1>2. QED
  BY <1>1, FeedAssumption, FS_Subset, FS_CardinalityType

\* One more stop makes room for one more trace of each tick.
LEMMA PastGrows ==
  ASSUME FeedTypeOK
  PROVE  /\ Past \in Nat /\ Cardinality(Ticks) \in Nat /\ halts \in Nat
         /\ Cardinality(Ticks) * (halts + 1) = Past + Cardinality(Ticks)
         /\ Cardinality(Ticks) * (1 + halts) = Past + Cardinality(Ticks)
<1>1. halts \in Nat
  BY FeedAssumption DEF FeedTypeOK
<1>2. PICK c \in Nat : c = Cardinality(Ticks)
  BY TracingCount
<1>3. c * halts \in Nat /\ c * (halts + 1) = c * halts + c /\ c * (1 + halts) = c * halts + c
  BY <1>1
<1>4. QED
  BY <1>1, <1>2, <1>3 DEF Past

LEMMA FeedInitial == FeedInit => FeedInv
<1> SUFFICES ASSUME FeedInit PROVE FeedInv
  OBVIOUS
<1>1. FeedTypeOK
  <2>1. halts \in 0 .. MaxHalts /\ misfires \in [Loans -> 0 .. MaxMisfires]
    BY FeedAssumption DEF FeedInit
  <2>2. QED
    BY <2>1 DEF FeedInit, FeedTypeOK, Outcomes
<1>2. \A l \in Loans : /\ traces[l] = 0 /\ misfires[l] = 0
                      /\ late[l] = 0 /\ gaps[l] = 0 /\ step[l] = "idle"
  BY DEF FeedInit
<1>3. TracesCounted
  <2> SUFFICES ASSUME NEW l \in Loans
               PROVE  /\ traces[l] <= Past + misfires[l]
                      /\ traces[l] + Cardinality(Tracing(l))
                           <= Past + Cardinality(Ticks) + misfires[l]
    BY DEF TracesCounted
  <2>1. PICK n \in Nat : n = Cardinality(Tracing(l)) /\ n <= Cardinality(Ticks)
    BY TracingCount
  <2>2. Past \in Nat /\ Cardinality(Ticks) \in Nat
    BY <1>1, PastGrows
  <2>3. QED
    BY <1>2, <2>1, <2>2
<1>4. DownIsSilent /\ PolledIsOpen /\ LateAndDone /\ GapsFail /\ OneGapPerOutage
  BY <1>2 DEF FeedInit, DownIsSilent, PolledIsOpen, LateAndDone, GapsFail, OneGapPerOutage
<1>5. QED
  BY <1>1, <1>3, <1>4 DEF FeedInv

\* Where the watch stands still, the traces it may still write do too.
LEMMA TracesKept ==
  ASSUME TracesCounted, emitting' = emitting, tracing' = tracing, seen' = seen, halts' = halts
  PROVE  TracesCounted'
BY DEF TracesCounted, Tracing, Past, tracing

LEMMA LifeStep ==
  ASSUME FeedInv, Boot \/ Halt
  PROVE  FeedInv'
<1> USE DEF FeedInv
<1>1. CASE Boot
  <2>1. FeedTypeOK'
    BY <1>1 DEF Boot, FeedTypeOK, pollers, watch, logged, tracing
  <2>2. TracesCounted'
    BY <1>1, TracesKept DEF Boot, watch, logged
  <2>3. DownIsSilent' /\ PolledIsOpen' /\ LateAndDone' /\ GapsFail' /\ OneGapPerOutage'
    BY <1>1 DEF Boot, pollers, watch, logged, DownIsSilent, PolledIsOpen, LateAndDone, GapsFail,
                OneGapPerOutage
  <2>4. QED
    BY <2>1, <2>2, <2>3
<1>2. CASE Halt
  <2>1. FeedTypeOK'
    <3>1. halts' \in 0 .. MaxHalts
      BY <1>2, FeedAssumption DEF Halt, FeedTypeOK
    <3>2. QED
      BY <1>2, <3>1 DEF Halt, FeedTypeOK, Outcomes
  <2>2. \A l \in Loans : gaps'[l] = 0 /\ step'[l] = "idle"
    BY <1>2 DEF Halt
  <2>3. TracesCounted'
    <3> SUFFICES ASSUME NEW l \in Loans
                 PROVE  /\ traces'[l] <= Past' + misfires'[l]
                        /\ traces'[l] + Cardinality(Tracing(l)')
                             <= Past' + Cardinality(Ticks) + misfires'[l]
      BY DEF TracesCounted
    <3>1. PICK n \in Nat : n = Cardinality(Tracing(l)')
      <4>1. PICK S : S = Tracing(l)'
        OBVIOUS
      <4>2. S \in SUBSET Ticks
        BY <4>1 DEF Tracing
      <4>3. QED
        BY <4>1, <4>2, FeedAssumption, FS_Subset, FS_CardinalityType
    <3>2. n <= Cardinality(Ticks)
      <4>1. PICK S : S = Tracing(l)'
        OBVIOUS
      <4>2. S \in SUBSET Ticks
        BY <4>1 DEF Tracing
      <4>3. QED
        BY <3>1, <4>1, <4>2, FeedAssumption, FS_Subset, FS_CardinalityType
    <3>3. Past' = Past + Cardinality(Ticks)
      <4>1. halts' = halts + 1
        BY <1>2 DEF Halt
      <4>2. Past' = Cardinality(Ticks) * (halts + 1)
        BY <4>1 DEF Past
      <4>3. QED
        BY <4>2, PastGrows
    <3>4. traces'[l] = traces[l] /\ misfires'[l] = misfires[l] /\ traces[l] \in Nat
          /\ misfires[l] \in Nat
      BY <1>2, FeedAssumption DEF Halt, FeedTypeOK
    <3>5. PICK m \in Nat : m = Cardinality(Tracing(l))
      BY TracingCount
    <3>6. traces[l] + m <= Past + Cardinality(Ticks) + misfires[l]
      BY <3>5 DEF TracesCounted
    <3>7. Past \in Nat /\ Cardinality(Ticks) \in Nat
      BY PastGrows
    <3>8. traces'[l] <= Past' + misfires'[l]
      BY <3>3, <3>4, <3>6, <3>7
    <3>9. traces'[l] + n <= Past' + Cardinality(Ticks) + misfires'[l]
      BY <3>2, <3>3, <3>4, <3>7, <3>8
    <3>10. QED
      BY <3>1, <3>8, <3>9
  <2>4. DownIsSilent' /\ PolledIsOpen' /\ GapsFail' /\ OneGapPerOutage'
    BY <1>2, <2>2 DEF Halt, DownIsSilent, PolledIsOpen, GapsFail, OneGapPerOutage
  <2>5. LateAndDone'
    BY <1>2, <2>2 DEF Halt, LateAndDone
  <2>6. QED
    BY <2>1, <2>3, <2>4, <2>5
<1>3. QED
  BY <1>1, <1>2

LEMMA LoanStep ==
  ASSUME FeedInv, NEW l \in Loans, Mature(l) \/ Add(l) \/ Remove(l) \/ Strand(l)
  PROVE  FeedInv'
<1> USE DEF FeedInv
<1>1. FeedTypeOK'
  <2>1. CASE Mature(l)
    BY <2>1 DEF Mature, FeedTypeOK, pollers, watch, logged, tracing
  <2>2. CASE Add(l)
    BY <2>2 DEF Add, FeedTypeOK, watch, tracing
  <2>3. CASE Remove(l)
    BY <2>3 DEF Remove, FeedTypeOK, watch, tracing
  <2>4. CASE Strand(l)
    BY <2>4 DEF Strand, FeedTypeOK, pollers, watch, tracing
  <2>5. QED
    BY <2>1, <2>2, <2>3, <2>4
<1>2. TracesCounted'
  BY TracesKept DEF Mature, Add, Remove, Strand, watch, logged
<1>3. /\ step' = step /\ failing' = failing /\ late' = late /\ up' = up
      /\ gaps' = gaps /\ unlogged' = unlogged /\ closed \subseteq closed'
      /\ opened \subseteq opened'
  BY DEF Mature, Add, Remove, Strand, pollers, watch, logged
<1>4. DownIsSilent'
  BY DEF Mature, Add, Remove, Strand, pollers, DownIsSilent
<1>5. \A m \in Loans : m \in registry' => m \in registry \/ m \notin closed
  BY DEF Mature, Add, Remove, Strand, FeedTypeOK
<1>6. LateAndDone' /\ PolledIsOpen' /\ GapsFail' /\ OneGapPerOutage'
  BY <1>3, <1>5 DEF LateAndDone, PolledIsOpen, GapsFail, OneGapPerOutage
<1>7. QED
  BY <1>1, <1>2, <1>4, <1>6

LEMMA PollStep ==
  ASSUME FeedInv, NEW l \in Loans, PollerStep(l)
  PROVE  FeedInv'
<1> USE DEF FeedInv
<1>0. /\ step[l] \in {"idle", "fetching", "observation", "gap"}
      /\ step \in [Loans -> {"idle", "fetching", "observation", "gap"}]
      /\ late \in [Loans -> Nat] /\ gaps \in [Loans -> Nat]
      /\ fetched \in [Loans -> VenueLists \cup {<<>>}]
  BY DEF FeedTypeOK, Outcomes
<1>1. /\ up' = up /\ pumping' = pumping /\ registry' = registry /\ seen' = seen
      /\ closed' = closed /\ opened' = opened /\ tracing' = tracing /\ mature' = mature
      /\ halts' = halts /\ todo' = todo /\ emitting' = emitting
  BY DEF PollerStep, Tick, FetchOk, FetchFails, Emit, EmitFails, watch, logged
<1>2. /\ step' \in [Loans -> {"idle", "fetching", "observation", "gap"}]
      /\ fetched' \in [Loans -> VenueLists \cup {<<>>}]
      /\ failing' \subseteq failing \cup {l} /\ unlogged' \subseteq unlogged \cup {l}
  BY <1>0 DEF PollerStep, Tick, FetchOk, FetchFails, Emit, EmitFails, MovesTo, logged
<1>3. late' \in [Loans -> Nat] /\ gaps' \in [Loans -> Nat]
  <2>1. CASE Tick(l) \/ FetchOk(l) \/ FetchFails(l) \/ EmitFails(l)
    BY <1>0, <2>1 DEF Tick, FetchOk, FetchFails, EmitFails, logged
  <2>2. CASE Emit(l)
    BY <1>0, <2>2 DEF Emit
  <2>3. QED
    BY <2>1, <2>2 DEF PollerStep
<1>4. FeedTypeOK'
  BY <1>1, <1>2, <1>3 DEF FeedTypeOK, Outcomes, tracing
<1>5. TracesCounted' /\ DownIsSilent'
  BY <1>1, TracesKept DEF DownIsSilent
<1>6. \A m \in Loans : m # l => /\ step'[m] = step[m] /\ late'[m] = late[m] /\ gaps'[m] = gaps[m]
                                /\ m \in failing' <=> m \in failing
                                /\ m \in unlogged' <=> m \in unlogged
  BY <1>0 DEF PollerStep, Tick, FetchOk, FetchFails, Emit, EmitFails, MovesTo, logged
<1>6a. step[l] # "idle" \/ step'[l] # "idle" => up /\ l \in opened
  <2>1. CASE Tick(l)
    BY <2>1 DEF Tick, FeedTypeOK, DownIsSilent
  <2>2. CASE FetchOk(l) \/ FetchFails(l) \/ Emit(l) \/ EmitFails(l)
    BY <2>2 DEF FetchOk, FetchFails, Emit, EmitFails, Outcomes, PolledIsOpen
  <2>3. QED
    BY <2>1, <2>2 DEF PollerStep
<1>7. late'[l] > 0 =>
        late'[l] = 1 /\ step'[l] = "idle" /\ l \in closed /\ l \notin registry
  <2>1. CASE Tick(l)
    <3>1. l \in registry
      BY <2>1 DEF Tick, FeedTypeOK, DownIsSilent
    <3>2. late' = late
      BY <2>1 DEF Tick, logged
    <3>3. QED
      BY <3>1, <3>2 DEF LateAndDone
  <2>2. CASE FetchOk(l) \/ FetchFails(l)
    BY <1>0, <2>2 DEF FetchOk, FetchFails, MovesTo, logged, LateAndDone
  <2>3. CASE Emit(l) \/ EmitFails(l)
    <3>1. late[l] = 0 /\ step'[l] = "idle" /\ up /\ l \in opened
      BY <1>0, <1>6a, <2>3 DEF Emit, EmitFails, MovesTo, Outcomes, LateAndDone
    <3>2. l \notin registry => l \in closed
      BY <3>1 DEF FeedTypeOK
    <3>3. CASE Emit(l)
      <4>1. late' = IF l \in registry THEN late ELSE [late EXCEPT ![l] = @ + 1]
        BY <3>3 DEF Emit
      <4>2. l \notin registry => late'[l] = late[l] + 1
        BY <1>0, <4>1
      <4>3. l \in registry => late'[l] = late[l]
        BY <4>1
      <4>4. QED
        BY <3>1, <3>2, <4>2, <4>3
    <3>4. CASE EmitFails(l)
      BY <3>1, <3>4 DEF EmitFails
    <3>5. QED
      BY <2>3, <3>3, <3>4
  <2>4. QED
    BY <2>1, <2>2, <2>3 DEF PollerStep
<1>8. /\ step'[l] = "gap" => l \in failing'
      /\ gaps'[l] <= 1
      /\ l \in failing' /\ step'[l] # "gap" => gaps'[l] = 1 \/ l \in unlogged'
      /\ gaps'[l] = 1 => l \in failing' /\ step'[l] # "gap"
  <2>1. CASE Tick(l)
    BY <1>0, <2>1 DEF Tick, MovesTo, OneGapPerOutage, GapsFail, logged
  <2>2. CASE FetchOk(l)
    BY <1>0, <2>2 DEF FetchOk, MovesTo, OneGapPerOutage, GapsFail
  <2>3. CASE FetchFails(l)
    BY <1>0, <2>3 DEF FetchFails, MovesTo, OneGapPerOutage, GapsFail, logged
  <2>4. CASE Emit(l)
    BY <1>0, <2>4 DEF Emit, MovesTo, OneGapPerOutage, GapsFail
  <2>5. CASE EmitFails(l)
    BY <1>0, <2>5 DEF EmitFails, MovesTo, OneGapPerOutage, GapsFail
  <2>6. QED
    BY <2>1, <2>2, <2>3, <2>4, <2>5 DEF PollerStep
<1>9. LateAndDone' /\ PolledIsOpen'
  BY <1>1, <1>6, <1>6a, <1>7 DEF LateAndDone, PolledIsOpen
<1>10. GapsFail' /\ OneGapPerOutage'
  BY <1>6, <1>8 DEF GapsFail, OneGapPerOutage
<1>11. QED
  BY <1>4, <1>5, <1>9, <1>10

LEMMA TraceStep ==
  ASSUME FeedInv, NEW t \in Ticks, WatchStep(t)
  PROVE  FeedInv'
<1> USE DEF FeedInv
<1>0. /\ emitting \in [Ticks -> SUBSET Loans] /\ todo \in [Ticks -> SUBSET Loans]
      /\ traces \in [Loans -> Nat] /\ seen \subseteq Loans /\ told \subseteq Loans
      /\ misfires \in [Loans -> 0 .. MaxMisfires] /\ misfires \in [Loans -> Nat]
      /\ registry \subseteq Loans
  <2>1. up \in BOOLEAN /\ (up => registry \subseteq opened) /\ opened \subseteq Loans
    BY DEF FeedTypeOK
  <2>2. registry \subseteq Loans
    BY <2>1 DEF DownIsSilent
  <2>3. 0 .. MaxMisfires \subseteq Nat
    BY FeedAssumption
  <2>4. QED
    BY <2>2, <2>3 DEF FeedTypeOK
<1>1. /\ todo' \in [Ticks -> SUBSET Loans] /\ emitting' \in [Ticks -> SUBSET Loans]
      /\ seen' \subseteq Loans /\ traces' \in [Loans -> Nat] /\ told' \subseteq Loans
      /\ misfires' \in [Loans -> 0 .. MaxMisfires]
  <2> DEFINE Typed == /\ todo' \in [Ticks -> SUBSET Loans] /\ emitting' \in [Ticks -> SUBSET Loans]
                      /\ seen' \subseteq Loans /\ traces' \in [Loans -> Nat]
                      /\ told' \subseteq Loans
                      /\ misfires' \in [Loans -> 0 .. MaxMisfires]
  <2>1. CASE WatchTick(t) \/ TraceFails(t)
    BY <1>0, <2>1 DEF WatchTick, TraceFails, logged, tracing
  <2>2. ASSUME NEW l \in Loans, Look(t, l)
        PROVE  Typed
    BY <1>0, <2>2 DEF Look, logged, tracing
  <2>3. ASSUME NEW l \in Loans, Traced(t, l)
        PROVE  Typed
    BY <1>0, <2>3 DEF Traced, Trace
  <2>4. ASSUME NEW l \in Loans, TraceUnmarked(t, l)
        PROVE  Typed
    <3>1. misfires[l] + 1 \in 0 .. MaxMisfires
      BY <1>0, <2>4, FeedAssumption DEF TraceUnmarked
    <3>2. misfires' \in [Loans -> 0 .. MaxMisfires]
      BY <1>0, <2>4, <3>1 DEF TraceUnmarked
    <3>3. QED
      BY <1>0, <2>4, <3>2 DEF TraceUnmarked, Trace
  <2>5. QED
    BY <2>1, <2>2, <2>3, <2>4 DEF WatchStep
<1>2. /\ up' = up /\ pumping' = pumping /\ registry' = registry /\ closed' = closed
      /\ late' = late /\ gaps' = gaps /\ step' = step /\ failing' = failing
      /\ unlogged' = unlogged /\ opened' = opened /\ mature' = mature /\ halts' = halts
      /\ fetched' = fetched
  BY DEF WatchStep, WatchTick, Look, Traced, TraceUnmarked, Trace, TraceFails, pollers, logged
<1>3. PICK past \in Nat, all \in Nat : past = Past /\ past = Past' /\ all = Cardinality(Ticks)
  BY <1>2, PastGrows DEF Past
<1>4. ASSUME NEW m \in Loans
      PROVE  /\ m \notin seen' => traces'[m] <= past + misfires'[m]
             /\ traces'[m] + Cardinality(Tracing(m)') <= past + all + misfires'[m]
  <2>0. PICK after : after = Tracing(m)'
    OBVIOUS
  <2>1. PICK before : before = Tracing(m)
    OBVIOUS
  <2>2. /\ IsFiniteSet(before) /\ Cardinality(before) \in Nat
        /\ traces[m] \in Nat /\ misfires[m] \in Nat
        /\ traces[m] + Cardinality(before) <= past + all + misfires[m]
        /\ m \notin seen => traces[m] <= past + misfires[m]
    BY <1>0, <1>3, <2>1, TracingCount DEF TracesCounted
  <2>3. after \in SUBSET Ticks
    BY <2>0 DEF Tracing
  <2>4. /\ IsFiniteSet(after) /\ Cardinality(after) \in Nat
        /\ Cardinality(after) <= all
    BY <1>3, <2>3, FeedAssumption, FS_Subset, FS_CardinalityType
  <2>5. ASSUME after \in SUBSET before
        PROVE  Cardinality(after) <= Cardinality(before)
    BY <2>2, <2>5, FS_Subset
  <2>6. CASE WatchTick(t) \/ TraceFails(t)
    <3>1. \A u \in Ticks : emitting'[u] \subseteq emitting[u]
      BY <1>0, <2>6 DEF WatchTick, TraceFails
    <3>2. after \in SUBSET before
      BY <2>0, <2>1, <3>1 DEF Tracing
    <3>3. traces' = traces /\ seen' = seen /\ misfires' = misfires
      BY <2>6 DEF WatchTick, TraceFails, logged, tracing
    <3>4. QED
      BY <2>0, <2>2, <2>4, <2>5, <3>2, <3>3
  <2>7. ASSUME NEW l \in Loans, Look(t, l)
        PROVE  /\ m \notin seen' => traces'[m] <= past + misfires'[m]
               /\ traces'[m] + Cardinality(Tracing(m)') <= past + all + misfires'[m]
    <3>1. traces' = traces /\ seen' = seen /\ misfires' = misfires
      BY <2>7 DEF Look, logged, tracing
    <3>2. CASE m = l /\ l \notin seen
      BY <2>0, <2>2, <2>4, <3>1, <3>2
    <3>3. CASE ~(m = l /\ l \notin seen)
      <4>1. \A u \in Ticks : m \in emitting'[u] => m \in emitting[u]
        BY <1>0, <2>7, <3>3 DEF Look
      <4>2. after \in SUBSET before
        BY <2>0, <2>1, <4>1 DEF Tracing
      <4>3. QED
        BY <2>0, <2>2, <2>4, <2>5, <3>1, <4>2
    <3>4. QED
      BY <3>2, <3>3
  <2>8. ASSUME NEW l \in Loans, Traced(t, l) \/ TraceUnmarked(t, l)
        PROVE  /\ m \notin seen' => traces'[m] <= past + misfires'[m]
               /\ traces'[m] + Cardinality(Tracing(m)') <= past + all + misfires'[m]
    <3>1. /\ emitting' = [emitting EXCEPT ![t] = {}] /\ l \in emitting[t]
          /\ traces' = [traces EXCEPT ![l] = traces[l] + 1]
      BY <2>8 DEF Traced, TraceUnmarked, Trace
    <3>2. \/ seen' = seen \cup {l} /\ misfires' = misfires
          \/ seen' = seen /\ misfires' = [misfires EXCEPT ![l] = misfires[l] + 1]
      BY <2>8 DEF Traced, TraceUnmarked
    <3>3. \A u \in Ticks : emitting'[u] \subseteq emitting[u]
      BY <1>0, <3>1
    <3>4. after \in SUBSET before
      BY <2>0, <2>1, <3>3 DEF Tracing
    <3>5. CASE m # l
      <4>1. traces'[m] = traces[m] /\ misfires'[m] = misfires[m]
            /\ (m \notin seen' => m \notin seen)
        BY <1>0, <3>1, <3>2, <3>5
      <4>2. QED
        BY <2>0, <2>2, <2>4, <2>5, <3>4, <4>1
    <3>6. CASE m = l
      <4>1. traces'[m] = traces[m] + 1
            /\ \/ m \in seen' /\ misfires'[m] = misfires[m]
               \/ seen' = seen /\ misfires'[m] = misfires[m] + 1
        BY <1>0, <3>1, <3>2, <3>6
      <4>2. t \in before /\ t \notin after
        BY <1>0, <2>0, <2>1, <3>1, <3>6 DEF Tracing
      <4>3. after \in SUBSET (before \ {t})
        BY <3>4, <4>2
      <4>4. /\ IsFiniteSet(before \ {t}) /\ Cardinality(before \ {t}) = Cardinality(before) - 1
        BY <2>2, <4>2, FS_RemoveElement
      <4>5. Cardinality(after) <= Cardinality(before) - 1
        BY <4>3, <4>4, FS_Subset
      <4>6. QED
        BY <2>0, <2>2, <2>4, <4>1, <4>5
    <3>7. QED
      BY <3>5, <3>6
  <2>9. QED
    BY <2>6, <2>7, <2>8 DEF WatchStep
<1>5. FeedTypeOK'
  BY <1>1, <1>2 DEF FeedTypeOK
<1>6. TracesCounted'
  BY <1>3, <1>4 DEF TracesCounted
<1>7. DownIsSilent' /\ PolledIsOpen' /\ LateAndDone' /\ GapsFail' /\ OneGapPerOutage'
  BY <1>2 DEF DownIsSilent, PolledIsOpen, LateAndDone, GapsFail, OneGapPerOutage
<1>8. QED
  BY <1>5, <1>6, <1>7

\* The inductive invariant of the feed.
THEOREM FeedInvariance == FeedSpec => []FeedInv
<1>1. FeedInv /\ UNCHANGED feedVars => FeedInv'
  BY TracesKept DEF FeedInv, feedVars, pollers, watch, logged, tracing, FeedTypeOK, DownIsSilent,
                    PolledIsOpen, LateAndDone, GapsFail, OneGapPerOutage
<1>2. FeedInv /\ FeedNext => FeedInv'
  BY LifeStep, LoanStep, PollStep, TraceStep DEF FeedNext, PollerStep, WatchStep
<1>3. QED
  BY <1>1, <1>2, FeedInitial, PTL DEF FeedSpec

\* Types, and agreement: while the process runs every loan open in the log is
\* registered and a poller pumps for each registered loan.
THEOREM FeedTypeCorrect == FeedSpec => []FeedTypeOK
<1>1. FeedInv => FeedTypeOK
  BY DEF FeedInv
<1>2. QED
  BY <1>1, FeedInvariance, PTL

\* Once a loan is removed the log gets at most one more observation of it, that
\* of the tick in flight.
THEOREM OneLateObservation == FeedSpec => []OneObservationAfterRemoval
<1>1. FeedInv => OneObservationAfterRemoval
  <2> SUFFICES ASSUME FeedInv, NEW l \in Loans PROVE late[l] <= 1
    BY DEF OneObservationAfterRemoval
  <2>1. late[l] \in Nat
    BY DEF FeedInv, FeedTypeOK
  <2>2. QED
    BY <2>1 DEF FeedInv, LateAndDone
<1>2. QED
  BY <1>1, FeedInvariance, PTL

\* An outage is reported by one gap, unless its append failed.
THEOREM OutageReportedOnce == FeedSpec => []OneGapPerOutage
<1>1. FeedInv => OneGapPerOutage
  BY DEF FeedInv
<1>2. QED
  BY <1>1, FeedInvariance, PTL

\* Over all lives of the process the log has no more traces of a loan's maturity
\* than overlapping ticks in each life, and appends that rejected with their line
\* written.
THEOREM MaturityTraces == FeedSpec => []MaturityTracedOnce
<1>1. FeedInv => MaturityTracedOnce
  <2> SUFFICES ASSUME FeedInv, NEW l \in Loans
               PROVE  traces[l] <= Cardinality(Ticks) * (1 + halts) + misfires[l]
    BY DEF MaturityTracedOnce
  <2>1. PICK n \in Nat : n = Cardinality(Tracing(l))
    BY TracingCount
  <2>2. traces[l] \in Nat /\ misfires[l] \in Nat
    BY FeedAssumption DEF FeedInv, FeedTypeOK
  <2>3. traces[l] + n <= Past + Cardinality(Ticks) + misfires[l]
    BY <2>1 DEF FeedInv, TracesCounted
  <2>4. /\ Past \in Nat /\ Cardinality(Ticks) \in Nat
        /\ Cardinality(Ticks) * (1 + halts) = Past + Cardinality(Ticks)
    BY PastGrows DEF FeedInv
  <2>5. QED
    BY <2>1, <2>2, <2>3, <2>4
<1>2. QED
  BY <1>1, FeedInvariance, PTL

\* A mark is the average of the price in force over the whole window, for
\* every list of trades a venue may answer with.
THEOREM MarksAreIntegrals == FeedSpec => []MarksAreStepIntegrals
<1>1. FeedTypeOK => MarksAreStepIntegrals
  <2> SUFFICES ASSUME FeedTypeOK, NEW l \in Loans
               PROVE  /\ Numerator(fetched[l]) = StepIntegral(fetched[l])
                      /\ Denominator(fetched[l]) = WindowLen
    BY DEF MarksAreStepIntegrals
  <2>1. PICK list \in VenueLists \cup {<<>>} : list = fetched[l]
    BY DEF FeedTypeOK
  <2>2. Listing(list)
    BY VenueListings
  <2>3. QED
    BY <2>1, <2>2, TwapIsStepIntegral
<1>2. QED
  BY <1>1, FeedTypeCorrect, PTL
=============================================================================
