------------------------------ MODULE AgentPool ------------------------------
(***************************************************************************)
(* contracts/src/AgentPoolVault.sol and PositionBook.sol: the capped pool  *)
(* one trading agent trades with, and the book that opens and closes its   *)
(* positions.  The relayer is the owner of both: it receives the USDC of a *)
(* position, trades it at the venue and returns the proceeds.              *)
(***************************************************************************)
EXTENDS Erc4626

CONSTANTS
  Relayer,       \* owner() of the vault and of every book
  Books,         \* PositionBook contracts deployed for this vault
  NoBook,        \* address(0) in positionBook and pendingPositionBook
  MaxAum,        \* maxAumUsdc6
  PositionIds,
  Sizes,         \* the sizes a position may be opened with
  Proceeds,      \* what the relayer may close a position for
  Marks,         \* the values markPositions is called with
  MaxMarks       \* bound: calls of markPositions

ASSUME AgentAssumption ==
  /\ Relayer \in Holders \ (Lps \cup Donors)
  /\ IsFiniteSet(Books) /\ NoBook \notin Books
  /\ MaxAum \in Nat \ {0}
  /\ IsFiniteSet(PositionIds)
  /\ Sizes \subseteq Nat /\ Proceeds \subseteq Nat /\ Marks \subseteq Nat
  /\ MaxMarks \in Nat

VARIABLES
  positionBook,         \* the wired PositionBook
  pendingPositionBook,  \* the PositionBook that may accept
  openPositionsValue,   \* openPositionsValueUsdc6 of the vault
  marks,                \* calls of markPositions so far (bounds the model)
  status,               \* positions[id].status of each book
  size,                 \* positions[id].sizeUsdc6
  openNotional,         \* openNotionalUsdc6 of each book
  lifetimeCostBasis,    \* lifetimeCostBasisUsdc6
  lifetimeProceeds      \* lifetimeProceedsUsdc6

wiring == <<positionBook, pendingPositionBook>>
positions == <<status, size>>
totals == <<openNotional, lifetimeCostBasis, lifetimeProceeds>>
books == <<positions, totals>>
vars == <<ledger, calls, wiring, openPositionsValue, marks, books>>

Statuses == {"None", "Open", "Closed"}

-----------------------------------------------------------------------------
(* AgentPoolVault: value, cap and the ERC-4626 entry points.               *)

\* Mutant: a position is worth nothing until it is closed.
TotalAssetsIdleOnly == usdc[Vault]
TotalAssets == usdc[Vault] + openPositionsValue

PricedAssets == TotalAssets + 1
PricedShares == totalSupply + VirtualShares

MaxDeposit == IF TotalAssets >= MaxAum THEN 0 ELSE MaxAum - TotalAssets

MaxMint == Floor(MaxDeposit * PricedShares, PricedAssets)

Deposit(h, assets) ==
  /\ assets <= MaxDeposit
  /\ TakeIn(h, assets, Floor(assets * PricedShares, PricedAssets))

Mint(h, minted) ==
  /\ minted <= MaxMint
  /\ TakeIn(h, Ceil(minted * PricedAssets, PricedShares), minted)

Withdraw(h, assets) ==
  /\ assets <= Floor(shares[h] * PricedAssets, PricedShares)
  /\ PayOut(h, assets, Ceil(assets * PricedShares, PricedAssets))

Redeem(h, burned) ==
  PayOut(h, Floor(burned * PricedAssets, PricedShares), burned)

LpStep ==
  /\ \E h \in Lps :
       \/ \E assets \in Amounts : Deposit(h, assets) \/ Withdraw(h, assets)
       \/ \E s \in ShareAmounts : Mint(h, s) \/ Redeem(h, s)
  /\ CountCall
  /\ UNCHANGED <<wiring, openPositionsValue, marks, books>>

Donate(h, amount) ==
  /\ SendToVault(h, amount)
  /\ CountCall
  /\ UNCHANGED <<wiring, openPositionsValue, marks, books>>

MarkPositions(newValue) ==
  /\ marks < MaxMarks
  /\ marks' = marks + 1
  /\ openPositionsValue' = newValue
  /\ UNCHANGED <<ledger, calls, wiring, books>>

-----------------------------------------------------------------------------
(* Wiring, in two steps; address(0) withdraws a proposal.                  *)

ProposePositionBook(next) ==
  /\ pendingPositionBook' = next
  /\ UNCHANGED <<ledger, calls, positionBook, openPositionsValue, marks, books>>

AcceptVaultWiring(b) ==
  /\ positionBook # b
  /\ pendingPositionBook # NoBook
  /\ b = pendingPositionBook
  /\ positionBook' = pendingPositionBook
  /\ pendingPositionBook' = NoBook
  /\ UNCHANGED <<ledger, calls, openPositionsValue, marks, books>>

-----------------------------------------------------------------------------
(* PositionBook.  The vault's onPositionOpened and onPositionClosed revert *)
(* the whole transaction for a book that is not wired.                     *)

Unused(b, id) == status[b][id] = "None"

Open(b, id, sizeUsdc6) ==
  /\ sizeUsdc6 # 0
  /\ Unused(b, id)
  /\ b = positionBook
  /\ sizeUsdc6 <= usdc[Vault]
  /\ status' = [status EXCEPT ![b][id] = "Open"]
  /\ size' = [size EXCEPT ![b][id] = sizeUsdc6]
  /\ openNotional' = [openNotional EXCEPT ![b] = @ + sizeUsdc6]
  /\ usdc' = Transferred(usdc, Vault, Relayer, sizeUsdc6)
  /\ openPositionsValue' = openPositionsValue + sizeUsdc6
  /\ UNCHANGED <<shares, totalSupply, calls, wiring, marks, lifetimeCostBasis, lifetimeProceeds>>

\* onPositionClosed: marks may have left less than what is to be taken off.
\* Mutant: the subtraction is not saturated.
ValueLessPlain(sizeUsdc6, proceeds) == openPositionsValue - sizeUsdc6
\* Mutant: proceeds are taken off instead of the position's size.
ValueLessProceeds(sizeUsdc6, proceeds) ==
  IF proceeds >= openPositionsValue THEN 0 ELSE openPositionsValue - proceeds
ValueLess(sizeUsdc6, proceeds) ==
  IF sizeUsdc6 >= openPositionsValue THEN 0 ELSE openPositionsValue - sizeUsdc6

\* Mutant: proceeds of a loss are booked at the position's size.
BookedAtSize(sizeUsdc6, proceeds) == IF proceeds < sizeUsdc6 THEN sizeUsdc6 ELSE proceeds
Booked(sizeUsdc6, proceeds) == proceeds

Close(b, id, proceeds) ==
  /\ status[b][id] = "Open"
  /\ b = positionBook
  /\ proceeds <= usdc[Relayer]
  /\ status' = [status EXCEPT ![b][id] = "Closed"]
  /\ LET sizeUsdc6 == size[b][id] IN
       /\ openNotional' = [openNotional EXCEPT ![b] = @ - sizeUsdc6]
       /\ lifetimeCostBasis' = [lifetimeCostBasis EXCEPT ![b] = @ + sizeUsdc6]
       /\ lifetimeProceeds' = [lifetimeProceeds EXCEPT ![b] = @ + Booked(sizeUsdc6, proceeds)]
       /\ openPositionsValue' = ValueLess(sizeUsdc6, proceeds)
  /\ usdc' = Transferred(usdc, Relayer, Vault, proceeds)
  /\ UNCHANGED <<shares, totalSupply, calls, wiring, marks, size>>

-----------------------------------------------------------------------------
Init ==
  /\ LedgerInit
  /\ positionBook = NoBook
  /\ pendingPositionBook = NoBook
  /\ openPositionsValue = 0
  /\ marks = 0
  /\ status = [b \in Books |-> [id \in PositionIds |-> "None"]]
  /\ size = [b \in Books |-> [id \in PositionIds |-> 0]]
  /\ openNotional = [b \in Books |-> 0]
  /\ lifetimeCostBasis = [b \in Books |-> 0]
  /\ lifetimeProceeds = [b \in Books |-> 0]

Next ==
  \/ LpStep
  \/ \E h \in Donors, amount \in Amounts : Donate(h, amount)
  \/ \E newValue \in Marks : MarkPositions(newValue)
  \/ \E next \in Books \cup {NoBook} : ProposePositionBook(next)
  \/ \E b \in Books :
       \/ AcceptVaultWiring(b)
       \/ \E id \in PositionIds :
            \/ \E sizeUsdc6 \in Sizes : Open(b, id, sizeUsdc6)
            \/ \E proceeds \in Proceeds : Close(b, id, proceeds)

Spec == Init /\ [][Next]_vars

-----------------------------------------------------------------------------
(* Properties.                                                             *)

TypeOK ==
  /\ usdc \in [Accounts -> Nat]
  /\ shares \in [Lps -> Nat]
  /\ {totalSupply, calls, openPositionsValue, marks} \subseteq Nat
  /\ {positionBook, pendingPositionBook} \subseteq Books \cup {NoBook}
  /\ status \in [Books -> [PositionIds -> Statuses]]
  /\ size \in [Books -> [PositionIds -> Nat]]
  /\ openNotional \in [Books -> Nat]
  /\ lifetimeCostBasis \in [Books -> Nat]
  /\ lifetimeProceeds \in [Books -> Nat]

\* What the open positions of book b cost.
Cost(b) == [id \in PositionIds |-> IF status[b][id] = "Open" THEN size[b][id] ELSE 0]

\* I-PB-3: the counter each book keeps by hand is the cost of its open
\* positions, and as long as nothing was marked the value the vault keeps by
\* hand is the cost of the open positions of all its books, the replaced ones
\* included.
NotionalMirrored ==
  /\ \A b \in Books : openNotional[b] = Total(Cost(b), PositionIds)
  /\ marks = 0 => openPositionsValue = Total(openNotional, Books)

\* Whatever was opened, closed at a gain or a loss, re-wired or marked, the
\* totals of the books account for every unit of USDC between the pool and the
\* relayer: realised profit can be read off them.
RelayerAccountedFor ==
  usdc[Relayer] + Total(lifetimeProceeds, Books)
    = Endowment[Relayer] + Total(lifetimeCostBasis, Books) + Total(openNotional, Books)

\* I-PB-1: None to Open to Closed, once per id and book, with a fixed size.
PositionsRunOnce ==
  [][\A b \in Books, id \in PositionIds :
       /\ status'[b][id] # status[b][id] =>
            <<status[b][id], status'[b][id]>> \in {<<"None", "Open">>, <<"Open", "Closed">>}
       /\ status[b][id] # "None" => size'[b][id] = size[b][id]]_vars

\* I-AP-4: no call of a depositor leaves the pool above its cap, although
\* mint() rounds its assets up and limits shares, not assets.
AumCapHolds ==
  [][totalSupply' > totalSupply => TotalAssets' <= MaxAum]_vars

\* The price of a share, as a fraction, did not fall.
PriceKept ==
  (TotalAssets' + 1) * PricedShares >= PricedAssets * (totalSupply' + VirtualShares)

\* A share loses value by a close below cost or by the owner's mark, and by
\* nothing else: no depositor, donor, opening or re-wiring takes it.
PriceFallsByTradesOnly ==
  [][\/ PriceKept
     \/ marks' # marks
     \/ \E b \in Books :
          lifetimeProceeds'[b] - lifetimeProceeds[b] < lifetimeCostBasis'[b] - lifetimeCostBasis[b]
    ]_vars

\* AgentPoolVault.sol:50-51 calls openPositionsValueUsdc6 the "sum of current
\* notional value of all open positions": closing the last one leaves no value,
\* even if it was marked to market (the value stands at a mark) while open.
AllClosed == \A b \in Books, id \in PositionIds : status[b][id] # "Open"

ClosedOutHoldsNoValue ==
  [][~AllClosed /\ openPositionsValue \in Marks /\ AllClosed' => openPositionsValue' = 0]_vars
=============================================================================
