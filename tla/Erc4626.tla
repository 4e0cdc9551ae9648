------------------------------- MODULE Erc4626 -------------------------------
(***************************************************************************)
(* What the two pools of the contracts, LpVault and AgentPoolVault, are    *)
(* built on and the repository does not hold: the USDC token, and the      *)
(* share ledger and rounding of OpenZeppelin's ERC4626.                    *)
(* A transaction is atomic, so an operation is one action; a revert is an  *)
(* action that is not enabled.  Token allowances are left out: the holder  *)
(* that is pulled from may approve in the transaction before.              *)
(***************************************************************************)
EXTENDS Integers, FiniteSets, Sums

CONSTANTS
  Vault,          \* the address of the pool
  Holders,        \* every other address that may hold USDC or shares
  Lps,            \* the holders that use the ERC-4626 entry points
  Donors,         \* the holders that send the pool USDC directly
  Endowment,      \* the USDC each holder starts with
  VirtualShares,  \* 10 ** _decimalsOffset()
  MaxCalls,       \* bound: calls of LPs and donors
  Amounts,        \* the amounts of USDC an operation may name
  ShareAmounts    \* the amounts of shares an operation may name

ASSUME PoolAssumption ==
  /\ IsFiniteSet(Holders)
  /\ Vault \notin Holders
  /\ Lps \subseteq Holders
  /\ Donors \subseteq Holders
  /\ Endowment \in [Holders -> Nat]
  /\ VirtualShares \in Nat \ {0}
  /\ MaxCalls \in Nat
  /\ Amounts \subseteq Nat
  /\ ShareAmounts \subseteq Nat

Accounts == Holders \cup {Vault}

VARIABLES
  usdc,         \* USDC balance of every account
  shares,       \* share balance of every LP
  totalSupply,  \* shares in existence
  calls         \* calls of LPs and donors so far (bounds the model)

ledger == <<usdc, shares, totalSupply>>

Floor(n, d) == n \div d
Ceil(n, d)  == (n + d - 1) \div d

Transferred(bal, from, to, amount) ==
  [bal EXCEPT ![from] = @ - amount, ![to] = @ + amount]

LedgerInit ==
  /\ usdc = [a \in Accounts |-> IF a = Vault THEN 0 ELSE Endowment[a]]
  /\ shares = [h \in Lps |-> 0]
  /\ totalSupply = 0
  /\ calls = 0

\* _deposit: pull the assets, then mint the shares.
TakeIn(h, assets, minted) ==
  /\ assets <= usdc[h]
  /\ usdc' = Transferred(usdc, h, Vault, assets)
  /\ shares' = [shares EXCEPT ![h] = @ + minted]
  /\ totalSupply' = totalSupply + minted

\* _withdraw: burn the shares, then pay the assets out of the idle USDC.
PayOut(h, assets, burned) ==
  /\ burned <= shares[h]
  /\ assets <= usdc[Vault]
  /\ usdc' = Transferred(usdc, Vault, h, assets)
  /\ shares' = [shares EXCEPT ![h] = @ - burned]
  /\ totalSupply' = totalSupply - burned

CountCall == calls < MaxCalls /\ calls' = calls + 1

\* A plain token transfer to the pool: totalAssets() reads balanceOf(this).
SendToVault(h, amount) ==
  /\ amount <= usdc[h]
  /\ usdc' = Transferred(usdc, h, Vault, amount)
  /\ UNCHANGED <<shares, totalSupply>>
=============================================================================
