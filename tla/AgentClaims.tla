----------------------------- MODULE AgentClaims -----------------------------
(***************************************************************************)
(* The agents' pool against the promise the lending pool makes, LpClaims:  *)
(* an open position is a debt of what it cost.  Positions are read from    *)
(* the books' records, wired and replaced ones, and neither from their     *)
(* openNotional counters nor from the vault's openPositionsValue.          *)
(***************************************************************************)
EXTENDS AgentPool

AllPositions == Books \X PositionIds

PaidFor == [p \in AllPositions |-> Cost(p[1])[p[2]]]

Claims == INSTANCE LpClaims WITH
            Loans <- AllPositions, cash <- usdc[Vault], debt <- PaidFor,
            supply <- totalSupply

\* As long as the owner marks nothing, a depositor of an agent's pool holds what
\* an LP of the lending pool holds: every transaction is a trade at no less than
\* the price, turns cash into a position of that cost, or ends a position.  No
\* re-wiring changes what counts, which LpClaims would allow.
Promised ==
  \/ Claims!Trade
  \/ \E p \in AllPositions : Claims!Lend(p) \/ Claims!Recover(p)

ImplementsLpClaims ==
  /\ Claims!Init
  /\ [][Promised \/ marks' # 0]_(Claims!claims)
=============================================================================
