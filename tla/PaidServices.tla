---------------------------- MODULE PaidServices ----------------------------
(***************************************************************************)
(* Services paid per call.  A client calls a metered route, is challenged  *)
(* with 402, signs a transfer authorization with a fresh nonce and calls   *)
(* again (fetchWithX402); the server's hook verifies the authorization,    *)
(* submits it, waits for the receipt, logs a treasury.inflow event and     *)
(* lets the request through to its handler.  Calls run concurrently, an    *)
(* action ends where hook or client awaits, and a header may be sent again *)
(* in another call.                                                        *)
(***************************************************************************)
EXTENDS Integers, Sequences, FiniteSets

CONSTANTS
  Calls,       \* calls of metered routes
  Auths,       \* signed authorizations, each with a nonce of its own
  NoAuth,
  MaxKills     \* bound: kills of the server

ASSUME PaidAssumption ==
  /\ NoAuth \notin Auths
  /\ MaxKills \in Nat

VARIABLES
  step,        \* where a call stands
  header,      \* the authorization a call carries
  voided,      \* authorizations that expired, were cancelled or lost their funds
  used,        \* USDC: authorizations whose nonce is consumed
  txs,         \* the relayer's transactions in nonce order
  inflows,     \* treasury.inflow events: the transaction each cites
  mishaps,     \* history: calls cut off, or failed by their handler, after submission
  unlogged,    \* history: calls whose inflow event could not be appended
  kills

paidVars == <<step, header, voided, used, txs, inflows, mishaps, unlogged, kills>>

\* Of a call: not made; challenged; sent with a header; settling; settled; let
\* through to the handler; answered.
InHook == {"presented", "verified", "settling", "settled", "handling"}
Answers == {"unpaid", "rejected", "failed", "served"}

TxsOf(c) == {i \in DOMAIN txs : txs[i].call = c}
Transferred(c) == \E i \in TxsOf(c) : txs[i].state = "ok"
Spendable(a) == a \notin used \cup voided

PaidInit ==
  /\ step = [c \in Calls |-> "idle"]
  /\ header = [c \in Calls |-> NoAuth]
  /\ voided = {} /\ used = {} /\ txs = <<>>
  /\ inflows = <<>> /\ mishaps = {} /\ unlogged = {} /\ kills = 0

Becomes(c, s) == step' = [step EXCEPT ![c] = s]
Chain == <<voided, used, txs>>
Ghosts == <<mishaps, unlogged, kills>>

-----------------------------------------------------------------------------
(* The client.                                                             *)

\* The first fetch carries no header and is answered 402, or is let through: an
\* internal call, or metering switched off.
FirstFetch(c) ==
  /\ step[c] = "idle"
  /\ Becomes(c, "challenged") \/ Becomes(c, "handling")
  /\ UNCHANGED <<header, Chain, inflows, Ghosts>>

\* pickAccept turns the challenge down: scheme, asset, price above its cap.
TurnDown(c) ==
  /\ step[c] = "challenged"
  /\ Becomes(c, "unpaid")
  /\ UNCHANGED <<header, Chain, inflows, Ghosts>>

\* The second fetch, with a fresh authorization or a header sent before.
Present(c, a) ==
  /\ step[c] = "challenged"
  /\ header' = [header EXCEPT ![c] = a]
  /\ Becomes(c, "presented")
  /\ UNCHANGED <<Chain, inflows, Ghosts>>

-----------------------------------------------------------------------------
(* The chain.                                                              *)

Void(a) ==
  /\ a \notin voided
  /\ voided' = voided \cup {a}
  /\ UNCHANGED <<step, header, used, txs, inflows, Ghosts>>

\* USDC executes the oldest pending transferWithAuthorization.
Mine ==
  \E i \in DOMAIN txs :
    LET a == header[txs[i].call] IN
    /\ txs[i].state = "pending" /\ \A j \in 1 .. i - 1 : txs[j].state # "pending"
    /\ txs' = [txs EXCEPT ![i].state = IF Spendable(a) THEN "ok" ELSE "reverted"]
    /\ used' = IF Spendable(a) THEN used \cup {a} ELSE used
    /\ UNCHANGED <<step, header, voided, inflows, Ghosts>>

-----------------------------------------------------------------------------
(* The hook.                                                               *)

\* verifyAuthorization: an error of the RPC node does not fail it.
Verify(c) ==
  /\ step[c] = "presented"
  /\ Becomes(c, "verified")
  /\ UNCHANGED <<header, Chain, inflows, Ghosts>>

Broadcast(c) == txs' = Append(txs, [call |-> c, state |-> "pending"])

\* Mutant: a refused call is answered, and settled all the same.
RejectGoesOn(c) ==
  /\ step[c] = "presented"
  /\ Becomes(c, "rejected")
  /\ Broadcast(c)
  /\ UNCHANGED <<header, voided, used, inflows, Ghosts>>

\* Verification fails: the validity is over, the nonce used, a field is wrong.
Reject(c) ==
  /\ step[c] = "presented"
  /\ Becomes(c, "rejected")
  /\ UNCHANGED <<header, Chain, inflows, Ghosts>>

\* settleOnChain; writeContract estimates the call before it signs.
Submit(c) ==
  /\ step[c] = "verified"
  /\ Spendable(header[c])
  /\ Broadcast(c)
  /\ Becomes(c, "settling")
  /\ UNCHANGED <<header, voided, used, inflows, Ghosts>>

\* Mutant: a receipt that does not come is a reason to submit again.
FailRetries(c) ==
  /\ step[c] = "settling"
  /\ Becomes(c, "verified")
  /\ UNCHANGED <<header, Chain, inflows, Ghosts>>

\* settleOnChain throws: the estimate fails, or the receipt does not come.
Fail(c) ==
  /\ step[c] \in {"verified", "settling"}
  /\ Becomes(c, "failed")
  /\ mishaps' = IF step[c] = "settling" THEN mishaps \cup {c} ELSE mishaps
  /\ UNCHANGED <<header, Chain, inflows, unlogged, kills>>

\* The receipt is there; its status is not looked at.
Settled(c) ==
  /\ step[c] = "settling"
  /\ \E i \in TxsOf(c) : txs[i].state # "pending"
  /\ Becomes(c, "settled")
  /\ UNCHANGED <<header, Chain, inflows, Ghosts>>

\* Mutant: the event cites the last transaction the relayer sent.
LogLatest(c) ==
  /\ step[c] = "settled"
  /\ inflows' = Append(inflows, Len(txs))
  /\ Becomes(c, "handling")
  /\ UNCHANGED <<header, Chain, Ghosts>>

\* onSettled appends the event, best effort: the call goes on whether the append
\* resolves, rejects with the event written (as if resolved) or wrote nothing.
Log(c) ==
  /\ step[c] = "settled"
  /\ \/ inflows' = Append(inflows, CHOOSE i \in TxsOf(c) : TRUE) /\ UNCHANGED unlogged
     \/ unlogged' = unlogged \cup {c} /\ UNCHANGED inflows
  /\ Becomes(c, "handling")
  /\ UNCHANGED <<header, Chain, mishaps, kills>>

\* The handler runs after the payment: it may find the request invalid.
Handle(c) ==
  /\ step[c] = "handling"
  /\ \/ Becomes(c, "served") /\ UNCHANGED mishaps
     \/ Becomes(c, "failed") /\ mishaps' = mishaps \cup {c}
  /\ UNCHANGED <<header, Chain, inflows, unlogged, kills>>

\* The server is killed: the calls in it fail, what they sent stays sent.
Kill ==
  /\ kills < MaxKills
  /\ kills' = kills + 1
  /\ step' = [c \in Calls |-> IF step[c] \in InHook THEN "failed" ELSE step[c]]
  /\ mishaps' = mishaps \cup {c \in Calls : step[c] \in InHook}
  /\ UNCHANGED <<header, Chain, inflows, unlogged>>

PaidNext ==
  \/ \E c \in Calls :
       \/ FirstFetch(c) \/ TurnDown(c)
       \/ \E a \in Auths : Present(c, a)
       \/ Verify(c) \/ Reject(c) \/ Submit(c) \/ Fail(c) \/ Settled(c) \/ Log(c) \/ Handle(c)
  \/ \E a \in Auths : Void(a)
  \/ Mine \/ Kill

PaidSpec == PaidInit /\ [][PaidNext]_paidVars

-----------------------------------------------------------------------------
(* Properties.                                                             *)

OneTxPerCall == \A c \in Calls : Cardinality(TxsOf(c)) <= 1

\* Types; a call submits one transaction.
PaidTypeOK ==
  /\ step \in [Calls -> InHook \cup Answers \cup {"idle", "challenged"}]
  /\ header \in [Calls -> Auths \cup {NoAuth}]
  /\ voided \subseteq Auths /\ used \subseteq Auths
  /\ txs \in Seq([call : Calls, state : {"pending", "ok", "reverted"}])
  /\ OneTxPerCall
  /\ inflows \in Seq(DOMAIN txs)
  /\ mishaps \subseteq Calls /\ unlogged \subseteq Calls /\ kills \in 0 .. MaxKills

\* x402.ts installX402Hook: a call that moved the client's USDC is under way,
\* served, or was cut off after its submission; a client told 402 for any other
\* reason was not charged, and may call again with a fresh authorization.
ChargedIsAnswered ==
  \A c \in Calls : Transferred(c) =>
    step[c] \in {"settling", "settled", "handling", "served"} \/ c \in mishaps

\* main.ts onSettled: every transfer of an answered call has one inflow event,
\* however many calls settle at once and whichever header was sent twice.
TransfersAreLogged ==
  \A c \in Calls : Transferred(c) /\ step[c] = "served" /\ c \notin unlogged =>
    Cardinality({k \in DOMAIN inflows : txs[inflows[k]].call = c}) = 1
=============================================================================
