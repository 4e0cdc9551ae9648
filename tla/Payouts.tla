------------------------------ MODULE Payouts -------------------------------
(***************************************************************************)
(* What the treasury pays out.  Once per operational tick Payouts.runTick  *)
(* runs three subroutines one after the other: a swap of USDC into gas,    *)
(* limited by what the event log shows of the last seven days, and an      *)
(* instalment to each vendor, limited by a contract per calendar week.     *)
(* A payment is decided, broadcast, waited for and recorded in steps, and  *)
(* an action ends where the code awaits.  A wait may time out, a call may  *)
(* fail and the process may be killed at each of them; what was broadcast  *)
(* is mined all the same.  The other services write to the same log.       *)
(*                                                                         *)
(* Time is the operational tick.  OperationalCap has VendorPayment's code. *)
(* The treasury's balance is not counted: whenever it is short, a decision *)
(* is a Skip and a payment reverts.                                        *)
(***************************************************************************)
EXTENDS Integers, Sequences, FiniteSets, Sums

CONSTANTS
  Gas,             \* the bucket of the gas refill
  Vendors,         \* the buckets paid through a VendorPayment
  Order,           \* the enabled buckets as runTick runs them
  DryRuns,         \* choices of the buckets that only log what they would do
  Window,          \* ticks in seven days, for the log and for the contract
  TicksPerWeek,    \* the instalments the runtime splits a week's cap into
  GasTickCap, GasWeeklyCap,
  Lag,             \* ticks by which another service's event may be older than its append
  Cap,             \* Cap[v]: the immutable weekly cap of v's contract
  MaxTime,         \* bound: ticks
  Grants,          \* choices of the allowances earlier lives have given
  MaxTxs,          \* bound: transactions, and events a dry run adds to
  MaxKills,        \* bound: kills of the process
  MaxOthers        \* bound: events of other services

Buckets == {Gas} \cup Vendors

ASSUME PayoutsAssumption ==
  /\ Gas \notin Vendors
  /\ Order \in Seq(Buckets) /\ {DryRuns, Grants} \subseteq SUBSET SUBSET Buckets
  /\ Window \in Nat \ {0} /\ TicksPerWeek \in Nat \ {0}
  /\ GasTickCap \in Nat \ {0} /\ GasWeeklyCap \in Nat
  /\ Cap \in [Vendors -> Nat]
  /\ {Lag, MaxTime, MaxTxs, MaxKills, MaxOthers} \subseteq Nat

VARIABLES
  now,        \* the clock of runtime and chain
  paid,       \* VendorPayment.paidThisWeek, per vendor
  allowed,    \* spenders the treasury has given an unlimited allowance
  txs,        \* the treasury's transactions in nonce order
  turn,       \* the subroutine running, 0 between ticks
  step,       \* where it stands
  amount,     \* what it decided to pay
  awaited,    \* the transaction it waits for or records
  due,        \* the next tick may start
  dryRun,     \* configuration: the buckets in dry run
  outflows,   \* treasury.outflow events, and whether their trace is signed
  others,     \* events of other services: outflows in front of each, its stamp
  failures,   \* history: payments given up in their wait or before their trace
  kills       \* history

chainVars == <<now, paid, allowed, txs>>
tickVars == <<turn, step, amount, awaited, due, dryRun>>
logVars == <<outflows, others>>
vars == <<chainVars, tickVars, logVars, failures, kills>>

Weeks == 0 .. MaxTime \div Window
Week == now \div Window
Bucket == Order[turn]
Steps == {"decide", "send", "approving", "paying", "trace"}

Init ==
  /\ now = 0
  /\ paid = [v \in Vendors |-> [w \in Weeks |-> 0]]
  /\ allowed \in Grants /\ txs = <<>>
  /\ turn = 0 /\ step = "decide" /\ amount = 0 /\ awaited = 0 /\ due = TRUE
  /\ dryRun \in DryRuns
  /\ outflows = <<>> /\ others = {} /\ failures = 0 /\ kills = 0

-----------------------------------------------------------------------------
(* The chain.                                                              *)

\* Mutant: the contract relies on the amount having been cut to the week.
PayableUncapped(v, a) == a <= Cap[v] /\ v \in allowed

\* VendorPayment.pay goes through now.
Payable(v, a) == paid[v][Week] + a <= Cap[v] /\ v \in allowed

\* Execution of the oldest pending transaction of the account.  A swap may miss
\* its minimum output, and the treasury's USDC be short of either payment.
Mine(ok) ==
  \E i \in DOMAIN txs :
    LET tx == txs[i] IN
    /\ tx.state = "pending" /\ \A j \in 1 .. i - 1 : txs[j].state # "pending"
    /\ txs' = [txs EXCEPT ![i].state = IF ok THEN "ok" ELSE "reverted",
                           ![i].at = IF ok /\ tx.kind = "pay" THEN now ELSE 0]
    /\ \/ /\ tx.kind = "approve" /\ ok
          /\ allowed' = allowed \cup {tx.bucket}
          /\ UNCHANGED paid
       \/ /\ tx.kind = "pay" /\ ok
          /\ \/ tx.bucket = Gas /\ UNCHANGED paid
             \/ /\ tx.bucket # Gas /\ Payable(tx.bucket, tx.amount)
                /\ paid' = [paid EXCEPT ![tx.bucket][Week] = @ + tx.amount]
          /\ UNCHANGED allowed
       \/ /\ tx.kind = "pay" /\ ~ok
          /\ UNCHANGED <<paid, allowed>>
    /\ UNCHANGED <<now, tickVars, logVars, failures, kills>>

\* An hour passes, between two ticks or in a wait; the loop has slept its
\* interval.
Hour ==
  /\ turn = 0 \/ step \in {"approving", "paying"}
  /\ now < MaxTime
  /\ now' = now + 1
  /\ due' = TRUE
  /\ UNCHANGED <<paid, allowed, txs, turn, step, amount, awaited, dryRun, logVars,
                 failures, kills>>

\* Another service appends an event it stamped before it waited, as a loan's
\* origination is: stamps need not grow along the log.
OtherEvent ==
  /\ Cardinality(others) < MaxOthers
  /\ \E stamp \in 0 .. now :
       /\ now <= stamp + Lag
       /\ others' = others \cup {[after |-> Len(outflows), at |-> stamp]}
  /\ UNCHANGED <<chainVars, tickVars, outflows, failures, kills>>

-----------------------------------------------------------------------------
(* The tick.                                                               *)

Broadcast(kind) ==
  /\ Len(txs) < MaxTxs
  /\ txs' = Append(txs, [kind |-> kind, bucket |-> Bucket, amount |-> amount,
                         state |-> "pending", at |-> 0])
  /\ awaited' = Len(txs) + 1
  /\ UNCHANGED <<now, paid, allowed, turn, amount, due, dryRun, logVars, failures, kills>>

StartTick ==
  /\ turn = 0 /\ due
  /\ turn' = IF Order = <<>> THEN 0 ELSE 1
  /\ step' = "decide" /\ due' = FALSE
  /\ UNCHANGED <<chainVars, amount, awaited, dryRun, logVars, failures, kills>>

Traced(b) ==
  {k \in DOMAIN outflows : outflows[k].bucket = b /\ outflows[k].traced /\ ~outflows[k].dry}

\* Mutant: the window is the calendar week, as the contracts have it.
RecentWeek(b) == {k \in Traced(b) : outflows[k].at \div Window = Week}

\* walkPayouts and sumByBucket: outflows joined with their trace, from the tip to
\* the first event older than seven days, whoever wrote it.
Recent(b) ==
  {k \in Traced(b) :
     /\ outflows[k].at >= now - Window
     /\ \A c \in others : c.after >= k => c.at >= now - Window}

Burnt(b) == Total([k \in DOMAIN outflows |-> outflows[k].amount], Recent(b))

\* Mutant: the instalment is not cut to what the week has left.
InstalmentUncut(v) == (Cap[v] + TicksPerWeek - 1) \div TicksPerWeek

\* ceil(weeklyCap / 168), cut to what the week has left.
Instalment(v) ==
  LET even == (Cap[v] + TicksPerWeek - 1) \div TicksPerWeek
      left == Cap[v] - paid[v][Week]
  IN  IF even < left THEN even ELSE left

\* A bucket in dry run appends its event at once, citing no transaction.
Decided(a) ==
  /\ amount' = a
  /\ UNCHANGED <<chainVars, turn, due, dryRun, others, failures, kills>>
  /\ \/ Bucket \notin dryRun /\ step' = "send" /\ UNCHANGED <<awaited, outflows>>
     \/ /\ Bucket \in dryRun /\ Len(outflows) < MaxTxs
        /\ step' = "trace" /\ awaited' = 0
        /\ outflows' = Append(outflows, [bucket |-> Bucket, amount |-> a, at |-> now,
                                         tx |-> 0, dry |-> TRUE, traced |-> FALSE])

DecideGas ==
  /\ turn # 0 /\ step = "decide" /\ Bucket = Gas
  /\ Burnt(Gas) + GasTickCap <= GasWeeklyCap
  /\ Decided(GasTickCap)

DecideVendor ==
  /\ turn # 0 /\ step = "decide" /\ Bucket \in Vendors
  /\ Instalment(Bucket) > 0
  /\ Decided(Instalment(Bucket))

Approve ==
  /\ turn # 0 /\ step = "send" /\ Bucket \notin allowed
  /\ step' = "approving"
  /\ Broadcast("approve")

\* The wallet estimates a vendor payment first, a swap has a fixed gas limit.
Pay ==
  /\ turn # 0
  /\ \/ step = "send" /\ Bucket \in allowed
     \/ step = "approving" /\ txs[awaited].state # "pending"
  /\ Bucket \in Vendors => Payable(Bucket, amount)
  /\ step' = "paying"
  /\ Broadcast("pay")

\* Mutant: a vendor's event tells the even instalment, not what was paid.
RecordEven ==
  /\ turn # 0 /\ step = "paying" /\ txs[awaited].state # "pending"
  /\ step' = "trace"
  /\ outflows' = Append(outflows,
       [bucket |-> Bucket, at |-> now, tx |-> awaited, dry |-> FALSE, traced |-> FALSE,
        amount |-> IF Bucket = Gas THEN amount ELSE InstalmentUncut(Bucket)])
  /\ UNCHANGED <<chainVars, turn, amount, awaited, due, dryRun, others, failures, kills>>

\* The receipt is there, whatever its status; emitOutflow appends the event.
Record ==
  /\ turn # 0 /\ step = "paying" /\ txs[awaited].state # "pending"
  /\ step' = "trace"
  /\ outflows' = Append(outflows,
       [bucket |-> Bucket, amount |-> amount, at |-> now,
        tx |-> awaited, dry |-> FALSE, traced |-> FALSE])
  /\ UNCHANGED <<chainVars, turn, amount, awaited, due, dryRun, others, failures, kills>>

Turn(n) == turn' = n /\ step' = "decide" /\ amount' = 0 /\ awaited' = 0

NextBucket == Turn((turn + 1) % (Len(Order) + 1))

\* emitOutflow appends the sibling trace and the subroutine returns.  An append
\* rejected with its event written is Record or Trace, and then Skip.
Trace ==
  /\ turn # 0 /\ step = "trace"
  /\ outflows' = [outflows EXCEPT ![Len(outflows)].traced = TRUE]
  /\ NextBucket
  /\ UNCHANGED <<chainVars, due, dryRun, others, failures, kills>>

\* A payment nobody waits for any more gets no event, or its event no trace.
GiveUp ==
  failures' = failures + IF step \in {"paying", "trace"} /\ awaited # 0 THEN 1 ELSE 0

\* A gate that skips, a call that throws, a wait that times out: run() catches
\* it and the next subroutine starts, unless the trace of it cannot be appended,
\* which ends the tick.
Skip ==
  /\ turn # 0
  /\ NextBucket \/ Turn(0)
  /\ GiveUp
  /\ UNCHANGED <<chainVars, due, dryRun, logVars, kills>>

\* The process is killed, and starts again with a tick.
Kill ==
  /\ turn # 0 /\ kills < MaxKills
  /\ kills' = kills + 1
  /\ Turn(0) /\ due' = TRUE
  /\ GiveUp
  /\ UNCHANGED <<chainVars, dryRun, logVars>>

Next ==
  \/ \E ok \in BOOLEAN : Mine(ok)
  \/ Hour \/ OtherEvent \/ StartTick
  \/ DecideGas \/ DecideVendor \/ Approve \/ Pay \/ Record \/ Trace \/ Skip
  \/ Kill

Spec == Init /\ [][Next]_vars

-----------------------------------------------------------------------------
(* Properties.                                                             *)

Tx == [kind : {"approve", "pay"}, bucket : Buckets, amount : Nat,
       state : {"pending", "ok", "reverted"}, at : 0 .. MaxTime]

Outflow == [bucket : Buckets, amount : Nat \ {0}, at : 0 .. MaxTime, tx : Nat,
            dry : BOOLEAN, traced : BOOLEAN]

\* Types; no vendor's contract ever pays more than its cap in a calendar week.
TypeOK ==
  /\ now \in 0 .. MaxTime
  /\ paid \in [Vendors -> [Weeks -> Nat]]
  /\ \A v \in Vendors, w \in Weeks : paid[v][w] <= Cap[v]
  /\ allowed \subseteq Buckets /\ txs \in Seq(Tx)
  /\ turn \in 0 .. Len(Order) /\ step \in Steps /\ amount \in Nat
  /\ awaited \in 0 .. Len(txs) /\ due \in BOOLEAN /\ dryRun \subseteq Buckets
  /\ outflows \in Seq(Outflow) /\ failures \in Nat /\ kills \in 0 .. MaxKills
  /\ others \subseteq [after : 0 .. Len(outflows), at : 0 .. MaxTime]

Spent(b) == {i \in DOMAIN txs : /\ txs[i].kind = "pay" /\ txs[i].bucket = b
                                /\ txs[i].state = "ok"}
Citing(i) == {k \in DOMAIN outflows : outflows[k].tx = i}
InHand(i) == turn # 0 /\ awaited = i

Unrecorded == {i \in DOMAIN txs : txs[i].kind = "pay" /\ Citing(i) = {} /\ ~InHand(i)}

\* payouts.ts emitOutflow: an event that is no dry run cites a payment that was
\* mined before it, of its bucket and amount, and that no other event cites; and
\* of all payments ever broadcast, those without an event are no more than the
\* waits, appends and lives that failed with a payment in hand.
SpendIsRecorded ==
  /\ \A k \in DOMAIN outflows : ~outflows[k].dry =>
       LET i == outflows[k].tx IN
       /\ Citing(i) = {k}
       /\ i \in DOMAIN txs /\ txs[i].kind = "pay" /\ txs[i].state # "pending"
       /\ txs[i].bucket = outflows[k].bucket /\ txs[i].amount = outflows[k].amount
       /\ txs[i].at <= outflows[k].at
  /\ Cardinality(Unrecorded) <= failures

Amounts == [i \in DOMAIN txs |-> txs[i].amount]

\* config.gas.weeklyCapUsdc6: in no Window - Lag ticks, wherever they start, do
\* the refills exceed the weekly cap by more than one refill for each payment
\* given up, although the check reads a log that a payment reaches long after it
\* was mined, and whose walk a late event may cut short.  Of the whole Window the
\* code promises less: the walk may miss what is older than Window - Lag.
GasWithinRollingCap ==
  \A t \in 0 .. now :
    Total(Amounts, {i \in Spent(Gas) : txs[i].at \in t .. t + Window - Lag})
      <= GasWeeklyCap + GasTickCap * failures
=============================================================================
