---------------------------- MODULE PayoutsProofs ----------------------------
(***************************************************************************)
(* Theorems about the payouts, for every set of vendors, order of buckets, *)
(* cap and window: types and the contracts' caps, that what was spent is   *)
(* recorded, and that the refills keep to the rolling cap.                 *)
(***************************************************************************)
EXTENDS Payouts, SumsProofs, SequenceTheorems

\* Which transaction the subroutine holds, at each of its steps.
Control ==
  /\ turn = 0 => step = "decide"
  /\ step \in {"decide", "send"} => awaited = 0
  /\ step # "decide" => amount > 0
  /\ step = "approving" => awaited \in DOMAIN txs /\ txs[awaited].kind = "approve"
  /\ step = "paying" =>
       /\ awaited \in DOMAIN txs /\ txs[awaited].kind = "pay"
       /\ txs[awaited].bucket = Bucket /\ txs[awaited].amount = amount
       /\ \A k \in DOMAIN outflows : outflows[k].tx # awaited
  /\ step = "trace" =>
       /\ Len(outflows) > 0
       /\ outflows[Len(outflows)].tx = awaited
       /\ ~outflows[Len(outflows)].traced

\* k is the one event of the payment i, and tells what was paid.
TellsOf(k, i) ==
  /\ outflows[k].tx = i
  /\ \A l \in DOMAIN outflows : outflows[l].tx = i => l = k
  /\ ~outflows[k].dry
  /\ outflows[k].bucket = txs[i].bucket /\ outflows[k].amount = txs[i].amount
  /\ outflows[k].at >= txs[i].at

\* Every payment has no event, or one that tells it.
PaymentsAccounted ==
  \A i \in DOMAIN txs : txs[i].kind = "pay" =>
    \/ \A k \in DOMAIN outflows : outflows[k].tx # i
    \/ txs[i].state # "pending" /\ \E k \in DOMAIN outflows : TellsOf(k, i)

\* Every event that is no dry run cites a payment of its bucket; time stamps
\* are past.
EventsCitePayments ==
  /\ \A k \in DOMAIN outflows :
       LET i == outflows[k].tx IN
       IF outflows[k].dry THEN i = 0
       ELSE /\ i \in DOMAIN txs /\ txs[i].kind = "pay" /\ txs[i].state # "pending"
            /\ txs[i].bucket = outflows[k].bucket
  /\ \A i \in DOMAIN txs : txs[i].at <= now

\* The log is out of order by no more than Lag.
StampsLag ==
  /\ \A k \in DOMAIN outflows : outflows[k].at <= now
  /\ \A c \in others : \A k \in DOMAIN outflows :
       c.after >= k => outflows[k].at <= c.at + Lag

\* A refill is of one amount.
GasAmounts ==
  /\ turn # 0 /\ Bucket = Gas /\ step # "decide" => amount = GasTickCap
  /\ \A i \in DOMAIN txs :
       txs[i].kind = "pay" /\ txs[i].bucket = Gas => txs[i].amount = GasTickCap

\* Payments no later walk of the log will count, and why they are few.
Told(i) == \E k \in DOMAIN outflows : outflows[k].tx = i /\ outflows[k].traced
Missed == {i \in DOMAIN txs : txs[i].kind = "pay" /\ ~InHand(i) /\ ~Told(i)}
MissedAreFailures == Cardinality(Missed) <= failures

Counted == Spent(Gas) \ Missed

\* The ticks for which a walk counts all.
Span == Window - Lag

\* What is counted of the refills mined from t on, but for the one in hand.
Earlier(t) == {i \in Counted : i # awaited /\ txs[i].at >= t}

Within(t) == {i \in Counted : txs[i].at \in t .. t + Span}

\* The rolling cap, for windows that start at any time.
CapHolds == \A t \in Nat : Total(Amounts, Within(t)) <= GasWeeklyCap

\* Between the decision and the receipt there is room for the refill in hand.
RoomInHand ==
  turn # 0 /\ Bucket = Gas /\ step \in {"send", "approving", "paying"} =>
    Total(Amounts, Earlier(now - Span)) + amount <= GasWeeklyCap

PayoutsInv ==
  /\ TypeOK
  /\ Control
  /\ PaymentsAccounted
  /\ EventsCitePayments
  /\ StampsLag
  /\ GasAmounts
  /\ MissedAreFailures
  /\ CapHolds
  /\ RoomInHand

-----------------------------------------------------------------------------
(* What the steps do to the two logs.                                      *)

\* The index of a sequence runs from 1 to its length.
LEMMA Logs ==
  ASSUME TypeOK
  PROVE  /\ Len(txs) \in Nat /\ DOMAIN txs = 1 .. Len(txs)
         /\ \A i \in DOMAIN txs : txs[i] \in Tx /\ i \in Nat \ {0}
         /\ Len(outflows) \in Nat /\ DOMAIN outflows = 1 .. Len(outflows)
         /\ \A k \in DOMAIN outflows : outflows[k] \in Outflow
         /\ now \in Nat /\ Window \in Nat /\ Lag \in Nat /\ amount \in Nat
<1>1. txs \in Seq(Tx) /\ outflows \in Seq(Outflow)
  BY DEF TypeOK
<1>2. Len(txs) \in Nat /\ DOMAIN txs = 1 .. Len(txs)
  BY <1>1, LenProperties
<1>3. Len(outflows) \in Nat /\ DOMAIN outflows = 1 .. Len(outflows)
  BY <1>1, LenProperties
<1>4. \A i \in DOMAIN txs : txs[i] \in Tx
  BY <1>1, <1>2, ElementOfSeq
<1>5. \A k \in DOMAIN outflows : outflows[k] \in Outflow
  BY <1>1, <1>3, ElementOfSeq
<1>6. \A i \in DOMAIN txs : i \in Nat \ {0}
  BY <1>2
<1>7. now \in Nat /\ Window \in Nat /\ Lag \in Nat /\ amount \in Nat
  BY PayoutsAssumption DEF TypeOK
<1>8. QED
  BY <1>2, <1>3, <1>4, <1>5, <1>6, <1>7

\* Between two ticks and in one, the bucket is a bucket.
LEMMA BucketType ==
  ASSUME TypeOK, turn # 0
  PROVE  Bucket \in Buckets
<1>1. Order \in Seq(Buckets) /\ Len(Order) \in Nat
  BY PayoutsAssumption, LenProperties
<1>2. turn \in 1 .. Len(Order)
  BY <1>1 DEF TypeOK
<1>3. QED
  BY <1>1, <1>2, ElementOfSeq DEF Bucket

\* Weeks are numbered within the bound on time.
LEMMA WeekType ==
  ASSUME now \in 0 .. MaxTime
  PROVE  Week \in Weeks
<1>1. now \in Nat /\ MaxTime \in Nat /\ Window \in Nat \ {0} /\ now <= MaxTime
  BY PayoutsAssumption
<1>2. now \div Window \in Nat /\ MaxTime \div Window \in Nat
  BY <1>1
<1>3. now \div Window <= MaxTime \div Window
  BY <1>1
<1>4. QED
  BY <1>2, <1>3 DEF Week, Weeks

\* An instalment is a whole number, and left of the week when it is taken.
LEMMA InstalmentType ==
  ASSUME TypeOK, NEW v \in Vendors
  PROVE  Instalment(v) \in Int
<1>1. Cap[v] \in Nat /\ TicksPerWeek \in Nat \ {0}
  BY PayoutsAssumption
<1>2. paid[v][Week] \in Nat
  BY WeekType DEF TypeOK
<1>3. Cap[v] + TicksPerWeek - 1 \in Nat
  BY <1>1
<1>4. (Cap[v] + TicksPerWeek - 1) \div TicksPerWeek \in Nat
  BY <1>1, <1>3
<1>5. QED
  BY <1>1, <1>2, <1>4 DEF Instalment

\* A broadcast adds one pending transaction, the one awaited from now on.
LEMMA Broadcasts ==
  ASSUME TypeOK, turn # 0, NEW kind \in {"approve", "pay"}, Broadcast(kind)
  PROVE  /\ txs' \in Seq(Tx) /\ Len(txs') = Len(txs) + 1
         /\ awaited' = Len(txs) + 1 /\ awaited' \notin DOMAIN txs
         /\ DOMAIN txs' = DOMAIN txs \cup {awaited'}
         /\ \A i \in DOMAIN txs : txs'[i] = txs[i]
         /\ txs'[awaited'].kind = kind /\ txs'[awaited'].bucket = Bucket
         /\ txs'[awaited'].amount = amount /\ txs'[awaited'].state = "pending"
         /\ txs'[awaited'].at = 0
<1>1. PICK tx : tx = [kind |-> kind, bucket |-> Bucket, amount |-> amount,
                     state |-> "pending", at |-> 0]
  OBVIOUS
<1>2. tx \in Tx
  <2>1. 0 \in 0 .. MaxTime
    BY PayoutsAssumption
  <2>2. amount \in Nat
    BY DEF TypeOK
  <2>3. QED
    BY <1>1, <2>1, <2>2, BucketType DEF Tx
<1>3. txs' = Append(txs, tx) /\ awaited' = Len(txs) + 1
  BY <1>1 DEF Broadcast
<1>4. /\ Append(txs, tx) \in Seq(Tx) /\ Len(Append(txs, tx)) = Len(txs) + 1
      /\ \A i \in 1 .. Len(txs) : Append(txs, tx)[i] = txs[i]
      /\ Append(txs, tx)[Len(txs) + 1] = tx
  BY <1>2, AppendProperties DEF TypeOK
<1>5. DOMAIN txs' = 1 .. Len(txs) + 1
  BY <1>3, <1>4, LenProperties
<1>6. Len(txs) \in Nat /\ DOMAIN txs = 1 .. Len(txs)
  BY Logs
<1>7. DOMAIN txs' = DOMAIN txs \cup {awaited'} /\ awaited' \notin DOMAIN txs
  BY <1>3, <1>5, <1>6
<1>8. QED
  BY <1>1, <1>3, <1>4, <1>6, <1>7

\* One more event at the end of the log.
LEMMA Recording ==
  ASSUME TypeOK, NEW e \in Outflow, outflows' = Append(outflows, e)
  PROVE  /\ outflows' \in Seq(Outflow) /\ Len(outflows') = Len(outflows) + 1
         /\ Len(outflows') \notin DOMAIN outflows
         /\ DOMAIN outflows' = DOMAIN outflows \cup {Len(outflows')}
         /\ \A k \in DOMAIN outflows : outflows'[k] = outflows[k]
         /\ outflows'[Len(outflows')] = e
<1>1. /\ Append(outflows, e) \in Seq(Outflow)
      /\ Len(Append(outflows, e)) = Len(outflows) + 1
      /\ \A i \in 1 .. Len(outflows) : Append(outflows, e)[i] = outflows[i]
      /\ Append(outflows, e)[Len(outflows) + 1] = e
  BY AppendProperties DEF TypeOK
<1>2. DOMAIN outflows' = 1 .. Len(outflows) + 1
  BY <1>1, LenProperties
<1>3. Len(outflows) \in Nat /\ DOMAIN outflows = 1 .. Len(outflows)
  BY Logs
<1>4. QED
  BY <1>1, <1>2, <1>3

\* Execution settles one pending transaction, and leaves it what it was.
LEMMA Mines ==
  ASSUME TypeOK, NEW ok \in BOOLEAN, Mine(ok)
  PROVE  \E i \in DOMAIN txs :
           /\ txs[i].state = "pending"
           /\ txs' \in Seq(Tx) /\ Len(txs') = Len(txs) /\ DOMAIN txs' = DOMAIN txs
           /\ \A j \in DOMAIN txs : j # i => txs'[j] = txs[j]
           /\ txs'[i].kind = txs[i].kind /\ txs'[i].bucket = txs[i].bucket
           /\ txs'[i].amount = txs[i].amount
           /\ txs'[i].state = IF ok THEN "ok" ELSE "reverted"
           /\ txs'[i].at = IF ok /\ txs[i].kind = "pay" THEN now ELSE 0
<1>1. PICK i \in DOMAIN txs :
        /\ txs[i].state = "pending"
        /\ txs' = [txs EXCEPT ![i].state = IF ok THEN "ok" ELSE "reverted",
                               ![i].at = IF ok /\ txs[i].kind = "pay" THEN now ELSE 0]
  BY DEF Mine
<1>2. PICK tx : tx = [txs[i] EXCEPT !.state = IF ok THEN "ok" ELSE "reverted",
                                    !.at = IF ok /\ txs[i].kind = "pay" THEN now ELSE 0]
  OBVIOUS
<1>3. txs[i] \in Tx /\ Len(txs) \in Nat /\ DOMAIN txs = 1 .. Len(txs)
  BY Logs
<1>4. /\ tx \in Tx
      /\ tx.kind = txs[i].kind /\ tx.bucket = txs[i].bucket
      /\ tx.amount = txs[i].amount
      /\ tx.state = IF ok THEN "ok" ELSE "reverted"
      /\ tx.at = IF ok /\ txs[i].kind = "pay" THEN now ELSE 0
  <2>1. 0 \in 0 .. MaxTime /\ now \in 0 .. MaxTime
    BY PayoutsAssumption DEF TypeOK
  <2>2. QED
    BY <1>2, <1>3, <2>1 DEF Tx
<1>5. txs' = [txs EXCEPT ![i] = tx]
  BY <1>1, <1>2
<1>6. /\ [txs EXCEPT ![i] = tx] \in Seq(Tx)
      /\ Len([txs EXCEPT ![i] = tx]) = Len(txs)
      /\ \A j \in 1 .. Len(txs) : [txs EXCEPT ![i] = tx][j] = IF j = i THEN tx ELSE txs[j]
  BY <1>3, <1>4, ExceptSeq DEF TypeOK
<1>7. DOMAIN txs' = DOMAIN txs
  BY <1>5
<1>8. /\ txs' \in Seq(Tx) /\ Len(txs') = Len(txs) /\ txs'[i] = tx
      /\ \A j \in DOMAIN txs : j # i => txs'[j] = txs[j]
  BY <1>3, <1>5, <1>6
<1>9. txs[i].state = "pending"
  BY <1>1
<1>10. QED
  BY <1>4, <1>7, <1>8, <1>9, Zenon

\* The trace of the last event.
LEMMA Traces ==
  ASSUME TypeOK, Len(outflows) > 0,
         outflows' = [outflows EXCEPT ![Len(outflows)].traced = TRUE]
  PROVE  /\ outflows' \in Seq(Outflow) /\ Len(outflows') = Len(outflows)
         /\ DOMAIN outflows' = DOMAIN outflows
         /\ \A k \in DOMAIN outflows : k # Len(outflows) => outflows'[k] = outflows[k]
         /\ \A k \in DOMAIN outflows :
              /\ outflows'[k].tx = outflows[k].tx /\ outflows'[k].dry = outflows[k].dry
              /\ outflows'[k].bucket = outflows[k].bucket
              /\ outflows'[k].amount = outflows[k].amount
              /\ outflows'[k].at = outflows[k].at
<1> DEFINE n == Len(outflows)
<1>1. n \in DOMAIN outflows /\ DOMAIN outflows = 1 .. n /\ outflows[n] \in Outflow
  BY Logs
<1>2. PICK e : e = [outflows[n] EXCEPT !.traced = TRUE]
  OBVIOUS
<1>3. /\ e \in Outflow /\ e.tx = outflows[n].tx /\ e.dry = outflows[n].dry
      /\ e.bucket = outflows[n].bucket /\ e.amount = outflows[n].amount
      /\ e.at = outflows[n].at
  BY <1>1, <1>2 DEF Outflow
<1>4. outflows' = [outflows EXCEPT ![n] = e]
  BY <1>2
<1>5. /\ [outflows EXCEPT ![n] = e] \in Seq(Outflow)
      /\ Len([outflows EXCEPT ![n] = e]) = n
      /\ \A j \in 1 .. n : [outflows EXCEPT ![n] = e][j] = IF j = n THEN e ELSE outflows[j]
  BY <1>1, <1>3, ExceptSeq DEF TypeOK
<1>6. DOMAIN outflows' = DOMAIN outflows
  BY <1>4
<1>7. QED
  BY <1>1, <1>3, <1>4, <1>5, <1>6

-----------------------------------------------------------------------------
(* Types and the shape of the logs, one action at a time.                  *)

Shape ==
  /\ TypeOK
  /\ Control
  /\ PaymentsAccounted
  /\ EventsCitePayments
  /\ StampsLag

LEMMA InitShape == Init => Shape
<1> SUFFICES ASSUME Init PROVE Shape
  OBVIOUS
<1>1. txs = <<>> /\ outflows = <<>> /\ DOMAIN txs = {} /\ DOMAIN outflows = {}
  BY DEF Init
<1>2. txs \in Seq(Tx) /\ outflows \in Seq(Outflow) /\ Len(txs) = 0
  BY <1>1, EmptySeq
<1>3. paid \in [Vendors -> [Weeks -> Nat]] /\ \A v \in Vendors, w \in Weeks : paid[v][w] <= Cap[v]
  BY PayoutsAssumption DEF Init
<1>4. Len(Order) \in Nat
  BY PayoutsAssumption, LenProperties
<1>5. now \in 0 .. MaxTime /\ turn \in 0 .. Len(Order) /\ awaited \in 0 .. Len(txs) /\ kills \in 0 .. MaxKills
  BY <1>2, <1>4, PayoutsAssumption DEF Init
<1>6. TypeOK
  BY <1>1, <1>2, <1>3, <1>5, PayoutsAssumption DEF Init, TypeOK, Steps
<1>7. Control
  BY DEF Init, Control
<1>8. PaymentsAccounted /\ EventsCitePayments /\ StampsLag
  BY <1>1 DEF Init, PaymentsAccounted, EventsCitePayments, StampsLag
<1>9. QED
  BY <1>6, <1>7, <1>8 DEF Shape

\* An execution pays within the contract's cap of the week, or reverts.
LEMMA MineTypes ==
  ASSUME Shape, NEW ok \in BOOLEAN, Mine(ok)
  PROVE  TypeOK'
<1> USE DEF Shape
<1>1. PICK i \in DOMAIN txs :
        /\ txs' \in Seq(Tx) /\ Len(txs') = Len(txs) /\ DOMAIN txs' = DOMAIN txs
  BY Mines
<1>2. /\ now' = now /\ turn' = turn /\ step' = step /\ amount' = amount /\ awaited' = awaited
      /\ due' = due /\ dryRun' = dryRun /\ outflows' = outflows /\ others' = others
      /\ failures' = failures /\ kills' = kills
  BY DEF Mine, tickVars, logVars
<1>3. /\ allowed' \subseteq Buckets
      /\ paid' \in [Vendors -> [Weeks -> Nat]]
      /\ \A v \in Vendors, w \in Weeks : paid'[v][w] <= Cap[v]
  <2>1. PICK j \in DOMAIN txs :
          \/ allowed' = allowed \cup {txs[j].bucket} /\ paid' = paid
          \/ allowed' = allowed /\ paid' = paid
          \/ /\ allowed' = allowed /\ txs[j].bucket # Gas
             /\ Payable(txs[j].bucket, txs[j].amount)
             /\ paid' = [paid EXCEPT ![txs[j].bucket][Week] = @ + txs[j].amount]
    BY DEF Mine
  <2>2. txs[j].bucket \in Buckets /\ txs[j].amount \in Nat
    BY Logs DEF Tx
  <2>3. CASE allowed' \in {allowed, allowed \cup {txs[j].bucket}} /\ paid' = paid
    BY <2>2, <2>3 DEF TypeOK
  <2>4. CASE /\ allowed' = allowed /\ txs[j].bucket # Gas
             /\ Payable(txs[j].bucket, txs[j].amount)
             /\ paid' = [paid EXCEPT ![txs[j].bucket][Week] = @ + txs[j].amount]
    <3> DEFINE v == txs[j].bucket
    <3>1. v \in Vendors /\ Week \in Weeks
      BY <2>2, <2>4, WeekType DEF Buckets, TypeOK
    <3>2. paid[v] \in [Weeks -> Nat] /\ paid[v][Week] + txs[j].amount \in Nat
      BY <2>2, <3>1 DEF TypeOK
    <3>3. paid[v][Week] + txs[j].amount <= Cap[v]
      BY <2>4 DEF Payable
    <3>4. PICK row : row = [paid[v] EXCEPT ![Week] = paid[v][Week] + txs[j].amount]
      OBVIOUS
    <3>5. row \in [Weeks -> Nat] /\ \A w \in Weeks : row[w] <= Cap[v]
      BY <3>1, <3>2, <3>3, <3>4 DEF TypeOK
    <3>6. paid' = [paid EXCEPT ![v] = row]
      BY <2>4, <3>4
    <3>7. paid' \in [Vendors -> [Weeks -> Nat]]
      BY <3>1, <3>5, <3>6 DEF TypeOK
    <3>8. \A u \in Vendors, w \in Weeks : paid'[u][w] <= Cap[u]
      BY <3>1, <3>5, <3>6 DEF TypeOK
    <3>9. QED
      BY <2>4, <3>7, <3>8 DEF TypeOK
  <2>5. QED
    BY <2>1, <2>3, <2>4
<1>4. QED
  BY <1>1, <1>2, <1>3 DEF TypeOK

LEMMA MineShape ==
  ASSUME Shape, NEW ok \in BOOLEAN, Mine(ok)
  PROVE  Shape'
<1>1. /\ TypeOK /\ TypeOK' /\ Control /\ PaymentsAccounted /\ EventsCitePayments
  BY MineTypes DEF Shape
<1>2. PICK i \in DOMAIN txs :
        /\ txs[i].state = "pending" /\ DOMAIN txs' = DOMAIN txs
        /\ \A j \in DOMAIN txs : j # i => txs'[j] = txs[j]
        /\ txs'[i].kind = txs[i].kind /\ txs'[i].bucket = txs[i].bucket
        /\ txs'[i].amount = txs[i].amount /\ txs'[i].state # "pending"
        /\ txs'[i].at \in {0, now}
  <2>1. (IF ok THEN "ok" ELSE "reverted") # "pending"
    OBVIOUS
  <2>2. QED
    BY <1>1, <2>1, Mines
<1>3. /\ now' = now /\ turn' = turn /\ step' = step /\ amount' = amount /\ awaited' = awaited
      /\ outflows' = outflows /\ others' = others /\ failures' = failures /\ Bucket' = Bucket
  BY DEF Mine, tickVars, logVars, Bucket
<1>4. \A j \in DOMAIN txs : /\ txs'[j].kind = txs[j].kind /\ txs'[j].bucket = txs[j].bucket
                            /\ txs'[j].amount = txs[j].amount
                            /\ (txs[j].state # "pending" => txs'[j] = txs[j])
  BY <1>2
<1>5. Control'
  BY <1>1, <1>2, <1>3, <1>4 DEF Control
<1>6. PaymentsAccounted'
  BY <1>1, <1>2, <1>3, <1>4 DEF PaymentsAccounted, TellsOf
<1>7. EventsCitePayments'
  <2>1. now \in Nat
    BY <1>1, Logs
  <2>2. \A j \in DOMAIN txs' : txs'[j].at <= now'
    BY <1>1, <1>2, <1>3, <2>1 DEF EventsCitePayments
  <2>3. QED
    BY <1>1, <1>2, <1>3, <1>4, <2>2 DEF EventsCitePayments
<1>8. StampsLag'
  BY <1>1, <1>3 DEF Shape, StampsLag
<1>9. QED
  BY <1>1, <1>5, <1>6, <1>7, <1>8 DEF Shape

LEMMA HourShape ==
  ASSUME Shape, Hour
  PROVE  Shape'
<1> USE DEF Shape
<1>1. now' \in 0 .. MaxTime /\ now <= now' /\ now' \in Nat /\ now \in Nat
  BY PayoutsAssumption DEF Hour, TypeOK
<1>2. /\ paid' = paid /\ allowed' = allowed /\ txs' = txs /\ turn' = turn /\ step' = step
      /\ amount' = amount /\ awaited' = awaited /\ dryRun' = dryRun /\ outflows' = outflows
      /\ others' = others /\ failures' = failures /\ kills' = kills /\ due' = TRUE
      /\ Bucket' = Bucket
  BY DEF Hour, logVars, Bucket
<1>3. TypeOK'
  BY <1>1, <1>2 DEF TypeOK
<1>4. Control'
  BY <1>2 DEF Control
<1>5. PaymentsAccounted'
  BY <1>2 DEF PaymentsAccounted, TellsOf
<1>6. EventsCitePayments'
  <2>1. \A j \in DOMAIN txs : txs[j].at \in Nat /\ txs[j].at <= now
    BY Logs DEF EventsCitePayments, Tx
  <2>2. \A j \in DOMAIN txs' : txs'[j].at <= now'
    BY <1>1, <1>2, <2>1
  <2>3. QED
    BY <1>2, <2>2 DEF EventsCitePayments
<1>7. StampsLag'
  <2>1. \A k \in DOMAIN outflows : outflows[k].at \in Nat /\ outflows[k].at <= now
    BY Logs DEF StampsLag, Outflow
  <2>2. \A k \in DOMAIN outflows' : outflows'[k].at <= now'
    BY <1>1, <1>2, <2>1
  <2>3. QED
    BY <1>2, <2>2 DEF StampsLag
<1>8. QED
  BY <1>3, <1>4, <1>5, <1>6, <1>7

\* An event stamped at most Lag ago is put behind events that are no newer than now.
LEMMA OtherShape ==
  ASSUME Shape, OtherEvent
  PROVE  Shape'
<1> USE DEF Shape
<1>1. /\ now' = now /\ paid' = paid /\ allowed' = allowed /\ txs' = txs /\ turn' = turn
      /\ step' = step /\ amount' = amount /\ awaited' = awaited /\ dryRun' = dryRun
      /\ outflows' = outflows /\ failures' = failures /\ kills' = kills /\ due' = due
      /\ Bucket' = Bucket
  BY DEF OtherEvent, chainVars, tickVars, Bucket
<1>2. PICK stamp \in 0 .. now :
        /\ now <= stamp + Lag
        /\ others' = others \cup {[after |-> Len(outflows), at |-> stamp]}
  BY DEF OtherEvent
<1>3. /\ Len(outflows) \in Nat /\ Lag \in Nat /\ now \in Nat /\ now <= MaxTime /\ MaxTime \in Nat
  BY Logs, PayoutsAssumption DEF TypeOK
<1>4. TypeOK'
  <2>1. Len(outflows) \in 0 .. Len(outflows) /\ stamp \in 0 .. MaxTime
    BY <1>3
  <2>2. [after |-> Len(outflows), at |-> stamp] \in [after : 0 .. Len(outflows), at : 0 .. MaxTime]
    BY <2>1
  <2>3. others' \subseteq [after : 0 .. Len(outflows'), at : 0 .. MaxTime]
    BY <1>1, <1>2, <2>2 DEF TypeOK
  <2>4. QED
    BY <1>1, <2>3 DEF TypeOK
<1>5. Control' /\ PaymentsAccounted' /\ EventsCitePayments'
  BY <1>1 DEF Control, PaymentsAccounted, TellsOf, EventsCitePayments
<1>6. StampsLag'
  <2>1. ASSUME NEW k \in DOMAIN outflows PROVE outflows[k].at <= stamp + Lag
    <3>1. outflows[k].at \in Nat /\ outflows[k].at <= now
      BY Logs DEF StampsLag, Outflow
    <3>2. QED
      BY <1>2, <1>3, <3>1
  <2>2. QED
    BY <1>1, <1>2, <2>1 DEF StampsLag
<1>7. QED
  BY <1>4, <1>5, <1>6

LEMMA StartShape ==
  ASSUME Shape, StartTick
  PROVE  Shape'
<1> USE DEF Shape
<1>1. /\ now' = now /\ paid' = paid /\ allowed' = allowed /\ txs' = txs /\ amount' = amount
      /\ awaited' = awaited /\ dryRun' = dryRun /\ outflows' = outflows
      /\ others' = others /\ failures' = failures /\ kills' = kills
      /\ due' = FALSE /\ step' = "decide" /\ step = "decide" /\ turn = 0
  BY DEF StartTick, Control, chainVars, logVars
<1>2. turn' \in 0 .. Len(Order)
  BY PayoutsAssumption, EmptySeq, LenProperties DEF StartTick
<1>3. TypeOK'
  BY <1>1, <1>2 DEF TypeOK
<1>4. Control'
  BY <1>1 DEF Control
<1>5. PaymentsAccounted' /\ EventsCitePayments' /\ StampsLag'
  BY <1>1 DEF PaymentsAccounted, TellsOf, EventsCitePayments, StampsLag
<1>6. QED
  BY <1>3, <1>4, <1>5

\* Events of other services keep their place in a log that grows,
LEMMA LogGrows ==
  ASSUME TypeOK, others' = others, Len(outflows') = Len(outflows) + 1
  PROVE  others' \subseteq [after : 0 .. Len(outflows'), at : 0 .. MaxTime]
<1>1. Len(outflows) \in Nat
  BY Logs
<1>2. 0 .. Len(outflows) \subseteq 0 .. Len(outflows')
  BY <1>1
<1>3. others \subseteq [after : 0 .. Len(outflows), at : 0 .. MaxTime]
  BY DEF TypeOK
<1>4. QED
  BY <1>2, <1>3

\* and none of them is behind the new outflow, which is stamped now.
LEMMA StampsGrow ==
  ASSUME TypeOK, StampsLag, others' = others, now' = now,
         Len(outflows') = Len(outflows) + 1,
         DOMAIN outflows' = DOMAIN outflows \cup {Len(outflows')},
         \A k \in DOMAIN outflows : outflows'[k] = outflows[k],
         outflows'[Len(outflows')].at = now
  PROVE  StampsLag'
<1>1. Len(outflows) \in Nat /\ now \in Nat
  BY Logs
<1>2. ASSUME NEW c \in others PROVE ~(c.after >= Len(outflows'))
  <2>1. c.after \in 0 .. Len(outflows)
    BY DEF TypeOK
  <2>2. QED
    BY <1>1, <2>1
<1>3. \A k \in DOMAIN outflows' : outflows'[k].at <= now
  BY <1>1 DEF StampsLag
<1>4. QED
  BY <1>2, <1>3 DEF StampsLag

\* What a decision leaves behind, whether it is to be sent or only logged.
LEMMA DecidedShape ==
  ASSUME Shape, turn # 0, step = "decide", NEW a \in Nat \ {0}, Decided(a)
  PROVE  Shape'
<1> USE DEF Shape
<1>1. /\ now' = now /\ paid' = paid /\ allowed' = allowed /\ txs' = txs /\ amount' = a
      /\ awaited' = 0 /\ awaited = 0 /\ dryRun' = dryRun /\ turn' = turn /\ others' = others
      /\ failures' = failures /\ kills' = kills /\ due' = due /\ Bucket' = Bucket
  BY DEF Decided, Control, chainVars, Bucket
<1>2. \A i \in DOMAIN txs : i # 0 /\ 0 \notin DOMAIN txs
  BY Logs
<1>3. CASE step' = "send" /\ outflows' = outflows
  <2>1. TypeOK'
    BY <1>1, <1>3 DEF TypeOK, Steps
  <2>2. Control'
    BY <1>1, <1>3 DEF Control
  <2>3. PaymentsAccounted' /\ EventsCitePayments' /\ StampsLag'
    BY <1>1, <1>3 DEF PaymentsAccounted, TellsOf, EventsCitePayments, StampsLag
  <2>4. QED
    BY <2>1, <2>2, <2>3
<1>4. CASE /\ step' = "trace"
           /\ outflows' = Append(outflows, [bucket |-> Bucket, amount |-> a, at |-> now,
                                            tx |-> 0, dry |-> TRUE, traced |-> FALSE])
  <2>1. PICK e : e = [bucket |-> Bucket, amount |-> a, at |-> now,
                      tx |-> 0, dry |-> TRUE, traced |-> FALSE]
    OBVIOUS
  <2>2. e \in Outflow /\ e.tx = 0 /\ e.dry /\ ~e.traced /\ e.at = now
    <3>1. now \in 0 .. MaxTime
      BY DEF TypeOK
    <3>2. QED
      BY <2>1, <3>1, BucketType DEF Outflow
  <2>3. /\ outflows' \in Seq(Outflow) /\ Len(outflows') = Len(outflows) + 1
        /\ Len(outflows') \notin DOMAIN outflows
        /\ DOMAIN outflows' = DOMAIN outflows \cup {Len(outflows')}
        /\ \A k \in DOMAIN outflows : outflows'[k] = outflows[k]
        /\ outflows'[Len(outflows')] = e
    BY <1>4, <2>1, <2>2, Recording
  <2>4. TypeOK'
    <3>1. others' \subseteq [after : 0 .. Len(outflows'), at : 0 .. MaxTime]
      BY <1>1, <2>3, LogGrows
    <3>2. QED
      BY <1>1, <1>4, <2>3, <3>1 DEF TypeOK, Steps
  <2>5. Control'
    <3>1. Len(outflows') > 0
      BY <2>3, Logs
    <3>2. QED
      BY <1>1, <1>4, <2>2, <2>3, <3>1 DEF Control
  <2>6. PaymentsAccounted'
    <3> SUFFICES ASSUME NEW i \in DOMAIN txs, txs[i].kind = "pay"
                 PROVE  \/ \A k \in DOMAIN outflows' : outflows'[k].tx # i
                        \/ /\ txs[i].state # "pending"
                           /\ \E k \in DOMAIN outflows' : TellsOf(k, i)'
      BY <1>1 DEF PaymentsAccounted
    <3>1. i # 0
      BY <1>2
    <3>2. CASE \A k \in DOMAIN outflows : outflows[k].tx # i
      BY <2>2, <2>3, <3>1, <3>2
    <3>3. CASE txs[i].state # "pending" /\ \E k \in DOMAIN outflows : TellsOf(k, i)
      <4>1. PICK k \in DOMAIN outflows : TellsOf(k, i)
        BY <3>3
      <4>2. TellsOf(k, i)'
        BY <1>1, <2>2, <2>3, <3>1, <4>1 DEF TellsOf
      <4>3. QED
        BY <2>3, <3>3, <4>2
    <3>4. QED
      BY <3>2, <3>3 DEF PaymentsAccounted
  <2>7. EventsCitePayments'
    BY <1>1, <2>2, <2>3 DEF EventsCitePayments
  <2>8. StampsLag'
    BY <1>1, <2>2, <2>3, StampsGrow
  <2>9. QED
    BY <2>4, <2>5, <2>6, <2>7, <2>8
<1>5. QED
  BY <1>1, <1>3, <1>4 DEF Decided

LEMMA DecideShape ==
  ASSUME Shape, DecideGas \/ DecideVendor
  PROVE  Shape'
<1>1. CASE DecideGas
  BY <1>1, PayoutsAssumption, DecidedShape DEF DecideGas
<1>2. CASE DecideVendor
  <2>1. Bucket \in Vendors /\ Instalment(Bucket) > 0
    BY <1>2 DEF DecideVendor
  <2>2. Instalment(Bucket) \in Int
    BY <2>1, InstalmentType DEF Shape
  <2>3. Instalment(Bucket) \in Nat \ {0}
    BY <2>1, <2>2
  <2>4. QED
    BY <1>2, <2>3, DecidedShape DEF DecideVendor
<1>3. QED
  BY <1>1, <1>2

\* What was known of the older transactions is not touched by a new one.
LEMMA BroadcastShape ==
  ASSUME Shape, turn # 0, step \in {"send", "approving"},
         NEW kind \in {"approve", "pay"}, Broadcast(kind),
         step' = IF kind = "pay" THEN "paying" ELSE "approving"
  PROVE  Shape'
<1> USE DEF Shape
<1>1. /\ now' = now /\ paid' = paid /\ allowed' = allowed /\ amount' = amount
      /\ dryRun' = dryRun /\ turn' = turn /\ outflows' = outflows /\ others' = others
      /\ failures' = failures /\ kills' = kills /\ due' = due /\ Bucket' = Bucket
  BY DEF Broadcast, logVars, Bucket
<1>2. /\ txs' \in Seq(Tx) /\ Len(txs') = Len(txs) + 1
      /\ awaited' = Len(txs) + 1 /\ awaited' \notin DOMAIN txs
      /\ DOMAIN txs' = DOMAIN txs \cup {awaited'}
      /\ \A i \in DOMAIN txs : txs'[i] = txs[i]
      /\ txs'[awaited'].kind = kind /\ txs'[awaited'].bucket = Bucket
      /\ txs'[awaited'].amount = amount /\ txs'[awaited'].state = "pending"
      /\ txs'[awaited'].at = 0
  BY Broadcasts
<1>3. \A k \in DOMAIN outflows : outflows[k].tx # awaited'
  <2>1. awaited' # 0
    BY <1>2, Logs
  <2>2. \A k \in DOMAIN outflows : outflows[k].tx \in DOMAIN txs \cup {0}
    BY DEF EventsCitePayments
  <2>3. QED
    BY <1>2, <2>1, <2>2
<1>4. TypeOK'
  <2>1. awaited' \in 0 .. Len(txs')
    BY <1>1, <1>2, Logs
  <2>2. step' \in Steps
    BY DEF Steps
  <2>3. QED
    BY <1>1, <1>2, <2>1, <2>2 DEF TypeOK
<1>5. Control'
  BY <1>1, <1>2, <1>3 DEF Control
<1>6. PaymentsAccounted'
  <2> SUFFICES ASSUME NEW i \in DOMAIN txs', txs'[i].kind = "pay"
               PROVE  \/ \A k \in DOMAIN outflows : outflows[k].tx # i
                      \/ /\ txs'[i].state # "pending"
                         /\ \E k \in DOMAIN outflows : TellsOf(k, i)'
    BY <1>1 DEF PaymentsAccounted
  <2>1. CASE i = awaited'
    BY <1>3, <2>1
  <2>2. CASE i \in DOMAIN txs
    <3>1. txs'[i] = txs[i]
      BY <1>2, <2>2
    <3>2. \/ \A k \in DOMAIN outflows : outflows[k].tx # i
          \/ txs[i].state # "pending" /\ \E k \in DOMAIN outflows : TellsOf(k, i)
      BY <2>2, <3>1 DEF PaymentsAccounted
    <3>3. \A k \in DOMAIN outflows : TellsOf(k, i) => TellsOf(k, i)'
      BY <1>1, <3>1 DEF TellsOf
    <3>4. QED
      BY <3>1, <3>2, <3>3
  <2>3. QED
    BY <1>2, <2>1, <2>2
<1>7. EventsCitePayments'
  <2>1. now \in Nat
    BY Logs
  <2>2. QED
    BY <1>1, <1>2, <2>1 DEF EventsCitePayments
<1>8. StampsLag'
  BY <1>1 DEF StampsLag
<1>9. QED
  BY <1>4, <1>5, <1>6, <1>7, <1>8

\* The receipt is there: the payment in hand becomes one that is told.
LEMMA RecordShape ==
  ASSUME Shape, Record
  PROVE  Shape'
<1> USE DEF Shape
<1>1. /\ now' = now /\ paid' = paid /\ allowed' = allowed /\ txs' = txs /\ amount' = amount
      /\ awaited' = awaited /\ dryRun' = dryRun /\ turn' = turn /\ turn # 0
      /\ others' = others /\ failures' = failures /\ kills' = kills /\ due' = due
      /\ Bucket' = Bucket
      /\ step = "paying" /\ step' = "trace" /\ txs[awaited].state # "pending"
  BY DEF Record, chainVars, Bucket
<1>2. /\ awaited \in DOMAIN txs /\ txs[awaited].kind = "pay"
      /\ txs[awaited].bucket = Bucket /\ txs[awaited].amount = amount /\ amount > 0
      /\ \A k \in DOMAIN outflows : outflows[k].tx # awaited
  BY <1>1 DEF Control
<1>3. awaited \in Nat /\ now \in Nat /\ txs[awaited].at \in Nat /\ txs[awaited].at <= now
      /\ amount \in Nat /\ now \in 0 .. MaxTime
  BY <1>2, Logs DEF EventsCitePayments, Tx, TypeOK
<1>4. PICK e : e = [bucket |-> Bucket, amount |-> amount, at |-> now,
                    tx |-> awaited, dry |-> FALSE, traced |-> FALSE]
  OBVIOUS
<1>5. /\ e \in Outflow /\ e.tx = awaited /\ ~e.dry /\ ~e.traced /\ e.bucket = Bucket
      /\ e.amount = amount /\ e.at = now
  <2>1. amount \in Nat \ {0}
    BY <1>2, <1>3
  <2>2. QED
    BY <1>1, <1>3, <1>4, <2>1, BucketType DEF Outflow
<1>6. /\ outflows' \in Seq(Outflow) /\ Len(outflows') = Len(outflows) + 1
      /\ Len(outflows') \notin DOMAIN outflows
      /\ DOMAIN outflows' = DOMAIN outflows \cup {Len(outflows')}
      /\ \A k \in DOMAIN outflows : outflows'[k] = outflows[k]
      /\ outflows'[Len(outflows')] = e
  <2>1. outflows' = Append(outflows, e)
    BY <1>4 DEF Record
  <2>2. QED
    BY <1>5, <2>1, Recording
<1>7. TypeOK'
  <2>1. others' \subseteq [after : 0 .. Len(outflows'), at : 0 .. MaxTime]
    BY <1>1, <1>6, LogGrows
  <2>2. QED
    BY <1>1, <1>6, <2>1 DEF TypeOK, Steps
<1>8. Control'
  <2>1. Len(outflows') > 0
    BY <1>6, Logs
  <2>2. QED
    BY <1>1, <1>2, <1>5, <1>6, <2>1 DEF Control
<1>9. PaymentsAccounted'
  <2> SUFFICES ASSUME NEW i \in DOMAIN txs, txs[i].kind = "pay"
               PROVE  \/ \A k \in DOMAIN outflows' : outflows'[k].tx # i
                      \/ /\ txs[i].state # "pending"
                         /\ \E k \in DOMAIN outflows' : TellsOf(k, i)'
    BY <1>1 DEF PaymentsAccounted
  <2>1. CASE i = awaited
    <3>1. PICK n : n = Len(outflows')
      OBVIOUS
    <3>2. TellsOf(n, i)'
      <4>1. \A l \in DOMAIN outflows' : outflows'[l].tx = i => l = n
        BY <1>2, <1>6, <2>1, <3>1
      <4>2. e.at >= txs[i].at
        BY <1>3, <1>5, <2>1
      <4>3. QED
        BY <1>1, <1>2, <1>5, <1>6, <2>1, <3>1, <4>1, <4>2 DEF TellsOf
    <3>3. QED
      BY <1>1, <1>2, <1>6, <2>1, <3>1, <3>2
  <2>2. CASE i # awaited /\ \A k \in DOMAIN outflows : outflows[k].tx # i
    BY <1>5, <1>6, <2>2
  <2>3. CASE /\ i # awaited /\ txs[i].state # "pending"
             /\ \E k \in DOMAIN outflows : TellsOf(k, i)
    <3>1. PICK k \in DOMAIN outflows : TellsOf(k, i)
      BY <2>3
    <3>2. TellsOf(k, i)'
      BY <1>1, <1>5, <1>6, <2>3, <3>1 DEF TellsOf
    <3>3. QED
      BY <1>6, <2>3, <3>2
  <2>4. QED
    BY <2>1, <2>2, <2>3 DEF PaymentsAccounted
<1>10. EventsCitePayments'
  BY <1>1, <1>2, <1>5, <1>6 DEF EventsCitePayments
<1>11. StampsLag'
  BY <1>1, <1>5, <1>6, StampsGrow
<1>12. QED
  BY <1>7, <1>8, <1>9, <1>10, <1>11

\* The end of a subroutine, with or without its trace: the next one starts, or
\* the tick is over.
LEMMA TurnType ==
  ASSUME TypeOK
  PROVE  (turn + 1) % (Len(Order) + 1) \in 0 .. Len(Order)
<1>1. Len(Order) \in Nat
  BY PayoutsAssumption, LenProperties
<1>2. turn + 1 \in Nat /\ Len(Order) + 1 \in Nat \ {0}
  BY <1>1 DEF TypeOK
<1>3. (turn + 1) % (Len(Order) + 1) \in 0 .. (Len(Order) + 1) - 1
  BY <1>2
<1>4. QED
  BY <1>1, <1>3

LEMMA TraceShape ==
  ASSUME Shape, Trace
  PROVE  Shape'
<1> USE DEF Shape
<1>1. /\ now' = now /\ paid' = paid /\ allowed' = allowed /\ txs' = txs /\ amount' = 0
      /\ awaited' = 0 /\ dryRun' = dryRun /\ others' = others /\ failures' = failures
      /\ kills' = kills /\ due' = due /\ step' = "decide" /\ step = "trace"
      /\ outflows' = [outflows EXCEPT ![Len(outflows)].traced = TRUE]
      /\ turn' = (turn + 1) % (Len(Order) + 1)
  BY DEF Trace, NextBucket, Turn, chainVars
<1>2. Len(outflows) > 0
  BY <1>1 DEF Control
<1>3. /\ outflows' \in Seq(Outflow) /\ DOMAIN outflows' = DOMAIN outflows
      /\ Len(outflows') = Len(outflows)
      /\ \A k \in DOMAIN outflows :
           /\ outflows'[k].tx = outflows[k].tx /\ outflows'[k].dry = outflows[k].dry
           /\ outflows'[k].bucket = outflows[k].bucket
           /\ outflows'[k].amount = outflows[k].amount
           /\ outflows'[k].at = outflows[k].at
  BY <1>1, <1>2, Traces
<1>4. TypeOK'
  <2>1. turn' \in 0 .. Len(Order)
    BY <1>1, TurnType
  <2>2. 0 \in 0 .. Len(txs')
    BY <1>1, Logs
  <2>3. QED
    BY <1>1, <1>3, <2>1, <2>2 DEF TypeOK, Steps
<1>5. Control'
  BY <1>1 DEF Control
<1>6. PaymentsAccounted'
  BY <1>1, <1>3 DEF PaymentsAccounted, TellsOf
<1>7. EventsCitePayments'
  BY <1>1, <1>3 DEF EventsCitePayments
<1>8. StampsLag'
  BY <1>1, <1>3 DEF StampsLag
<1>9. QED
  BY <1>4, <1>5, <1>6, <1>7, <1>8

\* A subroutine given up, or the process killed: what is in the logs stays.
LEMMA LeaveShape ==
  ASSUME Shape, Skip \/ Kill
  PROVE  Shape'
<1> USE DEF Shape
<1>1. /\ now' = now /\ paid' = paid /\ allowed' = allowed /\ txs' = txs /\ amount' = 0
      /\ awaited' = 0 /\ dryRun' = dryRun /\ others' = others
      /\ step' = "decide" /\ outflows' = outflows /\ turn # 0
      /\ failures' \in {failures + 0, failures + 1}
  BY DEF Skip, Kill, NextBucket, Turn, GiveUp, chainVars, logVars
<1>2. turn' \in 0 .. Len(Order)
  <2>1. turn' = (turn + 1) % (Len(Order) + 1) \/ turn' = 0
    BY DEF Skip, Kill, NextBucket, Turn
  <2>2. 0 \in 0 .. Len(Order)
    BY PayoutsAssumption, LenProperties
  <2>3. QED
    BY <2>1, <2>2, TurnType
<1>3. TypeOK'
  <2>1. failures' \in Nat
    BY <1>1 DEF TypeOK
  <2>2. 0 \in 0 .. Len(txs')
    BY <1>1, Logs
  <2>3. due' \in BOOLEAN
    <3>1. due' = due \/ due' = TRUE
      BY DEF Skip, Kill
    <3>2. QED
      BY <3>1, Zenon DEF TypeOK
  <2>4. kills' = kills \/ (kills < MaxKills /\ kills' = kills + 1)
    BY DEF Skip, Kill
  <2>5. kills' \in 0 .. MaxKills
    BY <2>4, PayoutsAssumption DEF TypeOK
  <2>6. QED
    BY <1>1, <1>2, <2>1, <2>2, <2>3, <2>5 DEF TypeOK, Steps
<1>4. Control'
  BY <1>1 DEF Control
<1>5. PaymentsAccounted' /\ EventsCitePayments' /\ StampsLag'
  BY <1>1 DEF PaymentsAccounted, TellsOf, EventsCitePayments, StampsLag
<1>6. QED
  BY <1>3, <1>4, <1>5

LEMMA StepShape ==
  ASSUME Shape, [Next]_vars
  PROVE  Shape'
<1>1. CASE \E ok \in BOOLEAN : Mine(ok)
  BY <1>1, MineShape
<1>2. CASE Hour \/ OtherEvent
  BY <1>2, HourShape, OtherShape
<1>3. CASE StartTick
  BY <1>3, StartShape
<1>4. CASE DecideGas \/ DecideVendor
  BY <1>4, DecideShape
<1>5. CASE Approve
  BY <1>5, BroadcastShape DEF Approve
<1>6. CASE Pay
  BY <1>6, BroadcastShape DEF Pay
<1>7. CASE Record
  BY <1>7, RecordShape
<1>8. CASE Trace
  BY <1>8, TraceShape
<1>9. CASE Skip \/ Kill
  BY <1>9, LeaveShape
<1>10. CASE UNCHANGED vars
  <2>1. /\ now' = now /\ paid' = paid /\ allowed' = allowed /\ txs' = txs /\ amount' = amount
        /\ awaited' = awaited /\ dryRun' = dryRun /\ due' = due /\ turn' = turn
        /\ step' = step /\ outflows' = outflows /\ others' = others
        /\ failures' = failures /\ kills' = kills /\ Bucket' = Bucket
    BY <1>10 DEF vars, chainVars, tickVars, logVars, Bucket
  <2>2. TypeOK'
    BY <2>1 DEF Shape, TypeOK
  <2>3. Control'
    BY <2>1 DEF Shape, Control
  <2>4. PaymentsAccounted'
    BY <2>1 DEF Shape, PaymentsAccounted, TellsOf
  <2>5. EventsCitePayments' /\ StampsLag'
    BY <2>1 DEF Shape, EventsCitePayments, StampsLag
  <2>6. QED
    BY <2>2, <2>3, <2>4, <2>5 DEF Shape
<1>11. QED
  BY <1>1, <1>2, <1>3, <1>4, <1>5, <1>6, <1>7, <1>8, <1>9, <1>10 DEF Next

\* The types, the contracts' weekly caps and what is written in the logs
\* (VendorPayment.pay, payouts.ts emitOutflow).
THEOREM ShapeHolds == Spec => []Shape
<1>1. QED
  BY InitShape, StepShape, PTL DEF Spec

\* No vendor's contract pays more than its cap in a calendar week, whatever the
\* runtime asks of it, and every field keeps its type.
THEOREM TypeCorrect == Spec => []TypeOK
<1>1. Shape => TypeOK
  BY DEF Shape
<1>2. QED
  BY <1>1, ShapeHolds, PTL

-----------------------------------------------------------------------------
(* What a walk of the log misses.                                          *)

LEMMA MissedFinite ==
  ASSUME TypeOK
  PROVE  IsFiniteSet(Missed) /\ Cardinality(Missed) \in Nat
<1>1. DOMAIN txs = 1 .. Len(txs) /\ Len(txs) \in Int /\ 1 \in Int
  BY Logs
<1>2. IsFiniteSet(DOMAIN txs)
  BY <1>1, FS_Interval
<1>3. Missed \subseteq DOMAIN txs
  BY DEF Missed
<1>4. QED
  BY <1>2, <1>3, FS_Subset, FS_CardinalityType

\* A step that misses no payment it did not miss before.
LEMMA MissedKept ==
  ASSUME TypeOK, MissedAreFailures, failures' = failures,
         \A i \in Missed' : i \in Missed
  PROVE  MissedAreFailures'
<1>1. PICK M : M = Missed'
  OBVIOUS
<1>2. IsFiniteSet(Missed) /\ Cardinality(Missed) \in Nat
  BY MissedFinite
<1>3. M \subseteq Missed
  BY <1>1
<1>4. Cardinality(M) \in Nat /\ Cardinality(M) <= Cardinality(Missed)
  BY <1>2, <1>3, FS_Subset, FS_CardinalityType
<1>5. failures \in Nat
  BY DEF TypeOK
<1>6. Cardinality(M) <= failures
  BY <1>2, <1>4, <1>5 DEF MissedAreFailures
<1>7. QED
  BY <1>1, <1>6 DEF MissedAreFailures

\* What is missed, in a form a step is easily compared on.
LEMMA MissedMeans ==
  /\ \A i : i \in Missed <=>
       /\ i \in DOMAIN txs /\ txs[i].kind = "pay"
       /\ ~(turn # 0 /\ awaited = i)
       /\ \A k \in DOMAIN outflows : outflows[k].tx = i => ~outflows[k].traced
  /\ \A i : i \in Missed' <=>
       /\ i \in DOMAIN txs' /\ txs'[i].kind = "pay"
       /\ ~(turn' # 0 /\ awaited' = i)
       /\ \A k \in DOMAIN outflows' : outflows'[k].tx = i => ~outflows'[k].traced
BY DEF Missed, InHand, Told

\* No step but a failure misses a payment.
LEMMA MissedStep ==
  ASSUME Shape, Shape', MissedAreFailures, [Next]_vars
  PROVE  MissedAreFailures'
<1>1. TypeOK /\ TypeOK' /\ Control /\ \A i \in DOMAIN txs : i # 0
  BY Logs DEF Shape
<1>2. CASE \E ok \in BOOLEAN : Mine(ok)
  <2>1. PICK ok \in BOOLEAN : Mine(ok)
    BY <1>2
  <2>2. PICK j \in DOMAIN txs :
          /\ DOMAIN txs' = DOMAIN txs
          /\ \A i \in DOMAIN txs : i # j => txs'[i] = txs[i]
          /\ txs'[j].kind = txs[j].kind
    BY <1>1, <2>1, Mines
  <2>3. /\ turn' = turn /\ awaited' = awaited /\ outflows' = outflows
        /\ failures' = failures
    BY <2>1 DEF Mine, tickVars, logVars
  <2>4. \A i \in Missed' : i \in Missed
    BY <2>2, <2>3, MissedMeans
  <2>5. QED
    BY <1>1, <2>3, <2>4, MissedKept
<1>3. CASE Hour \/ OtherEvent \/ StartTick \/ UNCHANGED vars
  <2>1. /\ txs' = txs /\ awaited' = awaited /\ outflows' = outflows /\ failures' = failures
        /\ turn' = turn \/ (turn = 0 /\ awaited = 0)
    BY <1>1, <1>3 DEF Hour, OtherEvent, StartTick, vars, chainVars, tickVars, logVars, Control
  <2>2. \A i \in Missed' : i \in Missed
    BY <1>1, <2>1, MissedMeans
  <2>3. QED
    BY <1>1, <2>1, <2>2, MissedKept
<1>4. CASE DecideGas \/ DecideVendor \/ Record
  <2>1. /\ txs' = txs /\ turn' = turn /\ failures' = failures /\ turn # 0
        /\ awaited' = awaited
    BY <1>1, <1>4 DEF DecideGas, DecideVendor, Decided, Record, chainVars, Control
  <2>2. \A k \in DOMAIN outflows : k \in DOMAIN outflows' /\ outflows'[k] = outflows[k]
    <3>1. CASE outflows' = outflows
      BY <3>1
    <3>2. ASSUME NEW e, outflows' = Append(outflows, e)
          PROVE  \A k \in DOMAIN outflows : k \in DOMAIN outflows' /\ outflows'[k] = outflows[k]
      <4>1. outflows \in Seq(Outflow) /\ outflows' \in Seq(Outflow)
        BY <1>1 DEF TypeOK
      <4>2. Len(outflows) \in Nat /\ DOMAIN outflows = 1 .. Len(outflows)
        BY <4>1, LenProperties
      <4>3. QED
        BY <3>2, <4>1, <4>2
    <3>3. outflows' = outflows \/ \E e : outflows' = Append(outflows, e)
      BY <1>4 DEF DecideGas, DecideVendor, Decided, Record
    <3>4. QED
      BY <3>1, <3>2, <3>3
  <2>3. \A i \in Missed' : i \in Missed
    BY <2>1, <2>2, MissedMeans
  <2>4. QED
    BY <1>1, <2>1, <2>3, MissedKept
<1>5. CASE Approve \/ Pay
  <2>1. PICK kind \in {"approve", "pay"} : Broadcast(kind) /\ turn # 0 /\ step \in {"send", "approving"}
    BY <1>5 DEF Approve, Pay
  <2>2. /\ awaited' \notin DOMAIN txs
        /\ DOMAIN txs' = DOMAIN txs \cup {awaited'}
        /\ \A i \in DOMAIN txs : txs'[i] = txs[i]
    BY <1>1, <2>1, Broadcasts
  <2>3. /\ turn' = turn /\ turn # 0 /\ outflows' = outflows /\ failures' = failures
    BY <2>1 DEF Broadcast, logVars
  <2>4. awaited \in DOMAIN txs => txs[awaited].kind = "approve"
    BY <1>1, <2>1 DEF Control
  <2>5. \A i \in Missed' : i \in Missed
    BY <2>2, <2>3, <2>4, MissedMeans
  <2>6. QED
    BY <1>1, <2>3, <2>5, MissedKept
<1>6. CASE Trace
  <2>1. /\ txs' = txs /\ failures' = failures /\ awaited' = 0 /\ turn # 0
        /\ Len(outflows) > 0 /\ outflows[Len(outflows)].tx = awaited
        /\ outflows' = [outflows EXCEPT ![Len(outflows)].traced = TRUE]
    BY <1>1, <1>6 DEF Trace, NextBucket, Turn, chainVars, Control
  <2>2. /\ DOMAIN outflows' = DOMAIN outflows
        /\ \A k \in DOMAIN outflows : k # Len(outflows) => outflows'[k] = outflows[k]
        /\ \A k \in DOMAIN outflows : outflows'[k].tx = outflows[k].tx
    BY <1>1, <2>1, Traces
  <2>3. Len(outflows) \in DOMAIN outflows /\ outflows'[Len(outflows)].traced
    <3>1. PICK n : n = Len(outflows)
      OBVIOUS
    <3>2. n \in DOMAIN outflows /\ outflows[n] \in Outflow
      BY <1>1, <2>1, <3>1, Logs
    <3>3. outflows' = [outflows EXCEPT ![n] = [outflows[n] EXCEPT !.traced = TRUE]]
      BY <2>1, <3>1
    <3>4. outflows'[n].traced
      BY <3>2, <3>3 DEF Outflow
    <3>5. QED
      BY <3>1, <3>2, <3>4
  <2>4. ASSUME NEW i \in Missed' PROVE i \in Missed
    <3>1. /\ i \in DOMAIN txs /\ txs[i].kind = "pay"
          /\ \A k \in DOMAIN outflows : outflows[k].tx = i => ~outflows'[k].traced
      BY <2>1, <2>2, MissedMeans
    <3>2. i # awaited
      BY <2>1, <2>2, <2>3, <3>1
    <3>3. \A k \in DOMAIN outflows : outflows[k].tx = i => ~outflows[k].traced
      BY <2>1, <2>2, <3>1, <3>2
    <3>4. QED
      BY <3>1, <3>2, <3>3, MissedMeans
  <2>5. QED
    BY <1>1, <2>1, <2>4, MissedKept
<1>7. CASE Skip \/ Kill
  <2>1. /\ txs' = txs /\ outflows' = outflows /\ awaited' = 0 /\ turn # 0
        /\ failures' = failures + IF step \in {"paying", "trace"} /\ awaited # 0 THEN 1 ELSE 0
    BY <1>7 DEF Skip, Kill, NextBucket, Turn, GiveUp, chainVars, logVars
  <2>2. \A i \in Missed' : i \in Missed \/ i = awaited
    BY <2>1, MissedMeans
  <2>3. CASE step \in {"paying", "trace"} /\ awaited # 0
    <3>1. PICK M : M = Missed'
      OBVIOUS
    <3>2. IsFiniteSet(Missed) /\ Cardinality(Missed) \in Nat
      BY <1>1, MissedFinite
    <3>3. /\ IsFiniteSet(Missed \cup {awaited})
          /\ Cardinality(Missed \cup {awaited}) \in {Cardinality(Missed), Cardinality(Missed) + 1}
      BY <3>2, FS_AddElement
    <3>4. M \subseteq Missed \cup {awaited}
      BY <2>2, <3>1
    <3>5. /\ Cardinality(M) \in Nat
          /\ Cardinality(M) <= Cardinality(Missed \cup {awaited})
      BY <3>3, <3>4, FS_Subset, FS_CardinalityType
    <3>6. failures \in Nat /\ failures' = failures + 1
      BY <1>1, <2>1, <2>3 DEF TypeOK
    <3>7. Cardinality(M) <= failures'
      BY <3>2, <3>3, <3>5, <3>6 DEF MissedAreFailures
    <3>8. QED
      BY <3>1, <3>7 DEF MissedAreFailures
  <2>4. CASE ~(step \in {"paying", "trace"} /\ awaited # 0)
    <3>1. awaited \in DOMAIN txs => txs[awaited].kind = "approve"
      BY <1>1, <2>4 DEF Control, TypeOK, Steps
    <3>2. \A i \in Missed' : i \in Missed
      BY <2>1, <2>2, <3>1, MissedMeans
    <3>3. failures' = failures
      BY <1>1, <2>1, <2>4 DEF TypeOK
    <3>4. QED
      BY <1>1, <3>2, <3>3, MissedKept
  <2>5. QED
    BY <2>3, <2>4
<1>8. QED
  BY <1>2, <1>3, <1>4, <1>5, <1>6, <1>7 DEF Next

\* A refill has one amount, from its decision on.
LEMMA GasAmountsStep ==
  ASSUME Shape, Shape', GasAmounts, [Next]_vars
  PROVE  GasAmounts'
<1>1. TypeOK /\ TypeOK' /\ Control
  BY DEF Shape
<1>2. CASE \E ok \in BOOLEAN : Mine(ok)
  <2>1. PICK ok \in BOOLEAN : Mine(ok)
    BY <1>2
  <2>2. PICK j \in DOMAIN txs :
          /\ DOMAIN txs' = DOMAIN txs
          /\ \A i \in DOMAIN txs : i # j => txs'[i] = txs[i]
          /\ txs'[j].kind = txs[j].kind /\ txs'[j].bucket = txs[j].bucket
          /\ txs'[j].amount = txs[j].amount
    BY <1>1, <2>1, Mines
  <2>3. turn' = turn /\ step' = step /\ amount' = amount /\ Bucket' = Bucket
    BY <2>1 DEF Mine, tickVars, Bucket
  <2>4. QED
    BY <2>2, <2>3 DEF GasAmounts
<1>3. CASE DecideGas \/ DecideVendor
  <2>1. txs' = txs /\ turn' = turn /\ Bucket' = Bucket
    BY <1>3 DEF DecideGas, DecideVendor, Decided, chainVars, Bucket
  <2>2. Bucket = Gas => amount' = GasTickCap
    BY <1>3, PayoutsAssumption DEF DecideGas, DecideVendor, Decided
  <2>3. QED
    BY <2>1, <2>2 DEF GasAmounts
<1>4. CASE Approve \/ Pay
  <2>1. PICK kind \in {"approve", "pay"} : Broadcast(kind) /\ turn # 0 /\ step \in {"send", "approving"}
    BY <1>4 DEF Approve, Pay
  <2>2. /\ DOMAIN txs' = DOMAIN txs \cup {awaited'}
        /\ \A i \in DOMAIN txs : txs'[i] = txs[i]
        /\ txs'[awaited'].bucket = Bucket /\ txs'[awaited'].amount = amount
    BY <1>1, <2>1, Broadcasts
  <2>3. turn' = turn /\ amount' = amount /\ Bucket' = Bucket
    BY <2>1 DEF Broadcast, Bucket
  <2>4. step # "decide"
    BY <2>1
  <2>5. QED
    BY <2>1, <2>2, <2>3, <2>4 DEF GasAmounts
<1>5. CASE Hour \/ OtherEvent \/ UNCHANGED vars \/ Record
  <2>1. txs' = txs /\ turn' = turn /\ amount' = amount /\ Bucket' = Bucket
    BY <1>5 DEF Hour, OtherEvent, vars, Record, chainVars, tickVars, Bucket
  <2>2. step' # "decide" => step # "decide"
    BY <1>5 DEF Hour, OtherEvent, vars, Record, tickVars
  <2>3. QED
    BY <2>1, <2>2 DEF GasAmounts
<1>6. CASE StartTick \/ Trace \/ Skip \/ Kill
  <2>1. txs' = txs /\ step' = "decide"
    BY <1>6 DEF StartTick, Trace, Skip, Kill, NextBucket, Turn, chainVars
  <2>2. QED
    BY <2>1 DEF GasAmounts
<1>7. QED
  BY <1>2, <1>3, <1>4, <1>5, <1>6 DEF Next

-----------------------------------------------------------------------------
(* The rolling cap.                                                        *)

LEMMA AmountsType ==
  ASSUME TypeOK, NEW S \in SUBSET DOMAIN txs
  PROVE  /\ IsFiniteSet(S)
         /\ \A i \in S : Amounts[i] = txs[i].amount /\ Amounts[i] \in Nat
<1>1. DOMAIN txs = 1 .. Len(txs) /\ Len(txs) \in Int /\ 1 \in Int
  BY Logs
<1>2. IsFiniteSet(DOMAIN txs)
  BY <1>1, FS_Interval
<1>3. IsFiniteSet(S)
  BY <1>2, FS_Subset
<1>4. \A i \in S : Amounts[i] = txs[i].amount /\ Amounts[i] \in Nat
  BY Logs DEF Amounts, Tx
<1>5. QED
  BY <1>3, <1>4

\* What is counted, in a form a step is easily compared on.
LEMMA CountedMeans ==
  /\ \A i : i \in Counted <=>
       /\ i \in DOMAIN txs
       /\ txs[i].kind = "pay" /\ txs[i].bucket = Gas /\ txs[i].state = "ok"
       /\ \/ turn # 0 /\ awaited = i
          \/ \E k \in DOMAIN outflows : outflows[k].tx = i /\ outflows[k].traced
  /\ \A i : i \in Counted' <=>
       /\ i \in DOMAIN txs'
       /\ txs'[i].kind = "pay" /\ txs'[i].bucket = Gas /\ txs'[i].state = "ok"
       /\ \/ turn' # 0 /\ awaited' = i
          \/ \E k \in DOMAIN outflows' : outflows'[k].tx = i /\ outflows'[k].traced
BY DEF Counted, Spent, Missed, InHand, Told

\* Counting no more than before keeps the cap.
LEMMA CapKept ==
  ASSUME TypeOK, TypeOK', CapHolds, \A i \in Counted' : i \in Counted /\ txs'[i] = txs[i]
  PROVE  CapHolds'
<1> SUFFICES ASSUME NEW t \in Nat
             PROVE  Total(Amounts', Within(t)') <= GasWeeklyCap
  BY DEF CapHolds
<1>1. PICK W, V : W = Within(t)' /\ V = Within(t)
  OBVIOUS
<1>2. W \subseteq V /\ V \subseteq DOMAIN txs /\ W \subseteq DOMAIN txs'
  BY <1>1, CountedMeans DEF Within
<1>3. \A i \in W : txs'[i] = txs[i]
  BY <1>1 DEF Within
<1>4. \A i \in W : (Amounts')[i] = Amounts[i]
  BY <1>2, <1>3 DEF Amounts
<1>5. Total(Amounts', W) = Total(Amounts, W)
  BY <1>4, TotalSame
<1>6. IsFiniteSet(V) /\ \A i \in V : Amounts[i] \in Nat
  BY <1>2, AmountsType
<1>7. Total(Amounts, W) \in Nat /\ Total(Amounts, V) \in Nat /\ Total(Amounts, W) <= Total(Amounts, V)
  BY <1>2, <1>6, TotalMono
<1>8. Total(Amounts, V) <= GasWeeklyCap
  BY <1>1 DEF CapHolds
<1>9. GasWeeklyCap \in Nat
  BY PayoutsAssumption
<1>10. Total(Amounts', W) <= GasWeeklyCap
  BY <1>5, <1>7, <1>8, <1>9
<1>11. QED
  BY <1>1, <1>10

\* So does it keep the room for the refill in hand, as time goes on.
LEMMA RoomKept ==
  ASSUME TypeOK, TypeOK', RoomInHand,
         turn # 0, Bucket = Gas, step \in {"send", "approving", "paying"},
         now <= now', amount' = amount,
         \A i \in Counted' : i # awaited' => i \in Counted /\ i # awaited /\ txs'[i] = txs[i]
  PROVE  RoomInHand'
<1>1. PICK s : s = now' - Span
  OBVIOUS
<1>2. PICK r : r = now - Span
  OBVIOUS
<1>3. s \in Int /\ r \in Int /\ r <= s
  <2> now \in Nat /\ now' \in Nat
    BY DEF TypeOK
  <2> Window \in Nat /\ Lag \in Nat
    BY PayoutsAssumption
  <2>1. now \in Nat /\ now' \in Nat /\ Span \in Int
    BY DEF Span
  <2>2. PICK n, o, w : n = now' /\ o = now /\ w = Span
    OBVIOUS
  <2>3. n \in Nat /\ o \in Nat /\ w \in Int /\ o <= n
    BY <2>1, <2>2
  <2>4. s = n - w /\ r = o - w
    BY <1>1, <1>2, <2>2
  <2>5. QED
    BY <2>3, <2>4
<1>4. PICK W, V : W = Earlier(s)' /\ V = Earlier(r)
  OBVIOUS
<1>5. V \subseteq DOMAIN txs /\ W \subseteq DOMAIN txs'
  BY <1>4, CountedMeans DEF Earlier
<1>6. \A i \in W : i \in Counted /\ i # awaited /\ txs'[i] = txs[i] /\ txs[i].at >= s
  BY <1>4 DEF Earlier
<1>7. \A i \in W : i \in V
  <2> SUFFICES ASSUME NEW i \in W PROVE i \in V
    OBVIOUS
  <2>1. i \in DOMAIN txs
    BY <1>6, CountedMeans
  <2>2. txs[i].at \in Nat
    BY <2>1, Logs DEF Tx
  <2>3. txs[i].at >= r
    BY <1>3, <1>6, <2>2
  <2>4. QED
    BY <1>4, <1>6, <2>3 DEF Earlier
<1>8. \A i \in W : (Amounts')[i] = Amounts[i]
  BY <1>5, <1>6, <1>7 DEF Amounts
<1>9. Total(Amounts', W) = Total(Amounts, W)
  BY <1>8, TotalSame
<1>10. IsFiniteSet(V) /\ \A i \in V : Amounts[i] \in Nat
  BY <1>5, AmountsType
<1>11. Total(Amounts, W) \in Nat /\ Total(Amounts, V) \in Nat /\ Total(Amounts, W) <= Total(Amounts, V)
  BY <1>7, <1>10, TotalMono
<1>12. Total(Amounts, V) + amount <= GasWeeklyCap
  BY <1>2, <1>4 DEF RoomInHand
<1>13. GasWeeklyCap \in Nat /\ amount \in Nat
  BY PayoutsAssumption DEF TypeOK
<1>14. Total(Amounts', W) + amount' <= GasWeeklyCap
  BY <1>9, <1>11, <1>12, <1>13
<1>15. QED
  BY <1>1, <1>4, <1>14 DEF RoomInHand

\* The check of the gas refill: what is counted since the window began has an
\* event each, and the walk of the log finds all of them.
LEMMA WalkCountsAll ==
  ASSUME Shape, step = "decide", NEW E, E = Earlier(now - Span)
  PROVE  /\ Total(Amounts, E) \in Nat /\ Burnt(Gas) \in Nat
         /\ Total(Amounts, E) <= Burnt(Gas)
<1> DEFINE R == Recent(Gas)
           g == [k \in DOMAIN outflows |-> outflows[k].amount]
           m == [i \in E |-> CHOOSE k \in R : TellsOf(k, i)]
<1>1. TypeOK /\ awaited = 0
  BY DEF Shape, Control
<1>2. E \subseteq DOMAIN txs /\ IsFiniteSet(E) /\ \A i \in E : Amounts[i] = txs[i].amount /\ Amounts[i] \in Nat
  <2>1. E \subseteq DOMAIN txs
    BY CountedMeans DEF Earlier
  <2>2. QED
    BY <1>1, <2>1, AmountsType
<1>3. IsFiniteSet(R) /\ \A k \in R : g[k] \in Nat
  <2>1. DOMAIN outflows = 1 .. Len(outflows) /\ Len(outflows) \in Int /\ 1 \in Int
    BY <1>1, Logs
  <2>2. IsFiniteSet(DOMAIN outflows)
    BY <2>1, FS_Interval
  <2>3. R \in SUBSET DOMAIN outflows
    BY DEF Recent, Traced
  <2>4. IsFiniteSet(R)
    BY <2>2, <2>3, FS_Subset
  <2>5. \A k \in R : g[k] \in Nat
    BY <1>1, <2>3, Logs DEF Outflow
  <2>6. QED
    BY <2>4, <2>5
<1>4. \A i \in E : \E k \in R : TellsOf(k, i)
  <2> SUFFICES ASSUME NEW i \in E PROVE \E k \in R : TellsOf(k, i)
    OBVIOUS
  <2>1. /\ i \in DOMAIN txs /\ i # 0
        /\ txs[i].kind = "pay" /\ txs[i].bucket = Gas
        /\ \E k \in DOMAIN outflows : outflows[k].tx = i /\ outflows[k].traced
    BY <1>1, CountedMeans, Logs DEF Earlier
  <2>2. PICK k \in DOMAIN outflows : TellsOf(k, i) /\ outflows[k].traced
    BY <2>1 DEF Shape, PaymentsAccounted, TellsOf
  <2>3. txs[i].at >= now - Span
    BY DEF Earlier
  <2>4. /\ txs[i].at \in Nat /\ outflows[k].at \in Nat /\ now \in Nat
        /\ Window \in Nat /\ Lag \in Nat
    BY <1>1, <2>1, Logs DEF Tx, Outflow
  <2>5. outflows[k].at >= now - Window + Lag
    BY <2>2, <2>3, <2>4 DEF TellsOf, Span
  <2>6. ASSUME NEW c \in others, c.after >= k
        PROVE  c.at >= now - Window
    <3>1. c.at \in Nat
      BY <1>1 DEF TypeOK
    <3>2. outflows[k].at <= c.at + Lag
      BY <2>6 DEF Shape, StampsLag
    <3>3. QED
      BY <2>4, <2>5, <3>1, <3>2
  <2>7. k \in R
    <3>1. outflows[k].at >= now - Window
      BY <2>4, <2>5
    <3>2. k \in Traced(Gas)
      BY <2>1, <2>2 DEF Traced, TellsOf
    <3>3. QED
      BY <2>6, <3>1, <3>2 DEF Recent
  <2>8. QED
    BY <2>2, <2>7
<1>5. \A i \in E : m[i] \in R /\ TellsOf(m[i], i)
  BY <1>4
<1>6. R \subseteq DOMAIN outflows
  BY DEF Recent, Traced
<1> HIDE DEF m, R
<1>7. \A i \in E : g[m[i]] = Amounts[i] /\ outflows[m[i]].tx = i
  BY <1>2, <1>5, <1>6 DEF TellsOf
<1>8. m \in Injection(E, R)
  <2>1. m \in [E -> R]
    BY <1>5 DEF m
  <2>2. \A i, j \in E : m[i] = m[j] => i = j
    BY <1>7
  <2>3. QED
    BY <2>1, <2>2 DEF Injection, IsInjective
<1> HIDE DEF g
<1>9. Total(Amounts, E) <= Total(g, R)
  BY <1>3, <1>7, <1>8, TotalInject
<1>10. Total(Amounts, E) \in Nat /\ Total(g, R) \in Nat
  BY <1>2, <1>3, UnitsFiniteOn
<1>11. Burnt(Gas) = Total(g, R)
  BY DEF Burnt, g, R
<1>12. QED
  BY <1>9, <1>10, <1>11

\* Execution counts one refill more at most, and that is the one in hand.
LEMMA MineCap ==
  ASSUME Shape, Shape', CapHolds, RoomInHand, NEW ok \in BOOLEAN, Mine(ok)
  PROVE  CapHolds' /\ RoomInHand'
<1>1. TypeOK /\ TypeOK' /\ Control /\ PaymentsAccounted
  BY DEF Shape
<1>2. PICK i \in DOMAIN txs :
        /\ txs[i].state = "pending" /\ DOMAIN txs' = DOMAIN txs
        /\ \A j \in DOMAIN txs : j # i => txs'[j] = txs[j]
        /\ txs'[i].kind = txs[i].kind /\ txs'[i].bucket = txs[i].bucket
        /\ txs'[i].amount = txs[i].amount
        /\ txs'[i].state = IF ok THEN "ok" ELSE "reverted"
        /\ txs'[i].at = IF ok /\ txs[i].kind = "pay" THEN now ELSE 0
  BY <1>1, Mines
<1>3. /\ now' = now /\ turn' = turn /\ step' = step /\ amount' = amount /\ awaited' = awaited
      /\ outflows' = outflows /\ others' = others /\ failures' = failures /\ Bucket' = Bucket
  BY DEF Mine, tickVars, logVars, Bucket
<1>4. \A j \in Counted' : j # i => j \in Counted /\ txs'[j] = txs[j]
  BY <1>2, <1>3, CountedMeans
<1>5. i \in Counted' =>
        /\ turn # 0 /\ step = "paying" /\ awaited = i /\ Bucket = Gas
        /\ txs[i].amount = amount /\ txs'[i].at = now
  <2> SUFFICES ASSUME i \in Counted'
               PROVE  /\ turn # 0 /\ step = "paying" /\ awaited = i /\ Bucket = Gas
                      /\ txs[i].amount = amount /\ txs'[i].at = now
    OBVIOUS
  <2>1. /\ txs[i].kind = "pay" /\ txs[i].bucket = Gas /\ txs'[i].state = "ok"
        /\ \/ turn # 0 /\ awaited = i
           \/ \E k \in DOMAIN outflows : outflows[k].tx = i
    BY <1>2, <1>3, CountedMeans
  <2>2. ok /\ txs'[i].at = now
    BY <1>2, <2>1
  <2>3. \A k \in DOMAIN outflows : outflows[k].tx # i
    BY <1>1, <1>2, <2>1 DEF PaymentsAccounted
  <2>4. turn # 0 /\ awaited = i /\ i # 0
    BY <1>1, <2>1, <2>3, Logs
  <2>5. step = "paying"
    <3>1. step \in Steps
      BY <1>1 DEF TypeOK
    <3>2. Len(outflows) > 0 => Len(outflows) \in DOMAIN outflows
      BY <1>1, Logs
    <3>3. QED
      BY <1>1, <2>1, <2>3, <2>4, <3>1, <3>2 DEF Control, Steps
  <2>6. QED
    BY <1>1, <2>1, <2>2, <2>4, <2>5 DEF Control
<1>6. RoomInHand'
  <2>1. CASE turn # 0 /\ Bucket = Gas /\ step \in {"send", "approving", "paying"}
    <3>1. now <= now'
      BY <1>1, <1>3, Logs
    <3>2. \A j \in Counted' : j # awaited' => j \in Counted /\ j # awaited /\ txs'[j] = txs[j]
      BY <1>3, <1>4, <1>5
    <3>3. QED
      BY <1>1, <1>3, <2>1, <3>1, <3>2, RoomKept
  <2>2. CASE ~(turn # 0 /\ Bucket = Gas /\ step \in {"send", "approving", "paying"})
    BY <1>3, <2>2 DEF RoomInHand
  <2>3. QED
    BY <2>1, <2>2
<1>7. CASE i \notin Counted'
  BY <1>1, <1>4, <1>6, <1>7, CapKept
<1>8. CASE i \in Counted'
  <2> SUFFICES ASSUME NEW t \in Nat
               PROVE  Total(Amounts', Within(t)') <= GasWeeklyCap
    BY <1>6 DEF CapHolds
  <2>1. PICK W, V, E : W = Within(t)' /\ V = Within(t) /\ E = Earlier(now - Span)
    OBVIOUS
  <2>2. W \subseteq DOMAIN txs /\ V \subseteq DOMAIN txs /\ E \subseteq DOMAIN txs
    BY <1>2, <2>1, CountedMeans DEF Within, Earlier
  <2>3. \A j \in W : (Amounts')[j] = Amounts[j]
    BY <1>2, <2>2 DEF Amounts
  <2>4. Total(Amounts', W) = Total(Amounts, W)
    BY <2>3, TotalSame
  <2>5. \A j \in W : j # i => j \in V
    BY <1>4, <2>1 DEF Within
  <2>6. CASE i \notin W
    <3>1. IsFiniteSet(V) /\ \A j \in V : Amounts[j] \in Nat
      BY <1>1, <2>2, AmountsType
    <3>2. W \in SUBSET V
      BY <2>5, <2>6
    <3>3. /\ Total(Amounts, W) \in Nat /\ Total(Amounts, V) \in Nat
          /\ Total(Amounts, W) <= Total(Amounts, V)
      BY <3>1, <3>2, TotalMono
    <3>4. Total(Amounts, V) <= GasWeeklyCap
      BY <2>1 DEF CapHolds
    <3>5. Total(Amounts, W) <= GasWeeklyCap
      BY <3>3, <3>4, PayoutsAssumption
    <3>6. QED
      BY <2>1, <2>4, <3>5
  <2>7. CASE i \in W
    <3>1. now \in t .. t + Span /\ now \in Nat /\ Span \in Int
      BY <1>1, <1>5, <1>8, <2>1, <2>7, Logs DEF Within, Span
    <3>2. \A j \in W : j # i => j \in E
      <4> SUFFICES ASSUME NEW j \in W, j # i PROVE j \in E
        OBVIOUS
      <4>1. j \in Counted /\ txs[j].at \in t .. t + Span
        BY <1>4, <2>1 DEF Within
      <4>2. txs[j].at >= now - Span
        BY <3>1, <4>1
      <4>3. j # awaited
        BY <1>5, <1>8
      <4>4. QED
        BY <2>1, <4>1, <4>2, <4>3 DEF Earlier
    <3>3. E \cup {i} \in SUBSET DOMAIN txs
      BY <2>2
    <3>4. IsFiniteSet(E) /\ IsFiniteSet(E \cup {i}) /\ \A j \in E \cup {i} : Amounts[j] \in Nat
      BY <1>1, <2>2, <3>3, AmountsType
    <3>5. Amounts[i] = amount /\ amount \in Nat
      BY <1>1, <1>5, <1>8, Logs DEF Amounts
    <3>6. Total(Amounts, E \cup {i}) <= Total(Amounts, E) + Amounts[i]
      BY <3>4, TotalAdd
    <3>7. Total(Amounts, E) \in Nat
      BY <3>4, UnitsFiniteOn
    <3>8. W \in SUBSET (E \cup {i})
      BY <3>2
    <3>9. /\ Total(Amounts, W) \in Nat /\ Total(Amounts, E \cup {i}) \in Nat
          /\ Total(Amounts, W) <= Total(Amounts, E \cup {i})
      BY <3>4, <3>8, TotalMono
    <3>10. Total(Amounts, E) + amount <= GasWeeklyCap
      BY <1>5, <1>8, <2>1 DEF RoomInHand
    <3>11. Total(Amounts, W) <= GasWeeklyCap
      BY <3>5, <3>6, <3>7, <3>9, <3>10, PayoutsAssumption
    <3>12. QED
      BY <2>1, <2>4, <3>11
  <2>8. QED
    BY <2>6, <2>7
<1>9. QED
  BY <1>6, <1>7, <1>8

\* The decision leaves room for the refill, because the walk counts all.
LEMMA DecideCap ==
  ASSUME Shape, Shape', CapHolds, DecideGas \/ DecideVendor
  PROVE  CapHolds' /\ RoomInHand'
<1>1. TypeOK /\ TypeOK' /\ Control
  BY DEF Shape
<1>2. /\ now' = now /\ txs' = txs /\ turn' = turn /\ turn # 0
      /\ step = "decide" /\ awaited = 0 /\ awaited' = 0 /\ Bucket' = Bucket
  BY <1>1 DEF DecideGas, DecideVendor, Decided, chainVars, Control, Bucket
<1>3. \A k \in DOMAIN outflows' :
        outflows'[k].traced => k \in DOMAIN outflows /\ outflows'[k] = outflows[k]
  <2>1. CASE outflows' = outflows
    BY <2>1
  <2>2. CASE outflows' # outflows
    <3>1. PICK e : outflows' = Append(outflows, e) /\ ~e.traced
      BY <2>2 DEF DecideGas, DecideVendor, Decided
    <3>2. outflows \in Seq(Outflow) /\ outflows' \in Seq(Outflow)
      BY <1>1 DEF TypeOK
    <3>3. Len(outflows) \in Nat /\ DOMAIN outflows = 1 .. Len(outflows)
      BY <3>2, LenProperties
    <3>4. QED
      BY <3>1, <3>2, <3>3
  <2>3. QED
    BY <2>1, <2>2
<1>4. \A i \in Counted' : i \in Counted /\ txs'[i] = txs[i]
  <2> SUFFICES ASSUME NEW i \in Counted' PROVE i \in Counted
    BY <1>2
  <2>1. i \in DOMAIN txs /\ i # 0
    BY <1>1, <1>2, CountedMeans, Logs
  <2>2. QED
    BY <1>2, <1>3, <2>1, CountedMeans
<1>5. CapHolds'
  BY <1>1, <1>4, CapKept
<1>6. RoomInHand'
  <2> SUFFICES ASSUME Bucket = Gas, step' \in {"send", "approving", "paying"}
               PROVE  Total(Amounts', Earlier(now - Span)') + amount' <= GasWeeklyCap
    BY <1>2 DEF RoomInHand
  <2>1. DecideGas /\ ~DecideVendor
    BY PayoutsAssumption DEF DecideVendor
  <2>2. amount' = GasTickCap /\ outflows' = outflows /\ Burnt(Gas) + GasTickCap <= GasWeeklyCap
    BY <2>1 DEF DecideGas, Decided
  <2>3. PICK E : E = Earlier(now - Span)
    OBVIOUS
  <2>4. /\ Total(Amounts, E) \in Nat /\ Burnt(Gas) \in Nat
        /\ Total(Amounts, E) <= Burnt(Gas)
    BY <1>2, <2>3, WalkCountsAll
  <2>5. Total(Amounts, E) + GasTickCap <= GasWeeklyCap
    BY <2>2, <2>4, PayoutsAssumption
  <2>6. Counted' = Counted
    BY <1>2, <2>2 DEF Counted, Spent, Missed, InHand, Told
  <2>7. Earlier(now - Span)' = E /\ Amounts' = Amounts
    BY <1>2, <2>3, <2>6 DEF Earlier, Amounts, Span
  <2>8. QED
    BY <2>2, <2>5, <2>7
<1>7. QED
  BY <1>5, <1>6

\* A transaction that is pending is not counted.
LEMMA BroadcastCap ==
  ASSUME Shape, Shape', CapHolds, RoomInHand, turn # 0, step \in {"send", "approving"},
         NEW kind \in {"approve", "pay"}, Broadcast(kind)
  PROVE  CapHolds' /\ RoomInHand'
<1>1. TypeOK /\ TypeOK' /\ Control
  BY DEF Shape
<1>2. /\ now' = now /\ amount' = amount /\ turn' = turn /\ outflows' = outflows
      /\ Bucket' = Bucket
  BY DEF Broadcast, logVars, Bucket
<1>3. /\ awaited' \notin DOMAIN txs
      /\ DOMAIN txs' = DOMAIN txs \cup {awaited'}
      /\ \A i \in DOMAIN txs : txs'[i] = txs[i]
      /\ txs'[awaited'].state = "pending"
  BY <1>1, Broadcasts
<1>4. awaited \in DOMAIN txs => txs[awaited].kind = "approve"
  BY <1>1, Logs DEF Control
<1>5. \A i \in Counted' : i \in Counted /\ i # awaited /\ txs'[i] = txs[i]
  <2> SUFFICES ASSUME NEW i \in Counted' PROVE i \in Counted /\ i # awaited /\ txs'[i] = txs[i]
    OBVIOUS
  <2>1. i # awaited' /\ i \in DOMAIN txs /\ txs'[i] = txs[i] /\ txs[i].kind = "pay"
    BY <1>3, CountedMeans
  <2>2. i # awaited
    BY <1>4, <2>1
  <2>3. i \in Counted
    BY <1>2, <2>1, CountedMeans
  <2>4. QED
    BY <2>1, <2>2, <2>3
<1>6. CapHolds'
  BY <1>1, <1>5, CapKept
<1>7. RoomInHand'
  <2>1. now <= now'
    BY <1>1, <1>2, Logs
  <2>2. CASE Bucket = Gas
    BY <1>1, <1>2, <1>5, <2>1, <2>2, RoomKept
  <2>3. CASE Bucket # Gas
    BY <1>2, <2>3 DEF RoomInHand
  <2>4. QED
    BY <2>2, <2>3
<1>8. QED
  BY <1>6, <1>7

\* Recording, tracing and leaving count nothing that was not counted.
LEMMA LeaveCap ==
  ASSUME Shape, Shape', CapHolds, Record \/ Trace \/ Skip \/ Kill
  PROVE  CapHolds' /\ RoomInHand'
<1>1. TypeOK /\ TypeOK' /\ Control /\ PaymentsAccounted
  BY DEF Shape
<1>2. txs' = txs /\ step' \in {"trace", "decide"}
  BY DEF Record, Trace, Skip, Kill, NextBucket, Turn, chainVars
<1>3. \A i \in Counted' : i \in Counted
  <2> SUFFICES ASSUME NEW i \in Counted' PROVE i \in Counted
    OBVIOUS
  <2>1. /\ i \in DOMAIN txs /\ i # 0
        /\ txs[i].kind = "pay" /\ txs[i].bucket = Gas /\ txs[i].state = "ok"
    BY <1>1, <1>2, CountedMeans, Logs
  <2>2. CASE turn # 0 /\ awaited = i
    BY <2>1, <2>2, CountedMeans
  <2>3. CASE ~(turn # 0 /\ awaited = i)
    <3>1. ~(turn' # 0 /\ awaited' = i)
      BY <2>1, <2>3 DEF Record, Trace, Skip, Kill, NextBucket, Turn
    <3>2. PICK k \in DOMAIN outflows' : outflows'[k].tx = i /\ outflows'[k].traced
      BY <3>1, CountedMeans
    <3>3. k \in DOMAIN outflows /\ outflows[k].tx = i /\ outflows[k].traced
      <4>1. CASE Record
        <5>1. outflows \in Seq(Outflow) /\ outflows' \in Seq(Outflow)
          BY <1>1 DEF TypeOK
        <5>2. PICK e : outflows' = Append(outflows, e) /\ ~e.traced
          BY <4>1 DEF Record
        <5>3. Len(outflows) \in Nat /\ DOMAIN outflows = 1 .. Len(outflows)
          BY <5>1, LenProperties
        <5>4. QED
          BY <3>2, <5>1, <5>2, <5>3
      <4>2. CASE Trace
        <5>1. Len(outflows) > 0 /\ turn # 0 /\ outflows[Len(outflows)].tx = awaited
          BY <1>1, <4>2 DEF Trace, Control
        <5>2. /\ DOMAIN outflows' = DOMAIN outflows
              /\ \A l \in DOMAIN outflows : l # Len(outflows) => outflows'[l] = outflows[l]
              /\ \A l \in DOMAIN outflows : outflows'[l].tx = outflows[l].tx
          BY <1>1, <4>2, <5>1, Traces DEF Trace
        <5>3. k # Len(outflows)
          BY <2>3, <3>2, <5>1, <5>2
        <5>4. QED
          BY <3>2, <5>2, <5>3
      <4>3. CASE Skip \/ Kill
        <5>1. outflows' = outflows
          BY <4>3 DEF Skip, Kill, logVars
        <5>2. QED
          BY <3>2, <5>1
      <4>4. QED
        BY <4>1, <4>2, <4>3
    <3>4. QED
      BY <2>1, <3>3, CountedMeans
  <2>4. QED
    BY <2>2, <2>3
<1>4. CapHolds'
  BY <1>1, <1>2, <1>3, CapKept
<1>5. RoomInHand'
  BY <1>2 DEF RoomInHand
<1>6. QED
  BY <1>4, <1>5

LEMMA InitCap == Init => CapHolds /\ RoomInHand
<1> SUFFICES ASSUME Init PROVE CapHolds /\ RoomInHand
  OBVIOUS
<1>1. DOMAIN txs = {}
  BY DEF Init
<1>2. \A t \in Nat : Within(t) = {}
  BY <1>1, CountedMeans DEF Within
<1>3. Total(Amounts, {}) = 0
  BY TotalZero
<1>4. CapHolds
  <2>1. 0 <= GasWeeklyCap
    BY PayoutsAssumption
  <2>2. \A t \in Nat : Total(Amounts, Within(t)) <= GasWeeklyCap
    BY <1>2, <1>3, <2>1
  <2>3. QED
    BY <2>2 DEF CapHolds
<1>5. RoomInHand
  BY DEF Init, RoomInHand
<1>6. QED
  BY <1>4, <1>5

LEMMA StepCap ==
  ASSUME Shape, Shape', CapHolds, RoomInHand, [Next]_vars
  PROVE  CapHolds' /\ RoomInHand'
<1>1. CASE \E ok \in BOOLEAN : Mine(ok)
  BY <1>1, MineCap
<1>2. CASE Hour \/ OtherEvent \/ StartTick \/ UNCHANGED vars
  <2>1. /\ txs' = txs /\ outflows' = outflows
        /\ amount' = amount /\ awaited' = awaited
        /\ \/ turn' = turn /\ step' = step
           \/ turn = 0 /\ step' = "decide"
    BY <1>2 DEF Hour, OtherEvent, StartTick, vars, chainVars, tickVars, logVars
  <2>2. TypeOK /\ TypeOK' /\ (turn = 0 => awaited = 0)
    BY DEF Shape, Control
  <2>3. \A i \in Counted' : i \in Counted /\ txs'[i] = txs[i]
    <3> SUFFICES ASSUME NEW i \in Counted' PROVE i \in Counted
      BY <2>1
    <3>1. i \in DOMAIN txs /\ i # 0
      BY <2>1, <2>2, CountedMeans, Logs
    <3>2. QED
      BY <2>1, <2>2, <3>1, CountedMeans
  <2>4. CapHolds'
    BY <2>2, <2>3, CapKept
  <2>5. RoomInHand'
    <3>1. CASE step' \notin {"send", "approving", "paying"} \/ turn' = 0 \/ Bucket' # Gas
      BY <3>1 DEF RoomInHand
    <3>2. CASE step' \in {"send", "approving", "paying"} /\ turn' # 0 /\ Bucket' = Gas
      <4>1. turn' = turn /\ step' = step /\ Bucket = Gas
        BY <2>1, <3>2 DEF Bucket
      <4>2. now <= now'
        <5>1. now' = now + 1 \/ now' = now
          BY <1>2 DEF Hour, OtherEvent, StartTick, vars, chainVars
        <5>2. QED
          BY <2>2, <5>1, Logs
      <4>3. QED
        BY <2>1, <2>2, <2>3, <3>2, <4>1, <4>2, RoomKept
    <3>3. QED
      BY <3>1, <3>2
  <2>6. QED
    BY <2>4, <2>5
<1>3. CASE DecideGas \/ DecideVendor
  BY <1>3, DecideCap
<1>4. CASE Approve
  BY <1>4, BroadcastCap DEF Approve
<1>5. CASE Pay
  BY <1>5, BroadcastCap DEF Pay
<1>6. CASE Record \/ Trace \/ Skip \/ Kill
  BY <1>6, LeaveCap
<1>7. QED
  BY <1>1, <1>2, <1>3, <1>4, <1>5, <1>6 DEF Next

LEMMA InitCounts == Init => GasAmounts /\ MissedAreFailures
<1> SUFFICES ASSUME Init PROVE GasAmounts /\ MissedAreFailures
  OBVIOUS
<1>1. DOMAIN txs = {} /\ turn = 0 /\ failures = 0
  BY DEF Init
<1>2. Missed = {}
  BY <1>1 DEF Missed
<1>3. Cardinality(Missed) = 0
  BY <1>2, FS_EmptySet
<1>4. QED
  BY <1>1, <1>3 DEF GasAmounts, MissedAreFailures

\* The invariant that carries the records and the rolling cap: a payment the log
\* does not tell of is a failure, a walk finds all that is younger than Span,
\* and room is kept from the decision to the receipt.
THEOREM Invariance == Spec => []PayoutsInv
<1>1. Init => PayoutsInv
  BY InitShape, InitCap, InitCounts DEF PayoutsInv, Shape
<1>2. PayoutsInv /\ [Next]_vars => PayoutsInv'
  <2> SUFFICES ASSUME PayoutsInv, [Next]_vars PROVE PayoutsInv'
    OBVIOUS
  <2>1. Shape /\ CapHolds /\ RoomInHand /\ GasAmounts /\ MissedAreFailures
    BY DEF PayoutsInv, Shape
  <2>2. Shape'
    BY <2>1, StepShape
  <2>3. CapHolds' /\ RoomInHand'
    BY <2>1, <2>2, StepCap
  <2>4. GasAmounts' /\ MissedAreFailures'
    BY <2>1, <2>2, GasAmountsStep, MissedStep
  <2>5. QED
    BY <2>2, <2>3, <2>4 DEF PayoutsInv, Shape
<1>3. QED
  BY <1>1, <1>2, PTL DEF Spec

\* Every event cites the one payment it tells of, as it was mined; and no more
\* payments are without an event than failures met one in hand.
THEOREM SpendRecorded == Spec => []SpendIsRecorded
<1>1. PayoutsInv => SpendIsRecorded
  <2> SUFFICES ASSUME PayoutsInv PROVE SpendIsRecorded
    OBVIOUS
  <2>1. ASSUME NEW k \in DOMAIN outflows, ~outflows[k].dry
        PROVE  LET i == outflows[k].tx IN
               /\ Citing(i) = {k}
               /\ i \in DOMAIN txs /\ txs[i].kind = "pay" /\ txs[i].state # "pending"
               /\ txs[i].bucket = outflows[k].bucket /\ txs[i].amount = outflows[k].amount
               /\ txs[i].at <= outflows[k].at
    <3>1. PICK i : i = outflows[k].tx
      OBVIOUS
    <3>2. i \in DOMAIN txs /\ txs[i].kind = "pay" /\ txs[i].state # "pending"
      BY <2>1, <3>1 DEF PayoutsInv, EventsCitePayments
    <3>3. TellsOf(k, i)
      BY <3>1, <3>2 DEF PayoutsInv, PaymentsAccounted, TellsOf
    <3>4. txs[i].at \in Nat /\ outflows[k].at \in Nat
      BY <3>2, Logs DEF PayoutsInv, Tx, Outflow
    <3>5. QED
      BY <3>1, <3>2, <3>3, <3>4 DEF TellsOf, Citing
  <2>2. Cardinality(Unrecorded) <= failures
    <3>1. Unrecorded \subseteq Missed
      BY DEF Unrecorded, Missed, Told, Citing
    <3>2. IsFiniteSet(Missed) /\ Cardinality(Missed) \in Nat
      BY MissedFinite DEF PayoutsInv
    <3>3. Cardinality(Unrecorded) \in Nat /\ Cardinality(Unrecorded) <= Cardinality(Missed)
      BY <3>1, <3>2, FS_Subset, FS_CardinalityType
    <3>4. Cardinality(Missed) <= failures /\ failures \in Nat
      BY DEF PayoutsInv, MissedAreFailures, TypeOK
    <3>5. QED
      BY <3>2, <3>3, <3>4
  <2>3. QED
    BY <2>1, <2>2 DEF SpendIsRecorded
<1>2. QED
  BY <1>1, Invariance, PTL

\* A sum over two sets is no more than the sums over each.
LEMMA TotalUnion ==
  ASSUME NEW S, IsFiniteSet(S), NEW A \in SUBSET S, NEW B \in SUBSET S,
         NEW f, \A x \in S : f[x] \in Nat
  PROVE  /\ Total(f, A) \in Nat /\ Total(f, B) \in Nat /\ Total(f, A \cup B) \in Nat
         /\ Total(f, A \cup B) <= Total(f, A) + Total(f, B)
<1>1. Units(f, A \cup B) = Units(f, A) \cup Units(f, B)
  BY DEF Units
<1>2. IsFiniteSet(A) /\ IsFiniteSet(B)
  BY FS_Subset
<1>3. IsFiniteSet(Units(f, A)) /\ IsFiniteSet(Units(f, B))
  BY <1>2, UnitsFiniteOn
<1>4. /\ IsFiniteSet(Units(f, A) \cup Units(f, B))
      /\ Cardinality(Units(f, A) \cup Units(f, B)) =
           Cardinality(Units(f, A)) + Cardinality(Units(f, B))
             - Cardinality(Units(f, A) \cap Units(f, B))
  BY <1>3, FS_Union
<1>5. Cardinality(Units(f, A) \cap Units(f, B)) \in Nat
  <2>1. IsFiniteSet(Units(f, A) \cap Units(f, B))
    BY <1>3, FS_Intersection
  <2>2. QED
    BY <2>1, FS_CardinalityType
<1>6. /\ Cardinality(Units(f, A)) \in Nat /\ Cardinality(Units(f, B)) \in Nat
      /\ Cardinality(Units(f, A) \cup Units(f, B)) \in Nat
  BY <1>3, <1>4, FS_CardinalityType
<1>7. QED
  BY <1>1, <1>4, <1>5, <1>6 DEF Total

LEMMA TimesMono ==
  ASSUME NEW a \in Nat, NEW b \in Nat, NEW c \in Nat, a <= b
  PROVE  a * c <= c * b
<1>1. PICK d \in Nat : b = a + d
  <2>1. b - a \in Nat /\ b = a + (b - a)
    OBVIOUS
  <2>2. QED
    BY <2>1
<1>2. c * b = a * c + d * c
  BY <1>1
<1>3. a * c \in Nat /\ d * c \in Nat
  BY <1>1
<1>4. QED
  BY <1>2, <1>3

\* In no Window - Lag ticks do the refills exceed the weekly cap of gas by more
\* than one refill per failure, for every cap, window and number of ticks
\* (config.gas.weeklyCapUsdc6).
THEOREM GasCapHolds == Spec => []GasWithinRollingCap
<1>1. PayoutsInv => GasWithinRollingCap
  <2> SUFFICES ASSUME PayoutsInv, NEW t \in 0 .. now
               PROVE  Total(Amounts, {i \in Spent(Gas) : txs[i].at \in t .. t + Window - Lag})
                        <= GasWeeklyCap + GasTickCap * failures
    BY DEF GasWithinRollingCap
  <2>1. PICK T, W, M : /\ T = {i \in Spent(Gas) : txs[i].at \in t .. t + Window - Lag}
                       /\ W = Within(t)
                       /\ M = {i \in Missed : txs[i].bucket = Gas}
    OBVIOUS
  <2>2. t \in Nat /\ Window \in Nat /\ Lag \in Nat /\ failures \in Nat /\ TypeOK
    BY Logs DEF PayoutsInv, TypeOK
  <2>3. t + Window - Lag = t + Span
    BY <2>2 DEF Span
  <2>4. T \subseteq W \cup M
    BY <2>1, <2>3 DEF Within, Counted, Spent
  <2>5. W \subseteq DOMAIN txs /\ M \subseteq DOMAIN txs /\ M \subseteq Missed
    BY <2>1 DEF Within, Counted, Spent, Missed
  <2>6. IsFiniteSet(DOMAIN txs) /\ \A i \in DOMAIN txs : Amounts[i] \in Nat
    BY <2>2, AmountsType
  <2>7. /\ Total(Amounts, W) \in Nat /\ Total(Amounts, M) \in Nat
        /\ Total(Amounts, W \cup M) \in Nat
        /\ Total(Amounts, W \cup M) <= Total(Amounts, W) + Total(Amounts, M)
    BY <2>5, <2>6, TotalUnion
  <2>8. Total(Amounts, T) \in Nat /\ Total(Amounts, T) <= Total(Amounts, W \cup M)
    <3>1. W \cup M \subseteq DOMAIN txs
      BY <2>5
    <3>2. IsFiniteSet(W \cup M) /\ \A i \in W \cup M : Amounts[i] \in Nat
      BY <2>6, <3>1, FS_Subset
    <3>3. T \in SUBSET (W \cup M)
      BY <2>4
    <3>4. QED
      BY <3>2, <3>3, TotalMono
  <2>9. Total(Amounts, W) <= GasWeeklyCap
    BY <2>1, <2>2 DEF PayoutsInv, CapHolds
  <2>10. Total(Amounts, M) <= GasTickCap * failures
    <3>1. \A i \in M : Amounts[i] = GasTickCap
      BY <2>1, <2>5 DEF PayoutsInv, GasAmounts, Amounts, Missed
    <3>2. IsFiniteSet(M) /\ GasTickCap \in Nat
      BY <2>5, <2>6, FS_Subset, PayoutsAssumption
    <3>3. Total(Amounts, M) = Cardinality(M) * GasTickCap
      BY <3>1, <3>2, TotalConst
    <3>4. Cardinality(M) \in Nat /\ Cardinality(M) <= failures
      <4>1. IsFiniteSet(Missed) /\ Cardinality(Missed) \in Nat
        BY <2>2, MissedFinite
      <4>2. Cardinality(M) \in Nat /\ Cardinality(M) <= Cardinality(Missed)
        BY <2>5, <4>1, FS_Subset, FS_CardinalityType
      <4>3. Cardinality(Missed) <= failures
        BY DEF PayoutsInv, MissedAreFailures
      <4>4. QED
        BY <2>2, <4>1, <4>2, <4>3
    <3>5. Cardinality(M) * GasTickCap <= GasTickCap * failures
      BY <2>2, <3>2, <3>4, TimesMono
    <3>6. QED
      BY <3>3, <3>5
  <2>11. GasTickCap * failures \in Nat /\ GasWeeklyCap \in Nat
    BY <2>2, PayoutsAssumption
  <2>12. Total(Amounts, T) <= GasWeeklyCap + GasTickCap * failures
    BY <2>7, <2>8, <2>9, <2>10, <2>11
  <2>13. QED
    BY <2>1, <2>12
<1>2. QED
  BY <1>1, Invariance, PTL
=============================================================================
