--------------------------- MODULE PipelineProofs ---------------------------
(***************************************************************************)
(* The safety of LoanPipeline for every number of loans, pledges and       *)
(* settlements, every finality depth and every chain.                      *)
(*                                                                         *)
(* OriginationsAreFinal does not carry itself: when an event is signed the *)
(* chain may have changed twice since the receipt was read.  ReceiptsInv   *)
(* adds what a request may rely on: its receipt stands, or is of an older  *)
(* fork and can never stand again.                                         *)
(* Nor does LogMatchesTheChain: AccountedInv says it of every transaction  *)
(* that is out, mined or not, and MinedOnce that a revert that was read is *)
(* all the chain holds of its transaction.                                 *)
(***************************************************************************)
EXTENDS LoanPipeline, TLAPS

\* The chain and its history variables.
Chained ==
  /\ buried <= Len(chain)
  /\ Len(chain) + 1 - FinalityDepth <= buried
  /\ \A k \in 1 .. Len(chain) : chain[k].fork <= reorgs

\* What a receipt is worth.
ReceiptOf(c, r) ==
  /\ r.fork <= reorgs
  /\ Stands(r, c) \/ r.fork < reorgs
  /\ Stands(r, c) => chain[r.height].ok = r.ok

Polled(c) ==
  /\ step[c] \in {"head", "reread"} => ReceiptOf(c, receipt[c])
  /\ step[c] = "head" /\ c \in Settles => receipt[c].ok
  /\ step[c] = "reread" =>
       receipt[c].ok /\ (Stands(receipt[c], c) => receipt[c].height <= buried)

ReceiptsInv == \A c \in Calls : Polled(c)

\* The transaction of s may still be mined, or was.
Sent(s) == s \in pending \/ Heights(s) # {}

\* What the log knows of a loan, by where its request stands.
LoanInv ==
  \A l \in Loans :
    /\ step[l] \notin {"idle", "over"} => PledgeEvent(cited[l]) \in events
    /\ Recorded(l) => step[l] = "over"
    /\ ClosedInLog(l) => Recorded(l)

SettleInv ==
  \A s \in Settles :
    /\ step[s] \in {"polling", "head"} => Recorded(target[s])
    /\ Sent(s) => step[s] \notin {"idle", "searching"} /\ Recorded(target[s])

\* Whose a closing event is.
ClosureInv ==
  \A e \in events : e.type \in Outcomes =>
    /\ step[e.call] = "over" /\ target[e.call] = e.loan /\ outcome[e.call] = e.type
    /\ reorgs = 0 => Succeeded(e.call)

\* A transaction is in one block at most, and then no longer pending.
MinedOnce ==
  \A c \in Calls :
    /\ \A j, k \in Heights(c) : j = k
    /\ c \in pending => Heights(c) = {}

\* A request that has not come to its broadcast has sent nothing.
Unsent(c) == step[c] \in {"idle", "quoting", "searching"}
FreshInv == \A c \in Calls : Unsent(c) => ~Sent(c)

\* What was sent is waited for, told or abandoned.
Accounted(c) == Told(c) \/ Waiting(c) \/ c \in abandoned

AccountedInv ==
  /\ \A s \in Settles : Sent(s) => Accounted(s)
  /\ reorgs = 0 => \A l \in Loans : l \in pending \/ Succeeded(l) => Accounted(l)

PipelineInv ==
  /\ TypeOK /\ Chained /\ ReceiptsInv
  /\ LoanInv /\ SettleInv /\ ClosureInv
  /\ MinedOnce /\ FreshInv /\ AccountedInv
  /\ OriginationsAreFinal /\ RegistryIsTheLog

-----------------------------------------------------------------------------
(* The chain.                                                              *)

\* The types the lemmas rest on.
LEMMA ChainTyped ==
  ASSUME TypeOK
  PROVE  /\ Len(chain) \in Nat /\ buried \in Nat /\ reorgs \in Nat
         /\ FinalityDepth \in Nat /\ FinalityDepth >= 1
         /\ \A k \in 1 .. Len(chain) : chain[k] \in Blocks /\ chain[k].fork \in Nat
<1>1. \A k \in 1 .. Len(chain) : chain[k] \in Blocks
  BY DEF TypeOK
<1>2. \A x \in Blocks : x.fork \in Nat
  BY DEF Blocks
<1>3. Len(chain) \in Nat /\ buried \in Nat /\ reorgs \in Nat
  BY PipelineAssumption DEF TypeOK
<1>4. FinalityDepth \in Nat /\ FinalityDepth >= 1
  BY PipelineAssumption
<1> QED  BY <1>1, <1>2, <1>3, <1>4

\* A mined block is put on top.
LEMMA Mined ==
  ASSUME TypeOK, NEW c \in Calls \cup {NoCall}, NEW ok \in BOOLEAN, Mine(c, ok)
  PROVE  /\ chain' \in Seq(Blocks) /\ Len(chain') = Len(chain) + 1
         /\ \A k \in 1 .. Len(chain) : chain'[k] = chain[k]
         /\ chain'[Len(chain) + 1] = [call |-> c, ok |-> ok, fork |-> reorgs]
<1> DEFINE b == [call |-> c, ok |-> ok, fork |-> reorgs]
<1>1. b \in Blocks
  BY DEF TypeOK, Blocks
<1>2. chain \in Seq(Blocks) /\ chain' = Append(chain, b)
  BY DEF TypeOK, Mine
<1> HIDE DEF b
<1>3. chain' \in Seq(Blocks) /\ Len(chain') = Len(chain) + 1
      /\ (\A k \in 1 .. Len(chain) : chain'[k] = chain[k])
      /\ chain'[Len(chain) + 1] = b
  BY <1>1, <1>2
<1> QED  BY <1>3 DEF b

\* A reorganisation keeps the blocks below.
LEMMA Reorganised ==
  ASSUME TypeOK, NEW h \in 0 .. MaxHeight, Reorg(h)
  PROVE  /\ chain' \in Seq(Blocks) /\ Len(chain') = h /\ h < Len(chain)
         /\ \A k \in 1 .. h : chain'[k] = chain[k]
<1>1. chain \in Seq(Blocks) /\ h < Len(chain) /\ chain' = SubSeq(chain, 1, h)
      /\ h \in Nat
  BY PipelineAssumption DEF TypeOK, Reorg
<1>2. Len(SubSeq(chain, 1, h)) = h /\ SubSeq(chain, 1, h) \in Seq(Blocks)
      /\ \A k \in 1 .. h : SubSeq(chain, 1, h)[k] = chain[k]
  BY <1>1
<1> QED  BY <1>1, <1>2

\* Only these two touch the chain.
LEMMA ChainSteps ==
  ASSUME [Next]_vars
  PROVE  \/ \E c \in Calls \cup {NoCall}, ok \in BOOLEAN : Mine(c, ok)
         \/ \E h \in 0 .. MaxHeight : Reorg(h)
         \/ UNCHANGED <<chain, reorgs, buried>>
<1>1. CASE UNCHANGED vars
  BY <1>1 DEF vars, chainVars
<1>2. CASE Next
  BY <1>2 DEF Next, RecordSettlement, StrandLoan, Boot, Crash, Pledged, GiveUp, ReadReceipt,
       PollAgain,
       StartOrigination, SubmitOrigination, OriginationConfirmed, RecordOrigination,
       Record, StartSettlement, SubmitSettlement, Send, SignClosure,
       chainVars
<1> QED  BY <1>1, <1>2

LEMMA ChainInitial ==
  ASSUME Init  PROVE Chained
  BY PipelineAssumption DEF Init, Chained

\* The blocks that have been deep enough are there, and no block is of a fork
\* to come.
LEMMA ChainStep ==
  ASSUME TypeOK, Chained, [Next]_vars
  PROVE  Chained'
<1>1. /\ Len(chain) \in Nat /\ buried \in Nat /\ reorgs \in Nat
      /\ FinalityDepth \in Nat /\ FinalityDepth >= 1
      /\ \A k \in 1 .. Len(chain) : chain[k].fork \in Nat
  BY ChainTyped
<1>2. CASE \E c \in Calls \cup {NoCall}, ok \in BOOLEAN : Mine(c, ok)
  <2> PICK c \in Calls \cup {NoCall}, ok \in BOOLEAN : Mine(c, ok)
    BY <1>2
  <2>1. buried' = Higher(buried, Len(chain) + 2 - FinalityDepth) /\ reorgs' = reorgs
    BY DEF Mine
  <2>2. Len(chain') = Len(chain) + 1
        /\ (\A k \in 1 .. Len(chain) : chain'[k] = chain[k])
        /\ chain'[Len(chain) + 1].fork = reorgs
    <3>1. chain'[Len(chain) + 1] = [call |-> c, ok |-> ok, fork |-> reorgs]
      BY Mined
    <3>2. chain'[Len(chain) + 1].fork = reorgs
      BY <3>1
    <3> QED  BY <3>2, Mined
  <2>3. buried' <= Len(chain') /\ Len(chain') + 1 - FinalityDepth <= buried'
    BY <1>1, <2>1, <2>2 DEF Higher, Chained
  <2>4. \A k \in 1 .. Len(chain') : chain'[k].fork <= reorgs'
    <3> TAKE k \in 1 .. Len(chain')
    <3>1. k \in 1 .. Len(chain) \/ k = Len(chain) + 1
      BY <1>1, <2>2
    <3> QED  BY <1>1, <2>1, <2>2, <3>1 DEF Chained
  <2> QED  BY <2>3, <2>4 DEF Chained
<1>3. CASE \E h \in 0 .. MaxHeight : Reorg(h)
  <2> PICK h \in 0 .. MaxHeight : Reorg(h)
    BY <1>3
  <2>1. buried' = buried /\ reorgs' = reorgs + 1 /\ buried <= h /\ h \in Nat
    BY PipelineAssumption DEF Reorg
  <2>2. Len(chain') = h /\ h < Len(chain) /\ \A k \in 1 .. h : chain'[k] = chain[k]
    BY Reorganised
  <2>3. \A k \in 1 .. h : chain'[k].fork <= reorgs'
    BY <1>1, <2>1, <2>2 DEF Chained
  <2> QED  BY <1>1, <2>1, <2>2, <2>3 DEF Chained
<1>4. CASE UNCHANGED <<chain, reorgs, buried>>
  BY <1>4 DEF Chained
<1> QED  BY <1>2, <1>3, <1>4, ChainSteps

\* A receipt that has lost its block never stands again, and one that stands
\* tells the outcome.
LEMMA StandsStep ==
  ASSUME TypeOK, Chained, [Next]_vars, NEW c \in Calls, NEW r \in Receipts, ReceiptOf(c, r)
  PROVE  /\ ReceiptOf(c, r)'
         /\ Stands(r, c)' => Stands(r, c)
         /\ buried <= buried'
<1>1. r.height \in Nat /\ r.fork \in Nat
  BY DEF Receipts
<1>2. Len(chain) \in Nat /\ buried \in Nat /\ reorgs \in Nat /\ FinalityDepth \in Nat
  BY ChainTyped
<1>3. CASE \E d \in Calls \cup {NoCall}, ok \in BOOLEAN : Mine(d, ok)
  <2> PICK d \in Calls \cup {NoCall}, ok \in BOOLEAN : Mine(d, ok)
    BY <1>3
  <2>1. buried' = Higher(buried, Len(chain) + 2 - FinalityDepth) /\ reorgs' = reorgs
    BY DEF Mine
  <2>2. buried <= buried'
    BY <1>2, <2>1 DEF Higher
  <2>3. Len(chain') = Len(chain) + 1
        /\ (\A k \in 1 .. Len(chain) : chain'[k] = chain[k])
        /\ chain'[Len(chain) + 1].fork = reorgs
    <3>1. chain'[Len(chain) + 1] = [call |-> d, ok |-> ok, fork |-> reorgs]
      BY Mined
    <3>2. chain'[Len(chain) + 1].fork = reorgs
      BY <3>1
    <3> QED  BY <3>2, Mined
  <2>4. Stands(r, c) => Stands(r, c)' /\ chain'[r.height] = chain[r.height]
    BY <1>1, <1>2, <2>3 DEF Stands, Heights
  <2>5. Stands(r, c)' => Stands(r, c) \/ r.fork = reorgs
    BY <1>1, <1>2, <2>3 DEF Stands, Heights
  <2>6. r.fork <= reorgs /\ (Stands(r, c) \/ r.fork < reorgs)
        /\ (Stands(r, c) => chain[r.height].ok = r.ok)
    BY DEF ReceiptOf
  <2>7. Stands(r, c)' => Stands(r, c)
    BY <1>1, <1>2, <2>5, <2>6
  <2>8. ReceiptOf(c, r)'
    BY <1>1, <1>2, <2>1, <2>4, <2>6, <2>7 DEF ReceiptOf
  <2> QED  BY <2>2, <2>7, <2>8
<1>4. CASE \E h \in 0 .. MaxHeight : Reorg(h)
  <2> PICK h \in 0 .. MaxHeight : Reorg(h)
    BY <1>4
  <2>1. buried' = buried /\ reorgs' = reorgs + 1
    BY DEF Reorg
  <2>2. Len(chain') = h /\ h < Len(chain) /\ \A k \in 1 .. h : chain'[k] = chain[k]
    BY Reorganised
  <2>3. Stands(r, c)' => Stands(r, c) /\ chain'[r.height] = chain[r.height]
    BY <1>1, <1>2, <2>2 DEF Stands, Heights
  <2>4. r.fork <= reorgs /\ (Stands(r, c) => chain[r.height].ok = r.ok)
    BY DEF ReceiptOf
  <2>5. ReceiptOf(c, r)'
    BY <1>1, <1>2, <2>1, <2>3, <2>4 DEF ReceiptOf
  <2> QED  BY <1>2, <2>1, <2>3, <2>5
<1>5. CASE UNCHANGED <<chain, reorgs, buried>>
  BY <1>2, <1>5 DEF ReceiptOf, Stands, Heights
<1> QED  BY <1>3, <1>4, <1>5, ChainSteps

\* What is buried stays.
LEMMA BuriedStays ==
  ASSUME TypeOK, Chained, [Next]_vars, NEW c \in Calls,
         \E k \in Heights(c) : chain[k].ok /\ k <= buried
  PROVE  (\E k \in Heights(c) : chain[k].ok /\ k <= buried)'
<1> PICK k \in Heights(c) : chain[k].ok /\ k <= buried
  OBVIOUS
<1>1. k \in 1 .. Len(chain) /\ k \in Nat /\ chain[k].call = c
  BY DEF Heights
<1>2. Len(chain) \in Nat /\ buried \in Nat /\ FinalityDepth \in Nat
  BY ChainTyped
<1>3. k <= buried' /\ k \in 1 .. Len(chain') /\ chain'[k] = chain[k]
  <2>1. CASE \E d \in Calls \cup {NoCall}, ok \in BOOLEAN : Mine(d, ok)
    <3> PICK d \in Calls \cup {NoCall}, ok \in BOOLEAN : Mine(d, ok)
      BY <2>1
    <3>1. buried' = Higher(buried, Len(chain) + 2 - FinalityDepth)
      BY DEF Mine
    <3>2. k <= buried'
      BY <1>1, <1>2, <3>1 DEF Higher
    <3>3. Len(chain') = Len(chain) + 1 /\ chain'[k] = chain[k]
      BY <1>1, Mined
    <3> QED  BY <1>1, <1>2, <3>2, <3>3
  <2>2. CASE \E h \in 0 .. MaxHeight : Reorg(h)
    <3> PICK h \in 0 .. MaxHeight : Reorg(h)
      BY <2>2
    <3>1. buried' = buried /\ buried <= h /\ h \in Nat
      BY PipelineAssumption DEF Reorg
    <3> QED  BY <1>1, <1>2, <3>1, Reorganised
  <2>3. CASE UNCHANGED <<chain, reorgs, buried>>
    BY <1>1, <2>3
  <2> QED  BY <2>1, <2>2, <2>3, ChainSteps
<1>4. k \in Heights(c)' /\ chain'[k].ok
  BY <1>1, <1>3 DEF Heights
<1> QED  BY <1>3, <1>4

\* What succeeded stays when nothing is reorganised.
LEMMA SucceededStays ==
  ASSUME TypeOK, [Next]_vars, NEW c \in Calls, Succeeded(c), reorgs' = 0
  PROVE  Succeeded(c)'
<1> PICK k \in Heights(c) : chain[k].ok
  BY DEF Succeeded
<1>1. k \in 1 .. Len(chain) /\ chain[k].call = c
  BY DEF Heights
<1>2. Len(chain) \in Nat /\ reorgs \in Nat
  BY ChainTyped
<1>3. k \in 1 .. Len(chain') /\ chain'[k] = chain[k]
  <2>1. CASE \E d \in Calls \cup {NoCall}, ok \in BOOLEAN : Mine(d, ok)
    <3>1. Len(chain') = Len(chain) + 1 /\ chain'[k] = chain[k]
      BY <1>1, <2>1, Mined
    <3> QED  BY <1>1, <1>2, <3>1
  <2>2. CASE \E h \in 0 .. MaxHeight : Reorg(h)
    BY <1>2, <2>2 DEF Reorg
  <2>3. CASE UNCHANGED <<chain, reorgs, buried>>
    BY <1>1, <2>3
  <2> QED  BY <2>1, <2>2, <2>3, ChainSteps
<1>4. k \in Heights(c)' /\ chain'[k].ok
  BY <1>1, <1>3 DEF Heights
<1> QED  BY <1>4 DEF Succeeded

\* A chain without reorganisations had none before.
LEMMA ReorgsCounted ==
  ASSUME TypeOK, [Next]_vars
  PROVE  /\ reorgs \in Nat
         /\ reorgs' = 0 => reorgs = 0 /\ ~\E h \in 0 .. MaxHeight : Reorg(h)
<1>1. reorgs \in Nat
  BY ChainTyped
<1>2. CASE \E h \in 0 .. MaxHeight : Reorg(h)
  <2>1. reorgs' = reorgs + 1
    BY <1>2 DEF Reorg
  <2> QED  BY <1>1, <2>1
<1>3. CASE ~\E h \in 0 .. MaxHeight : Reorg(h)
  <2>1. reorgs' = reorgs
    BY <1>3, ChainSteps DEF Mine
  <2> QED  BY <1>1, <1>3, <2>1
<1> QED  BY <1>2, <1>3

-----------------------------------------------------------------------------
(* The types.                                                              *)

LEMMA TypeInitial ==
  ASSUME Init  PROVE TypeOK
<1>1. NoReceipt \in Receipts
  BY DEF NoReceipt, Receipts
<1>2. receipt \in [Calls -> Receipts]
  BY <1>1 DEF Init
<1>3. step \in [Calls -> Steps] /\ cited \in [Loans -> Pledges \cup {NoPledge}]
      /\ target \in [Settles -> Loans \cup {NoLoan}] /\ outcome \in [Settles -> Outcomes]
  BY DEF Init, Steps, Outcomes
<1>4. chain \in Seq(Blocks) /\ Len(chain) = 0
  BY DEF Init
<1>5. Len(chain) <= MaxHeight /\ reorgs \in 0 .. MaxReorgs /\ crashes \in 0 .. MaxCrashes
      /\ abandoned \subseteq Calls /\ unremoved \subseteq Loans
  BY <1>4, PipelineAssumption DEF Init
<1>6. pending \subseteq Calls /\ buried \in Nat /\ events \subseteq EventRecords
      /\ running \in BOOLEAN /\ registry \subseteq Loans
  BY DEF Init
<1> QED  BY <1>2, <1>3, <1>4, <1>5, <1>6 DEF TypeOK

\* What an event in the log names.
LEMMA EventsTyped ==
  ASSUME TypeOK, NEW e \in events
  PROVE  /\ e.type = "pledge" => e.pledge \in Pledges /\ e = PledgeEvent(e.pledge)
         /\ e.type = "origination" =>
              e.loan \in Loans /\ e.pledge \in Pledges /\ e = OriginationEvent(e.loan, e.pledge)
         /\ e.type \in Outcomes =>
              e.call \in Settles /\ e.loan \in Loans /\ e = ClosureEvent(e.call, e.loan, e.type)
<1>1. e \in EventRecords
  BY DEF TypeOK
<1>2. CASE \E p \in Pledges : e = PledgeEvent(p)
  BY <1>2 DEF PledgeEvent, Outcomes
<1>3. CASE \E l \in Loans, p \in Pledges : e = OriginationEvent(l, p)
  BY <1>3 DEF OriginationEvent, Outcomes
<1>4. CASE \E s \in Settles, l \in Loans, o \in Outcomes : e = ClosureEvent(s, l, o)
  BY <1>4 DEF ClosureEvent, Outcomes
<1> QED  BY <1>1, <1>2, <1>3, <1>4 DEF EventRecords

LEMMA TypeStep ==
  ASSUME TypeOK, LoanInv, SettleInv, [Next]_vars
  PROVE  TypeOK'
<1>1. /\ step \in [Calls -> Steps] /\ receipt \in [Calls -> Receipts]
      /\ Loans \subseteq Calls /\ Settles \subseteq Calls
      /\ {"idle", "quoting", "searching", "polling", "head", "reread", "over"} = Steps
      /\ NoReceipt \in Receipts
  BY DEF TypeOK, Calls, Steps, NoReceipt, Receipts
<1>2. Len(chain) \in Nat /\ buried \in Nat /\ reorgs \in Nat /\ FinalityDepth \in Nat
      /\ MaxReorgs \in Nat /\ MaxCrashes \in Nat /\ MaxHeight \in Nat /\ crashes \in Nat
  BY ChainTyped, PipelineAssumption DEF TypeOK
<1>3. CASE UNCHANGED vars
  BY <1>3 DEF vars, chainVars, request, history, TypeOK
<1>4. ASSUME NEW c \in Calls \cup {NoCall}, NEW ok \in BOOLEAN, Mine(c, ok)
      PROVE  TypeOK'
  <2>1. chain' \in Seq(Blocks) /\ Len(chain') = Len(chain) + 1 /\ Len(chain) < MaxHeight
    BY <1>4, Mined DEF Mine
  <2>2. pending' \subseteq Calls
    BY <1>4 DEF Mine, TypeOK
  <2>3. buried' \in Nat
    <3>1. buried' = Higher(buried, Len(chain) + 2 - FinalityDepth)
      BY <1>4 DEF Mine
    <3> QED  BY <1>2, <3>1 DEF Higher
  <2>4. Len(chain') <= MaxHeight
    BY <1>2, <2>1
  <2> QED  BY <1>4, <2>1, <2>2, <2>3, <2>4 DEF Mine, TypeOK, request, history
<1>5. ASSUME NEW h \in 0 .. MaxHeight, Reorg(h)
      PROVE  TypeOK'
  <2>1. chain' \in Seq(Blocks) /\ Len(chain') <= MaxHeight
    BY <1>2, <1>5, Reorganised
  <2>2. \A k \in h + 1 .. Len(chain) : chain[k] \in Blocks
    BY <1>2, ChainTyped
  <2>3. \A b \in Blocks : b.call \in Calls \cup {NoCall}
    BY DEF Blocks
  <2>4. pending' \subseteq Calls
    BY <1>5, <2>2, <2>3 DEF Reorg, TypeOK
  <2>5. reorgs' \in 0 .. MaxReorgs
    BY <1>2, <1>5 DEF Reorg
  <2> QED  BY <1>5, <2>1, <2>4, <2>5 DEF Reorg, TypeOK, request, history
<1>6. CASE Boot
  BY <1>6 DEF Boot, Hydrated, TypeOK, chainVars, request, history
<1>7. CASE Crash
  <2>1. step' \in [Calls -> Steps] /\ receipt' \in [Calls -> Receipts]
    BY <1>1, <1>7 DEF Crash
  <2>2. crashes' \in 0 .. MaxCrashes /\ abandoned' \subseteq Calls
    BY <1>2, <1>7 DEF Crash, TypeOK
  <2> QED  BY <1>7, <2>1, <2>2 DEF Crash, TypeOK, chainVars, request, history
<1>8. ASSUME NEW p \in Pledges, Pledged(p)
      PROVE  TypeOK'
  BY <1>8 DEF Pledged, TypeOK, chainVars, request, history, EventRecords
<1>9. ASSUME NEW c \in Calls, GiveUp(c) \/ PollAgain(c)
      PROVE  TypeOK'
  BY <1>1, <1>9 DEF GiveUp, PollAgain, Goto, TypeOK, chainVars, request, history
<1>10. ASSUME NEW c \in Calls, ReadReceipt(c, Accepts(c))
       PROVE  TypeOK'
  <2> PICK k \in Heights(c) :
        receipt' = [receipt EXCEPT ![c] =
                     [height |-> k, fork |-> chain[k].fork, ok |-> chain[k].ok]]
    BY <1>10 DEF ReadReceipt
  <2>1. k \in Nat /\ chain[k] \in Blocks
    BY ChainTyped DEF Heights
  <2>2. [height |-> k, fork |-> chain[k].fork, ok |-> chain[k].ok] \in Receipts
    BY <2>1 DEF Receipts, Blocks
  <2>3. receipt' \in [Calls -> Receipts]
    BY <1>1, <2>2
  <2> QED  BY <1>1, <1>10, <2>3 DEF ReadReceipt, Goto, TypeOK, chainVars, request, history
<1>11. ASSUME NEW l \in Loans, NEW p \in Pledges, StartOrigination(l, p)
       PROVE  TypeOK'
  BY <1>1, <1>11 DEF StartOrigination, Goto, TypeOK, chainVars, history
<1>12. ASSUME NEW l \in Loans, SubmitOrigination(l)
       PROVE  TypeOK'
  BY <1>1, <1>12 DEF SubmitOrigination, Goto, TypeOK, request, history
<1>13. ASSUME NEW l \in Loans, OriginationConfirmed(l)
       PROVE  TypeOK'
  <2>1. step' \in [Calls -> Steps] /\ receipt' \in [Calls -> Receipts]
    BY <1>1, <1>13 DEF OriginationConfirmed, Goto
  <2> QED  BY <1>13, <2>1 DEF OriginationConfirmed, TypeOK, chainVars, request, history
<1>14. ASSUME NEW l \in Loans, RecordOrigination(l)
       PROVE  TypeOK'
  <2>1. PledgeEvent(cited[l]) \in events
    BY <1>14 DEF RecordOrigination, LoanInv
  <2>2. cited[l] \in Pledges
    BY <2>1, EventsTyped DEF PledgeEvent
  <2>3. OriginationEvent(l, cited[l]) \in EventRecords
    BY <2>2 DEF EventRecords
  <2> QED  BY <1>1, <1>14, <2>3 DEF RecordOrigination, Record, Goto, TypeOK, chainVars,
             request, history
<1>15. ASSUME NEW s \in Settles, NEW l \in Loans, NEW o \in Outcomes, StartSettlement(s, l, o)
       PROVE  TypeOK'
  BY <1>1, <1>15 DEF StartSettlement, Goto, TypeOK, chainVars, history
<1>16. ASSUME NEW s \in Settles, SubmitSettlement(s)
       PROVE  TypeOK'
  BY <1>1, <1>16 DEF SubmitSettlement, Send, Goto, TypeOK, request, history
<1>17. ASSUME NEW s \in Settles, RecordSettlement(s) \/ StrandLoan(s)
       PROVE  TypeOK'
  <2>1. SignClosure(s) /\ Recorded(target[s])
    BY <1>17 DEF RecordSettlement, StrandLoan, SignClosure, SettleInv
  <2>2. target[s] \in Loans /\ outcome[s] \in Outcomes
    BY <2>1, EventsTyped DEF Recorded, TypeOK
  <2>3. ClosureEvent(s, target[s], outcome[s]) \in EventRecords
    BY <2>2 DEF EventRecords
  <2>4. registry' \subseteq Loans /\ unremoved' \subseteq Loans
    BY <1>17 DEF RecordSettlement, StrandLoan, TypeOK
  <2> QED  BY <1>1, <2>1, <2>3, <2>4 DEF SignClosure, Goto, TypeOK, chainVars, request
<1> QED  BY <1>3, <1>4, <1>5, <1>6, <1>7, <1>8, <1>9, <1>10, <1>11, <1>12, <1>13, <1>14,
           <1>15, <1>16, <1>17 DEF Next, RecordSettlement, StrandLoan

-----------------------------------------------------------------------------
(* The requests.                                                           *)

\* How a request comes to rely on a receipt.
LEMMA ReceiptSteps ==
  ASSUME TypeOK, [Next]_vars, NEW c \in Calls
  PROVE  \/ step'[c] = step[c] /\ receipt'[c] = receipt[c]
         \/ step'[c] \notin {"head", "reread"}
         \/ ReadReceipt(c, Accepts(c)) /\ step'[c] = "head"
         \/ c \in Loans /\ OriginationConfirmed(c) /\ receipt[c].ok
              /\ receipt'[c] = receipt[c] /\ step'[c] = "reread"
<1>1. step \in [Calls -> Steps] /\ receipt \in [Calls -> Receipts]
      /\ Loans \subseteq Calls /\ Settles \subseteq Calls
  BY DEF TypeOK, Calls
<1>2. CASE UNCHANGED vars
  BY <1>2 DEF vars
<1>3. ASSUME NEW d \in Calls, GiveUp(d) \/ PollAgain(d)
      PROVE  (step'[c] = step[c] /\ receipt'[c] = receipt[c]) \/ step'[c] \notin {"head", "reread"}
  BY <1>1, <1>3 DEF GiveUp, PollAgain, Goto
<1>4. ASSUME NEW d \in Calls, ReadReceipt(d, Accepts(d))
      PROVE  (step'[c] = step[c] /\ receipt'[c] = receipt[c])
               \/ (ReadReceipt(c, Accepts(c)) /\ step'[c] = "head")
  BY <1>1, <1>4 DEF ReadReceipt, Goto
<1>5. ASSUME NEW l \in Loans, OriginationConfirmed(l)
      PROVE  \/ step'[c] = step[c] /\ receipt'[c] = receipt[c]
             \/ step'[c] \notin {"head", "reread"}
             \/ c \in Loans /\ OriginationConfirmed(c) /\ receipt[c].ok
                  /\ receipt'[c] = receipt[c] /\ step'[c] = "reread"
  BY <1>1, <1>5 DEF OriginationConfirmed, Goto
<1>6. ASSUME NEW l \in Loans,
             RecordOrigination(l) \/ SubmitOrigination(l)
               \/ \E p \in Pledges : StartOrigination(l, p)
      PROVE  (step'[c] = step[c] /\ receipt'[c] = receipt[c]) \/ step'[c] \notin {"head", "reread"}
  BY <1>1, <1>6 DEF RecordOrigination, Record, SubmitOrigination, StartOrigination, Goto
<1>7. ASSUME NEW s \in Settles,
             SignClosure(s) \/ SubmitSettlement(s)
               \/ \E l \in Loans, o \in Outcomes : StartSettlement(s, l, o)
      PROVE  (step'[c] = step[c] /\ receipt'[c] = receipt[c]) \/ step'[c] \notin {"head", "reread"}
  BY <1>1, <1>7 DEF SignClosure, SubmitSettlement, Send, StartSettlement, Goto
<1>8. CASE Crash
  BY <1>1, <1>8 DEF Crash, InFlight
<1>9. CASE Boot \/ \E p \in Pledges : Pledged(p)
  BY <1>9 DEF Boot, Pledged
<1>10. CASE \/ \E d \in Calls \cup {NoCall}, ok \in BOOLEAN : Mine(d, ok)
            \/ \E h \in 0 .. MaxHeight : Reorg(h)
  BY <1>10 DEF Mine, Reorg
<1> QED  BY <1>2, <1>3, <1>4, <1>5, <1>6, <1>7, <1>8, <1>9, <1>10 DEF Next, RecordSettlement, StrandLoan

\* What the requests rely on.
LEMMA ReceiptsStep ==
  ASSUME TypeOK, TypeOK', Chained, ReceiptsInv, [Next]_vars
  PROVE  ReceiptsInv'
<1> SUFFICES ASSUME NEW c \in Calls  PROVE Polled(c)'
  BY DEF ReceiptsInv
<1>1. Polled(c)
  BY DEF ReceiptsInv
<1>2. receipt[c] \in Receipts
  BY DEF TypeOK
<1>3. Len(chain) \in Nat /\ buried \in Nat /\ reorgs \in Nat /\ FinalityDepth \in Nat
      /\ \A k \in 1 .. Len(chain) : chain[k].fork \in Nat
  BY ChainTyped
<1>4. CASE step'[c] = step[c] /\ receipt'[c] = receipt[c]
  <2>1. CASE step[c] \in {"head", "reread"}
    <3> PICK r \in Receipts : r = receipt[c]
      BY <1>2
    <3>1. ReceiptOf(c, r) /\ receipt'[c] = r
      BY <1>1, <1>4, <2>1 DEF Polled
    <3>2. ReceiptOf(c, r)' /\ (Stands(r, c)' => Stands(r, c)) /\ buried <= buried'
          /\ r.height \in Nat
      BY <3>1, StandsStep DEF Receipts
    <3>3. ReceiptOf(c, receipt[c])'
      BY <3>1, <3>2 DEF ReceiptOf, Stands, Heights
    <3>4. Stands(receipt[c], c)' => Stands(r, c)
      BY <3>1, <3>2 DEF Stands, Heights
    <3>5. buried' \in Nat
      BY DEF TypeOK
    <3>6. step[c] = "reread" =>
            receipt'[c].ok /\ (Stands(receipt[c], c)' => receipt'[c].height <= buried')
      BY <1>1, <1>3, <1>4, <3>1, <3>2, <3>4, <3>5 DEF Polled
    <3>7. step[c] = "head" /\ c \in Settles => receipt'[c].ok
      BY <1>1, <1>4 DEF Polled
    <3> QED  BY <1>4, <3>3, <3>6, <3>7 DEF Polled
  <2>2. CASE step[c] \notin {"head", "reread"}
    BY <1>4, <2>2 DEF Polled
  <2> QED  BY <2>1, <2>2
<1>5. CASE step'[c] \notin {"head", "reread"}
  BY <1>5 DEF Polled
<1>6. CASE ReadReceipt(c, Accepts(c)) /\ step'[c] = "head"
  <2> PICK k \in Heights(c) :
        /\ chain[k].ok \in Accepts(c)
        /\ receipt' = [receipt EXCEPT ![c] =
                         [height |-> k, fork |-> chain[k].fork, ok |-> chain[k].ok]]
    BY <1>6 DEF ReadReceipt
  <2>1. receipt'[c] = [height |-> k, fork |-> chain[k].fork, ok |-> chain[k].ok]
    BY DEF TypeOK
  <2>2. receipt'[c].height = k /\ receipt'[c].fork = chain[k].fork
        /\ receipt'[c].ok = chain[k].ok
    BY <2>1
  <2>3. chain' = chain /\ reorgs' = reorgs
    BY <1>6 DEF ReadReceipt, chainVars
  <2>4. k \in 1 .. Len(chain) /\ chain[k].fork <= reorgs
    BY DEF Heights, Chained
  <2>5. Stands(receipt[c], c)'
    BY <2>2, <2>3 DEF Stands, Heights
  <2>6. ReceiptOf(c, receipt[c])'
    BY <2>2, <2>3, <2>4, <2>5 DEF ReceiptOf
  <2>7. c \in Settles => receipt'[c].ok
    BY <2>2 DEF Accepts
  <2> QED  BY <1>6, <2>6, <2>7 DEF Polled
<1>7. CASE c \in Loans /\ OriginationConfirmed(c) /\ receipt[c].ok
             /\ receipt'[c] = receipt[c] /\ step'[c] = "reread"
  <2>1. chain' = chain /\ reorgs' = reorgs /\ buried' = buried /\ step[c] = "head"
        /\ Len(chain) - receipt[c].height + 1 >= FinalityDepth
    BY <1>7 DEF OriginationConfirmed, DeepEnough, chainVars
  <2>2. receipt[c].height \in Nat
    BY <1>2 DEF Receipts
  <2>3. receipt[c].height <= buried
    BY <1>3, <2>1, <2>2 DEF Chained
  <2>4. ReceiptOf(c, receipt[c])
    BY <1>1, <2>1 DEF Polled
  <2>5. ReceiptOf(c, receipt[c])'
    BY <1>7, <2>1, <2>4 DEF ReceiptOf, Stands, Heights
  <2> QED  BY <1>7, <2>1, <2>3, <2>5 DEF Polled
<1> QED  BY <1>4, <1>5, <1>6, <1>7, ReceiptSteps

-----------------------------------------------------------------------------
(* The log.                                                                *)

\* What a step does to the log.
LEMMA LogSteps ==
  ASSUME [Next]_vars
  PROVE  \/ events' = events
         \/ \E p \in Pledges : Pledged(p)
         \/ \E l \in Loans : RecordOrigination(l)
         \/ \E s \in Settles : SignClosure(s)
<1>1. CASE UNCHANGED vars
  BY <1>1 DEF vars
<1>2. CASE Next
  BY <1>2 DEF Next, RecordSettlement, StrandLoan, Mine, Reorg, Boot, Crash, GiveUp, ReadReceipt, PollAgain,
       StartOrigination, SubmitOrigination, OriginationConfirmed, StartSettlement,
       SubmitSettlement, Send
<1> QED  BY <1>1, <1>2

\* Nothing leaves it.
LEMMA LogGrows ==
  ASSUME [Next]_vars
  PROVE  events \subseteq events'
  BY LogSteps DEF Pledged, RecordOrigination, Record, SignClosure

\* What a step does to an origination.
LEMMA OriginationSteps ==
  ASSUME TypeOK, [Next]_vars, NEW l \in Loans
  PROVE  \/ \E p \in Pledges : StartOrigination(l, p)
         \/ /\ cited'[l] = cited[l]
            /\ step[l] \in {"idle", "over"} => step'[l] = step[l]
<1>1. /\ step \in [Calls -> Steps] /\ cited \in [Loans -> Pledges \cup {NoPledge}]
      /\ Loans \subseteq Calls /\ Settles \subseteq Calls
      /\ \A s \in Settles : s # l
  BY PipelineAssumption DEF TypeOK, Calls
<1>2. CASE UNCHANGED vars
  BY <1>2 DEF vars, request
<1>3. ASSUME NEW d \in Calls, GiveUp(d) \/ PollAgain(d) \/ ReadReceipt(d, Accepts(d))
      PROVE  cited'[l] = cited[l] /\ (step[l] \in {"idle", "over"} => step'[l] = step[l])
  BY <1>1, <1>3 DEF GiveUp, PollAgain, ReadReceipt, InFlight, Goto, request
<1>4. ASSUME NEW m \in Loans,
             OriginationConfirmed(m) \/ RecordOrigination(m) \/ SubmitOrigination(m)
      PROVE  cited'[l] = cited[l] /\ (step[l] \in {"idle", "over"} => step'[l] = step[l])
  BY <1>1, <1>4 DEF OriginationConfirmed, RecordOrigination, Record, SubmitOrigination,
       Goto, request
<1>5. ASSUME NEW m \in Loans, NEW p \in Pledges, StartOrigination(m, p), m # l
      PROVE  cited'[l] = cited[l] /\ step'[l] = step[l]
  BY <1>1, <1>5 DEF StartOrigination, Goto
<1>6. ASSUME NEW s \in Settles,
             SignClosure(s) \/ SubmitSettlement(s)
               \/ \E m \in Loans, o \in Outcomes : StartSettlement(s, m, o)
      PROVE  cited'[l] = cited[l] /\ step'[l] = step[l]
  BY <1>1, <1>6 DEF SignClosure, SubmitSettlement, Send, StartSettlement,
       Goto, request
<1>7. CASE Crash
  BY <1>1, <1>7 DEF Crash, InFlight, request
<1>8. CASE Boot \/ \E p \in Pledges : Pledged(p)
  BY <1>8 DEF Boot, Pledged, request
<1>9. CASE \/ \E d \in Calls \cup {NoCall}, ok \in BOOLEAN : Mine(d, ok)
           \/ \E h \in 0 .. MaxHeight : Reorg(h)
  BY <1>9 DEF Mine, Reorg, request
<1> QED  BY <1>2, <1>3, <1>4, <1>5, <1>6, <1>7, <1>8, <1>9 DEF Next, RecordSettlement, StrandLoan

\* What a step does to a settlement.
LEMMA SettlementSteps ==
  ASSUME TypeOK, [Next]_vars, NEW s \in Settles
  PROVE  \/ \E l \in Loans, o \in Outcomes : StartSettlement(s, l, o)
         \/ /\ target'[s] = target[s] /\ outcome'[s] = outcome[s]
            /\ step[s] = "over" => step'[s] = "over"
            /\ step'[s] \in {"idle", "searching"} => step[s] \in {"idle", "searching"}
            /\ step'[s] \in {"polling", "head"} =>
                 step[s] \in {"polling", "head"} \/ SubmitSettlement(s)
<1>1. /\ step \in [Calls -> Steps] /\ target \in [Settles -> Loans \cup {NoLoan}]
      /\ outcome \in [Settles -> Outcomes]
      /\ Loans \subseteq Calls /\ Settles \subseteq Calls
      /\ \A l \in Loans : s # l
  BY PipelineAssumption DEF TypeOK, Calls
<1> DEFINE Kept == /\ target'[s] = target[s] /\ outcome'[s] = outcome[s]
                   /\ step[s] = "over" => step'[s] = "over"
                   /\ step'[s] \in {"idle", "searching"} => step[s] \in {"idle", "searching"}
                   /\ step'[s] \in {"polling", "head"} =>
                        step[s] \in {"polling", "head"} \/ SubmitSettlement(s)
<1>2. CASE UNCHANGED vars
  BY <1>2 DEF vars, request
<1>3. ASSUME NEW d \in Calls, GiveUp(d) \/ PollAgain(d) \/ ReadReceipt(d, Accepts(d))
      PROVE  Kept
  BY <1>1, <1>3 DEF GiveUp, PollAgain, ReadReceipt, InFlight, Goto, request
<1>4. ASSUME NEW m \in Loans,
             \/ OriginationConfirmed(m) \/ RecordOrigination(m) \/ SubmitOrigination(m)
             \/ \E p \in Pledges : StartOrigination(m, p)
      PROVE  Kept
  BY <1>1, <1>4 DEF OriginationConfirmed, RecordOrigination, Record, SubmitOrigination,
       StartOrigination, Goto, request
<1>5. ASSUME NEW d \in Settles, NEW m \in Loans, NEW o \in Outcomes,
             StartSettlement(d, m, o), d # s
      PROVE  Kept
  BY <1>1, <1>5 DEF StartSettlement, Goto
<1>6. ASSUME NEW d \in Settles, SignClosure(d)
      PROVE  Kept
  BY <1>1, <1>6 DEF SignClosure, Goto, request
<1>7. ASSUME NEW d \in Settles, SubmitSettlement(d)
      PROVE  Kept
  <2>1. CASE d = s
    BY <1>1, <1>7, <2>1 DEF SubmitSettlement, Send, Goto, request
  <2>2. CASE d # s
    BY <1>1, <1>7, <2>2 DEF SubmitSettlement, Send, Goto, request
  <2> QED  BY <2>1, <2>2
<1>8. CASE Crash
  BY <1>1, <1>8 DEF Crash, InFlight, request
<1>9. CASE Boot \/ \E p \in Pledges : Pledged(p)
  BY <1>9 DEF Boot, Pledged, request
<1>10. CASE \/ \E d \in Calls \cup {NoCall}, ok \in BOOLEAN : Mine(d, ok)
            \/ \E h \in 0 .. MaxHeight : Reorg(h)
  BY <1>10 DEF Mine, Reorg, request
<1> QED  BY <1>2, <1>3, <1>4, <1>5, <1>6, <1>7, <1>8, <1>9, <1>10 DEF Next, RecordSettlement, StrandLoan

\* A loan is signed for once, when its request ends, and only a signed loan is
\* closed in the log.
LEMMA LoanStep ==
  ASSUME TypeOK, LoanInv, SettleInv, [Next]_vars
  PROVE  LoanInv'
<1> SUFFICES ASSUME NEW l \in Loans
             PROVE  /\ step'[l] \notin {"idle", "over"} => PledgeEvent(cited'[l]) \in events'
                    /\ Recorded(l)' => step'[l] = "over"
                    /\ ClosedInLog(l)' => Recorded(l)'
  BY DEF LoanInv, PledgeEvent
<1>1. /\ step[l] \notin {"idle", "over"} => PledgeEvent(cited[l]) \in events
      /\ Recorded(l) => step[l] = "over"
      /\ ClosedInLog(l) => Recorded(l)
  BY DEF LoanInv
<1>2. step'[l] \notin {"idle", "over"} => PledgeEvent(cited'[l]) \in events'
  <2>1. CASE \E p \in Pledges : StartOrigination(l, p)
    BY <2>1 DEF StartOrigination, TypeOK
  <2>2. CASE /\ cited'[l] = cited[l]
             /\ step[l] \in {"idle", "over"} => step'[l] = step[l]
    BY <1>1, <2>2, LogGrows
  <2> QED  BY <2>1, <2>2, OriginationSteps
<1>3. step[l] = "over" => step'[l] = "over"
  BY OriginationSteps DEF StartOrigination
<1>4. Recorded(l) => Recorded(l)'
  BY LogGrows DEF Recorded
<1>5. CASE events' = events
  BY <1>1, <1>2, <1>3, <1>5 DEF Recorded, ClosedInLog
<1>6. CASE \E p \in Pledges : Pledged(p)
  BY <1>1, <1>2, <1>3, <1>6 DEF Pledged, PledgeEvent, Recorded, ClosedInLog, Outcomes
<1>7. CASE \E m \in Loans : RecordOrigination(m)
  <2> PICK m \in Loans : RecordOrigination(m)
    BY <1>7
  <2>1. events' = events \cup {OriginationEvent(m, cited[m])} /\ step'[m] = "over"
    BY DEF RecordOrigination, Record, Goto, TypeOK, Calls
  <2>2. Recorded(l)' => Recorded(l) \/ l = m
    BY <2>1 DEF Recorded, OriginationEvent
  <2>3. ClosedInLog(l)' => ClosedInLog(l)
    BY <2>1 DEF ClosedInLog, OriginationEvent, Outcomes
  <2> QED  BY <1>1, <1>2, <1>3, <1>4, <2>1, <2>2, <2>3
<1>8. CASE \E s \in Settles : SignClosure(s)
  <2> PICK s \in Settles : SignClosure(s)
    BY <1>8
  <2>1. events' = events \cup {ClosureEvent(s, target[s], outcome[s])}
    BY DEF SignClosure
  <2>2. Recorded(target[s]) /\ outcome[s] \in Outcomes
    BY DEF SignClosure, SettleInv, TypeOK
  <2>3. Recorded(l)' => Recorded(l)
    BY <2>1, <2>2 DEF Recorded, ClosureEvent, Outcomes
  <2>4. ClosedInLog(l)' => ClosedInLog(l) \/ l = target[s]
    BY <2>1 DEF ClosedInLog, ClosureEvent
  <2> QED  BY <1>1, <1>2, <1>3, <1>4, <2>2, <2>3, <2>4
<1> QED  BY <1>5, <1>6, <1>7, <1>8, LogSteps

Submits(c) ==
  (c \in Loans /\ SubmitOrigination(c)) \/ (c \in Settles /\ SubmitSettlement(c))

\* A request whose transaction is about has sent it.
LEMMA SentSteps ==
  ASSUME TypeOK, [Next]_vars, NEW s \in Calls, Sent(s)'
  PROVE  Sent(s) \/ Submits(s)
<1>1. CASE \E c \in Calls \cup {NoCall}, ok \in BOOLEAN : Mine(c, ok)
  <2> PICK c \in Calls \cup {NoCall}, ok \in BOOLEAN : Mine(c, ok)
    BY <1>1
  <2>1. c \in pending \cup {NoCall} /\ pending' = pending \ {c} /\ s # NoCall
    BY PipelineAssumption DEF Mine, Calls
  <2>2. Len(chain') = Len(chain) + 1 /\ Len(chain) \in Nat
        /\ (\A k \in 1 .. Len(chain) : chain'[k] = chain[k])
    BY Mined, ChainTyped
  <2>3. chain'[Len(chain) + 1].call = c
    <3>1. chain'[Len(chain) + 1] = [call |-> c, ok |-> ok, fork |-> reorgs]
      BY Mined
    <3> QED  BY <3>1
  <2>4. Heights(s)' # {} => Heights(s) # {} \/ s = c
    BY <2>2, <2>3 DEF Heights
  <2> QED  BY <2>1, <2>4 DEF Sent
<1>2. CASE \E h \in 0 .. MaxHeight : Reorg(h)
  <2> PICK h \in 0 .. MaxHeight : Reorg(h)
    BY <1>2
  <2>1. pending' = pending \cup ({chain[k].call : k \in h + 1 .. Len(chain)} \ {NoCall})
    BY DEF Reorg
  <2>2. Len(chain') = h /\ h < Len(chain) /\ Len(chain) \in Nat /\ h \in Nat
        /\ \A k \in 1 .. h : chain'[k] = chain[k]
    BY Reorganised, ChainTyped, PipelineAssumption
  <2>3. Heights(s)' # {} => Heights(s) # {}
    BY <2>2 DEF Heights
  <2>4. s \in pending' => s \in pending \/ Heights(s) # {}
    BY <2>1, <2>2 DEF Heights
  <2> QED  BY <2>3, <2>4 DEF Sent
<1>3. CASE UNCHANGED <<chain, pending>>
  BY <1>3 DEF Sent, Heights
<1>4. CASE \E l \in Loans : SubmitOrigination(l)
  BY <1>4 DEF SubmitOrigination, Sent, Heights, Submits
<1>5. CASE \E d \in Settles : SubmitSettlement(d)
  BY <1>5 DEF SubmitSettlement, Send, Sent, Heights, Submits
<1> QED
  BY <1>1, <1>2, <1>3, <1>4, <1>5 DEF Next, RecordSettlement, StrandLoan, vars, chainVars, Boot, Crash, Pledged, GiveUp,
     ReadReceipt, PollAgain, StartOrigination, OriginationConfirmed, RecordOrigination,
     Record, StartSettlement, SignClosure

\* A settlement that was sent is of a loan the log knows.
LEMMA SettleStep ==
  ASSUME TypeOK, SettleInv, [Next]_vars
  PROVE  SettleInv'
<1> SUFFICES ASSUME NEW s \in Settles
             PROVE  /\ step'[s] \in {"polling", "head"} => Recorded(target[s])'
                    /\ Sent(s)' => step'[s] \notin {"idle", "searching"}
                                     /\ Recorded(target[s])'
  BY DEF SettleInv, Recorded
<1>1. /\ step[s] \in {"polling", "head"} => Recorded(target[s])
      /\ Sent(s) => step[s] \notin {"idle", "searching"} /\ Recorded(target[s])
  BY DEF SettleInv
<1>2. \A l : Recorded(l) => \E e \in events' : e.type = "origination" /\ e.loan = l
  BY LogGrows DEF Recorded
<1>3. SubmitSettlement(s) => Recorded(target[s]) /\ step'[s] = "polling" /\ target'[s] = target[s]
  BY DEF SubmitSettlement, Send, Goto, request, TypeOK, Calls
<1>4. Sent(s)' => Sent(s) \/ SubmitSettlement(s)
  BY SentSteps, PipelineAssumption DEF Submits, Calls
<1>5. CASE \E l \in Loans, o \in Outcomes : StartSettlement(s, l, o)
  <2>1. step[s] = "idle" /\ step'[s] = "searching"
    BY <1>5 DEF StartSettlement, Goto, TypeOK, Calls
  <2>2. ~Sent(s) /\ ~SubmitSettlement(s)
    BY <1>1, <2>1 DEF SubmitSettlement, Send
  <2> QED  BY <2>1, <2>2, <1>4
<1>6. CASE /\ target'[s] = target[s]
           /\ step'[s] \in {"idle", "searching"} => step[s] \in {"idle", "searching"}
           /\ step'[s] \in {"polling", "head"} =>
                step[s] \in {"polling", "head"} \/ SubmitSettlement(s)
  <2>1. Recorded(target[s]) => Recorded(target[s])'
    BY <1>2, <1>6 DEF Recorded
  <2> QED  BY <1>1, <1>3, <1>4, <1>6, <2>1
<1> QED  BY <1>5, <1>6, SettlementSteps

\* A broadcast is waited for.
LEMMA SubmitWaits ==
  ASSUME TypeOK, NEW c \in Calls, Submits(c)
  PROVE  Unsent(c) /\ step'[c] = "polling" /\ pending' = pending \cup {c}
         /\ UNCHANGED <<chain, reorgs, events, abandoned>>
  BY DEF Submits, SubmitOrigination, SubmitSettlement, Send, Goto, Unsent, TypeOK, history

\* How a request ends without having told what its transaction did.
Reverted(c) == c \in Loans /\ OriginationConfirmed(c) /\ ~receipt[c].ok
Records(c) ==
  (c \in Loans /\ RecordOrigination(c)) \/ (c \in Settles /\ SignClosure(c))

LEMMA WaitingSteps ==
  ASSUME TypeOK, [Next]_vars, NEW c \in Calls
  PROVE  /\ Unsent(c)' => Unsent(c)
         /\ Waiting(c) => Waiting(c)' \/ c \in abandoned' \/ Records(c) \/ Reverted(c)
         /\ abandoned \subseteq abandoned'
<1>1. /\ step \in [Calls -> Steps] /\ receipt \in [Calls -> Receipts]
      /\ Loans \subseteq Calls /\ Settles \subseteq Calls
      /\ \A l \in Loans, s \in Settles : l # s
  BY PipelineAssumption DEF TypeOK, Calls
<1> DEFINE Early == {"idle", "quoting", "searching"}
           Late == {"polling", "head", "reread"}
           Goes == /\ step'[c] \in Early => step[c] \in Early
                   /\ step[c] \in Late => step'[c] \in Late \/ c \in abandoned'
                   /\ abandoned \subseteq abandoned'
<1>2. CASE UNCHANGED vars
  BY <1>2 DEF vars, history, Unsent, Waiting
<1>3. ASSUME NEW d \in Calls, GiveUp(d)
      PROVE  Goes
  BY <1>1, <1>3 DEF GiveUp, InFlight, Waiting
<1>4. ASSUME NEW d \in Calls, PollAgain(d) \/ ReadReceipt(d, Accepts(d))
      PROVE  Goes
  BY <1>1, <1>4 DEF PollAgain, ReadReceipt, Goto, history
<1>5. ASSUME NEW l \in Loans, NEW p \in Pledges, StartOrigination(l, p)
      PROVE  Goes
  BY <1>1, <1>5 DEF StartOrigination, Goto, history
<1>6. ASSUME NEW l \in Loans, SubmitOrigination(l)
      PROVE  Goes
  BY <1>1, <1>6 DEF SubmitOrigination, Goto, history
<1>7. ASSUME NEW l \in Loans, OriginationConfirmed(l)
      PROVE  Goes \/ (l = c /\ ~receipt[c].ok /\ step'[c] = "over" /\ abandoned' = abandoned)
  BY <1>1, <1>7 DEF OriginationConfirmed, Goto, history
<1>8. ASSUME NEW l \in Loans, RecordOrigination(l)
      PROVE  Goes \/ (l = c /\ step'[c] = "over" /\ abandoned' = abandoned)
  BY <1>1, <1>8 DEF RecordOrigination, Record, Goto, history
<1>9. ASSUME NEW s \in Settles, NEW l \in Loans, NEW o \in Outcomes, StartSettlement(s, l, o)
      PROVE  Goes
  BY <1>1, <1>9 DEF StartSettlement, Goto, history
<1>10. ASSUME NEW s \in Settles, SubmitSettlement(s)
       PROVE  Goes
  BY <1>1, <1>10 DEF SubmitSettlement, Send, Goto, history
<1>11. ASSUME NEW s \in Settles, SignClosure(s)
       PROVE  Goes \/ (s = c /\ step'[c] = "over" /\ abandoned' = abandoned)
  BY <1>1, <1>11 DEF SignClosure, Goto, history
<1>12. ASSUME Crash
       PROVE  Goes
  BY <1>1, <1>12 DEF Crash, InFlight, Waiting
<1>13. ASSUME \/ Boot \/ \E p \in Pledges : Pledged(p)
              \/ \E d \in Calls \cup {NoCall}, ok \in BOOLEAN : Mine(d, ok)
              \/ \E h \in 0 .. MaxHeight : Reorg(h)
       PROVE  Goes
  BY <1>13 DEF Boot, Pledged, Mine, Reorg, history
<1>14. Goes => /\ Unsent(c)' => Unsent(c)
               /\ Waiting(c) => Waiting(c)' \/ c \in abandoned'
               /\ abandoned \subseteq abandoned'
  BY DEF Unsent, Waiting
<1>15. step'[c] = "over" => ~(Unsent(c)')
  BY DEF Unsent
<1> HIDE DEF Goes
<1> QED
  BY <1>2, <1>3, <1>4, <1>5, <1>6, <1>7, <1>8, <1>9, <1>10, <1>11, <1>12, <1>13, <1>14, <1>15
     DEF Next, RecordSettlement, StrandLoan, Records, Reverted

\* Where the transactions are, in the pool and on the chain.
LEMMA PoolSteps ==
  ASSUME TypeOK, [Next]_vars
  PROVE  \/ \E c \in Calls \cup {NoCall}, ok \in BOOLEAN : Mine(c, ok)
         \/ \E h \in 0 .. MaxHeight : Reorg(h)
         \/ \E c \in Calls : Submits(c)
         \/ UNCHANGED <<chain, pending>>
<1>1. CASE UNCHANGED vars
  BY <1>1 DEF vars, chainVars
<1>2. CASE Next
  BY <1>2 DEF Next, RecordSettlement, StrandLoan, Submits, Calls, Boot, Crash, Pledged, GiveUp, ReadReceipt, PollAgain,
       StartOrigination, OriginationConfirmed, RecordOrigination, Record, StartSettlement,
       SignClosure, chainVars
<1> QED  BY <1>1, <1>2

LEMMA MinedHeights ==
  ASSUME TypeOK, NEW c \in Calls \cup {NoCall}, NEW ok \in BOOLEAN, Mine(c, ok), NEW d \in Calls
  PROVE  /\ pending' = pending \ {c} /\ c \in pending \cup {NoCall} /\ d # NoCall
         /\ d # c => Heights(d)' = Heights(d)
         /\ d = c => Heights(d)' = Heights(d) \cup {Len(chain) + 1}
         /\ \A k \in Heights(d) : chain'[k] = chain[k]
<1>1. c \in pending \cup {NoCall} /\ pending' = pending \ {c} /\ d # NoCall
  BY PipelineAssumption DEF Mine, Calls
<1>2. Len(chain') = Len(chain) + 1 /\ Len(chain) \in Nat
      /\ (\A k \in 1 .. Len(chain) : chain'[k] = chain[k])
  BY Mined, ChainTyped
<1>3. chain'[Len(chain) + 1].call = c
  <2>1. chain'[Len(chain) + 1] = [call |-> c, ok |-> ok, fork |-> reorgs]
    BY Mined
  <2> QED  BY <2>1
<1>4. 1 .. Len(chain') = (1 .. Len(chain)) \cup {Len(chain) + 1}
  BY <1>2
<1> QED  BY <1>1, <1>2, <1>3, <1>4 DEF Heights

LEMMA ReorganisedHeights ==
  ASSUME TypeOK, NEW h \in 0 .. MaxHeight, Reorg(h), NEW d \in Calls
  PROVE  /\ Heights(d)' = {k \in Heights(d) : k <= h}
         /\ d \in pending' => d \in pending \/ \E k \in Heights(d) : k > h
<1>1. pending' = pending \cup ({chain[k].call : k \in h + 1 .. Len(chain)} \ {NoCall})
  BY DEF Reorg
<1>2. Len(chain') = h /\ h < Len(chain) /\ Len(chain) \in Nat /\ h \in Nat
      /\ \A k \in 1 .. h : chain'[k] = chain[k]
  BY Reorganised, ChainTyped, PipelineAssumption
<1>3. \A k : k \in 1 .. h <=> k \in 1 .. Len(chain) /\ k <= h
  BY <1>2
<1>4. Heights(d)' = {k \in Heights(d) : k <= h}
  BY <1>2, <1>3 DEF Heights
<1>5. \A k \in h + 1 .. Len(chain) : k \in 1 .. Len(chain) /\ k > h
  BY <1>2
<1> QED  BY <1>1, <1>4, <1>5 DEF Heights

\* A transaction is never mined twice on one chain.
LEMMA MinedOnceStep ==
  ASSUME TypeOK, MinedOnce, FreshInv, [Next]_vars
  PROVE  MinedOnce'
<1> SUFFICES ASSUME NEW d \in Calls
             PROVE  /\ \A j, k \in Heights(d)' : j = k
                    /\ d \in pending' => Heights(d)' = {}
  BY DEF MinedOnce
<1>1. (\A j, k \in Heights(d) : j = k) /\ (d \in pending => Heights(d) = {})
  BY DEF MinedOnce
<1>2. CASE \E c \in Calls \cup {NoCall}, ok \in BOOLEAN : Mine(c, ok)
  BY <1>1, <1>2, MinedHeights
<1>3. CASE \E h \in 0 .. MaxHeight : Reorg(h)
  <2> PICK h \in 0 .. MaxHeight : Reorg(h)
    BY <1>3
  <2>1. Heights(d)' = {k \in Heights(d) : k <= h}
        /\ (d \in pending' => d \in pending \/ \E k \in Heights(d) : k > h)
    BY ReorganisedHeights
  <2>2. \A k \in Heights(d) : k \in Nat
    BY DEF Heights
  <2>3. h \in Nat
    BY PipelineAssumption
  <2>4. (\E k \in Heights(d) : k > h) => {k \in Heights(d) : k <= h} = {}
    BY <1>1, <2>2, <2>3
  <2> QED  BY <1>1, <2>1, <2>4
<1>4. CASE \E c \in Calls : Submits(c)
  <2> PICK c \in Calls : Submits(c)
    BY <1>4
  <2>1. Unsent(c) /\ pending' = pending \cup {c} /\ chain' = chain
    BY SubmitWaits
  <2>2. Heights(c) = {} /\ Heights(d)' = Heights(d)
    BY <2>1 DEF FreshInv, Sent, Heights
  <2> QED  BY <1>1, <2>1, <2>2
<1>5. CASE UNCHANGED <<chain, pending>>
  BY <1>1, <1>5 DEF Heights
<1> QED  BY <1>2, <1>3, <1>4, <1>5, PoolSteps

\* Nothing is out before its request broadcasts it.
LEMMA FreshStep ==
  ASSUME TypeOK, FreshInv, [Next]_vars
  PROVE  FreshInv'
<1> SUFFICES ASSUME NEW c \in Calls, Unsent(c)', Sent(c)'
             PROVE  FALSE
  BY DEF FreshInv
<1>1. Unsent(c)
  BY WaitingSteps
<1>2. Sent(c) \/ Submits(c)
  BY SentSteps
<1>3. ~Submits(c)
  BY SubmitWaits DEF Unsent
<1> QED  BY <1>1, <1>2, <1>3 DEF FreshInv

\* What is told stays told.
LEMMA ToldStays ==
  ASSUME TypeOK, ClosureInv, [Next]_vars, NEW c \in Calls, Told(c)
  PROVE  Told(c)'
<1>1. CASE c \in Loans /\ Recorded(c)
  BY <1>1, LogGrows DEF Told, Recorded
<1>2. CASE c \in Settles /\ ClosureEvent(c, target[c], outcome[c]) \in events
  <2> PICK e : e = ClosureEvent(c, target[c], outcome[c])
    OBVIOUS
  <2>1. e \in events /\ e.type = outcome[c] /\ e.call = c
    BY <1>2 DEF ClosureEvent
  <2>2. e.type \in Outcomes
    BY <1>2, <2>1 DEF TypeOK
  <2>3. step[c] = "over"
    BY <2>1, <2>2 DEF ClosureInv
  <2>4. target'[c] = target[c] /\ outcome'[c] = outcome[c]
    BY <1>2, <2>3, SettlementSteps DEF StartSettlement
  <2> QED  BY <1>2, <2>4, LogGrows DEF Told, ClosureEvent
<1> QED  BY <1>1, <1>2 DEF Told

\* What is accounted for stays so, but for an origination that saw a revert.
LEMMA AccountedStays ==
  ASSUME TypeOK, ClosureInv, [Next]_vars, NEW c \in Calls, Accounted(c), ~Reverted(c)
  PROVE  Accounted(c)'
<1>1. CASE Told(c)
  BY <1>1, ToldStays DEF Accounted
<1>2. CASE c \in abandoned
  BY <1>2, WaitingSteps DEF Accounted
<1>3. CASE Waiting(c) /\ ~Records(c)
  BY <1>3, WaitingSteps DEF Accounted
<1>4. CASE Records(c)
  <2>1. CASE c \in Loans /\ RecordOrigination(c)
    <3>1. OriginationEvent(c, cited[c]) \in events'
      BY <2>1 DEF RecordOrigination, Record
    <3>2. Recorded(c)'
      BY <3>1 DEF Recorded, OriginationEvent
    <3> QED  BY <2>1, <3>2 DEF Accounted, Told
  <2>2. CASE c \in Settles /\ SignClosure(c)
    <3>1. ClosureEvent(c, target[c], outcome[c]) \in events'
          /\ target' = target /\ outcome' = outcome
      BY <2>2 DEF SignClosure, request
    <3> QED  BY <2>2, <3>1 DEF Accounted, Told, ClosureEvent
  <2> QED  BY <1>4, <2>1, <2>2 DEF Records
<1> QED  BY <1>1, <1>2, <1>3, <1>4 DEF Accounted

\* Without a reorganisation a revert that was read is one that stands.
LEMMA RevertStands ==
  ASSUME TypeOK, ReceiptsInv, MinedOnce, reorgs = 0, NEW l \in Calls, Reverted(l)
  PROVE  l \notin pending /\ ~Succeeded(l)
<1>1. step[l] = "head" /\ ~receipt[l].ok
  BY DEF Reverted, OriginationConfirmed
<1>2. ReceiptOf(l, receipt[l]) /\ receipt[l].fork \in Nat
  BY <1>1 DEF ReceiptsInv, Polled, TypeOK, Receipts
<1>3. Stands(receipt[l], l)
  BY <1>2 DEF ReceiptOf
<1>4. receipt[l].height \in Heights(l) /\ ~chain[receipt[l].height].ok
  BY <1>1, <1>2, <1>3 DEF ReceiptOf, Stands
<1> QED  BY <1>4 DEF MinedOnce, Succeeded

\* Whose transaction is out now had it out, or broadcasts it.
LEMMA OutSteps ==
  ASSUME TypeOK, [Next]_vars, reorgs' = 0, NEW l \in Calls,
         l \in pending' \/ Succeeded(l)'
  PROVE  l \in pending \/ Succeeded(l) \/ Submits(l)
<1>1. CASE \E c \in Calls \cup {NoCall}, ok \in BOOLEAN : Mine(c, ok)
  BY <1>1, MinedHeights DEF Succeeded
<1>2. CASE \E c \in Calls : Submits(c)
  <2> PICK c \in Calls : Submits(c)
    BY <1>2
  <2>1. pending' = pending \cup {c} /\ chain' = chain
    BY SubmitWaits
  <2> QED  BY <2>1 DEF Succeeded, Heights
<1>3. CASE UNCHANGED <<chain, pending>>
  BY <1>3 DEF Succeeded, Heights
<1> QED  BY <1>1, <1>2, <1>3, PoolSteps, ReorgsCounted

\* Every transaction sent is accounted for.
LEMMA AccountedStep ==
  ASSUME TypeOK, ReceiptsInv, ClosureInv, MinedOnce, AccountedInv, [Next]_vars
  PROVE  AccountedInv'
<1>1. Loans \subseteq Calls /\ Settles \subseteq Calls /\ \A l \in Loans : l \notin Settles
  BY PipelineAssumption DEF Calls
<1>2. \A c \in Calls : Submits(c) => Accounted(c)'
  BY SubmitWaits DEF Accounted, Waiting
<1>3. ASSUME NEW s \in Settles, Sent(s)'
      PROVE  Accounted(s)'
  <2>1. ~Reverted(s)
    BY <1>1 DEF Reverted
  <2>2. CASE Sent(s)
    BY <1>1, <2>1, <2>2, AccountedStays DEF AccountedInv
  <2> QED  BY <1>1, <1>2, <1>3, <2>2, SentSteps
<1>4. ASSUME reorgs' = 0, NEW l \in Loans, l \in pending' \/ Succeeded(l)'
      PROVE  Accounted(l)'
  <2>1. reorgs = 0
    BY <1>4, ReorgsCounted
  <2>2. l \in pending \/ Succeeded(l) \/ Submits(l)
    BY <1>1, <1>4, OutSteps
  <2>3. CASE l \in pending \/ Succeeded(l)
    <3>1. Accounted(l)
      BY <2>1, <2>3 DEF AccountedInv
    <3>2. ~Reverted(l)
      BY <1>1, <2>1, <2>3, RevertStands
    <3> QED  BY <1>1, <3>1, <3>2, AccountedStays
  <2> QED  BY <1>1, <1>2, <2>2, <2>3
<1> QED  BY <1>3, <1>4 DEF AccountedInv

\* A closing event is that of an ended request and, if nothing was reorganised,
\* of a transaction that succeeded.
LEMMA ClosureStep ==
  ASSUME TypeOK, TypeOK', ReceiptsInv, ClosureInv, [Next]_vars
  PROVE  ClosureInv'
<1> SUFFICES ASSUME NEW e \in events', e.type \in Outcomes
             PROVE  /\ step'[e.call] = "over" /\ target'[e.call] = e.loan
                    /\ outcome'[e.call] = e.type
                    /\ reorgs' = 0 => Succeeded(e.call)'
  BY DEF ClosureInv, Succeeded, Heights
<1>1. reorgs \in Nat /\ (reorgs' = 0 => reorgs = 0)
  BY ReorgsCounted
<1>2. CASE e \in events
  <2>1. e.call \in Settles /\ e.call \in Calls
    BY <1>2, EventsTyped DEF Calls
  <2>2. /\ step[e.call] = "over" /\ target[e.call] = e.loan /\ outcome[e.call] = e.type
        /\ reorgs = 0 => Succeeded(e.call)
    BY <1>2 DEF ClosureInv
  <2>3. /\ step'[e.call] = "over" /\ target'[e.call] = target[e.call]
        /\ outcome'[e.call] = outcome[e.call]
    BY <2>1, <2>2, SettlementSteps DEF StartSettlement
  <2>4. reorgs' = 0 => Succeeded(e.call)'
    BY <1>1, <2>1, <2>2, SucceededStays
  <2> QED  BY <2>2, <2>3, <2>4
<1>3. CASE e \notin events
  <2>1. \E s \in Settles : SignClosure(s)
    BY <1>3, LogSteps DEF Pledged, PledgeEvent, RecordOrigination, Record, OriginationEvent,
       Outcomes
  <2> PICK s \in Settles : SignClosure(s)
    BY <2>1
  <2>2. e = ClosureEvent(s, target[s], outcome[s])
    BY <1>3 DEF SignClosure
  <2>3. e.call = s /\ e.loan = target[s] /\ e.type = outcome[s]
    BY <2>2 DEF ClosureEvent
  <2>4. step'[s] = "over" /\ target' = target /\ outcome' = outcome /\ step[s] = "head"
    BY DEF SignClosure, Goto, request, TypeOK, Calls
  <2>5. receipt[s].ok /\ ReceiptOf(s, receipt[s]) /\ receipt[s] \in Receipts
    BY <2>4 DEF ReceiptsInv, Polled, Calls, TypeOK
  <2>6. reorgs = 0 => Stands(receipt[s], s) /\ chain[receipt[s].height].ok
    <3>1. receipt[s].fork \in Nat
      BY <2>5 DEF Receipts
    <3>2. Stands(receipt[s], s) \/ receipt[s].fork < reorgs
      BY <2>5 DEF ReceiptOf
    <3>3. reorgs = 0 => Stands(receipt[s], s)
      BY <3>1, <3>2
    <3>4. Stands(receipt[s], s) => chain[receipt[s].height].ok
      BY <2>5 DEF ReceiptOf
    <3> QED  BY <3>3, <3>4
  <2>7. reorgs = 0 => Succeeded(s)
    BY <2>6 DEF Stands, Succeeded
  <2>8. chain' = chain
    BY DEF SignClosure, chainVars
  <2>9. reorgs = 0 => Succeeded(s)'
    BY <2>7, <2>8 DEF Succeeded, Heights
  <2> QED  BY <1>1, <2>3, <2>4, <2>9
<1> QED  BY <1>2, <1>3

\* A signed origination is of a buried transaction and cites a signed pledge.
LEMMA FinalStep ==
  ASSUME TypeOK, Chained, ReceiptsInv, LoanInv, OriginationsAreFinal, [Next]_vars
  PROVE  OriginationsAreFinal'
<1> SUFFICES ASSUME NEW e \in events', e.type = "origination"
             PROVE  /\ (\E k \in Heights(e.loan) : chain[k].ok /\ k <= buried)'
                    /\ PledgeEvent(e.pledge) \in events'
  BY DEF OriginationsAreFinal, PledgeEvent, Heights
<1>1. CASE e \in events
  <2>1. e.loan \in Calls
    BY <1>1, EventsTyped DEF Calls
  <2>2. /\ \E k \in Heights(e.loan) : chain[k].ok /\ k <= buried
        /\ PledgeEvent(e.pledge) \in events
    BY <1>1 DEF OriginationsAreFinal
  <2> QED  BY <2>1, <2>2, BuriedStays, LogGrows
<1>2. CASE e \notin events
  <2>1. \E l \in Loans : RecordOrigination(l)
    BY <1>2, LogSteps DEF Pledged, PledgeEvent, SignClosure, ClosureEvent,
       TypeOK, Outcomes
  <2> PICK l \in Loans : RecordOrigination(l)
    BY <2>1
  <2>2. e = OriginationEvent(l, cited[l])
    BY <1>2 DEF RecordOrigination, Record
  <2>3. e.loan = l /\ e.pledge = cited[l]
    BY <2>2 DEF OriginationEvent
  <2>4. step[l] = "reread" /\ Stands(receipt[l], l) /\ chain' = chain /\ buried' = buried
    BY DEF RecordOrigination, Record, chainVars
  <2>5. PledgeEvent(cited[l]) \in events
    BY <2>4 DEF LoanInv
  <2>6. receipt[l].height <= buried /\ chain[receipt[l].height].ok
    BY <2>4 DEF ReceiptsInv, Polled, ReceiptOf, Calls
  <2>7. \E k \in Heights(l) : chain[k].ok /\ k <= buried
    BY <2>4, <2>6 DEF Stands
  <2>8. (\E k \in Heights(e.loan) : chain[k].ok /\ k <= buried)'
    BY <2>3, <2>4, <2>7 DEF Heights
  <2> QED  BY <2>3, <2>5, <2>8, LogGrows
<1> QED  BY <1>1, <1>2

\* The registry follows the log.
LEMMA RegistryStep ==
  ASSUME TypeOK, LoanInv, RegistryIsTheLog, [Next]_vars
  PROVE  RegistryIsTheLog'
<1>0. unremoved \subseteq Loans
  BY DEF TypeOK
<1>1. CASE Boot
  BY <1>1 DEF Boot, Hydrated, RegistryIsTheLog, Recorded, ClosedInLog
<1>2. CASE Crash
  BY <1>2 DEF Crash, RegistryIsTheLog
<1>3. CASE \E p \in Pledges : Pledged(p)
  BY <1>3 DEF Pledged, PledgeEvent, RegistryIsTheLog, Recorded, ClosedInLog, Outcomes, history
<1>4. ASSUME NEW l \in Loans, RecordOrigination(l)
      PROVE  RegistryIsTheLog'
  <2>1. running /\ running' /\ registry' = registry \cup {l} /\ step[l] = "reread"
        /\ events' = events \cup {OriginationEvent(l, cited[l])}
    BY <1>4 DEF RecordOrigination, Record
  <2>0. unremoved' = unremoved
    BY <1>4 DEF RecordOrigination, Record, history
  <2>2. ~ClosedInLog(l)
    BY <2>1 DEF LoanInv
  <2>3. \A m \in Loans : /\ Recorded(m)' <=> Recorded(m) \/ m = l
                         /\ ClosedInLog(m)' <=> ClosedInLog(m)
    <3> PICK n : n = OriginationEvent(l, cited[l])
      OBVIOUS
    <3>1. n.type = "origination" /\ n.loan = l /\ n.type \notin Outcomes
      BY DEF OriginationEvent, Outcomes
    <3>2. events' = events \cup {n}
      BY <2>1
    <3> QED  BY <3>1, <3>2 DEF Recorded, ClosedInLog
  <2> QED  BY <1>0, <2>1, <2>2, <2>3, <2>0 DEF RegistryIsTheLog
<1>5. ASSUME NEW s \in Settles, RecordSettlement(s) \/ StrandLoan(s)
      PROVE  RegistryIsTheLog'
  <2>1. running /\ running' /\ outcome[s] \in Outcomes
        /\ events' = events \cup {ClosureEvent(s, target[s], outcome[s])}
    BY <1>5 DEF RecordSettlement, StrandLoan, SignClosure, TypeOK
  <2>2. \A m \in Loans : /\ Recorded(m)' <=> Recorded(m)
                         /\ ClosedInLog(m)' <=> ClosedInLog(m) \/ m = target[s]
    <3> PICK n : n = ClosureEvent(s, target[s], outcome[s])
      OBVIOUS
    <3>1. n.type = outcome[s] /\ n.loan = target[s]
      BY DEF ClosureEvent
    <3>2. n.type \in Outcomes /\ n.type # "origination"
      BY <2>1, <3>1 DEF Outcomes
    <3>3. events' = events \cup {n}
      BY <2>1
    <3> QED  BY <3>1, <3>2, <3>3 DEF Recorded, ClosedInLog
  <2>3. CASE RecordSettlement(s)
    BY <1>0, <2>1, <2>2, <2>3 DEF RecordSettlement, RegistryIsTheLog
  <2>4. CASE StrandLoan(s)
    BY <1>0, <2>1, <2>2, <2>4 DEF StrandLoan, RegistryIsTheLog
  <2> QED  BY <1>5, <2>3, <2>4
<1>6. CASE UNCHANGED <<events, running, registry, unremoved>>
  BY <1>6 DEF RegistryIsTheLog, Recorded, ClosedInLog
<1> QED
  BY <1>1, <1>2, <1>3, <1>4, <1>5, <1>6 DEF Next, vars, history, Mine, Reorg, GiveUp, ReadReceipt,
     PollAgain, StartOrigination, SubmitOrigination, OriginationConfirmed, StartSettlement,
     SubmitSettlement, Send

-----------------------------------------------------------------------------
(* The theorems.                                                           *)

\* The invariant holds from the first boot on.
THEOREM PipelineInvariance == Spec => []PipelineInv
<1>1. Init => PipelineInv
  <2> SUFFICES ASSUME Init  PROVE PipelineInv
    OBVIOUS
  <2>1. ReceiptsInv /\ LoanInv
    BY DEF Init, ReceiptsInv, Polled, LoanInv, Recorded, ClosedInLog, Calls
  <2>2. \A c \in Calls : c \notin pending /\ Heights(c) = {}
    BY DEF Init, Heights
  <2>3. SettleInv /\ MinedOnce /\ FreshInv /\ AccountedInv
    BY <2>2 DEF Init, SettleInv, Sent, MinedOnce, FreshInv, AccountedInv, Succeeded, Calls
  <2>4. ClosureInv /\ OriginationsAreFinal /\ RegistryIsTheLog
    BY DEF Init, ClosureInv, OriginationsAreFinal, RegistryIsTheLog
  <2> QED  BY <2>1, <2>3, <2>4, TypeInitial, ChainInitial DEF PipelineInv
<1>2. PipelineInv /\ [Next]_vars => PipelineInv'
  <2> SUFFICES ASSUME PipelineInv, [Next]_vars  PROVE PipelineInv'
    OBVIOUS
  <2>1. TypeOK' /\ Chained'
    BY TypeStep, ChainStep DEF PipelineInv
  <2>2. ReceiptsInv' /\ LoanInv' /\ SettleInv' /\ ClosureInv'
    BY <2>1, ReceiptsStep, LoanStep, SettleStep, ClosureStep DEF PipelineInv
  <2>3. OriginationsAreFinal' /\ RegistryIsTheLog'
    BY FinalStep, RegistryStep DEF PipelineInv
  <2>4. MinedOnce' /\ FreshInv' /\ AccountedInv'
    BY MinedOnceStep, FreshStep, AccountedStep DEF PipelineInv
  <2> QED  BY <2>1, <2>2, <2>3, <2>4 DEF PipelineInv
<1> QED  BY <1>1, <1>2, PTL DEF Spec

\* The state of the two routes is always well typed.
THEOREM PipelineTypeCorrect == Spec => []TypeOK
<1>1. PipelineInv => TypeOK
  BY DEF PipelineInv
<1> QED  BY <1>1, PipelineInvariance, PTL

\* POST /api/origination signs for buried loans only, whatever is reorganised
\* between its reads of the chain.
THEOREM OriginationsFinal == Spec => []OriginationsAreFinal
<1>1. PipelineInv => OriginationsAreFinal
  BY DEF PipelineInv
<1> QED  BY <1>1, PipelineInvariance, PTL

\* Whatever races, rejects or is killed, the registry in memory holds every loan open
\* in the log, and of the closed ones only those a rejected closing append left.
THEOREM RegistryFollowsLog == Spec => []RegistryIsTheLog
<1>1. PipelineInv => RegistryIsTheLog
  BY DEF PipelineInv
<1> QED  BY <1>1, PipelineInvariance, PTL

\* No loan is closed on the chain before its origination is in the log.
THEOREM ClosedLoansRecorded == Spec => []ClosedLoansAreRecorded
<1>1. PipelineInv => ClosedLoansAreRecorded
  BY DEF PipelineInv, SettleInv, ClosedLoansAreRecorded, ClosedAs, Succeeded, Sent
<1> QED  BY <1>1, PipelineInvariance, PTL

\* Log and chain tell the same story but for requests cut off in their wait.
THEOREM LogMatches == Spec => []LogMatchesTheChain
<1>1. PipelineInv => LogMatchesTheChain
  <2> SUFFICES ASSUME PipelineInv  PROVE LogMatchesTheChain
    OBVIOUS
  <2>1. ASSUME reorgs = 0, NEW e \in events, e.type \in Outcomes
        PROVE  ClosedAs(e.loan, e.type)
    <3>1. e.call \in Settles
      BY <2>1, EventsTyped DEF PipelineInv
    <3>2. target[e.call] = e.loan /\ outcome[e.call] = e.type /\ Succeeded(e.call)
      BY <2>1 DEF PipelineInv, ClosureInv
    <3> QED  BY <3>1, <3>2 DEF ClosedAs
  <2>2. ASSUME NEW c \in Calls, Succeeded(c), c \in Settles \/ reorgs = 0
        PROVE  Accounted(c)
    BY <2>2 DEF PipelineInv, AccountedInv, Sent, Succeeded, Calls
  <2> QED  BY <2>1, <2>2 DEF LogMatchesTheChain, Accounted
<1> QED  BY <1>1, PipelineInvariance, PTL
=============================================================================
