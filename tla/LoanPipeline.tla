---------------------------- MODULE LoanPipeline ----------------------------
(***************************************************************************)
(* The runtime's two loan routes over the three places a loan is written   *)
(* to: the LoanBook on the chain, the event log on disk, the registry in   *)
(* memory.  POST /api/origination and POST /api/settle each broadcast a    *)
(* transaction, poll for its receipt and sign an event; requests run       *)
(* concurrently and an action ends where the code awaits.  The process can *)
(* be killed between any two of them; transactions it sent survive it.     *)
(*                                                                         *)
(* A block carries at most one of the runtime's transactions.  Each        *)
(* origination draws a fresh random loan id, so the loan names the call.   *)
(***************************************************************************)
EXTENDS Integers, Sequences, FiniteSets

CONSTANTS
  Pledges,
  Loans,        \* origination requests, named by the loan id they draw
  Settles,      \* settlement requests
  NoPledge, NoLoan, NoCall,
  FinalityDepth,
  MaxHeight,    \* bound: length of the chain
  MaxReorgs,    \* bound: reorganisations
  MaxCrashes    \* bound: kills of the process

Calls == Loans \cup Settles

ASSUME PipelineAssumption ==
  /\ NoPledge \notin Pledges /\ NoLoan \notin Loans /\ NoCall \notin Calls
  /\ Loans \cap Settles = {}
  /\ FinalityDepth \in Nat \ {0}
  /\ MaxHeight \in Nat /\ MaxReorgs \in Nat /\ MaxCrashes \in Nat

VARIABLES
  chain,      \* blocks: the call whose transaction it mined, did it succeed, fork
  pending,    \* transactions broadcast and not mined
  reorgs,     \* history: reorganisations so far; the fork number of new blocks
  buried,     \* history: the highest block that has been FinalityDepth deep
  events,     \* the event log
  running,    \* the process is up
  registry,   \* LoanRegistry: the loans it believes active
  step,       \* where each request stands
  cited,      \* the pledge an origination cites
  target,     \* the loan a settlement is about ...
  outcome,    \* ... and how it ends it
  receipt,    \* the receipt a request has read last
  crashes,    \* history: kills
  abandoned,  \* history: requests that ended while their transaction was out
  unremoved   \* history: loans left in the registry by a closing append that rejected

chainVars == <<chain, pending, reorgs, buried>>
request == <<cited, target, outcome>>
history == <<crashes, abandoned, unremoved>>
vars == <<chainVars, events, running, registry, step, request, receipt, history>>

Outcomes == {"repaid", "liquidated"}
NoReceipt == [height |-> 0, fork |-> 0, ok |-> FALSE]

Heights(c) == {k \in 1 .. Len(chain) : chain[k].call = c}
Succeeded(c) == \E k \in Heights(c) : chain[k].ok

\* loans(id).status as the LoanBook answers it now.
Originated(l) == Succeeded(l)
ClosedAs(l, o) ==
  \E s \in Settles : target[s] = l /\ outcome[s] = o /\ Succeeded(s)
Active(l) == Originated(l) /\ \A o \in Outcomes : ~ClosedAs(l, o)

\* Events of the log.
PledgeEvent(p) == [type |-> "pledge", pledge |-> p]
OriginationEvent(l, p) == [type |-> "origination", loan |-> l, pledge |-> p]
ClosureEvent(s, l, o) == [type |-> o, loan |-> l, call |-> s]

Recorded(l) == \E e \in events : e.type = "origination" /\ e.loan = l
ClosedInLog(l) == \E e \in events : e.type \in Outcomes /\ e.loan = l

Init ==
  /\ chain = <<>> /\ pending = {} /\ reorgs = 0 /\ buried = 0
  /\ events = {}
  /\ running = FALSE
  /\ registry = {}
  /\ step = [c \in Calls |-> "idle"]
  /\ cited = [l \in Loans |-> NoPledge]
  /\ target = [s \in Settles |-> NoLoan]
  /\ outcome = [s \in Settles |-> "repaid"]
  /\ receipt = [c \in Calls |-> NoReceipt]
  /\ crashes = 0
  /\ abandoned = {}
  /\ unremoved = {}

-----------------------------------------------------------------------------
(* The chain.                                                              *)

\* A transaction is mined.  An origination may find no liquidity, a closing
\* needs an active loan (and may find no allowance): else it reverts.
MaySucceed(c) == c \in Loans \/ (c \in Settles /\ Active(target[c]))

Higher(m, n) == IF m < n THEN n ELSE m

Mine(c, ok) ==
  /\ Len(chain) < MaxHeight
  /\ c \in pending \cup {NoCall}
  /\ ok => c # NoCall /\ MaySucceed(c)
  /\ chain' = Append(chain, [call |-> c, ok |-> ok, fork |-> reorgs])
  /\ pending' = pending \ {c}
  /\ buried' = Higher(buried, Len(chain) + 2 - FinalityDepth)
  /\ UNCHANGED <<reorgs, events, running, registry, step, request, receipt, history>>

\* Blocks are dropped and their transactions return to the pool.  A block that
\* has been FinalityDepth deep stays: what the routes wait for it to mean.
Reorg(h) ==
  /\ reorgs < MaxReorgs
  /\ h < Len(chain) /\ buried <= h
  /\ chain' = SubSeq(chain, 1, h)
  /\ pending' = pending \cup ({chain[k].call : k \in h + 1 .. Len(chain)} \ {NoCall})
  /\ reorgs' = reorgs + 1
  /\ UNCHANGED <<buried, events, running, registry, step, request, receipt, history>>

-----------------------------------------------------------------------------
(* The process.                                                            *)

\* Mutant: liquidations are not subtracted.
HydrateSettledOnly ==
  {l \in Loans : Recorded(l) /\ ~\E e \in events : e.type = "repaid" /\ e.loan = l}

\* Mutant: the entries are keyed by the pledge an origination cites.
HydrateByPledge == {e.pledge : e \in {f \in events : f.type = "origination"}}

\* LoanRegistry.hydrateFromLog().
Hydrated == {l \in Loans : Recorded(l) /\ ~ClosedInLog(l)}

Boot ==
  /\ ~running
  /\ running' = TRUE
  /\ registry' = Hydrated
  /\ unremoved' = {}
  /\ UNCHANGED <<chainVars, events, step, request, receipt, crashes, abandoned>>

InFlight(c) == step[c] \notin {"idle", "over"}

\* Its transaction was broadcast and the request waits to see it confirmed.
Waiting(c) == step[c] \in {"polling", "head", "reread"}

\* A kill; also what an append that rejects does to the process during an
\* origination, whose route leaves the promise behind.
Crash ==
  /\ running
  /\ crashes < MaxCrashes
  /\ crashes' = crashes + 1
  /\ running' = FALSE
  /\ registry' = {}
  /\ step' = [c \in Calls |-> IF InFlight(c) THEN "over" ELSE step[c]]
  /\ receipt' = [c \in Calls |-> NoReceipt]
  /\ abandoned' = abandoned \cup {c \in Calls : Waiting(c)}
  /\ UNCHANGED <<chainVars, events, request, unremoved>>

\* The request ends with an error: no quote, a refused broadcast, the time is
\* up, an RPC error, a failed signature, an append that wrote nothing.  A
\* transaction it has sent is not recalled.
GiveUp(c) ==
  /\ running /\ InFlight(c)
  /\ step' = [step EXCEPT ![c] = "over"]
  /\ receipt' = [receipt EXCEPT ![c] = NoReceipt]
  /\ abandoned' = IF Waiting(c) THEN abandoned \cup {c} ELSE abandoned
  /\ UNCHANGED <<chainVars, events, running, registry, request, crashes, unremoved>>

\* The pledge watcher signs a pledge.
Pledged(p) ==
  /\ running
  /\ events' = events \cup {PledgeEvent(p)}
  /\ UNCHANGED <<chainVars, running, registry, step, request, receipt, history>>

Goto(c, there) == step' = [step EXCEPT ![c] = there]

\* A round of the polling: the receipt first ...
ReadReceipt(c, accepted) ==
  /\ running /\ step[c] = "polling"
  /\ \E k \in Heights(c) :
       /\ chain[k].ok \in accepted
       /\ receipt' = [receipt EXCEPT ![c] =
                        [height |-> k, fork |-> chain[k].fork, ok |-> chain[k].ok]]
  /\ Goto(c, "head")
  /\ UNCHANGED <<chainVars, events, running, registry, request, history>>

\* ... then the head of the chain, which may have moved.
DeepEnough(c) == Len(chain) - receipt[c].height + 1 >= FinalityDepth

PollAgain(c) ==
  /\ running /\ step[c] = "head"
  /\ ~DeepEnough(c)
  /\ Goto(c, "polling")
  /\ receipt' = [receipt EXCEPT ![c] = NoReceipt]
  /\ UNCHANGED <<chainVars, events, running, registry, request, history>>

-----------------------------------------------------------------------------
(* POST /api/origination.                                                  *)

\* The cited pledge is in the log; then the quote is awaited.
StartOrigination(l, p) ==
  /\ running /\ step[l] = "idle"
  /\ PledgeEvent(p) \in events
  /\ cited' = [cited EXCEPT ![l] = p]
  /\ Goto(l, "quoting")
  /\ UNCHANGED <<chainVars, events, running, registry, target, outcome, receipt, history>>

\* checkPledgeEvent(), then LoanBook.originate() is sent.
SubmitOrigination(l) ==
  /\ running /\ step[l] = "quoting"
  /\ PledgeEvent(cited[l]) \in events
  /\ pending' = pending \cup {l}
  /\ Goto(l, "polling")
  /\ UNCHANGED <<chain, reorgs, buried, events, running, registry, request, receipt, history>>

\* The transaction is deep enough; one that reverted ends the request.
OriginationConfirmed(l) ==
  /\ running /\ step[l] = "head"
  /\ DeepEnough(l)
  /\ Goto(l, IF receipt[l].ok THEN "reread" ELSE "over")
  /\ receipt' = IF receipt[l].ok THEN receipt ELSE [receipt EXCEPT ![l] = NoReceipt]
  /\ UNCHANGED <<chainVars, events, running, registry, request, history>>

\* The receipt of the first confirmation still stands.
Stands(r, c) == r.height \in Heights(c) /\ chain[r.height].fork = r.fork

Record(l) ==
  /\ events' = events \cup {OriginationEvent(l, cited[l])}
  /\ registry' = registry \cup {l}
  /\ Goto(l, "over")
  /\ receipt' = [receipt EXCEPT ![l] = NoReceipt]
  /\ UNCHANGED <<chainVars, running, request, history>>

\* Mutant: the receipt is not read again.
RecordUnread(l) == running /\ step[l] = "reread" /\ Record(l)

\* Read again: the same block means the event is signed, appended and the loan
\* registered, all in one turn; any other answer ends the request (GiveUp).
RecordOrigination(l) ==
  /\ running /\ step[l] = "reread"
  /\ Stands(receipt[l], l)
  /\ Record(l)

-----------------------------------------------------------------------------
(* POST /api/settle.                                                       *)

\* loans(id) is read: only an active loan goes on.
StartSettlement(s, l, o) ==
  /\ running /\ step[s] = "idle"
  /\ Active(l)
  /\ target' = [target EXCEPT ![s] = l]
  /\ outcome' = [outcome EXCEPT ![s] = o]
  /\ Goto(s, "searching")
  /\ UNCHANGED <<chainVars, events, running, registry, cited, receipt, history>>

Send(s) ==
  /\ running /\ step[s] = "searching"
  /\ pending' = pending \cup {s}
  /\ Goto(s, "polling")
  /\ UNCHANGED <<chain, reorgs, buried, events, running, registry, request, receipt, history>>

\* Mutant: the origination event is not looked for.
SubmitUnsearched(s) == Send(s)

\* Its origination event is in the log; then the transaction is sent.
SubmitSettlement(s) == Recorded(target[s]) /\ Send(s)

\* Deep enough by the head just read, the closing event is signed and comes to be
\* in the log.  The receipt is not read again.
SignClosure(s) ==
  /\ running /\ step[s] = "head"
  /\ DeepEnough(s)
  /\ events' = events \cup {ClosureEvent(s, target[s], outcome[s])}
  /\ Goto(s, "over")
  /\ receipt' = [receipt EXCEPT ![s] = NoReceipt]
  /\ UNCHANGED <<chainVars, running, request, crashes, abandoned>>

\* Appended, the loan is dropped from the registry.
RecordSettlement(s) ==
  /\ SignClosure(s)
  /\ registry' = registry \ {target[s]}
  /\ unremoved' = unremoved \ {target[s]}

\* The append rejects although its line is in the log, the flush or the index
\* having failed: the request ends there and the loan is not dropped.
StrandLoan(s) ==
  /\ SignClosure(s)
  /\ unremoved' = unremoved \cup ({target[s]} \cap registry)
  /\ UNCHANGED registry

\* An origination takes any receipt; a settlement waits for a successful one.
\* Mutant: it takes any.
AcceptsAny(c) == BOOLEAN
Accepts(c) == IF c \in Settles THEN {TRUE} ELSE BOOLEAN

Next ==
  \/ \E c \in Calls \cup {NoCall}, ok \in BOOLEAN : Mine(c, ok)
  \/ \E h \in 0 .. MaxHeight : Reorg(h)
  \/ Boot \/ Crash
  \/ \E p \in Pledges : Pledged(p)
  \/ \E c \in Calls : GiveUp(c) \/ ReadReceipt(c, Accepts(c)) \/ PollAgain(c)
  \/ \E l \in Loans :
       \/ \E p \in Pledges : StartOrigination(l, p)
       \/ SubmitOrigination(l) \/ OriginationConfirmed(l) \/ RecordOrigination(l)
  \/ \E s \in Settles :
       \/ \E l \in Loans, o \in Outcomes : StartSettlement(s, l, o)
       \/ SubmitSettlement(s) \/ RecordSettlement(s) \/ StrandLoan(s)

Spec == Init /\ [][Next]_vars

-----------------------------------------------------------------------------
Blocks == [call : Calls \cup {NoCall}, ok : BOOLEAN, fork : Nat]
Receipts == [height : Nat, fork : Nat, ok : BOOLEAN]
Steps == {"idle", "quoting", "searching", "polling", "head", "reread", "over"}

EventRecords ==
  {PledgeEvent(p) : p \in Pledges}
  \cup {OriginationEvent(l, p) : l \in Loans, p \in Pledges}
  \cup {ClosureEvent(s, l, o) : s \in Settles, l \in Loans, o \in Outcomes}

TypeOK ==
  /\ chain \in Seq(Blocks) /\ Len(chain) <= MaxHeight
  /\ pending \subseteq Calls
  /\ reorgs \in 0 .. MaxReorgs
  /\ buried \in Nat
  /\ events \subseteq EventRecords
  /\ running \in BOOLEAN
  /\ registry \subseteq Loans
  /\ step \in [Calls -> Steps]
  /\ cited \in [Loans -> Pledges \cup {NoPledge}]
  /\ target \in [Settles -> Loans \cup {NoLoan}]
  /\ outcome \in [Settles -> Outcomes]
  /\ receipt \in [Calls -> Receipts]
  /\ crashes \in 0 .. MaxCrashes
  /\ abandoned \subseteq Calls
  /\ unremoved \subseteq Loans

\* A signed origination names a loan whose transaction succeeded in a block that
\* has been FinalityDepth deep, and whose pledge is in the log: whatever was
\* reorganised between the reads of receipt, head and receipt (I-OR-1, I-OR-3').
OriginationsAreFinal ==
  \A e \in events : e.type = "origination" =>
    /\ \E k \in Heights(e.loan) : chain[k].ok /\ k <= buried
    /\ PledgeEvent(e.pledge) \in events

\* While the process is up no signed open loan is missing from its registry, and
\* a closed one is in it only if its closing append rejected since the boot: a
\* restart, or another settlement of the loan, puts that right, whatever requests
\* race.
RegistryIsTheLog ==
  running =>
    /\ registry = {l \in Loans : Recorded(l) /\ ~ClosedInLog(l)} \cup unremoved
    /\ \A l \in unremoved : ClosedInLog(l)

\* A loan is closed on the chain only if its origination was signed, and however
\* many settlements race (I-RT-7: the closing event has the origination's as parent).
ClosedLoansAreRecorded ==
  \A l \in Loans : (\E o \in Outcomes : ClosedAs(l, o)) => Recorded(l)

\* The event that tells what the transaction of c did.
Told(c) ==
  \/ c \in Loans /\ Recorded(c)
  \/ c \in Settles /\ ClosureEvent(c, target[c], outcome[c]) \in events

\* Log and chain tell the same story.  Without a reorganisation, a closing event
\* says how the chain closed the loan: of two racing settlements the one whose
\* transaction reverted signs nothing.  And what a transaction did is in the log
\* unless its request still waits, or ended first by a timeout, an error or a kill:
\* only then is a loan open or closed on the chain alone.  (A reorganisation can
\* also make an origination believe a revert that is undone.)
LogMatchesTheChain ==
  /\ reorgs = 0 => \A e \in events : e.type \in Outcomes => ClosedAs(e.loan, e.type)
  /\ \A c \in Calls :
       Succeeded(c) /\ (c \in Settles \/ reorgs = 0) =>
         Told(c) \/ Waiting(c) \/ c \in abandoned

\* settlement.ts:5-6 says that the closing event is signed once the transaction
\* is confirmed FinalityDepth deep, which no reorganisation admitted here undoes.
ClosuresAreFinal ==
  \A e \in events : e.type \in Outcomes => ClosedAs(e.loan, e.type)
=============================================================================
