---------------------------- MODULE PledgeWatcher ----------------------------
(***************************************************************************)
(* runtime/src/services/pledge-watcher.ts: turns ERC-1155 transfers into   *)
(* the collateral vault on Polygon into signed loan.pledge events.  A live *)
(* subscription, a periodic sweep of the last blocks and an operator's     *)
(* replay all feed handleLog(), which looks a transfer up in `seen`, then  *)
(* awaits confirmations and the append: many calls are in flight at once.  *)
(* A reorganisation of the chain may drop a transfer, or mine it again in  *)
(* another block and at another place in it.                               *)
(*                                                                         *)
(* Nothing joins two calls for one log: calls in flight are counted by the *)
(* log they were given.  A log that is replaced between its reading and    *)
(* its look-up is one that is replaced just after the look-up.             *)
(***************************************************************************)
EXTENDS Integers, Sequences, FiniteSets, Sums

CONSTANTS
  Transfers,       \* transfers into the vault, by transaction
  Watched,         \* those of tokens of a watched market
  Places,          \* log indexes a transfer may have in its block
  NotMined,
  Confirmations,   \* CONFIRMATIONS
  Lookback,        \* BACKFILL_LOOKBACK_BLOCKS
  SeenCap,         \* keys `seen` holds before it evicts the oldest
  ReorgDepth,      \* blocks a reorganisation may replace
  MaxHeight,       \* bound: blocks
  MaxReorgs,       \* bound: reorganisations
  MaxAttempts,     \* bound: events of a transfer, with the calls that may add one
  MaxFailures,     \* bound: confirmations timed out, appends rejected
  MaxRestarts      \* bound: restarts of the runtime

ASSUME WatcherAssumption ==
  /\ {Confirmations, Lookback, SeenCap, ReorgDepth, MaxHeight, MaxReorgs,
      MaxAttempts, MaxFailures, MaxRestarts} \subseteq Nat
  /\ IsFiniteSet(Places)
  /\ Watched \subseteq Transfers
  /\ SeenCap > 0
  /\ NotMined \notin [block : Nat, place : Places]

VARIABLES
  head,         \* number of the latest block
  mined,        \* where each transfer stands on the canonical chain
  known,        \* transfers whose token the markets cache resolves
  up,           \* the runtime runs and start() was called
  seen,         \* keys taken up in this life, oldest first
  waiting,      \* calls of handleLog() past the look-up and not returned, per log
  pledges,      \* loan.pledge events in the log, per transfer
  minings,      \* history: times each transfer was mined
  evictions,    \* history: keys of a transfer evicted from `seen`
  orphaned,     \* history: calls whose log was replaced while they waited
  givenUp,      \* history: transfers an attempt failed for in this life
  reorgs, restarts

chain == <<head, mined, minings, orphaned, reorgs>>
watcher == <<seen, waiting, pledges, evictions, givenUp>>
vars == <<chain, known, up, watcher, restarts>>

Positions(from, to) == [block : from .. to, place : Places]

Logs == Positions(1, MaxHeight)

\* Calls in flight for a transfer, wherever its log stood.
InFlight(t) == Total(waiting[t], Logs)

Key(t) == <<t, mined[t].place>>

IsSeen(key) == \E i \in 1 .. Len(seen) : seen[i] = key

-----------------------------------------------------------------------------
Init ==
  /\ head = 0
  /\ mined = [t \in Transfers |-> NotMined]
  /\ minings = [t \in Transfers |-> 0]
  /\ known = {}
  /\ up = FALSE
  /\ seen = <<>>
  /\ waiting = [t \in Transfers |-> [at \in Logs |-> 0]]
  /\ pledges = [t \in Transfers |-> 0]
  /\ evictions = [t \in Transfers |-> 0] /\ orphaned = [t \in Transfers |-> 0]
  /\ givenUp = {} /\ reorgs = 0 /\ restarts = 0

\* The chain as it changes from mined to next.
MineAs(next) ==
  /\ mined' = next
  /\ minings' = [t \in Transfers |->
       minings[t] + IF next[t] \notin {mined[t], NotMined} THEN 1 ELSE 0]
  /\ orphaned' = [t \in Transfers |->
       orphaned[t] + IF mined[t] \notin {next[t], NotMined} THEN waiting[t][mined[t]] ELSE 0]

Grow ==
  /\ head < MaxHeight
  /\ head' = head + 1
  /\ \E next \in [Transfers -> {NotMined} \cup Positions(1, head')] :
       /\ \A t \in Transfers :
            IF mined[t] = NotMined THEN next[t] \in {NotMined} \cup Positions(head', head')
                                   ELSE next[t] = mined[t]
       /\ MineAs(next)
  /\ UNCHANGED <<known, up, watcher, restarts, reorgs>>

\* The blocks above `base` are replaced by as many others.
Reorg(base) ==
  /\ reorgs < MaxReorgs
  /\ base >= head - ReorgDepth
  /\ \E next \in [Transfers -> {NotMined} \cup Positions(1, head)] :
       /\ \A t \in Transfers :
            IF mined[t] # NotMined /\ mined[t].block > base
            THEN next[t] \in {NotMined} \cup Positions(base + 1, head)
            ELSE next[t] = mined[t]
       /\ next # mined
       /\ MineAs(next)
  /\ reorgs' = reorgs + 1
  /\ UNCHANGED <<head, known, up, watcher, restarts>>

\* refreshMetadata() of the markets cache learns the tokens of a watched market;
\* a later fetch that fails keeps them.
RefreshMarkets(t) ==
  /\ up
  /\ t \in Watched \ known
  /\ known' = known \cup {t}
  /\ UNCHANGED <<chain, up, watcher, restarts>>

-----------------------------------------------------------------------------
(* handleLog() up to its first await.                                      *)

\* Another call waits for the log of t.
Await(t) == waiting' = [waiting EXCEPT ![t][mined[t]] = @ + 1]

New(t) == ~IsSeen(Key(t)) /\ pledges[t] + InFlight(t) < MaxAttempts

\* The key of t is seen from here on; a full `seen` lets its oldest key go, be it
\* the key of a call that still waits.
Mark(t) ==
  LET marked == Append(seen, Key(t))
      oldest == marked[1][1]
  IN  IF Len(marked) > SeenCap
      THEN seen' = Tail(marked) /\ evictions' = [evictions EXCEPT ![oldest] = @ + 1]
      ELSE seen' = marked /\ UNCHANGED evictions

\* Mutant: a transfer is marked before its token is looked up.
TakeUpEarly(t) ==
  /\ New(t)
  /\ Mark(t)
  /\ IF t \in known THEN Await(t) ELSE UNCHANGED waiting
  /\ UNCHANGED <<pledges, givenUp>>

\* Mutant: it is not marked.
TakeUpUnmarked(t) ==
  /\ New(t)
  /\ t \in known
  /\ Await(t)
  /\ UNCHANGED <<seen, pledges, evictions, givenUp>>

\* Mutant: no key is evicted.
TakeUpUnbounded(t) ==
  /\ New(t)
  /\ t \in known
  /\ seen' = Append(seen, Key(t))
  /\ Await(t)
  /\ UNCHANGED <<pledges, evictions, givenUp>>

\* Neither an unknown token nor a seen key changes anything.
TakeUp(t) ==
  /\ New(t)
  /\ t \in known
  /\ Mark(t)
  /\ Await(t)
  /\ UNCHANGED <<pledges, givenUp>>

\* onLogs of the live subscription.  It drops and reconnects without touching
\* anything else, so a delivery may come at any time, or never.
Live(t) ==
  /\ up
  /\ mined[t] # NotMined
  /\ TakeUp(t)
  /\ UNCHANGED <<chain, known, up, restarts>>

\* runBackfill(): every log of the last blocks, again and again.
Sweep(t) ==
  /\ up
  /\ mined[t] # NotMined /\ mined[t].block >= head - Lookback
  /\ TakeUp(t)
  /\ UNCHANGED <<chain, known, up, restarts>>

\* replay(): the logs of one transaction, however old.
Replay(t) ==
  /\ up
  /\ mined[t] # NotMined
  /\ TakeUp(t)
  /\ UNCHANGED <<chain, known, up, restarts>>

-----------------------------------------------------------------------------
(* The rest of handleLog().                                                *)

\* Mutant: confirmations are counted from one block too early.
ConfirmedEarly(at) == head + 1 >= at.block + Confirmations
Confirmed(at) == head >= at.block + Confirmations

Returns(t, at) == waiting[t][at] > 0 /\ waiting' = [waiting EXCEPT ![t][at] = @ - 1]

\* The wait is over and the event is written; nothing more depends on whether
\* its append then resolves or rejects.  The wait compares block numbers only:
\* whether the log is still on the chain is not asked again.
Emit(t, at) ==
  /\ Confirmed(at)
  /\ Returns(t, at)
  /\ pledges' = [pledges EXCEPT ![t] = @ + 1]
  /\ UNCHANGED <<chain, known, up, seen, evictions, givenUp, restarts>>

\* 60 attempts went by (confirmation_failed), or the append was rejected with
\* nothing written (emit_failed); the key stays in `seen`.
GiveUp(t, at) ==
  /\ Cardinality(givenUp) < MaxFailures
  /\ Returns(t, at)
  /\ givenUp' = givenUp \cup {t}
  /\ UNCHANGED <<chain, known, up, seen, pledges, evictions, restarts>>

Start ==
  /\ ~up
  /\ up' = TRUE
  /\ UNCHANGED <<chain, known, watcher, restarts>>

\* The process ends: what handleLog() had not appended is forgotten.
Restart ==
  /\ up
  /\ restarts < MaxRestarts
  /\ restarts' = restarts + 1
  /\ up' = FALSE
  /\ known' = {} /\ seen' = <<>> /\ givenUp' = {}
  /\ waiting' = [t \in Transfers |-> [at \in Logs |-> 0]]
  /\ UNCHANGED <<chain, pledges, evictions>>

Next ==
  \/ Grow
  \/ \E base \in 0 .. MaxHeight : Reorg(base)
  \/ \E t \in Transfers :
       \/ RefreshMarkets(t) \/ Live(t) \/ Sweep(t) \/ Replay(t)
       \/ \E at \in Logs : Emit(t, at) \/ GiveUp(t, at)
  \/ Start \/ Restart

\* Blocks keep coming, the runtime is started, its timers fetch markets and
\* sweep again whatever the last attempt met, and a wait polls every 4 seconds.
Fairness ==
  /\ WF_vars(Grow)
  /\ WF_vars(Start)
  /\ \A t \in Transfers :
       /\ WF_vars(RefreshMarkets(t))
       /\ WF_vars(Sweep(t))
       /\ WF_vars(\E at \in Logs : Emit(t, at))

Spec == Init /\ [][Next]_vars /\ Fairness

-----------------------------------------------------------------------------
TypeOK ==
  /\ head \in 0 .. MaxHeight
  /\ mined \in [Transfers -> {NotMined} \cup Positions(1, head)]
  /\ minings \in [Transfers -> Nat]
  /\ known \subseteq Transfers
  /\ up \in BOOLEAN
  /\ seen \in Seq(Transfers \X Places) /\ Len(seen) <= SeenCap
  /\ waiting \in [Transfers -> [Logs -> Nat]]
  /\ pledges \in [Transfers -> Nat]
  /\ givenUp \subseteq Transfers
  /\ evictions \in [Transfers -> Nat] /\ orphaned \in [Transfers -> Nat]
  /\ {reorgs, restarts} \subseteq Nat

\* However many deliveries race for it, a transfer is pledged once: again only
\* after a restart emptied `seen`, a reorganisation mined it elsewhere, or its
\* own key was evicted, be it under a call that still waits.  A waiting call
\* counts as the event it may still append.
PledgedOnce ==
  \A t \in Transfers : pledges[t] + InFlight(t) <= minings[t] + restarts + evictions[t]

\* A transfer that stays on the chain is pledged in the end, although its
\* token is unknown at first and the runtime may restart under a waiting
\* call, unless the sweep's window passed it by or an attempt was given up in
\* this life: that one is not repeated.
SettledTransferPledged ==
  \A t \in Watched :
    (mined[t] # NotMined /\ mined[t].block + Confirmations <= MaxHeight)
      ~> \/ pledges[t] > 0
         \/ mined[t] = NotMined
         \/ mined[t].block + Confirmations > MaxHeight
         \/ mined[t].block < head - Lookback
         \/ t \in givenUp

\* When no reorganisation is deeper than the confirmations, a pledge is backed by
\* a transfer on the chain, or was appended by a call whose log was replaced while
\* it waited (the block is not asked for again): one pledge per such call at most.
PledgesAreBacked ==
  ReorgDepth <= Confirmations =>
    \A t \in Transfers : pledges[t] > orphaned[t] => mined[t] # NotMined
=============================================================================
