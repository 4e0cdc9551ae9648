---------------------------- MODULE TransferProofs ----------------------------
(***************************************************************************)
(* Theorems about transfers on a chain that become events: the transfers   *)
(* into the pledge vault, pledged once each and backed, for any chain and  *)
(* any bounds; and the payments of metered calls, logged once and answered *)
(* for, for any number of calls and authorizations.                        *)
(***************************************************************************)
EXTENDS PledgeWatcher, PaidServices, SumsProofs, SequenceTheorems, TLAPS

\* A mining of t that no call has taken up yet.
Pending(t) == IF mined[t] # NotMined /\ ~IsSeen(Key(t)) THEN 1 ELSE 0

\* What PledgedOnce leaves unsaid: an unseen mining is still owed its event.
OwedOnce ==
  \A t \in Transfers :
    pledges[t] + InFlight(t) + Pending(t) <= minings[t] + restarts + evictions[t]

\* Calls that wait for a log that is not, or not any more, where t stands.
Stale(t) == Total(waiting[t], Logs \ {mined[t]})

\* Why pledges are backed: either t stands under Confirmations blocks, where no
\* reorganisation reaches, or every event of t, with every one a stale call may
\* still append, is owed to a call whose log was replaced.
Standing(t) == mined[t] # NotMined /\ head - mined[t].block >= Confirmations
Covered(t) == Standing(t) \/ pledges[t] + Stale(t) <= orphaned[t]
CoveredUnlessDeeper == ReorgDepth <= Confirmations => \A t \in Transfers : Covered(t)

WatcherInv ==
  /\ TypeOK
  /\ OwedOnce
  /\ CoveredUnlessDeeper

-----------------------------------------------------------------------------
(* Lemmas.                                                                 *)

LEMMA LogsFinite ==
  ASSUME WatcherAssumption
  PROVE  IsFiniteSet(Logs)
<1> DEFINE Pairs == (1 .. MaxHeight) \X Places
           at == [p \in Pairs |-> [block |-> p[1], place |-> p[2]]]
<1>1. IsFiniteSet(1 .. MaxHeight) /\ IsFiniteSet(Places)
  BY FS_Interval DEF WatcherAssumption
<1>2. IsFiniteSet(Pairs)
  BY <1>1, FS_Product
<1>3. at \in Surjection(Pairs, Logs)
  <2>1. at \in [Pairs -> Logs]
    BY DEF Logs, Positions
  <2>2. ASSUME NEW l \in Logs
        PROVE  \E p \in Pairs : at[p] = l
    <3>1. <<l.block, l.place>> \in Pairs
      BY DEF Logs, Positions
    <3>2. at[<<l.block, l.place>>] = l
      BY <3>1 DEF Logs, Positions
    <3>3. QED
      BY <3>1, <3>2
  <2>3. QED
    BY <2>1, <2>2 DEF Surjection
<1>4. QED
  BY <1>2, <1>3, FS_Surjection

\* Where a transfer stands is a log of the chain, and NotMined is none.
LEMMA MinedIsLog ==
  ASSUME WatcherAssumption, TypeOK, NEW t \in Transfers
  PROVE  /\ mined[t] # NotMined => mined[t] \in Logs /\ mined[t].block \in Nat
         /\ NotMined \notin Logs
<1>1. head \in 0 .. MaxHeight /\ MaxHeight \in Nat
  BY DEF WatcherAssumption, TypeOK
<1>2. mined[t] \in {NotMined} \cup Positions(1, head)
  BY DEF TypeOK
<1>3. Positions(1, head) \subseteq Logs
  BY <1>1 DEF Positions, Logs
<1>4. \A at \in Logs : at \in [block : Nat, place : Places] /\ at.block \in Nat
  BY <1>1 DEF Logs, Positions
<1>5. QED
  BY <1>2, <1>3, <1>4 DEF WatcherAssumption

\* The sums of the invariant are sums of natural numbers.
LEMMA SumsTyped ==
  ASSUME WatcherAssumption, TypeOK, NEW t \in Transfers
  PROVE  /\ pledges[t] \in Nat /\ minings[t] \in Nat /\ restarts \in Nat
         /\ evictions[t] \in Nat /\ orphaned[t] \in Nat
         /\ waiting[t] \in [Logs -> Nat] /\ IsFiniteSet(Logs)
         /\ InFlight(t) \in Nat /\ Pending(t) \in {0, 1}
         /\ Stale(t) \in Nat /\ Stale(t) <= InFlight(t)
<1>1. /\ pledges[t] \in Nat /\ minings[t] \in Nat /\ restarts \in Nat
      /\ evictions[t] \in Nat /\ orphaned[t] \in Nat
      /\ waiting[t] \in [Logs -> Nat] /\ Pending(t) \in {0, 1}
  BY DEF TypeOK, Pending
<1>2. IsFiniteSet(Logs)
  BY LogsFinite
<1>3. \A at \in Logs : waiting[t][at] \in Nat
  BY <1>1
<1>4. (Logs \ {mined[t]}) \in SUBSET Logs
  OBVIOUS
<1>5. /\ Total(waiting[t], Logs \ {mined[t]}) \in Nat /\ Total(waiting[t], Logs) \in Nat
      /\ Total(waiting[t], Logs \ {mined[t]}) <= Total(waiting[t], Logs)
  BY <1>2, <1>3, <1>4, TotalMono
<1>6. QED
  BY <1>1, <1>2, <1>5 DEF InFlight, Stale

\* A step of the chain owes one event for every new mining, and no other.
LEMMA MiningOwes ==
  ASSUME WatcherAssumption, TypeOK, OwedOnce,
         NEW next, MineAs(next), UNCHANGED <<watcher, restarts>>
  PROVE  OwedOnce'
<1> SUFFICES ASSUME NEW t \in Transfers
             PROVE  (pledges[t] + InFlight(t) + Pending(t)
                      <= minings[t] + restarts + evictions[t])'
  BY DEF OwedOnce
<1>1. /\ InFlight(t)' = InFlight(t) /\ pledges' = pledges /\ restarts' = restarts
      /\ evictions' = evictions /\ seen' = seen
  BY DEF InFlight, watcher
<1>2. pledges[t] + InFlight(t) + Pending(t) <= minings[t] + restarts + evictions[t]
  BY DEF OwedOnce
<1>3. Pending(t)' \in {0, 1}
  BY DEF Pending
<1>4. CASE next[t] \in {mined[t], NotMined}
  <2>1. minings'[t] = minings[t]
    BY <1>4, SumsTyped DEF MineAs
  <2>2. mined'[t] = mined[t] \/ mined'[t] = NotMined
    BY <1>4 DEF MineAs
  <2>3. Pending(t)' <= Pending(t)
    BY <1>1, <2>2 DEF Pending, IsSeen, Key
  <2> QED  BY <1>1, <1>2, <1>3, <2>1, <2>3, SumsTyped
<1>5. CASE next[t] \notin {mined[t], NotMined}
  <2>1. minings'[t] = minings[t] + 1
    BY <1>5, SumsTyped DEF MineAs
  <2> QED  BY <1>1, <1>2, <1>3, <2>1, SumsTyped
<1> QED  BY <1>4, <1>5

\* A step of the chain that keeps what stands under Confirmations blocks: the
\* calls for a replaced log become stale and are counted as orphaned.
LEMMA MiningCovers ==
  ASSUME WatcherAssumption, TypeOK, UNCHANGED watcher, NEW t \in Transfers, Covered(t),
         NEW next, MineAs(next), head' \in Nat, head' >= head,
         Standing(t) => next[t] = mined[t]
  PROVE  Covered(t)'
<1>1. /\ mined' = next /\ waiting' = waiting /\ pledges' = pledges
      /\ orphaned'[t] = orphaned[t]
           + IF mined[t] \notin {next[t], NotMined} THEN waiting[t][mined[t]] ELSE 0
  BY DEF MineAs, watcher
<1>2. head \in Nat /\ Confirmations \in Nat
  BY DEF TypeOK, WatcherAssumption
<1>3. CASE Standing(t)
  <2>1. Standing(t)'
    BY <1>1, <1>2, <1>3, MinedIsLog DEF Standing
  <2>2. QED
    BY <2>1 DEF Covered
<1>4. CASE ~Standing(t)
  <2>1. pledges[t] + Stale(t) <= orphaned[t]
    BY <1>4 DEF Covered
  <2>2. CASE next[t] = mined[t]
    <3>1. Stale(t)' = Stale(t) /\ orphaned'[t] = orphaned[t]
      <4>1. waiting' = waiting /\ mined'[t] = mined[t]
        BY <1>1, <2>2
      <4>2. Stale(t)' = Stale(t)
        BY <4>1, Zenon DEF Stale
      <4>3. orphaned'[t] = orphaned[t] + 0
        BY <1>1, <2>2
      <4> QED  BY <4>2, <4>3, SumsTyped
    <3>2. QED
      BY <1>1, <2>1, <3>1 DEF Covered
  <2>3. CASE next[t] # mined[t]
    <3>1. Stale(t)' <= InFlight(t) /\ Stale(t)' \in Nat
      <4>1. PICK p : p = next[t]
        OBVIOUS
      <4>2. (Logs \ {p}) \in SUBSET Logs /\ \A at \in Logs : waiting[t][at] \in Nat
        BY SumsTyped
      <4>3. /\ Total(waiting[t], Logs \ {p}) <= Total(waiting[t], Logs)
            /\ Total(waiting[t], Logs \ {p}) \in Nat
        BY <4>2, SumsTyped, TotalMono
      <4>4. Stale(t)' = Total(waiting[t], Logs \ {p})
        BY <1>1, <4>1 DEF Stale
      <4>5. QED
        BY <4>3, <4>4 DEF InFlight
    <3>2. CASE mined[t] = NotMined
      <4>1. Logs \ {mined[t]} = Logs
        BY <3>2, MinedIsLog
      <4>2. Stale(t) = InFlight(t)
        BY <4>1 DEF Stale, InFlight
      <4>3. orphaned'[t] = orphaned[t]
        BY <1>1, <3>2, SumsTyped
      <4>4. pledges[t] + Stale(t)' <= orphaned'[t]
        BY <2>1, <3>1, <4>2, <4>3, SumsTyped
      <4>5. QED
        BY <1>1, <4>4 DEF Covered
    <3>3. CASE mined[t] # NotMined
      <4>1. InFlight(t) = Stale(t) + waiting[t][mined[t]]
        BY <3>3, MinedIsLog, SumsTyped, UnitsSplit DEF InFlight, Stale
      <4>2. orphaned'[t] = orphaned[t] + waiting[t][mined[t]]
        BY <1>1, <2>3, <3>3
      <4>3. waiting[t][mined[t]] \in Nat
        BY <3>3, MinedIsLog, SumsTyped
      <4>4. pledges[t] + Stale(t)' <= orphaned'[t]
        BY <2>1, <3>1, <4>1, <4>2, <4>3, SumsTyped
      <4>5. QED
        BY <1>1, <4>4 DEF Covered
    <3>4. QED
      BY <3>2, <3>3
  <2>4. QED
    BY <2>2, <2>3
<1>5. QED
  BY <1>3, <1>4

\* The key of a call just taken up is seen, and every key seen before still is
\* unless it was evicted and counted.
LEMMA MarkKeeps ==
  ASSUME TypeOK, WatcherAssumption, NEW t \in Transfers, mined[t] # NotMined, Mark(t),
         mined' = mined
  PROVE  /\ IsSeen(Key(t))'
         /\ evictions' \in [Transfers -> Nat]
         /\ \A u \in Transfers : \/ evictions'[u] = evictions[u] + 1
                                 \/ /\ evictions'[u] = evictions[u]
                                    /\ IsSeen(Key(u)) => IsSeen(Key(u))'
         /\ seen' \in Seq(Transfers \X Places) /\ Len(seen') <= SeenCap
<1> DEFINE marked == Append(seen, Key(t))
<1>1. Key(t) \in Transfers \X Places
  BY DEF TypeOK, Key, Positions
<1>2. /\ seen \in Seq(Transfers \X Places) /\ Len(seen) <= SeenCap /\ Len(seen) \in Nat
      /\ SeenCap \in Nat /\ SeenCap > 0 /\ evictions \in [Transfers -> Nat]
  BY DEF TypeOK, WatcherAssumption
<1>3. /\ marked \in Seq(Transfers \X Places) /\ Len(marked) = Len(seen) + 1
      /\ marked[Len(marked)] = Key(t)
      /\ \A i \in 1 .. Len(seen) : marked[i] = seen[i]
  BY <1>1, <1>2
<1>4. \A u \in Transfers : Key(u)' = Key(u)
  BY DEF Key
<1>7. evictions \in [Transfers -> Nat]
  BY <1>2
<1>8. Len(seen) \in Nat /\ Len(marked) = Len(seen) + 1
  BY <1>2, <1>3
<1>5. CASE Len(marked) > SeenCap
  <2>1. seen' = Tail(marked) /\ evictions' = [evictions EXCEPT ![marked[1][1]] = @ + 1]
    BY <1>5 DEF Mark
  <2>2. /\ Len(Tail(marked)) = Len(marked) - 1
        /\ Tail(marked) \in Seq(Transfers \X Places)
        /\ \A i \in 1 .. Len(marked) - 1 : Tail(marked)[i] = marked[i + 1]
    <3>1. marked # <<>>
      BY <1>2, <1>3
    <3> HIDE DEF marked
    <3> QED  BY <1>3, <3>1, HeadTailProperties
  <2>3. marked[1] \in Transfers \X Places
    <3> HIDE DEF marked
    <3>1. 1 \in 1 .. Len(marked)
      BY <1>2, <1>3
    <3> QED  BY <1>3, <3>1, ElementOfSeq
  <2>4. IsSeen(Key(t))'
    <3>1. Len(marked) - 1 \in 1 .. Len(Tail(marked))
      BY <1>2, <1>3, <1>5, <2>2
    <3>2. Tail(marked)[Len(marked) - 1] = Key(t)
      BY <1>2, <1>3, <2>2, <3>1
    <3> QED  BY <1>4, <2>1, <3>1, <3>2 DEF IsSeen
  <2>5. PICK o \in Transfers : o = marked[1][1]
    BY <2>3
  <2>6. /\ evictions' \in [Transfers -> Nat] /\ evictions'[o] = evictions[o] + 1
        /\ \A u \in Transfers \ {o} : evictions'[u] = evictions[u]
    <3>1. evictions' = [evictions EXCEPT ![o] = evictions[o] + 1]
      BY <2>1, <2>5
    <3>2. evictions[o] + 1 \in Nat
      BY <1>7
    <3> QED  BY <1>7, <3>1, <3>2
  <2>7. ASSUME NEW u \in Transfers \ {o}, IsSeen(Key(u))
        PROVE  IsSeen(Key(u))'
    <3>1. PICK i \in 1 .. Len(seen) : seen[i] = Key(u)
      BY <2>7 DEF IsSeen
    <3>2. marked[i] = Key(u)
      BY <1>3, <3>1
    <3>3. i # 1
      BY <2>5, <3>2 DEF Key
    <3>4. i - 1 \in 1 .. Len(marked) - 1 /\ i - 1 \in 1 .. Len(Tail(marked))
      <4>1. i \in Nat /\ i > 1 /\ i <= Len(seen)
        <5> HIDE DEF marked
        <5> QED  BY <1>8, <3>1, <3>3
      <4>2. i - 1 \in 1 .. Len(seen)
        <5> HIDE DEF marked
        <5> QED  BY <1>8, <4>1
      <4>3. Len(marked) - 1 = Len(seen) /\ Len(Tail(marked)) = Len(seen)
        <5> HIDE DEF marked
        <5> QED  BY <1>8, <2>2
      <4> QED  BY <4>2, <4>3
    <3>5. Tail(marked)[i - 1] = Key(u)
      <4>1. Tail(marked)[i - 1] = marked[(i - 1) + 1]
        BY <2>2, <3>4
      <4>2. (i - 1) + 1 = i
        BY <3>1
      <4> QED  BY <3>2, <4>1, <4>2
    <3> QED  BY <1>4, <2>1, <3>4, <3>5 DEF IsSeen
  <2>8. Len(seen') <= SeenCap
    BY <1>2, <1>3, <2>1, <2>2
  <2> QED  BY <2>1, <2>2, <2>4, <2>6, <2>7, <2>8
<1>6. CASE ~(Len(marked) > SeenCap)
  <2>1. seen' = marked /\ evictions' = evictions
    BY <1>6 DEF Mark
  <2>2. IsSeen(Key(t))'
    <3>1. Len(seen') \in 1 .. Len(seen') /\ seen'[Len(seen')] = Key(t)
      BY <1>2, <1>3, <2>1
    <3> QED  BY <1>4, <3>1 DEF IsSeen
  <2>3. ASSUME NEW u \in Transfers, IsSeen(Key(u))
        PROVE  IsSeen(Key(u))'
    <3>1. PICK i \in 1 .. Len(seen) : seen[i] = Key(u)
      BY <2>3 DEF IsSeen
    <3>2. i \in 1 .. Len(seen') /\ seen'[i] = Key(u)
      <4> HIDE DEF marked
      <4> QED  BY <1>3, <1>8, <2>1, <3>1
    <3> QED  BY <1>4, <3>2 DEF IsSeen
  <2>4. Len(marked) <= SeenCap
    BY <1>2, <1>3, <1>6
  <2> QED  BY <1>2, <1>3, <2>1, <2>2, <2>3, <2>4
<1> QED  BY <1>5, <1>6

\* One more or one fewer call waits for one log of t, and for no other.
LEMMA CallCounts ==
  ASSUME WatcherAssumption, TypeOK, NEW t \in Transfers, NEW at \in Logs, NEW n \in Nat,
         waiting' = [waiting EXCEPT ![t][at] = n], mined' = mined
  PROVE  /\ waiting' \in [Transfers -> [Logs -> Nat]]
         /\ InFlight(t)' = InFlight(t) - waiting[t][at] + n
         /\ \A u \in Transfers \ {t} : InFlight(u)' = InFlight(u) /\ Stale(u)' = Stale(u)
         /\ Stale(t)' = IF at = mined[t] THEN Stale(t) ELSE Stale(t) - waiting[t][at] + n
<1>1. waiting \in [Transfers -> [Logs -> Nat]]
  BY DEF TypeOK
<1>2. PICK f : f = waiting'[t]
  OBVIOUS
<1>3. /\ waiting' \in [Transfers -> [Logs -> Nat]] /\ f \in [Logs -> Nat]
      /\ f[at] = n /\ \A b \in Logs \ {at} : f[b] = waiting[t][b]
      /\ \A u \in Transfers \ {t} : waiting'[u] = waiting[u]
  BY <1>1, <1>2
<1>4. waiting[t] \in [Logs -> Nat] /\ IsFiniteSet(Logs)
  BY SumsTyped
<1>5. Total(f, Logs) = Total(waiting[t], Logs) - waiting[t][at] + f[at]
  BY <1>3, <1>4, TotalUpdate
<1>6. InFlight(t)' = Total(f, Logs)
  BY <1>2 DEF InFlight
<1>7. \A u \in Transfers \ {t} : InFlight(u)' = InFlight(u) /\ Stale(u)' = Stale(u)
  BY <1>3 DEF InFlight, Stale
<1>8. Stale(t)' = Total(f, Logs \ {mined[t]})
  BY <1>2 DEF Stale
<1>9. CASE at = mined[t]
  <2>1. \A b \in Logs \ {mined[t]} : f[b] = waiting[t][b]
    BY <1>3, <1>9
  <2>2. Total(f, Logs \ {mined[t]}) = Total(waiting[t], Logs \ {mined[t]})
    BY <2>1, TotalSame
  <2>3. QED
    BY <1>3, <1>5, <1>6, <1>7, <1>8, <1>9, <2>2 DEF InFlight, Stale
<1>10. CASE at # mined[t]
  <2> DEFINE rest == Logs \ {mined[t]}
             g == [b \in rest |-> waiting[t][b]]
             h == [b \in rest |-> f[b]]
  <2>1. /\ g \in [rest -> Nat] /\ h \in [rest -> Nat] /\ at \in rest
        /\ \A b \in rest \ {at} : h[b] = g[b]
    BY <1>3, <1>4, <1>10
  <2>2. IsFiniteSet(rest)
    BY <1>4, FS_RemoveElement
  <2>3. Total(h, rest) = Total(g, rest) - g[at] + h[at]
    <3> HIDE DEF rest, g, h
    <3> QED  BY <2>1, <2>2, TotalUpdate
  <2>4. Total(g, rest) = Total(waiting[t], rest)
    BY TotalSame
  <2>5. Total(h, rest) = Total(f, rest)
    BY TotalSame
  <2>6. g[at] = waiting[t][at] /\ h[at] = n
    BY <1>3, <2>1
  <2>7. Stale(t)' = Stale(t) - waiting[t][at] + n
    BY <1>8, <2>3, <2>4, <2>5, <2>6 DEF Stale
  <2>8. QED
    BY <1>3, <1>5, <1>6, <1>7, <1>10, <2>7 DEF InFlight
<1>11. QED
  BY <1>9, <1>10

-----------------------------------------------------------------------------
(* The invariant.                                                          *)

LEMMA WatcherInit ==
  ASSUME WatcherAssumption, Init
  PROVE  WatcherInv
<1>1. TypeOK
  <2>1. seen \in Seq(Transfers \X Places) /\ Len(seen) <= SeenCap
    BY DEF Init, WatcherAssumption
  <2>2. /\ head \in 0 .. MaxHeight /\ known = {} /\ givenUp = {} /\ up = FALSE
        /\ waiting \in [Transfers -> [Logs -> Nat]]
        /\ mined \in [Transfers -> {NotMined} \cup Positions(1, head)]
        /\ minings \in [Transfers -> Nat] /\ pledges \in [Transfers -> Nat]
        /\ evictions \in [Transfers -> Nat] /\ orphaned \in [Transfers -> Nat]
        /\ reorgs \in Nat /\ restarts \in Nat
    BY DEF Init, WatcherAssumption
  <2> QED  BY <2>1, <2>2 DEF TypeOK
<1>2. ASSUME NEW t \in Transfers
      PROVE  InFlight(t) = 0 /\ Stale(t) = 0 /\ Pending(t) = 0
  <2>1. waiting[t] = [at \in Logs |-> 0] /\ mined[t] = NotMined
    BY DEF Init
  <2>2. \A at \in Logs : waiting[t][at] = 0
    BY <2>1
  <2>3. Total(waiting[t], Logs) = 0 /\ Total(waiting[t], Logs \ {mined[t]}) = 0
    BY <2>2, TotalZero
  <2> QED  BY <2>1, <2>3 DEF InFlight, Stale, Pending
<1>3. OwedOnce
  BY <1>2 DEF OwedOnce, Init
<1>4. CoveredUnlessDeeper
  BY <1>2 DEF CoveredUnlessDeeper, Covered, Init
<1> QED  BY <1>1, <1>3, <1>4 DEF WatcherInv

\* Steps of the chain.
LEMMA ChainStep ==
  ASSUME WatcherAssumption, WatcherInv,
         Grow \/ \E base \in 0 .. MaxHeight : Reorg(base)
  PROVE  WatcherInv'
<1> USE DEF WatcherInv
<1>0. head \in 0 .. MaxHeight /\ MaxHeight \in Nat
  BY DEF TypeOK, WatcherAssumption
<1>1. PICK next :
        /\ UNCHANGED <<known, up, watcher, restarts>>
        /\ head' \in head .. MaxHeight /\ reorgs' \in {reorgs, reorgs + 1}
        /\ MineAs(next)
        /\ next \in [Transfers -> {NotMined} \cup Positions(1, head')]
        /\ ReorgDepth <= Confirmations =>
             \A t \in Transfers : Standing(t) => next[t] = mined[t]
  <2>1. CASE Grow
    BY <1>0, <2>1 DEF Grow, Standing
  <2>2. CASE \E base \in 0 .. MaxHeight : Reorg(base)
    <3>1. PICK base \in 0 .. MaxHeight : Reorg(base)
      BY <2>2
    <3>2. PICK next \in [Transfers -> {NotMined} \cup Positions(1, head)] :
            /\ \A t \in Transfers :
                 ~(mined[t] # NotMined /\ mined[t].block > base) => next[t] = mined[t]
            /\ MineAs(next)
      BY <3>1 DEF Reorg
    <3>3. ASSUME ReorgDepth <= Confirmations, NEW t \in Transfers, Standing(t)
          PROVE  next[t] = mined[t]
      <4>1. base >= head - ReorgDepth
        BY <3>1 DEF Reorg
      <4>2. ReorgDepth \in Nat /\ Confirmations \in Nat /\ mined[t].block \in Nat
        BY <3>3, MinedIsLog DEF WatcherAssumption, Standing
      <4>3. ~(mined[t].block > base)
        BY <1>0, <3>3, <4>1, <4>2 DEF Standing
      <4> QED  BY <3>2, <4>3
    <3>4. head' = head /\ reorgs' = reorgs + 1 /\ UNCHANGED <<known, up, watcher, restarts>>
      BY <3>1 DEF Reorg
    <3> QED  BY <1>0, <3>2, <3>3, <3>4
  <2> QED  BY <2>1, <2>2
<1>2. OwedOnce'
  BY <1>1, MiningOwes
<1>3. TypeOK'
  <2>1. minings' \in [Transfers -> Nat] /\ orphaned' \in [Transfers -> Nat] /\ mined' = next
    <3>1. mined' = next /\ minings' \in [Transfers -> Nat]
      <4>1. \A t \in Transfers : minings[t] + 1 \in Nat /\ minings[t] + 0 \in Nat
        BY DEF TypeOK
      <4> QED  BY <1>1, <4>1 DEF MineAs
    <3>2. ASSUME NEW t \in Transfers, mined[t] # NotMined
          PROVE  waiting[t][mined[t]] \in Nat
      BY <3>2, MinedIsLog, SumsTyped
    <3>3. orphaned' \in [Transfers -> Nat]
      BY <1>1, <3>2, SumsTyped DEF MineAs
    <3> QED  BY <3>1, <3>3
  <2>2. head' \in 0 .. MaxHeight /\ reorgs' \in Nat
    BY <1>1 DEF TypeOK, WatcherAssumption
  <2>3. /\ known' = known /\ up' = up /\ restarts' = restarts /\ seen' = seen
        /\ waiting' = waiting /\ pledges' = pledges /\ evictions' = evictions
        /\ givenUp' = givenUp
    BY <1>1 DEF watcher
  <2> QED  BY <1>1, <2>1, <2>2, <2>3 DEF TypeOK
<1>4. CoveredUnlessDeeper'
  <2>1. head' \in Nat /\ head' >= head /\ UNCHANGED watcher
    BY <1>0, <1>1
  <2>2. ASSUME ReorgDepth <= Confirmations, NEW t \in Transfers
        PROVE  Covered(t)'
    BY <1>1, <2>1, <2>2, MiningCovers DEF CoveredUnlessDeeper
  <2> QED  BY <2>2 DEF CoveredUnlessDeeper
<1> QED  BY <1>2, <1>3, <1>4

\* A delivery of any of the three sources.
LEMMA DeliveryStep ==
  ASSUME WatcherAssumption, WatcherInv, NEW t \in Transfers,
         mined[t] # NotMined, TakeUp(t), UNCHANGED <<chain, known, up, restarts>>
  PROVE  WatcherInv'
<1> USE DEF WatcherInv
<1>1. UNCHANGED <<head, mined, minings, orphaned, reorgs, known, up, restarts, pledges, givenUp>>
  BY DEF chain, TakeUp
<1>2. PICK at : at = mined[t]
  OBVIOUS
<1>3. at \in Logs /\ waiting[t][at] \in Nat
  BY <1>2, MinedIsLog, SumsTyped
<1>4. waiting' = [waiting EXCEPT ![t][at] = waiting[t][at] + 1]
  BY <1>2, <1>3 DEF TakeUp, Await, TypeOK
<1>5. /\ waiting' \in [Transfers -> [Logs -> Nat]]
      /\ InFlight(t)' = InFlight(t) - waiting[t][at] + (waiting[t][at] + 1)
      /\ \A u \in Transfers \ {t} : InFlight(u)' = InFlight(u) /\ Stale(u)' = Stale(u)
      /\ Stale(t)' = Stale(t)
  <2>1. mined' = mined
    BY <1>1
  <2>2. PICK n \in Nat : n = waiting[t][at] + 1
    BY <1>3
  <2>3. waiting' = [waiting EXCEPT ![t][at] = n]
    BY <1>4, <2>2
  <2>4. /\ waiting' \in [Transfers -> [Logs -> Nat]]
        /\ InFlight(t)' = InFlight(t) - waiting[t][at] + n
        /\ \A u \in Transfers \ {t} : InFlight(u)' = InFlight(u) /\ Stale(u)' = Stale(u)
        /\ Stale(t)' = IF at = mined[t] THEN Stale(t) ELSE Stale(t) - waiting[t][at] + n
    BY <1>3, <2>1, <2>3, CallCounts
  <2> QED  BY <1>2, <2>2, <2>4
<1>6. /\ IsSeen(Key(t))'
      /\ evictions' \in [Transfers -> Nat]
      /\ \A u \in Transfers : \/ evictions'[u] = evictions[u] + 1
                              \/ /\ evictions'[u] = evictions[u]
                                 /\ IsSeen(Key(u)) => IsSeen(Key(u))'
      /\ seen' \in Seq(Transfers \X Places) /\ Len(seen') <= SeenCap
  BY <1>1, MarkKeeps DEF TakeUp
<1>7. TypeOK'
  BY <1>1, <1>5, <1>6 DEF TypeOK
<1>8. OwedOnce'
  <2> SUFFICES ASSUME NEW u \in Transfers
               PROVE  (pledges[u] + InFlight(u) + Pending(u)
                        <= minings[u] + restarts + evictions[u])'
    BY DEF OwedOnce
  <2>1. pledges[u] + InFlight(u) + Pending(u) <= minings[u] + restarts + evictions[u]
    BY DEF OwedOnce
  <2>2. CASE u = t
    <3>1. Pending(u) = 1 /\ Pending(u)' = 0
      BY <1>6, <2>2 DEF Pending, TakeUp, New
    <3>2. InFlight(u)' = InFlight(u) + 1
      BY <1>3, <1>5, <2>2, SumsTyped
    <3>3. evictions'[u] \in Nat /\ evictions'[u] >= evictions[u]
      <4>1. evictions'[u] \in {evictions[u], evictions[u] + 1}
        BY <1>6
      <4> QED  BY <4>1, SumsTyped
    <3> QED  BY <1>1, <2>1, <3>1, <3>2, <3>3, SumsTyped
  <2>3. CASE u # t
    <3>1. InFlight(u)' = InFlight(u)
      BY <1>5, <2>3
    <3>2. Pending(u)' \in {0, 1}
      BY DEF Pending
    <3>3. evictions'[u] = evictions[u] + 1 \/ (evictions'[u] = evictions[u] /\ Pending(u)' <= Pending(u))
      BY <1>1, <1>6 DEF Pending
    <3> QED  BY <1>1, <2>1, <3>1, <3>2, <3>3, SumsTyped
  <2> QED  BY <2>2, <2>3
<1>9. CoveredUnlessDeeper'
  <2>1. \A u \in Transfers : Stale(u)' = Stale(u)
    BY <1>5
  <2>2. ASSUME NEW u \in Transfers, Covered(u)
        PROVE  Covered(u)'
    <3>1. Standing(u)' <=> Standing(u)
      BY <1>1 DEF Standing
    <3> QED  BY <1>1, <2>1, <2>2, <3>1 DEF Covered
  <2> QED  BY <2>2 DEF CoveredUnlessDeeper
<1> QED  BY <1>7, <1>8, <1>9

\* A call ends, with its event or without.
LEMMA CallEnds ==
  ASSUME WatcherAssumption, WatcherInv, NEW t \in Transfers, NEW at \in Logs,
         Emit(t, at) \/ GiveUp(t, at)
  PROVE  WatcherInv'
<1> USE DEF WatcherInv
<1>1. /\ UNCHANGED <<head, mined, minings, orphaned, reorgs, known, up, restarts, seen, evictions>>
      /\ Returns(t, at)
  BY DEF chain, Emit, GiveUp
<1>2. waiting[t][at] \in Nat /\ waiting[t][at] > 0
  BY <1>1, SumsTyped DEF Returns
<1>3. waiting[t][at] - 1 \in Nat
  BY <1>2
<1>4. waiting' = [waiting EXCEPT ![t][at] = waiting[t][at] - 1]
  BY <1>1 DEF Returns, TypeOK
<1>5. /\ waiting' \in [Transfers -> [Logs -> Nat]]
      /\ InFlight(t)' = InFlight(t) - waiting[t][at] + (waiting[t][at] - 1)
      /\ \A u \in Transfers \ {t} : InFlight(u)' = InFlight(u) /\ Stale(u)' = Stale(u)
      /\ Stale(t)' = IF at = mined[t] THEN Stale(t)
                     ELSE Stale(t) - waiting[t][at] + (waiting[t][at] - 1)
  <2>1. mined' = mined
    BY <1>1
  <2>2. PICK n \in Nat : n = waiting[t][at] - 1
    BY <1>3
  <2>3. waiting' = [waiting EXCEPT ![t][at] = n]
    BY <1>4, <2>2
  <2>4. /\ waiting' \in [Transfers -> [Logs -> Nat]]
        /\ InFlight(t)' = InFlight(t) - waiting[t][at] + n
        /\ \A u \in Transfers \ {t} : InFlight(u)' = InFlight(u) /\ Stale(u)' = Stale(u)
        /\ Stale(t)' = IF at = mined[t] THEN Stale(t) ELSE Stale(t) - waiting[t][at] + n
    BY <2>1, <2>3, CallCounts
  <2> QED  BY <2>2, <2>4
<1>6. /\ InFlight(t)' = InFlight(t) - 1
      /\ Stale(t)' = IF at = mined[t] THEN Stale(t) ELSE Stale(t) - 1
  BY <1>2, <1>5, SumsTyped
<1>7. /\ pledges' \in [Transfers -> Nat] /\ givenUp' \subseteq Transfers
      /\ \A u \in Transfers \ {t} : pledges'[u] = pledges[u]
      /\ \/ pledges'[t] = pledges[t]
         \/ pledges'[t] = pledges[t] + 1 /\ Confirmed(at)
  <2>1. pledges \in [Transfers -> Nat] /\ givenUp \subseteq Transfers
    BY DEF TypeOK
  <2>2. CASE Emit(t, at)
    BY <2>1, <2>2 DEF Emit
  <2>3. CASE GiveUp(t, at)
    BY <2>1, <2>3 DEF GiveUp
  <2> QED  BY <2>2, <2>3
<1>8. TypeOK'
  BY <1>1, <1>5, <1>7 DEF TypeOK
<1>9. OwedOnce'
  <2> SUFFICES ASSUME NEW u \in Transfers
               PROVE  (pledges[u] + InFlight(u) + Pending(u)
                        <= minings[u] + restarts + evictions[u])'
    BY DEF OwedOnce
  <2>1. Pending(u)' = Pending(u)
    BY <1>1 DEF Pending, IsSeen, Key
  <2>2. pledges'[u] + InFlight(u)' <= pledges[u] + InFlight(u)
    <3>1. CASE u = t
      <4>1. InFlight(t)' = InFlight(t) - 1 /\ pledges'[t] \in {pledges[t], pledges[t] + 1}
        BY <1>6, <1>7
      <4>2. pledges'[t] + InFlight(t)' <= pledges[t] + InFlight(t)
        BY <4>1, SumsTyped
      <4> QED  BY <3>1, <4>2
    <3>2. CASE u # t
      BY <1>5, <1>7, <3>2, SumsTyped
    <3> QED  BY <3>1, <3>2
  <2>3. pledges[u] + InFlight(u) + Pending(u) <= minings[u] + restarts + evictions[u]
    BY DEF OwedOnce
  <2>4. pledges'[u] \in Nat /\ InFlight(u)' \in Int
    <3>1. CASE u = t
      <4>1. InFlight(t)' \in Int /\ pledges'[t] \in Nat
        BY <1>6, <1>7, SumsTyped
      <4> QED  BY <3>1, <4>1
    <3>2. CASE u # t
      BY <1>5, <1>7, <3>2, SumsTyped
    <3> QED  BY <3>1, <3>2
  <2> QED  BY <1>1, <2>1, <2>2, <2>3, <2>4, SumsTyped
<1>10. CoveredUnlessDeeper'
  <2>1. ASSUME NEW u \in Transfers, Covered(u)
        PROVE  Covered(u)'
    <3>1. Standing(u)' <=> Standing(u)
      BY <1>1 DEF Standing
    <3>2. CASE Standing(u)
      BY <3>1, <3>2 DEF Covered
    <3>3. CASE ~Standing(u)
      <4>1. pledges[u] + Stale(u) <= orphaned[u]
        BY <2>1, <3>3 DEF Covered
      <4>2. pledges'[u] + Stale(u)' <= pledges[u] + Stale(u)
        <5>1. CASE u # t
          BY <1>5, <1>7, <5>1, SumsTyped
        <5>2. CASE u = t /\ at # mined[t]
          BY <1>6, <1>7, <5>2, SumsTyped
        <5>3. CASE u = t /\ at = mined[t]
          <6>1. mined[t] # NotMined /\ mined[t].block \in Nat
            BY <5>3, MinedIsLog
          <6>2. ~Confirmed(at)
            <7>1. head \in Nat /\ Confirmations \in Nat
              BY DEF TypeOK, WatcherAssumption
            <7> QED  BY <3>3, <5>3, <6>1, <7>1 DEF Standing, Confirmed
          <6> QED  BY <1>6, <1>7, <5>3, <6>2, SumsTyped
        <5> QED  BY <5>1, <5>2, <5>3
      <4>3. pledges'[u] + Stale(u)' <= orphaned'[u]
        <5>1. pledges'[u] \in Nat /\ Stale(u)' \in Int
          BY <1>5, <1>6, <1>7, SumsTyped
        <5> QED  BY <1>1, <4>1, <4>2, <5>1, SumsTyped
      <4> QED  BY <4>3 DEF Covered
    <3> QED  BY <3>2, <3>3
  <2> QED  BY <2>1 DEF CoveredUnlessDeeper
<1> QED  BY <1>8, <1>9, <1>10

\* The runtime ends: what it owes it may owe again.
LEMMA RestartStep ==
  ASSUME WatcherAssumption, WatcherInv, Restart
  PROVE  WatcherInv'
<1> USE DEF WatcherInv
<1>1. /\ UNCHANGED <<head, mined, minings, orphaned, reorgs, pledges, evictions>>
      /\ seen' = <<>> /\ restarts' = restarts + 1
      /\ waiting' = [t \in Transfers |-> [at \in Logs |-> 0]]
  BY DEF Restart, chain
<1>2. TypeOK'
  <2>1. /\ seen' \in Seq(Transfers \X Places) /\ Len(seen') <= SeenCap
        /\ restarts' \in Nat /\ known' = {} /\ givenUp' = {} /\ up' = FALSE
        /\ waiting' \in [Transfers -> [Logs -> Nat]]
    BY <1>1 DEF TypeOK, Restart, WatcherAssumption
  <2> QED  BY <1>1, <2>1 DEF TypeOK
<1>3. ASSUME NEW u \in Transfers
      PROVE  InFlight(u)' = 0 /\ Stale(u)' = 0
  <2>1. PICK f : f = waiting'[u]
    OBVIOUS
  <2>2. \A at \in Logs : f[at] = 0
    BY <1>1, <2>1
  <2>3. Total(f, Logs) = 0 /\ Total(f, Logs \ {mined[u]}) = 0
    BY <2>2, TotalZero
  <2> QED  BY <1>1, <2>1, <2>3 DEF InFlight, Stale
<1>4. OwedOnce'
  <2> SUFFICES ASSUME NEW u \in Transfers
               PROVE  (pledges[u] + InFlight(u) + Pending(u)
                        <= minings[u] + restarts + evictions[u])'
    BY DEF OwedOnce
  <2>1. Pending(u)' \in {0, 1}
    BY DEF Pending
  <2>2. pledges[u] + InFlight(u) + Pending(u) <= minings[u] + restarts + evictions[u]
    BY DEF OwedOnce
  <2>3. /\ pledges'[u] = pledges[u] /\ minings'[u] = minings[u]
        /\ restarts' = restarts + 1 /\ evictions'[u] = evictions[u]
    BY <1>1
  <2> QED  BY <1>3, <2>1, <2>2, <2>3, SumsTyped
<1>5. CoveredUnlessDeeper'
  <2>1. ASSUME NEW u \in Transfers, Covered(u)
        PROVE  Covered(u)'
    <3>1. Standing(u)' <=> Standing(u)
      BY <1>1 DEF Standing
    <3>2. Stale(u)' <= Stale(u) /\ Stale(u)' \in Nat
      BY <1>3, SumsTyped
    <3>3. pledges[u] + Stale(u) <= orphaned[u] => pledges[u] + Stale(u)' <= orphaned[u]
      BY <3>2, SumsTyped
    <3> QED  BY <1>1, <2>1, <3>1, <3>3 DEF Covered
  <2> QED  BY <2>1 DEF CoveredUnlessDeeper
<1> QED  BY <1>2, <1>4, <1>5

\* Steps that touch none of the counts.
LEMMA IdleStep ==
  ASSUME WatcherAssumption, WatcherInv,
         UNCHANGED <<chain, watcher, restarts>>, known' \subseteq Transfers, up' \in BOOLEAN
  PROVE  WatcherInv'
<1>1. /\ UNCHANGED <<head, mined, minings, orphaned, reorgs, restarts>>
      /\ UNCHANGED <<seen, waiting, pledges, evictions, givenUp>>
  BY DEF chain, watcher
<1>2. TypeOK'
  BY <1>1 DEF WatcherInv, TypeOK
<1>3. \A t \in Transfers : InFlight(t)' = InFlight(t) /\ Stale(t)' = Stale(t)
  BY <1>1 DEF InFlight, Stale
<1>4. OwedOnce'
  BY <1>1, <1>3 DEF WatcherInv, OwedOnce, Pending, IsSeen, Key
<1>5. CoveredUnlessDeeper'
  BY <1>1, <1>3 DEF WatcherInv, CoveredUnlessDeeper, Covered, Standing
<1> QED  BY <1>2, <1>4, <1>5 DEF WatcherInv

\* The watcher's invariant, over every chain, failure and restart.
THEOREM WatcherInvariance == Spec => []WatcherInv
<1>1. Init => WatcherInv
  BY WatcherInit, WatcherAssumption
<1>2. WatcherInv /\ [Next]_vars => WatcherInv'
  <2> SUFFICES ASSUME WatcherInv, [Next]_vars PROVE WatcherInv'
    OBVIOUS
  <2>1. CASE Grow \/ \E base \in 0 .. MaxHeight : Reorg(base)
    BY <2>1, ChainStep, WatcherAssumption
  <2>2. ASSUME NEW t \in Transfers, Live(t) \/ Sweep(t) \/ Replay(t)
        PROVE  WatcherInv'
    BY <2>2, DeliveryStep, WatcherAssumption DEF Live, Sweep, Replay
  <2>3. ASSUME NEW t \in Transfers, NEW at \in Logs, Emit(t, at) \/ GiveUp(t, at)
        PROVE  WatcherInv'
    BY <2>3, CallEnds, WatcherAssumption
  <2>4. CASE Restart
    BY <2>4, RestartStep, WatcherAssumption
  <2>5. ASSUME NEW t \in Transfers, RefreshMarkets(t)
        PROVE  WatcherInv'
    <3>1. known' \subseteq Transfers /\ up' \in BOOLEAN
      BY <2>5 DEF RefreshMarkets, WatcherInv, TypeOK, WatcherAssumption
    <3> QED  BY <2>5, <3>1, IdleStep, WatcherAssumption DEF RefreshMarkets
  <2>6. CASE Start
    <3>1. known' \subseteq Transfers /\ up' \in BOOLEAN
      BY <2>6 DEF Start, WatcherInv, TypeOK
    <3> QED  BY <2>6, <3>1, IdleStep, WatcherAssumption DEF Start, watcher
  <2>7. CASE UNCHANGED vars
    <3>1. known' \subseteq Transfers /\ up' \in BOOLEAN
      BY <2>7 DEF vars, WatcherInv, TypeOK
    <3> QED  BY <2>7, <3>1, IdleStep, WatcherAssumption DEF vars
  <2> QED  BY <2>1, <2>2, <2>3, <2>4, <2>5, <2>6, <2>7 DEF Next
<1> QED  BY <1>1, <1>2, PTL DEF Spec

-----------------------------------------------------------------------------
\* The watcher's state keeps its types, and `seen` its bound.
THEOREM WatcherTypeCorrect == Spec => []TypeOK
<1>1. WatcherInv => TypeOK
  BY DEF WatcherInv
<1> QED  BY <1>1, WatcherInvariance, PTL

\* However many calls race, a transfer is pledged once per mining, restart and
\* eviction of its own key, every call that waits counted as an event to come.
THEOREM PledgedOnceHolds == Spec => []PledgedOnce
<1>1. WatcherInv => PledgedOnce
  <2> SUFFICES ASSUME WatcherInv, NEW t \in Transfers
               PROVE  pledges[t] + InFlight(t) <= minings[t] + restarts + evictions[t]
    BY DEF PledgedOnce
  <2>1. pledges[t] + InFlight(t) + Pending(t) <= minings[t] + restarts + evictions[t]
    BY DEF WatcherInv, OwedOnce
  <2> QED  BY <2>1, SumsTyped, WatcherAssumption DEF WatcherInv
<1> QED  BY <1>1, WatcherInvariance, PTL

\* Through every reorganisation no deeper than the confirmations, a pledge is
\* backed by a transfer on the chain, or owed to a call whose log was replaced
\* while it waited: one such call owes one pledge.
THEOREM BackedHolds == Spec => []PledgesAreBacked
<1>1. WatcherInv => PledgesAreBacked
  <2> SUFFICES ASSUME WatcherInv, ReorgDepth <= Confirmations, NEW t \in Transfers,
                      pledges[t] > orphaned[t]
               PROVE  mined[t] # NotMined
    BY DEF PledgesAreBacked
  <2>1. Covered(t)
    BY DEF WatcherInv, CoveredUnlessDeeper
  <2>2. ~(pledges[t] + Stale(t) <= orphaned[t])
    BY SumsTyped, WatcherAssumption DEF WatcherInv
  <2> QED  BY <2>1, <2>2 DEF Covered, Standing
<1> QED  BY <1>1, WatcherInvariance, PTL

-----------------------------------------------------------------------------
(* Paid services.  A call has sent its transaction in some steps only, in  *)
(* which it carries the authorization the transaction names; an inflow     *)
(* event cites the transaction of a call that passed the hook.             *)

Steps == InHook \cup Answers \cup {"idle", "challenged"}
Unsent == {"idle", "challenged", "presented", "verified", "unpaid", "rejected"}
Paying == {"presented", "verified", "settling", "settled"}
Through == {"handling", "served"}
Passed == Through \cup {"failed"}

SentOnce == \A i, j \in DOMAIN txs : txs[i].call = txs[j].call => i = j

SentOnPayment ==
  /\ \A c \in Calls : step[c] \in Paying => header[c] \in Auths
  /\ \A i \in DOMAIN txs : step[txs[i].call] \notin Unsent /\ header[txs[i].call] \in Auths
  /\ \A c \in Calls : step[c] = "settled" => TxsOf(c) # {}

SentIsAnswered ==
  \A i \in DOMAIN txs :
    \/ step[txs[i].call] \in {"settling", "settled"} \cup Through
    \/ txs[i].call \in mishaps

LoggedOnce ==
  /\ \A k \in DOMAIN inflows : step[txs[inflows[k]].call] \in Passed
  /\ \A k, m \in DOMAIN inflows : inflows[k] = inflows[m] => k = m
  /\ \A i \in DOMAIN txs :
       step[txs[i].call] \in Through /\ txs[i].call \notin unlogged
         => \E k \in DOMAIN inflows : inflows[k] = i

PaidInv ==
  /\ PaidTypeOK
  /\ SentOnce
  /\ SentOnPayment
  /\ SentIsAnswered
  /\ LoggedOnce

\* The transactions and the events are sequences of what they should be.
LEMMA TxsTyped ==
  ASSUME PaidTypeOK
  PROVE  /\ Len(txs) \in Nat /\ DOMAIN txs = 1 .. Len(txs)
         /\ \A i \in DOMAIN txs :
              txs[i].call \in Calls /\ txs[i].state \in {"pending", "ok", "reverted"}
         /\ Len(inflows) \in Nat /\ DOMAIN inflows = 1 .. Len(inflows)
         /\ \A k \in DOMAIN inflows : inflows[k] \in DOMAIN txs
<1>1. /\ txs \in Seq([call : Calls, state : {"pending", "ok", "reverted"}])
      /\ inflows \in Seq(DOMAIN txs)
  BY DEF PaidTypeOK
<1>2. /\ Len(txs) \in Nat /\ DOMAIN txs = 1 .. Len(txs)
      /\ \A i \in DOMAIN txs : txs[i] \in [call : Calls, state : {"pending", "ok", "reverted"}]
  <2>1. PICK T : T = [call : Calls, state : {"pending", "ok", "reverted"}]
    OBVIOUS
  <2>2. txs \in Seq(T)
    BY <1>1, <2>1
  <2>3. /\ Len(txs) \in Nat /\ DOMAIN txs = 1 .. Len(txs)
        /\ \A i \in DOMAIN txs : txs[i] \in T
    BY <2>2, LenProperties, ElementOfSeq
  <2>4. QED
    BY <2>1, <2>3
<1>3. /\ Len(inflows) \in Nat /\ DOMAIN inflows = 1 .. Len(inflows)
      /\ \A k \in DOMAIN inflows : inflows[k] \in DOMAIN txs
  BY <1>1, LenProperties, ElementOfSeq
<1>4. QED
  BY <1>2, <1>3

LEMMA OneTx == SentOnce => OneTxPerCall
<1> SUFFICES ASSUME SentOnce, NEW c \in Calls PROVE Cardinality(TxsOf(c)) <= 1
  BY DEF OneTxPerCall
<1>1. CASE TxsOf(c) = {}
  BY <1>1, FS_EmptySet
<1>2. ASSUME NEW i \in TxsOf(c) PROVE Cardinality(TxsOf(c)) <= 1
  <2>1. TxsOf(c) = {i}
    <3>1. ASSUME NEW j \in TxsOf(c) PROVE j = i
      BY <1>2 DEF TxsOf, SentOnce
    <3>2. QED
      BY <1>2, <3>1
  <2>2. Cardinality(TxsOf(c)) = 1
    BY <2>1, FS_Singleton
  <2>3. QED
    BY <2>2
<1>3. QED
  BY <1>1, <1>2

LEMMA PaidInitial == PaidInit => PaidInv
<1> SUFFICES ASSUME PaidInit PROVE PaidInv
  OBVIOUS
<1>1. DOMAIN txs = {} /\ DOMAIN inflows = {}
  BY DEF PaidInit
<1>2. SentOnce /\ SentIsAnswered /\ LoggedOnce
  BY <1>1 DEF SentOnce, SentIsAnswered, LoggedOnce
<1>3. SentOnPayment
  BY <1>1 DEF PaidInit, SentOnPayment, Paying
<1>4. /\ txs \in Seq([call : Calls, state : {"pending", "ok", "reverted"}])
      /\ inflows \in Seq(DOMAIN txs)
  BY DEF PaidInit
<1>5. kills \in 0 .. MaxKills
  BY PaidAssumption DEF PaidInit
<1>6. PaidTypeOK
  BY <1>2, <1>4, <1>5, OneTx DEF PaidInit, PaidTypeOK
<1>7. QED
  BY <1>2, <1>3, <1>6 DEF PaidInv

\* A call moves to step s and nothing is sent, mined or logged.
LEMMA CallMoves ==
  ASSUME PaidInv, NEW c \in Calls, NEW s \in Steps, Becomes(c, s),
         UNCHANGED <<header, Chain, inflows, unlogged, kills>>,
         mishaps \subseteq mishaps', mishaps' \subseteq Calls,
         s \in Paying => header[c] \in Auths,
         s = "settled" => TxsOf(c) # {},
         TxsOf(c) # {} => /\ s \notin Unsent
                          /\ s \in {"settling", "settled"} \cup Through \/ c \in mishaps'
                          /\ step[c] \in Passed => s \in Passed
                          /\ s \in Through => step[c] \in Through
  PROVE  PaidInv'
<1>1. /\ PaidTypeOK /\ txs' = txs /\ inflows' = inflows /\ header' = header
      /\ voided' = voided /\ used' = used /\ unlogged' = unlogged /\ kills' = kills
  BY DEF PaidInv, Chain
<1>2. step \in [Calls -> Steps] /\ step' = [step EXCEPT ![c] = s]
  BY <1>1 DEF PaidTypeOK, Becomes, Steps
<1>3. /\ step' \in [Calls -> Steps] /\ step'[c] = s
      /\ \A d \in Calls \ {c} : step'[d] = step[d]
  BY <1>2
<1>4. \A d \in Calls : TxsOf(d)' = TxsOf(d)
  BY <1>1 DEF TxsOf
<1>5. \A i \in DOMAIN txs : txs[i].call \in Calls /\ i \in TxsOf(txs[i].call)
  BY <1>1, TxsTyped DEF TxsOf
<1>6. \A k \in DOMAIN inflows : inflows[k] \in DOMAIN txs
  BY <1>1, TxsTyped
<1>7. SentOnce'
  BY <1>1 DEF PaidInv, SentOnce
<1>8. SentOnPayment'
  BY <1>1, <1>3, <1>4, <1>5 DEF PaidInv, SentOnPayment
<1>9. SentIsAnswered'
  BY <1>1, <1>3, <1>5 DEF PaidInv, SentIsAnswered
<1>10. LoggedOnce'
  <2>1. \A k \in DOMAIN inflows : step'[txs[inflows[k]].call] \in Passed
    BY <1>3, <1>5, <1>6 DEF PaidInv, LoggedOnce
  <2>2. \A k, m \in DOMAIN inflows : inflows[k] = inflows[m] => k = m
    BY DEF PaidInv, LoggedOnce
  <2>3. \A i \in DOMAIN txs : step'[txs[i].call] \in Through => step[txs[i].call] \in Through
    BY <1>3, <1>5
  <2>4. \A i \in DOMAIN txs :
          step'[txs[i].call] \in Through /\ txs[i].call \notin unlogged
            => \E k \in DOMAIN inflows : inflows[k] = i
    BY <2>3 DEF PaidInv, LoggedOnce
  <2>5. QED
    BY <1>1, <2>1, <2>2, <2>4 DEF LoggedOnce
<1>11. PaidTypeOK'
  <2>1. OneTxPerCall'
    BY <1>7, OneTx, PTL
  <2>2. QED
    BY <1>1, <1>3, <2>1 DEF PaidTypeOK, Steps
<1>12. QED
  BY <1>7, <1>8, <1>9, <1>10, <1>11 DEF PaidInv

\* Another transaction at the end of the relayer's.
LEMMA TxsExtended ==
  ASSUME PaidTypeOK, NEW c \in Calls, Broadcast(c)
  PROVE  /\ DOMAIN txs' = DOMAIN txs \cup {Len(txs) + 1}
         /\ Len(txs) + 1 \notin DOMAIN txs
         /\ \A i \in DOMAIN txs : txs'[i] = txs[i]
         /\ txs'[Len(txs) + 1].call = c
         /\ txs' \in Seq([call : Calls, state : {"pending", "ok", "reverted"}])
         /\ inflows \in Seq(DOMAIN txs')
<1>1. PICK T : T = [call : Calls, state : {"pending", "ok", "reverted"}]
  OBVIOUS
<1>2. PICK tx \in T : tx = [call |-> c, state |-> "pending"]
  BY <1>1
<1>3. txs \in Seq(T) /\ txs' = Append(txs, tx)
  BY <1>1, <1>2 DEF PaidTypeOK, Broadcast
<1>4. /\ txs' \in Seq(T) /\ Len(txs') = Len(txs) + 1
      /\ \A i \in 1 .. Len(txs) : txs'[i] = txs[i]
      /\ txs'[Len(txs) + 1] = tx
  BY <1>3, AppendProperties
<1>5. Len(txs) \in Nat /\ DOMAIN txs = 1 .. Len(txs) /\ DOMAIN txs' = 1 .. Len(txs')
  BY <1>3, <1>4, LenProperties
<1>6. DOMAIN txs' = DOMAIN txs \cup {Len(txs) + 1} /\ Len(txs) + 1 \notin DOMAIN txs
  BY <1>4, <1>5
<1>7. inflows \in Seq(DOMAIN txs')
  <2>1. inflows \in Seq(DOMAIN txs) /\ DOMAIN txs \subseteq DOMAIN txs'
    BY <1>6 DEF PaidTypeOK
  <2>2. QED
    BY <2>1
<1>8. QED
  BY <1>1, <1>2, <1>4, <1>5, <1>6, <1>7

LEMMA SubmitStep ==
  ASSUME PaidInv, NEW c \in Calls, Submit(c)
  PROVE  PaidInv'
<1>1. /\ PaidTypeOK /\ step[c] = "verified" /\ step' = [step EXCEPT ![c] = "settling"]
      /\ inflows' = inflows /\ header' = header /\ mishaps' = mishaps
      /\ voided' = voided /\ used' = used /\ unlogged' = unlogged /\ kills' = kills
  BY DEF PaidInv, Submit, Becomes, Ghosts
<1>2. PICK n : n = Len(txs) + 1
  OBVIOUS
<1>3. /\ DOMAIN txs' = DOMAIN txs \cup {n} /\ n \notin DOMAIN txs
      /\ \A i \in DOMAIN txs : txs'[i] = txs[i]
      /\ txs'[n].call = c
      /\ txs' \in Seq([call : Calls, state : {"pending", "ok", "reverted"}])
      /\ inflows \in Seq(DOMAIN txs')
  BY <1>1, <1>2, TxsExtended DEF Submit
<1>4. /\ step \in [Calls -> Steps] /\ step' \in [Calls -> Steps] /\ step'[c] = "settling"
      /\ \A d \in Calls \ {c} : step'[d] = step[d]
  BY <1>1 DEF PaidTypeOK, Steps, InHook
<1>5. \A i \in DOMAIN txs : txs[i].call \in Calls \ {c}
  BY <1>1, TxsTyped DEF PaidInv, SentOnPayment, Unsent
<1>6. \A k \in DOMAIN inflows : inflows[k] \in DOMAIN txs
  BY <1>1, TxsTyped
<1>7. SentOnce'
  BY <1>3, <1>5 DEF PaidInv, SentOnce
<1>8. SentOnPayment'
  <2>1. header[c] \in Auths
    BY <1>1 DEF PaidInv, SentOnPayment, Paying
  <2>2. \A d \in Calls : step'[d] \in Paying => header'[d] \in Auths
    BY <1>1, <1>4, <2>1 DEF PaidInv, SentOnPayment
  <2>3. \A i \in DOMAIN txs' :
          step'[txs'[i].call] \notin Unsent /\ header'[txs'[i].call] \in Auths
    BY <1>1, <1>3, <1>4, <1>5, <2>1 DEF PaidInv, SentOnPayment, Unsent
  <2>4. \A d \in Calls : TxsOf(d) \subseteq TxsOf(d)'
    BY <1>3 DEF TxsOf
  <2>5. \A d \in Calls : step'[d] = "settled" => TxsOf(d)' # {}
    BY <1>4, <2>4 DEF PaidInv, SentOnPayment
  <2>6. QED
    BY <2>2, <2>3, <2>5 DEF SentOnPayment
<1>9. SentIsAnswered'
  BY <1>1, <1>3, <1>4, <1>5 DEF PaidInv, SentIsAnswered
<1>10. LoggedOnce'
  <2>1. \A k \in DOMAIN inflows' : step'[txs'[inflows'[k]].call] \in Passed
    BY <1>1, <1>3, <1>4, <1>5, <1>6 DEF PaidInv, LoggedOnce
  <2>2. \A k, m \in DOMAIN inflows' : inflows'[k] = inflows'[m] => k = m
    BY <1>1 DEF PaidInv, LoggedOnce
  <2>3. \A i \in DOMAIN txs' :
          step'[txs'[i].call] \in Through /\ txs'[i].call \notin unlogged'
            => \E k \in DOMAIN inflows' : inflows'[k] = i
    BY <1>1, <1>3, <1>4, <1>5 DEF PaidInv, LoggedOnce, Through
  <2>4. QED
    BY <2>1, <2>2, <2>3 DEF LoggedOnce
<1>11. PaidTypeOK'
  <2>1. OneTxPerCall'
    BY <1>7, OneTx, PTL
  <2>2. QED
    BY <1>1, <1>3, <1>4, <2>1 DEF PaidTypeOK, Steps
<1>12. QED
  BY <1>7, <1>8, <1>9, <1>10, <1>11 DEF PaidInv

\* A receipt changes the state of a transaction, not whose it is.
LEMMA MineStep ==
  ASSUME PaidInv, Mine
  PROVE  PaidInv'
<1>1. PICK i \in DOMAIN txs :
        /\ txs' = [txs EXCEPT ![i].state =
                     IF Spendable(header[txs[i].call]) THEN "ok" ELSE "reverted"]
        /\ used' = IF Spendable(header[txs[i].call]) THEN used \cup {header[txs[i].call]} ELSE used
        /\ UNCHANGED <<step, header, voided, inflows, Ghosts>>
  BY DEF Mine
<1>2. /\ PaidTypeOK /\ step' = step /\ header' = header /\ voided' = voided
      /\ inflows' = inflows /\ mishaps' = mishaps /\ unlogged' = unlogged /\ kills' = kills
  BY <1>1 DEF PaidInv, Ghosts
<1>3. PICK T : T = [call : Calls, state : {"pending", "ok", "reverted"}]
  OBVIOUS
<1>4. PICK tx : tx = [txs[i] EXCEPT !.state =
                        IF Spendable(header[txs[i].call]) THEN "ok" ELSE "reverted"]
  OBVIOUS
<1>5. txs \in Seq(T) /\ txs[i] \in T
  <2>1. txs \in Seq(T)
    BY <1>2, <1>3 DEF PaidTypeOK
  <2>2. QED
    BY <2>1, ElementOfSeq, LenProperties
<1>6. tx \in T /\ tx.call = txs[i].call
  BY <1>3, <1>4, <1>5
<1>7. txs' = [txs EXCEPT ![i] = tx]
  BY <1>1, <1>4
<1>8. /\ txs' \in Seq(T) /\ DOMAIN txs' = DOMAIN txs
      /\ \A j \in DOMAIN txs : txs'[j].call = txs[j].call
  <2>1. txs' \in Seq(T) /\ Len(txs') = Len(txs)
    BY <1>5, <1>6, <1>7, ExceptSeq
  <2>2. DOMAIN txs' = DOMAIN txs /\ \A j \in DOMAIN txs : txs'[j] = IF j = i THEN tx ELSE txs[j]
    BY <1>7
  <2>3. QED
    BY <1>6, <2>1, <2>2
<1>9. \A k \in DOMAIN inflows : inflows[k] \in DOMAIN txs
  BY <1>2, TxsTyped
<1>10. \A d \in Calls : TxsOf(d)' = TxsOf(d)
  BY <1>8 DEF TxsOf
<1>11. SentOnce' /\ SentIsAnswered'
  BY <1>2, <1>8 DEF PaidInv, SentOnce, SentIsAnswered
<1>12. SentOnPayment'
  BY <1>2, <1>8, <1>10 DEF PaidInv, SentOnPayment
<1>13. LoggedOnce'
  BY <1>2, <1>8, <1>9 DEF PaidInv, LoggedOnce
<1>14. PaidTypeOK'
  <2>1. OneTxPerCall'
    BY <1>11, OneTx, PTL
  <2>2. used' \subseteq Auths
    BY <1>1, <1>2 DEF PaidInv, SentOnPayment, PaidTypeOK
  <2>3. inflows' \in Seq(DOMAIN txs')
    BY <1>2, <1>8 DEF PaidTypeOK
  <2>4. QED
    BY <1>2, <1>3, <1>8, <2>1, <2>2, <2>3 DEF PaidTypeOK
<1>15. QED
  BY <1>11, <1>12, <1>13, <1>14 DEF PaidInv

\* What was sent by the call that logs is one transaction, and no event cites it.
LEMMA LogStep ==
  ASSUME PaidInv, NEW c \in Calls, Log(c)
  PROVE  PaidInv'
<1>1. /\ PaidTypeOK /\ step[c] = "settled" /\ step' = [step EXCEPT ![c] = "handling"]
      /\ header' = header /\ txs' = txs /\ voided' = voided /\ used' = used
      /\ mishaps' = mishaps /\ kills' = kills
  BY DEF PaidInv, Log, Becomes, Chain
<1>2. /\ step \in [Calls -> Steps] /\ step' \in [Calls -> Steps] /\ step'[c] = "handling"
      /\ \A d \in Calls \ {c} : step'[d] = step[d]
  BY <1>1 DEF PaidTypeOK, Steps, InHook
<1>3. PICK i \in TxsOf(c) : i = CHOOSE j \in TxsOf(c) : TRUE
  <2>1. TxsOf(c) # {}
    BY <1>1 DEF PaidInv, SentOnPayment
  <2>2. QED
    BY <2>1
<1>4. i \in DOMAIN txs /\ txs[i].call = c /\ \A j \in DOMAIN txs : txs[j].call = c => j = i
  BY <1>3 DEF TxsOf, PaidInv, SentOnce
<1>5. /\ \A j \in DOMAIN txs : txs[j].call \in Calls
      /\ Len(inflows) \in Nat /\ DOMAIN inflows = 1 .. Len(inflows)
      /\ \A k \in DOMAIN inflows : inflows[k] \in DOMAIN txs
  BY <1>1, TxsTyped
<1>6. \A k \in DOMAIN inflows : inflows[k] # i
  BY <1>1, <1>4 DEF PaidInv, LoggedOnce, Passed, Through
<1>7. SentOnce' /\ SentIsAnswered'
  <2>1. SentOnce'
    BY <1>1 DEF PaidInv, SentOnce
  <2>2. SentIsAnswered'
    BY <1>1, <1>2, <1>5 DEF PaidInv, SentIsAnswered, Through
  <2>3. QED
    BY <2>1, <2>2
<1>8. SentOnPayment'
  <2>1. \A d \in Calls : TxsOf(d)' = TxsOf(d)
    BY <1>1 DEF TxsOf
  <2>2. QED
    BY <1>1, <1>2, <1>5, <2>1 DEF PaidInv, SentOnPayment, Paying, Unsent
<1>9. CASE inflows' = Append(inflows, i) /\ unlogged' = unlogged
  <2>1. inflows \in Seq(DOMAIN txs) /\ i \in DOMAIN txs
    BY <1>1, <1>4 DEF PaidTypeOK
  <2>2. /\ inflows' \in Seq(DOMAIN txs) /\ Len(inflows') = Len(inflows) + 1
        /\ \A k \in 1 .. Len(inflows) : inflows'[k] = inflows[k]
        /\ inflows'[Len(inflows) + 1] = i
    BY <1>9, <2>1, AppendProperties
  <2>3. PICK n : n = Len(inflows) + 1
    OBVIOUS
  <2>4. /\ DOMAIN inflows' = DOMAIN inflows \cup {n} /\ n \notin DOMAIN inflows
        /\ \A k \in DOMAIN inflows : inflows'[k] = inflows[k]
        /\ inflows'[n] = i
    <3>1. DOMAIN inflows' = 1 .. Len(inflows')
      BY <2>2, LenProperties
    <3>2. QED
      BY <1>5, <2>2, <2>3, <3>1
  <2>5. \A k \in DOMAIN inflows' : step'[txs'[inflows'[k]].call] \in Passed
    <3>1. \A k \in DOMAIN inflows : txs[inflows[k]].call \in Calls \ {c}
      BY <1>4, <1>5, <1>6
    <3>2. QED
      BY <1>1, <1>2, <1>4, <2>4, <3>1 DEF PaidInv, LoggedOnce, Passed, Through
  <2>6. \A k, m \in DOMAIN inflows' : inflows'[k] = inflows'[m] => k = m
    BY <1>6, <2>4 DEF PaidInv, LoggedOnce
  <2>7. ASSUME NEW j \in DOMAIN txs', step'[txs'[j].call] \in Through, txs'[j].call \notin unlogged'
        PROVE  \E k \in DOMAIN inflows' : inflows'[k] = j
    <3>1. CASE j = i
      BY <2>4, <3>1
    <3>2. CASE j # i
      <4>1. txs[j].call \in Calls \ {c} /\ j \in DOMAIN txs /\ txs' = txs
        BY <1>1, <1>4, <1>5, <2>7, <3>2
      <4>2. \E k \in DOMAIN inflows : inflows[k] = j
        BY <1>2, <1>9, <2>7, <4>1 DEF PaidInv, LoggedOnce
      <4>3. QED
        BY <2>4, <4>2
    <3>3. QED
      BY <3>1, <3>2
  <2>8. LoggedOnce'
    BY <2>5, <2>6, <2>7 DEF LoggedOnce
  <2>9. PaidTypeOK'
    <3>1. OneTxPerCall'
      BY <1>7, OneTx, PTL
    <3>2. inflows' \in Seq(DOMAIN txs')
      BY <1>1, <2>2
    <3>3. QED
      BY <1>1, <1>2, <1>9, <3>1, <3>2 DEF PaidTypeOK, Steps
  <2>10. QED
    BY <1>7, <1>8, <2>8, <2>9 DEF PaidInv
<1>10. CASE inflows' = inflows /\ unlogged' = unlogged \cup {c}
  <2>1. \A k \in DOMAIN inflows : step'[txs[inflows[k]].call] \in Passed
    BY <1>2, <1>5 DEF PaidInv, LoggedOnce, Passed, Through
  <2>2. \A k, m \in DOMAIN inflows : inflows[k] = inflows[m] => k = m
    BY DEF PaidInv, LoggedOnce
  <2>3. \A j \in DOMAIN txs :
          step'[txs[j].call] \in Through /\ txs[j].call \notin unlogged'
            => \E k \in DOMAIN inflows : inflows[k] = j
    BY <1>2, <1>5, <1>10 DEF PaidInv, LoggedOnce
  <2>4. LoggedOnce'
    BY <1>1, <1>10, <2>1, <2>2, <2>3 DEF LoggedOnce
  <2>5. PaidTypeOK'
    <3>1. OneTxPerCall'
      BY <1>7, OneTx, PTL
    <3>2. QED
      BY <1>1, <1>2, <1>10, <3>1 DEF PaidTypeOK, Steps
  <2>6. QED
    BY <1>7, <1>8, <2>4, <2>5 DEF PaidInv
<1>11. QED
  BY <1>3, <1>9, <1>10 DEF Log

\* The server dies: every call in it fails, those that sent included.
LEMMA KillStep ==
  ASSUME PaidInv, Kill
  PROVE  PaidInv'
<1>1. /\ PaidTypeOK /\ header' = header /\ txs' = txs /\ voided' = voided /\ used' = used
      /\ inflows' = inflows /\ unlogged' = unlogged
      /\ step' = [c \in Calls |-> IF step[c] \in InHook THEN "failed" ELSE step[c]]
      /\ mishaps' = mishaps \cup {c \in Calls : step[c] \in InHook}
      /\ kills' = kills + 1 /\ kills < MaxKills
  BY DEF PaidInv, Kill, Chain
<1>2. step \in [Calls -> Steps]
  BY <1>1 DEF PaidTypeOK, Steps
<1>3. /\ step' \in [Calls -> Steps]
      /\ \A c \in Calls : \/ step'[c] = step[c] /\ step[c] \notin InHook
                          \/ step'[c] = "failed" /\ step[c] \in InHook
  BY <1>1, <1>2 DEF Steps, Answers
<1>4. /\ \A i \in DOMAIN txs : txs[i].call \in Calls
      /\ \A k \in DOMAIN inflows : inflows[k] \in DOMAIN txs
  BY <1>1, TxsTyped
<1>5. SentOnce'
  BY <1>1 DEF PaidInv, SentOnce
<1>6. SentOnPayment'
  <2>1. \A c \in Calls : TxsOf(c)' = TxsOf(c)
    BY <1>1 DEF TxsOf
  <2>2. QED
    BY <1>1, <1>3, <1>4, <2>1 DEF PaidInv, SentOnPayment, Paying, Unsent
<1>7. SentIsAnswered'
  BY <1>1, <1>3, <1>4 DEF PaidInv, SentIsAnswered
<1>8. LoggedOnce'
  <2>1. \A k \in DOMAIN inflows : step'[txs[inflows[k]].call] \in Passed
    BY <1>3, <1>4 DEF PaidInv, LoggedOnce, Passed
  <2>2. \A k, m \in DOMAIN inflows : inflows[k] = inflows[m] => k = m
    BY DEF PaidInv, LoggedOnce
  <2>3. \A j \in DOMAIN txs :
          step'[txs[j].call] \in Through /\ txs[j].call \notin unlogged
            => \E k \in DOMAIN inflows : inflows[k] = j
    BY <1>3, <1>4 DEF PaidInv, LoggedOnce, Through
  <2>4. QED
    BY <1>1, <2>1, <2>2, <2>3 DEF LoggedOnce
<1>9. PaidTypeOK'
  <2>1. OneTxPerCall'
    BY <1>5, OneTx, PTL
  <2>2. kills' \in 0 .. MaxKills
    BY <1>1, PaidAssumption DEF PaidTypeOK
  <2>3. mishaps' \subseteq Calls
    BY <1>1 DEF PaidTypeOK
  <2>4. QED
    BY <1>1, <1>3, <2>1, <2>2, <2>3 DEF PaidTypeOK, Steps
<1>10. QED
  BY <1>5, <1>6, <1>7, <1>8, <1>9 DEF PaidInv

\* A call that is challenged has sent nothing: it takes any authorization.
LEMMA PresentStep ==
  ASSUME PaidInv, NEW c \in Calls, NEW a \in Auths, Present(c, a)
  PROVE  PaidInv'
<1>1. /\ PaidTypeOK /\ step[c] = "challenged" /\ step' = [step EXCEPT ![c] = "presented"]
      /\ header' = [header EXCEPT ![c] = a]
      /\ txs' = txs /\ voided' = voided /\ used' = used /\ inflows' = inflows
      /\ mishaps' = mishaps /\ unlogged' = unlogged /\ kills' = kills
  BY DEF PaidInv, Present, Becomes, Chain, Ghosts
<1>2. step \in [Calls -> Steps] /\ header \in [Calls -> Auths \cup {NoAuth}]
  BY <1>1 DEF PaidTypeOK, Steps
<1>3. /\ step' \in [Calls -> Steps] /\ step'[c] = "presented"
      /\ header' \in [Calls -> Auths \cup {NoAuth}] /\ header'[c] = a
      /\ \A d \in Calls \ {c} : step'[d] = step[d] /\ header'[d] = header[d]
  BY <1>1, <1>2 DEF Steps, InHook
<1>4. /\ \A i \in DOMAIN txs : txs[i].call \in Calls \ {c}
      /\ \A k \in DOMAIN inflows : inflows[k] \in DOMAIN txs
  BY <1>1, TxsTyped DEF PaidInv, SentOnPayment, Unsent
<1>5. SentOnce' /\ SentIsAnswered'
  <2>1. SentOnce'
    BY <1>1 DEF PaidInv, SentOnce
  <2>2. SentIsAnswered'
    BY <1>1, <1>3, <1>4 DEF PaidInv, SentIsAnswered
  <2>3. QED
    BY <2>1, <2>2
<1>6. SentOnPayment'
  <2>1. \A d \in Calls : TxsOf(d)' = TxsOf(d)
    BY <1>1 DEF TxsOf
  <2>2. QED
    BY <1>1, <1>3, <1>4, <2>1 DEF PaidInv, SentOnPayment
<1>7. LoggedOnce'
  BY <1>1, <1>3, <1>4 DEF PaidInv, LoggedOnce
<1>8. PaidTypeOK'
  <2>1. OneTxPerCall'
    BY <1>5, OneTx, PTL
  <2>2. QED
    BY <1>1, <1>3, <2>1 DEF PaidTypeOK, Steps
<1>9. QED
  BY <1>5, <1>6, <1>7, <1>8 DEF PaidInv

\* The steps in which a call does no more than move on.
LEMMA MoveStep ==
  ASSUME PaidInv, NEW c \in Calls,
         \/ FirstFetch(c) \/ TurnDown(c) \/ Verify(c) \/ Reject(c)
         \/ Fail(c) \/ Settled(c) \/ Handle(c)
  PROVE  PaidInv'
<1>1. /\ PaidTypeOK /\ mishaps \subseteq Calls
      /\ UNCHANGED <<header, Chain, inflows, unlogged, kills>>
  BY DEF PaidInv, PaidTypeOK, Ghosts, FirstFetch, TurnDown, Verify, Reject, Fail, Settled, Handle
<1>2. step[c] \in Unsent => TxsOf(c) = {}
  BY DEF PaidInv, SentOnPayment, TxsOf
<1>3. step[c] \in Paying => header[c] \in Auths
  BY DEF PaidInv, SentOnPayment
<1>4. TxsOf(c) # {} =>
        step[c] \in {"settling", "settled"} \cup Through \/ c \in mishaps
  BY DEF PaidInv, SentIsAnswered, TxsOf
<1>5. CASE FirstFetch(c)
  <2>1. step[c] = "idle" /\ mishaps' = mishaps /\ (Becomes(c, "challenged") \/ Becomes(c, "handling"))
    BY <1>5 DEF FirstFetch, Ghosts
  <2>2. QED
    BY <1>1, <1>2, <2>1, CallMoves DEF Unsent, Paying, Steps, InHook
<1>6. CASE TurnDown(c)
  <2>1. step[c] = "challenged" /\ mishaps' = mishaps /\ Becomes(c, "unpaid")
    BY <1>6 DEF TurnDown, Ghosts
  <2>2. QED
    BY <1>1, <1>2, <2>1, CallMoves DEF Unsent, Paying, Steps, Answers
<1>7. CASE Verify(c) \/ Reject(c)
  <2>1. step[c] = "presented" /\ mishaps' = mishaps /\ (Becomes(c, "verified") \/ Becomes(c, "rejected"))
    BY <1>7 DEF Verify, Reject, Ghosts
  <2>2. QED
    BY <1>1, <1>2, <1>3, <2>1, CallMoves DEF Unsent, Paying, Steps, InHook, Answers
<1>8. CASE Fail(c)
  <2>1. /\ step[c] \in {"verified", "settling"} /\ Becomes(c, "failed")
        /\ mishaps' = IF step[c] = "settling" THEN mishaps \cup {c} ELSE mishaps
    BY <1>8 DEF Fail
  <2>2. mishaps \subseteq mishaps' /\ mishaps' \subseteq Calls
    BY <1>1, <2>1
  <2>3. TxsOf(c) # {} => c \in mishaps'
    BY <1>2, <2>1 DEF Unsent
  <2>4. QED
    BY <1>1, <2>1, <2>2, <2>3, CallMoves DEF Unsent, Paying, Steps, Answers, Passed, Through
<1>9. CASE Settled(c)
  <2>1. /\ step[c] = "settling" /\ Becomes(c, "settled") /\ mishaps' = mishaps
        /\ TxsOf(c) # {}
    BY <1>9 DEF Settled, Ghosts
  <2>2. QED
    BY <1>1, <1>3, <2>1, CallMoves DEF Unsent, Paying, Steps, InHook, Passed, Through
<1>10. CASE Handle(c)
  <2>1. /\ step[c] = "handling"
        /\ \/ Becomes(c, "served") /\ mishaps' = mishaps
           \/ Becomes(c, "failed") /\ mishaps' = mishaps \cup {c}
    BY <1>10 DEF Handle
  <2>2. QED
    BY <1>1, <2>1, CallMoves DEF Unsent, Paying, Steps, Answers, Passed, Through
<1>11. QED
  BY <1>5, <1>6, <1>7, <1>8, <1>9, <1>10

\* The inductive invariant of calls, transactions and events.
THEOREM PaidInvariance == PaidSpec => []PaidInv
<1>1. PaidInv /\ [PaidNext]_paidVars => PaidInv'
  <2> SUFFICES ASSUME PaidInv, [PaidNext]_paidVars PROVE PaidInv'
    OBVIOUS
  <2>1. CASE \/ UNCHANGED paidVars
             \/ \E a \in Auths : Void(a)
    <3>1. /\ UNCHANGED <<step, header, used, txs, inflows, mishaps, unlogged, kills>>
          /\ voided' = voided \/ \E a \in Auths : voided' = voided \cup {a}
      BY <2>1 DEF paidVars, Void, Ghosts
    <3>2. voided' \subseteq Auths
      BY <3>1 DEF PaidInv, PaidTypeOK
    <3>3. /\ OneTxPerCall' <=> OneTxPerCall
          /\ \A c \in Calls : TxsOf(c)' = TxsOf(c)
      BY <3>1 DEF OneTxPerCall, TxsOf
    <3>4. PaidTypeOK'
      BY <3>1, <3>2, <3>3 DEF PaidInv, PaidTypeOK
    <3>5. SentOnPayment'
      BY <3>1, <3>3 DEF PaidInv, SentOnPayment
    <3>6. SentOnce' /\ SentIsAnswered' /\ LoggedOnce'
      BY <3>1 DEF PaidInv, SentOnce, SentIsAnswered, LoggedOnce
    <3>7. QED
      BY <3>4, <3>5, <3>6 DEF PaidInv
  <2>2. ASSUME NEW c \in Calls,
               \/ FirstFetch(c) \/ TurnDown(c) \/ Verify(c) \/ Reject(c)
               \/ Fail(c) \/ Settled(c) \/ Handle(c)
        PROVE  PaidInv'
    BY <2>2, MoveStep
  <2>3. ASSUME NEW c \in Calls, \E a \in Auths : Present(c, a)
        PROVE  PaidInv'
    BY <2>3, PresentStep
  <2>4. ASSUME NEW c \in Calls, Submit(c) \/ Log(c)
        PROVE  PaidInv'
    BY <2>4, SubmitStep, LogStep
  <2>5. CASE Mine \/ Kill
    BY <2>5, MineStep, KillStep
  <2>6. QED
    BY <2>1, <2>2, <2>3, <2>4, <2>5 DEF PaidNext
<1>2. QED
  BY <1>1, PaidInitial, PTL DEF PaidSpec

\* Types; a call submits one transaction, whichever way it is cut off.
THEOREM PaidTypeCorrect == PaidSpec => []PaidTypeOK
<1>1. PaidInv => PaidTypeOK
  BY DEF PaidInv
<1>2. QED
  BY <1>1, PaidInvariance, PTL

\* Who was charged is served, still under way, or was cut off after it paid.
THEOREM ChargedAreAnswered == PaidSpec => []ChargedIsAnswered
<1>1. PaidInv => ChargedIsAnswered
  BY DEF PaidInv, SentIsAnswered, ChargedIsAnswered, Transferred, TxsOf, Through
<1>2. QED
  BY <1>1, PaidInvariance, PTL

\* Every transfer of a served call is in the event log, once.
THEOREM TransfersLoggedOnce == PaidSpec => []TransfersAreLogged
<1>1. PaidInv => TransfersAreLogged
  <2> SUFFICES ASSUME PaidInv, NEW c \in Calls, NEW i \in TxsOf(c),
                      step[c] = "served", c \notin unlogged
               PROVE  Cardinality({k \in DOMAIN inflows : txs[inflows[k]].call = c}) = 1
    BY DEF TransfersAreLogged, Transferred
  <2>1. i \in DOMAIN txs /\ txs[i].call = c
    BY DEF TxsOf
  <2>2. PICK k \in DOMAIN inflows : inflows[k] = i
    BY <2>1 DEF PaidInv, LoggedOnce, Through
  <2>3. \A m \in DOMAIN inflows : inflows[m] \in DOMAIN txs
    BY TxsTyped DEF PaidInv
  <2>4. \A m \in DOMAIN inflows : txs[inflows[m]].call = c => m = k
    BY <2>1, <2>2, <2>3 DEF PaidInv, SentOnce, LoggedOnce
  <2>5. {m \in DOMAIN inflows : txs[inflows[m]].call = c} = {k}
    BY <2>1, <2>2, <2>4
  <2>6. QED
    BY <2>5, FS_Singleton
<1>2. QED
  BY <1>1, PaidInvariance, PTL
=============================================================================
