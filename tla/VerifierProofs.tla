---------------------------- MODULE VerifierProofs ----------------------------
(***************************************************************************)
(* Theorems about the two walkers, for every log, with any joins and any   *)
(* number of roots, and every cap.  What the verifier accepts is verified, *)
(* for any number of failed calls: whatever was visited without an error   *)
(* has its parents visited or waiting, so once the queue is empty and      *)
(* nothing failed the visited ids hold the ancestry.  What the search      *)
(* reports is exact: besides, it sees the ids level by level.              *)
(***************************************************************************)
EXTENDS Verifier, SequenceTheorems, FiniteSetTheorems, TLAPS

Queues == Seq((SUBSET Ids) \ {{}})

\* Taking an id off the queue: no other id is lost, none appears.
LEMMA WithoutKeeps ==
  ASSUME NEW q \in Queues, q # <<>>, NEW id \in q[1]
  PROVE  /\ Without(q, id) \in Queues
         /\ Waiting(q) \subseteq Waiting(Without(q, id)) \cup {id}
         /\ Waiting(Without(q, id)) \subseteq Waiting(q)
<1>1. CASE q[1] = {id}
  <2>1. Without(q, id) = Tail(q)
    BY <1>1 DEF Without
  <2>2. Tail(q) \in Queues /\ Len(Tail(q)) = Len(q) - 1
    BY HeadTailProperties DEF Queues
  <2>3. \A i \in 1 .. Len(q) - 1 : Tail(q)[i] = q[i + 1]
    BY HeadTailProperties DEF Queues
  <2>4. Len(q) \in Nat /\ DOMAIN q = 1 .. Len(q) /\ DOMAIN Tail(q) = 1 .. Len(q) - 1
    BY <2>2 DEF Queues
  <2>5. \A i \in DOMAIN q : i = 1 \/ (i - 1 \in DOMAIN Tail(q) /\ Tail(q)[i - 1] = q[i])
    BY <2>3, <2>4
  <2>6. \A i \in DOMAIN Tail(q) : i + 1 \in DOMAIN q /\ Tail(q)[i] = q[i + 1]
    BY <2>3, <2>4
  <2>7. \A x \in Waiting(q) : x = id \/ x \in Waiting(Tail(q))
    BY <1>1, <2>5 DEF Waiting
  <2>8. Waiting(Tail(q)) \subseteq Waiting(q)
    BY <2>6 DEF Waiting
  <2> QED
    BY <2>1, <2>2, <2>7, <2>8
<1>2. CASE q[1] # {id}
  <2>1. Without(q, id) = [q EXCEPT ![1] = q[1] \ {id}]
    BY <1>2 DEF Without
  <2>2. 1 \in DOMAIN q /\ DOMAIN Without(q, id) = DOMAIN q
    BY <2>1 DEF Queues
  <2>3. q[1] \ {id} \in (SUBSET Ids) \ {{}}
    BY <1>2, <2>2 DEF Queues
  <2>4. Without(q, id) \in Queues
    BY <2>1, <2>2, <2>3, ExceptSeq DEF Queues
  <2>5. Without(q, id)[1] = q[1] \ {id}
    BY <2>1, <2>2
  <2>6. \A i \in DOMAIN q : i # 1 => Without(q, id)[i] = q[i]
    BY <2>1, <2>2
  <2> QED
    BY <2>2, <2>4, <2>5, <2>6 DEF Waiting
<1> QED
  BY <1>1, <1>2

\* Pushing a set of ids onto the queue.
LEMMA PushedAdds ==
  ASSUME NEW q \in Queues, NEW S \in SUBSET Ids
  PROVE  Pushed(q, S) \in Queues /\ Waiting(Pushed(q, S)) = Waiting(q) \cup S
<1>1. CASE S = {}
  BY <1>1 DEF Pushed
<1>2. CASE S # {}
  <2>1. Pushed(q, S) = Append(q, S) /\ S \in (SUBSET Ids) \ {{}}
    BY <1>2 DEF Pushed
  <2>2. /\ Append(q, S) \in Queues /\ Len(Append(q, S)) = Len(q) + 1
        /\ \A i \in 1 .. Len(q) : Append(q, S)[i] = q[i]
        /\ Append(q, S)[Len(q) + 1] = S
    BY <2>1, AppendProperties DEF Queues
  <2>3. DOMAIN q = 1 .. Len(q) /\ DOMAIN Append(q, S) = 1 .. Len(q) + 1 /\ Len(q) \in Nat
    BY <2>2 DEF Queues
  <2>4. \A i \in DOMAIN q : i \in DOMAIN Append(q, S) /\ Append(q, S)[i] = q[i]
    BY <2>2, <2>3
  <2>5. \A i \in DOMAIN Append(q, S) :
          (i \in DOMAIN q /\ Append(q, S)[i] = q[i]) \/ Append(q, S)[i] = S
    BY <2>2, <2>3
  <2>6. Len(q) + 1 \in DOMAIN Append(q, S) /\ Append(q, S)[Len(q) + 1] = S
    BY <2>2, <2>3
  <2> QED
    BY <2>1, <2>2, <2>4, <2>5, <2>6 DEF Waiting
<1> QED
  BY <1>1, <1>2

\* The start is in its ancestry, the ancestry is closed, and no set closed
\* under parents that holds the start misses any of it.
LEMMA AncestryIsLeast ==
  ASSUME IsLog(log)
  PROVE  /\ Start \in Ancestry /\ ClosedUp(Ancestry)
         /\ \A S \in SUBSET Ids : Start \in S /\ ClosedUp(S) => Ancestry \subseteq S
<1>1. \A id \in Ids : Above(id) \subseteq Ids
  BY DEF IsLog, Above, Held, Event
<1>2. Start \in Ancestry
  BY EventGraphAssumption DEF Ancestry
<1>3. ASSUME NEW id \in Ancestry, NEW p \in Above(id)
      PROVE  p \in Ancestry
  <2>1. id \in Ids /\ p \in Ids
    BY <1>1, <1>3 DEF Ancestry
  <2>2. ASSUME NEW S \in SUBSET Ids, Start \in S, ClosedUp(S)
        PROVE  p \in S
    <3>1. id \in S
      BY <1>3, <2>2 DEF Ancestry
    <3> QED
      BY <1>3, <2>2, <3>1 DEF ClosedUp
  <2> QED
    BY <2>1, <2>2 DEF Ancestry
<1>4. \A S \in SUBSET Ids : Start \in S /\ ClosedUp(S) => Ancestry \subseteq S
  BY DEF Ancestry
<1> QED
  BY <1>2, <1>3, <1>4 DEF ClosedUp

-----------------------------------------------------------------------------
\* What a walk has left behind it, before and after it ends.
WalkInv ==
  /\ IsLog(log)
  /\ Start \in visited \cup Waiting(queue)
  /\ visited \cup Waiting(queue) \subseteq Ancestry
  /\ \A id \in visited \ errors :
       Verified(id) /\ Above(id) \subseteq visited \cup Waiting(queue)
  /\ genesis # NoId => IsGenesis(genesis)
  /\ verdict = "ok" =>
       /\ errors = {} /\ queue = <<>>
       /\ genesis # NoId /\ log[genesis].lawful

\* Ending a walk, with or without an error of its own, keeps its invariant.
LEMMA EndKeeps ==
  ASSUME WalkTypeOK, WalkInv, verdict = "none",
         NEW ok \in BOOLEAN, NEW error \in SUBSET (visited \cup {NoId}),
         End(ok, error), UNCHANGED log,
         ok => /\ errors \cup error = {} /\ queue = <<>>
               /\ genesis # NoId /\ log[genesis].lawful,
         faults' \in 0 .. MaxFaults
  PROVE  WalkTypeOK' /\ WalkInv'
<1>1. /\ queue' = queue /\ visited' = visited /\ genesis' = genesis /\ log' = log
      /\ errors' = errors \cup error
      /\ verdict' = IF ok THEN "ok" ELSE "refused"
  BY DEF End
<1>2. WalkTypeOK'
  BY <1>1 DEF WalkTypeOK
<1>3. Ancestry' = Ancestry /\ Waiting(queue)' = Waiting(queue)
  BY <1>1 DEF Ancestry, ClosedUp, Above, Held, IsGenesis, Waiting
<1>4. \A id \in visited' \ errors' :
        Verified(id)' /\ Above(id)' \subseteq visited' \cup Waiting(queue)'
  BY <1>1, <1>3 DEF WalkInv, Verified, Checked, Above, Held, IsGenesis
<1>5. verdict' = "ok" => ok
  BY <1>1
<1> QED
  BY <1>1, <1>2, <1>3, <1>4, <1>5 DEF WalkInv, IsLog, IsGenesis, Held

\* So does visiting an id: what it adds to the queue are parents of an id
\* that passed its checks, and what did not pass has an error.
LEMMA VisitKeeps ==
  ASSUME WalkTypeOK, WalkInv, UNCHANGED log, NEW id \in Ids, Shift(id),
         NEW more \in SUBSET Ids,
         queue' = Pushed(Without(queue, id), more),
         visited' = visited \cup {id},
         errors' \in {errors, errors \cup {id}},
         genesis' = genesis \/ (genesis' = id /\ IsGenesis(id)),
         faults' \in 0 .. MaxFaults,
         more \subseteq Above(id),
         id \in visited \/ id \in errors' \/
           (Verified(id) /\ Above(id) \subseteq visited' \cup more)
  PROVE  WalkTypeOK' /\ WalkInv'
<1>1. queue \in Queues /\ queue # <<>> /\ id \in queue[1] /\ verdict' = verdict
      /\ verdict = "none" /\ log' = log /\ Cardinality(visited) < MaxDepth
  BY DEF WalkTypeOK, Queues, Shift, Room
<1>2. PICK rest : rest = Without(queue, id)
  OBVIOUS
<1>3. /\ rest \in Queues
      /\ Waiting(queue) \subseteq Waiting(rest) \cup {id}
      /\ Waiting(rest) \subseteq Waiting(queue)
  BY <1>1, <1>2, WithoutKeeps
<1>4. queue' \in Queues /\ Waiting(queue)' = Waiting(rest) \cup more
  <2>1. Pushed(rest, more) \in Queues /\ Waiting(Pushed(rest, more)) = Waiting(rest) \cup more
    BY <1>3, PushedAdds
  <2>2. queue' = Pushed(rest, more)
    BY <1>2
  <2> QED
    BY <2>1, <2>2 DEF Waiting
<1>5. Ancestry' = Ancestry
  BY <1>1 DEF Ancestry, ClosedUp, Above, Held, IsGenesis
<1>6. id \in Waiting(queue)
  BY <1>1 DEF Waiting, Queues
<1>7. id \in Ancestry /\ Above(id) \subseteq Ancestry
  BY <1>6, AncestryIsLeast DEF WalkInv, ClosedUp
<1>8. visited \cup Waiting(queue) \subseteq visited' \cup Waiting(queue)'
  BY <1>3, <1>4
<1>9. WalkTypeOK'
  <2>1. IsFiniteSet(visited) /\ Cardinality(visited) \in Nat
    BY EventGraphAssumption, FS_Subset, FS_CardinalityType DEF WalkTypeOK
  <2>2. Cardinality(visited \cup {id}) \in {Cardinality(visited), Cardinality(visited) + 1}
    BY <2>1, FS_AddElement
  <2>3. Cardinality(visited \cup {id}) <= MaxDepth
    BY <1>1, <2>1, <2>2, EventGraphAssumption
  <2> QED
    BY <1>1, <1>4, <2>3 DEF WalkTypeOK, Queues
<1>10. ASSUME NEW i \in visited' \ errors'
       PROVE  Verified(i)' /\ Above(i)' \subseteq visited' \cup Waiting(queue)'
  <2>1. Verified(i)' = Verified(i) /\ Above(i)' = Above(i)
    BY <1>1 DEF Verified, Checked, Above, Held, IsGenesis
  <2>2. CASE i \in visited
    <3>1. i \in visited \ errors
      BY <1>10, <2>2
    <3> QED
      BY <1>8, <2>1, <3>1 DEF WalkInv
  <2>3. CASE i \notin visited
    <3>1. i = id
      BY <1>10, <2>3
    <3> QED
      BY <1>4, <1>10, <2>1, <2>3, <3>1
  <2> QED
    BY <2>2, <2>3
<1>11. genesis' # NoId => IsGenesis(genesis)'
  BY <1>1 DEF WalkInv, IsGenesis, Held
<1> QED
  BY <1>1, <1>3, <1>4, <1>5, <1>7, <1>8, <1>9, <1>10, <1>11 DEF WalkInv, IsLog

LEMMA WalkInitInv == Init => WalkTypeOK /\ WalkInv
<1> SUFFICES ASSUME Init PROVE WalkTypeOK /\ WalkInv
  OBVIOUS
<1>1. /\ queue = << {Start} >> /\ visited = {} /\ errors = {}
      /\ genesis = NoId /\ verdict = "none" /\ faults = 0
  BY DEF Init, WalkInit
<1>2. IsLog(log) /\ Start \in Ids
  BY EventGraphAssumption DEF Init
<1>3. queue \in Seq((SUBSET Ids) \ {{}}) /\ Waiting(queue) = {Start}
  <2>1. {Start} \in (SUBSET Ids) \ {{}}
    BY <1>2
  <2>2. queue \in Seq((SUBSET Ids) \ {{}}) /\ DOMAIN queue = {1} /\ queue[1] = {Start}
    BY <1>1, <2>1
  <2> QED
    BY <2>2 DEF Waiting
<1>4. WalkTypeOK
  <2>1. Cardinality({}) = 0
    BY FS_EmptySet
  <2> QED
    BY <1>1, <1>3, <2>1, EventGraphAssumption, ChainWalkAssumption DEF WalkTypeOK
<1>5. Start \in Ancestry
  BY <1>2, AncestryIsLeast
<1> QED
  BY <1>1, <1>2, <1>3, <1>4, <1>5 DEF WalkInv

LEMMA WalkNextInv == WalkTypeOK /\ WalkInv /\ [Next]_vars => (WalkTypeOK /\ WalkInv)'
<1> SUFFICES ASSUME WalkTypeOK, WalkInv, [Next]_vars
             PROVE  (WalkTypeOK /\ WalkInv)'
  OBVIOUS
<1>1. faults \in 0 .. MaxFaults /\ (Fault \/ UNCHANGED faults => faults' \in 0 .. MaxFaults)
  BY ChainWalkAssumption DEF WalkTypeOK, Fault
<1>2. errors \subseteq visited \cup {NoId} /\ genesis \in visited \cup {NoId}
  BY DEF WalkTypeOK
<1>3. CASE UNCHANGED <<log, walkVars>>
  BY <1>3 DEF walkVars, WalkTypeOK, WalkInv, IsLog, Waiting, Ancestry, ClosedUp, Above,
     Held, IsGenesis, Verified, Checked
<1>4. CASE WalkStep
  <2>0. UNCHANGED log
    BY <1>4 DEF WalkStep
  <2>1. ASSUME NEW id \in Ids, Revisit(id)
        PROVE  (WalkTypeOK /\ WalkInv)'
    <3>1. Shift(id) /\ id \in visited /\ queue' = Pushed(Without(queue, id), {})
          /\ visited' = visited \cup {id} /\ errors' = errors /\ genesis' = genesis
          /\ UNCHANGED faults
      BY <2>1 DEF Revisit, Pushed
    <3> QED
      BY <1>1, <2>0, <3>1, VisitKeeps
  <2>2. ASSUME NEW id \in Ids, Misses(id) \/ Rejects(id)
        PROVE  (WalkTypeOK /\ WalkInv)'
    <3>1. Shift(id) /\ queue' = Pushed(Without(queue, id), {})
          /\ visited' = visited \cup {id} /\ errors' = errors \cup {id} /\ genesis' = genesis
          /\ (Fault \/ UNCHANGED faults)
      BY <2>2 DEF Misses, Rejects, Visit, Pushed
    <3> QED
      BY <1>1, <2>0, <3>1, VisitKeeps
  <2>3. ASSUME NEW id \in Ids, Expands(id)
        PROVE  (WalkTypeOK /\ WalkInv)'
    <3>1. PICK more : more = log[id].parents \ visited'
      OBVIOUS
    <3>2. Shift(id) /\ queue' = Pushed(Without(queue, id), more)
          /\ visited' = visited \cup {id} /\ errors' = errors /\ genesis' = genesis
          /\ UNCHANGED faults /\ Verified(id) /\ Above(id) = log[id].parents
      BY <2>3, <3>1 DEF Expands, Visit, Above
    <3>3. more \in SUBSET Ids /\ more \subseteq Above(id) /\ Above(id) \subseteq visited' \cup more
      <4>1. log[id].parents \subseteq Ids
        BY <2>3 DEF Expands, WalkInv, IsLog, Held, Event
      <4> QED
        BY <3>1, <3>2, <4>1
    <3> QED
      BY <1>1, <2>0, <3>2, <3>3, VisitKeeps
  <2>4. ASSUME NEW id \in Ids, ReachesGenesis(id)
        PROVE  (WalkTypeOK /\ WalkInv)'
    <3>1. Shift(id) /\ queue' = Pushed(Without(queue, id), {})
          /\ visited' = visited \cup {id} /\ errors' = errors
          /\ (genesis' = genesis \/ (genesis' = id /\ IsGenesis(id)))
          /\ UNCHANGED faults /\ Verified(id) /\ Above(id) = {}
      BY <2>4 DEF ReachesGenesis, Visit, Pushed, Above
    <3> QED
      BY <1>1, <2>0, <3>1, VisitKeeps
  <2>5. ASSUME TooDeep \/ Unrooted
        PROVE  (WalkTypeOK /\ WalkInv)'
    <3>1. verdict = "none" /\ End(FALSE, {NoId}) /\ UNCHANGED faults
      BY <2>5 DEF TooDeep, Unrooted
    <3> QED
      BY <1>1, <2>0, <3>1, EndKeeps
  <2>6. ASSUME Judges
        PROVE  (WalkTypeOK /\ WalkInv)'
    <3>1. verdict = "none" /\ queue = <<>> /\ genesis # NoId /\ UNCHANGED faults
      BY <2>6 DEF Judges
    <3>2. CASE log[genesis].lawful
      <4>1. End(errors = {}, {}) /\ (errors = {}) \in BOOLEAN
        BY <2>6, <3>2 DEF Judges
      <4> QED
        BY <1>1, <2>0, <3>1, <3>2, <4>1, EndKeeps
    <3>3. CASE ~log[genesis].lawful
      <4>1. End(FALSE, {genesis}) /\ {genesis} \subseteq visited \cup {NoId}
        BY <1>2, <2>6, <3>3 DEF Judges
      <4> QED
        BY <1>1, <2>0, <3>1, <4>1, EndKeeps
    <3> QED
      BY <3>2, <3>3
  <2>7. ASSUME RefetchFails
        PROVE  (WalkTypeOK /\ WalkInv)'
    <3>1. verdict = "none" /\ End(FALSE, {genesis}) /\ Fault
      BY <2>7 DEF RefetchFails
    <3> QED
      BY <1>1, <1>2, <2>0, <3>1, EndKeeps
  <2> QED
    BY <1>4, <2>1, <2>2, <2>3, <2>4, <2>5, <2>6, <2>7 DEF WalkStep, Walk
<1> QED
  BY <1>3, <1>4 DEF Next, SearchStep, vars

\* The walk's variables keep their types; in particular a walk never visits
\* more than MAX_WALK_DEPTH events and records an error only for an event it
\* visited or for itself.
THEOREM WalkTypeCorrect == Spec => []WalkTypeOK
<1>1. Init => WalkTypeOK /\ WalkInv
  BY WalkInitInv
<1>2. WalkTypeOK /\ WalkInv /\ [Next]_vars => (WalkTypeOK /\ WalkInv)'
  BY WalkNextInv
<1> QED
  BY <1>1, <1>2, PTL DEF Spec

\* An empty queue and no error make the visited ids the whole ancestry.
LEMMA InvImpliesAccepted == WalkTypeOK /\ WalkInv => AcceptedIsVerified
<1> SUFFICES ASSUME WalkTypeOK, WalkInv, verdict = "ok"
             PROVE  /\ \A id \in Ancestry : Verified(id)
                    /\ \E id \in Geneses : log[id].lawful
  BY DEF AcceptedIsVerified
<1>1. errors = {} /\ queue = <<>> /\ genesis # NoId /\ log[genesis].lawful
  BY DEF WalkInv
<1>2. Waiting(queue) = {}
  BY <1>1 DEF Waiting
<1>3. Start \in visited /\ visited \subseteq Ids /\ ClosedUp(visited)
  BY <1>1, <1>2 DEF WalkInv, WalkTypeOK, ClosedUp
<1>4. Ancestry \subseteq visited
  BY <1>3, AncestryIsLeast DEF WalkInv
<1>5. \A id \in Ancestry : Verified(id)
  BY <1>1, <1>4 DEF WalkInv
<1>6. genesis \in Geneses
  BY <1>1 DEF WalkInv, WalkTypeOK, Geneses
<1> QED
  BY <1>1, <1>5, <1>6

\* walkChain accepts nothing it has not verified: for every log, with any
\* joins and any number of roots, for every cap and every pattern of failed
\* calls, an accepted walk has checked the whole ancestry of its start, and
\* a genesis of the served constitution is in it.
THEOREM WalkSound == Spec => []AcceptedIsVerified
<1>1. Init => WalkTypeOK /\ WalkInv
  BY WalkInitInv
<1>2. WalkTypeOK /\ WalkInv /\ [Next]_vars => (WalkTypeOK /\ WalkInv)'
  BY WalkNextInv
<1>3. WalkTypeOK /\ WalkInv => AcceptedIsVerified
  BY InvImpliesAccepted
<1> QED
  BY <1>1, <1>2, <1>3, PTL DEF Spec

-----------------------------------------------------------------------------
(* The levels above the start.  Level is a recursive function; that its    *)
(* equation has a solution is shown by one: the ends of the walks of n     *)
(* steps.                                                                  *)

Walks(n) ==
  {p \in [0 .. n -> Ids] : p[0] = Start /\ \A k \in 1 .. n : p[k] \in Above(p[k - 1])}

Ends == [n \in Nat |-> {p[n] : p \in Walks(n)}]

LEMMA EndsUnfold ==
  ASSUME IsLog(log)
  PROVE  Ends = [n \in Nat |-> IF n = 0 THEN {Start} ELSE UNION {Above(id) : id \in Ends[n - 1]}]
<1>1. \A id \in Ids : Above(id) \subseteq Ids
  BY DEF IsLog, Above, Held, Event
<1>2. Ends[0] = {Start}
  <2>1. \A p \in Walks(0) : p[0] = Start
    BY DEF Walks
  <2>2. PICK p : p = [k \in 0 .. 0 |-> Start]
    OBVIOUS
  <2>3. p \in Walks(0) /\ p[0] = Start
    BY <2>2, EventGraphAssumption DEF Walks
  <2>4. Ends[0] = {q[0] : q \in Walks(0)}
    BY DEF Ends
  <2>5. QED
    BY <2>1, <2>3, <2>4
<1>3. ASSUME NEW n \in Nat, n # 0
      PROVE  Ends[n] = UNION {Above(id) : id \in Ends[n - 1]}
  <2>1. n - 1 \in Nat /\ n \in 0 .. n
    BY <1>3
  <2>2. /\ Ends[n] = {p[n] : p \in Walks(n)}
        /\ Ends[n - 1] = {p[n - 1] : p \in Walks(n - 1)}
    BY <2>1 DEF Ends
  <2>3. ASSUME NEW p \in Walks(n)
        PROVE  p[n] \in UNION {Above(id) : id \in Ends[n - 1]}
    <3>1. PICK q : q = [k \in 0 .. n - 1 |-> p[k]]
      OBVIOUS
    <3>2. p \in [0 .. n -> Ids] /\ p[0] = Start /\ \A k \in 1 .. n : p[k] \in Above(p[k - 1])
      BY DEF Walks
    <3>3. \A k \in 0 .. n - 1 : q[k] = p[k] /\ k \in 0 .. n
      BY <3>1
    <3>4. q \in [0 .. n - 1 -> Ids]
      BY <3>1, <3>2
    <3>5. q[0] = Start /\ \A k \in 1 .. n - 1 : q[k] \in Above(q[k - 1])
      BY <2>1, <3>2, <3>3
    <3>6. q \in Walks(n - 1) /\ q[n - 1] = p[n - 1]
      BY <2>1, <3>3, <3>4, <3>5 DEF Walks
    <3>7. p[n] \in Above(q[n - 1])
      BY <1>3, <3>2, <3>6
    <3>8. QED
      BY <2>2, <3>6, <3>7
  <2>4. ASSUME NEW q \in Walks(n - 1), NEW z \in Above(q[n - 1])
        PROVE  z \in Ends[n]
    <3>1. PICK p : p = [k \in 0 .. n |-> IF k = n THEN z ELSE q[k]]
      OBVIOUS
    <3>2. /\ q \in [0 .. n - 1 -> Ids] /\ q[0] = Start
          /\ \A k \in 1 .. n - 1 : q[k] \in Above(q[k - 1])
      BY DEF Walks
    <3>3. z \in Ids
      BY <1>1, <2>1, <3>2
    <3>4. p[n] = z /\ \A k \in 0 .. n - 1 : p[k] = q[k]
      BY <2>1, <3>1
    <3>5. p \in [0 .. n -> Ids]
      BY <3>1, <3>2, <3>3
    <3>6. p[0] = Start /\ \A k \in 1 .. n : p[k] \in Above(p[k - 1])
      <4>1. 0 \in 0 .. n - 1 /\ n - 1 \in 0 .. n - 1
        BY <2>1
      <4>2. ASSUME NEW k \in 1 .. n, k # n PROVE p[k] \in Above(p[k - 1])
        BY <2>1, <3>2, <3>4, <4>2
      <4>3. QED
        BY <3>2, <3>4, <4>1, <4>2
    <3>7. QED
      BY <2>2, <3>4, <3>5, <3>6 DEF Walks
  <2>5. QED
    BY <2>2, <2>3, <2>4
<1>4. \A n \in Nat : Ends[n] = IF n = 0 THEN {Start} ELSE UNION {Above(id) : id \in Ends[n - 1]}
  BY <1>2, <1>3
<1>5. Ends = [n \in Nat |-> Ends[n]]
  BY DEF Ends
<1>6. QED
  BY <1>4, <1>5

\* The levels are what their equation says: each step upwards is one level.
LEMMA LevelUnfolds ==
  ASSUME IsLog(log)
  PROVE  /\ Level[0] = {Start}
         /\ \A n \in Nat : Level[n + 1] = UNION {Above(id) : id \in Level[n]}
<1>1. \E f : f = [n \in Nat |-> IF n = 0 THEN {Start} ELSE UNION {Above(id) : id \in f[n - 1]}]
  BY EndsUnfold
<1>2. Level = [n \in Nat |-> IF n = 0 THEN {Start} ELSE UNION {Above(id) : id \in Level[n - 1]}]
  BY <1>1 DEF Level
<1>3. PICK level : level = Level
  OBVIOUS
<1>4. level = [n \in Nat |-> IF n = 0 THEN {Start} ELSE UNION {Above(id) : id \in level[n - 1]}]
  BY <1>2, <1>3
<1>5. level[0] = {Start}
  BY <1>4
<1>6. ASSUME NEW n \in Nat PROVE level[n + 1] = UNION {Above(id) : id \in level[n]}
  <2>1. n + 1 \in Nat /\ n + 1 # 0 /\ n + 1 - 1 = n
    OBVIOUS
  <2>2. QED
    BY <1>4, <2>1
<1>7. QED
  BY <1>3, <1>5, <1>6

-----------------------------------------------------------------------------
(* The queue of the search holds ids of one level and then of the next.    *)

Entries == [ids : (SUBSET Ids) \ {{}}, depth : Nat]

Waits(q, z, d) == \E i \in DOMAIN q : z \in q[i].ids /\ q[i].depth = d

Levelled(q) ==
  \A i, j \in DOMAIN q :
    i <= j => q[i].depth <= q[j].depth /\ q[j].depth <= q[i].depth + 1

\* Taking an id off the queue loses no other and adds none.
LEMMA RestKeeps ==
  ASSUME pending \in Seq(Entries), Levelled(pending), pending # <<>>, NEW id \in pending[1].ids
  PROVE  /\ Rest(id) \in Seq(Entries) /\ Levelled(Rest(id))
         /\ \A z, d : Waits(Rest(id), z, d) => Waits(pending, z, d)
         /\ \A z, d : Waits(pending, z, d) => z = id \/ Waits(Rest(id), z, d)
<1>1. /\ Len(pending) \in Nat \ {0} /\ DOMAIN pending = 1 .. Len(pending)
      /\ \A i \in DOMAIN pending : pending[i] \in Entries
  BY LenProperties, ElementOfSeq, EmptySeq
<1>2. PICK T : T = Entries
  OBVIOUS
<1>3. pending \in Seq(T)
  BY <1>2
<1>4. CASE pending[1].ids = {id}
  <2>1. Rest(id) = Tail(pending)
    BY <1>4 DEF Rest
  <2>2. /\ Tail(pending) \in Seq(T) /\ Len(Tail(pending)) = Len(pending) - 1
        /\ \A i \in 1 .. Len(pending) - 1 : Tail(pending)[i] = pending[i + 1]
    BY <1>3, HeadTailProperties
  <2>3. DOMAIN Tail(pending) = 1 .. Len(pending) - 1
    BY <2>2, LenProperties
  <2>4. \A i \in DOMAIN Tail(pending) : i + 1 \in DOMAIN pending /\ Tail(pending)[i] = pending[i + 1]
    BY <1>1, <2>2, <2>3
  <2>5. \A i \in DOMAIN pending :
          i = 1 \/ (i - 1 \in DOMAIN Tail(pending) /\ Tail(pending)[i - 1] = pending[i])
    BY <1>1, <2>2, <2>3
  <2>6. Levelled(Tail(pending))
    <3> SUFFICES ASSUME NEW i \in DOMAIN Tail(pending), NEW j \in DOMAIN Tail(pending), i <= j
                 PROVE  /\ Tail(pending)[i].depth <= Tail(pending)[j].depth
                        /\ Tail(pending)[j].depth <= Tail(pending)[i].depth + 1
      BY DEF Levelled
    <3>1. i + 1 <= j + 1
      BY <1>1, <2>3
    <3>2. QED
      BY <2>4, <3>1 DEF Levelled
  <2>7. \A z, d : Waits(Tail(pending), z, d) => Waits(pending, z, d)
    BY <2>4 DEF Waits
  <2>8. \A z, d : Waits(pending, z, d) => z = id \/ Waits(Tail(pending), z, d)
    BY <1>4, <2>5 DEF Waits
  <2>9. QED
    BY <1>2, <2>1, <2>2, <2>6, <2>7, <2>8
<1>5. CASE pending[1].ids # {id}
  <2>1. PICK first : first = [pending[1] EXCEPT !.ids = @ \ {id}]
    OBVIOUS
  <2>2. Rest(id) = [pending EXCEPT ![1] = first]
    BY <1>5, <2>1 DEF Rest
  <2>3. 1 \in DOMAIN pending /\ pending[1] \in Entries
    BY <1>1
  <2>4. first.ids = pending[1].ids \ {id} /\ first.depth = pending[1].depth
    BY <2>1, <2>3 DEF Entries
  <2>5. first \in Entries
    BY <1>5, <2>1, <2>3 DEF Entries
  <2>6. Rest(id) \in Seq(T)
    BY <1>2, <1>3, <2>2, <2>3, <2>5, ExceptSeq
  <2>7. /\ DOMAIN Rest(id) = DOMAIN pending
        /\ \A i \in DOMAIN pending : Rest(id)[i] = IF i = 1 THEN first ELSE pending[i]
    BY <2>2
  <2>8. \A i \in DOMAIN pending : Rest(id)[i].depth = pending[i].depth
    BY <2>4, <2>7
  <2>9. Levelled(Rest(id))
    BY <2>7, <2>8 DEF Levelled
  <2>10. \A z, d : Waits(Rest(id), z, d) => Waits(pending, z, d)
    BY <2>4, <2>7 DEF Waits
  <2>11. \A z, d : Waits(pending, z, d) => z = id \/ Waits(Rest(id), z, d)
    BY <2>4, <2>7 DEF Waits
  <2>12. QED
    BY <1>2, <2>6, <2>9, <2>10, <2>11
<1>6. QED
  BY <1>4, <1>5

\* Pushing ids of the level above the front of the queue.
LEMMA PushKeeps ==
  ASSUME NEW q \in Seq(Entries), Levelled(q), NEW S \in SUBSET Ids, NEW n \in Nat,
         \A z, d : Waits(q, z, d) => d \in {n, n + 1}
  PROVE  /\ PushAt(q, S, n + 1) \in Seq(Entries) /\ Levelled(PushAt(q, S, n + 1))
         /\ \A z, d : Waits(PushAt(q, S, n + 1), z, d)
                        <=> Waits(q, z, d) \/ (z \in S /\ d = n + 1)
<1>1. CASE S = {}
  BY <1>1 DEF PushAt
<1>2. CASE S # {}
  <2>1. PICK T : T = Entries
    OBVIOUS
  <2>2. PICK last : last = [ids |-> S, depth |-> n + 1]
    OBVIOUS
  <2>3. last \in T /\ q \in Seq(T)
    BY <1>2, <2>1, <2>2 DEF Entries
  <2>4. PICK r : r = Append(q, last)
    OBVIOUS
  <2>5. PushAt(q, S, n + 1) = r
    BY <1>2, <2>2, <2>4 DEF PushAt
  <2>6. /\ r \in Seq(T) /\ Len(r) = Len(q) + 1
        /\ \A i \in 1 .. Len(q) : r[i] = q[i]
        /\ r[Len(q) + 1] = last
    BY <2>3, <2>4, AppendProperties
  <2>7. Len(q) \in Nat /\ DOMAIN q = 1 .. Len(q) /\ DOMAIN r = 1 .. Len(q) + 1
    BY <2>3, <2>6, LenProperties
  <2>8. PICK m \in Nat : m = Len(q) + 1
    BY <2>7
  <2>9. /\ DOMAIN r = DOMAIN q \cup {m} /\ m \notin DOMAIN q /\ DOMAIN q \subseteq Nat
        /\ \A i \in DOMAIN q : r[i] = q[i] /\ i < m
        /\ r[m] = last
    BY <2>6, <2>7, <2>8
  <2>10. last.ids = S /\ last.depth = n + 1
    BY <2>2
  <2>11. \A i \in DOMAIN q : q[i].depth \in {n, n + 1}
    <3> SUFFICES ASSUME NEW i \in DOMAIN q PROVE q[i].depth \in {n, n + 1}
      OBVIOUS
    <3>1. q[i] \in Entries
      BY <2>7, ElementOfSeq
    <3>2. PICK z : z \in q[i].ids
      BY <3>1 DEF Entries
    <3>3. QED
      BY <3>2 DEF Waits
  <2>12. Levelled(r)
    <3> SUFFICES ASSUME NEW i \in DOMAIN r, NEW j \in DOMAIN r, i <= j
                 PROVE  r[i].depth <= r[j].depth /\ r[j].depth <= r[i].depth + 1
      BY DEF Levelled
    <3>1. CASE j = m
      <4>1. r[i].depth \in {n, n + 1} /\ r[j].depth = n + 1
        BY <2>9, <2>10, <2>11, <3>1
      <4>2. QED
        BY <4>1
    <3>2. CASE j # m
      <4>1. j \in DOMAIN q /\ i \in DOMAIN q
        BY <2>8, <2>9, <3>2
      <4>2. QED
        BY <2>9, <4>1 DEF Levelled
    <3>3. QED
      BY <3>1, <3>2
  <2>13. \A z, d : Waits(r, z, d) <=> Waits(q, z, d) \/ (z \in S /\ d = n + 1)
    BY <2>9, <2>10 DEF Waits
  <2>14. QED
    BY <2>1, <2>5, <2>6, <2>12, <2>13
<1>3. QED
  BY <1>1, <1>2

\* What waits, waits at the depth of the front or one above it.
LEMMA FrontDepths ==
  ASSUME NEW q \in Seq(Entries), Levelled(q), q # <<>>
  PROVE  /\ q[1].depth \in Nat /\ q[1].ids # {} /\ q[1].ids \subseteq Ids
         /\ \A z \in q[1].ids : Waits(q, z, q[1].depth)
         /\ \A z, d : Waits(q, z, d) => z \in Ids /\ d \in {q[1].depth, q[1].depth + 1}
<1>1. /\ Len(q) \in Nat \ {0} /\ DOMAIN q = 1 .. Len(q)
      /\ \A i \in DOMAIN q : q[i] \in Entries
  BY LenProperties, ElementOfSeq, EmptySeq
<1>2. 1 \in DOMAIN q /\ \A i \in DOMAIN q : 1 <= i
  BY <1>1
<1>3. \A i \in DOMAIN q : q[i].depth \in Nat /\ q[i].ids \in (SUBSET Ids) \ {{}}
  BY <1>1 DEF Entries
<1>4. \A z \in q[1].ids : Waits(q, z, q[1].depth)
  BY <1>2 DEF Waits
<1>5. \A i \in DOMAIN q : q[i].depth \in {q[1].depth, q[1].depth + 1}
  <2> SUFFICES ASSUME NEW i \in DOMAIN q PROVE q[i].depth \in {q[1].depth, q[1].depth + 1}
    OBVIOUS
  <2>1. q[1].depth <= q[i].depth /\ q[i].depth <= q[1].depth + 1
    BY <1>2 DEF Levelled
  <2>2. q[1].depth \in Nat /\ q[i].depth \in Nat
    BY <1>2, <1>3
  <2>3. QED
    BY <2>1, <2>2
<1>6. QED
  BY <1>2, <1>3, <1>4, <1>5 DEF Waits

-----------------------------------------------------------------------------
(* The search.  What it has seen it has expanded: every parent is seen or  *)
(* waits, no deeper than it stands; the levels below the front are seen.   *)

Climbed ==
  /\ Start \in seen /\ seen \subseteq Ancestry
  /\ \A y \in seen : Held(y) /\ \E n \in Nat : y \in Level[n]
  /\ \A z, d : Waits(pending, z, d) =>
       z \in Ancestry /\ d # 0 /\ z \in Level[d] /\ d <= Cardinality(seen)

Expanded ==
  \A y \in seen, n \in Nat : y \in Level[n] =>
    \A z \in Above(y) : z \in seen \/ \E d \in 0 .. n + 1 : Waits(pending, z, d)

Shallow == pending # <<>> => \A n \in 0 .. pending[1].depth - 1 : Level[n] \subseteq seen

FoundFirst ==
  \/ found = NoId /\ \A y \in seen : ~IsGenesis(y)
  \/ /\ found \in seen /\ \A y \in seen : IsGenesis(y) <=> y = found
     /\ foundDepth \in 0 .. Cardinality(Ids) /\ found \in Level[foundDepth]
     /\ \A m \in 0 .. foundDepth - 1 : found \notin Level[m]

Searching ==
  /\ pending \in Seq(Entries) /\ Levelled(pending)
  /\ Climbed
  /\ Expanded
  /\ Shallow
  /\ FoundFirst

SearchInv ==
  /\ IsLog(log)
  /\ report = "none" => Searching
  /\ ReportIsExact

\* The front moves to the next level when all of its own level is seen.
LEMMA ShallowLater ==
  ASSUME IsLog(log), NEW q \in Seq(Entries), Levelled(q), q # <<>>, NEW S,
         NEW n \in Nat, n # 0, \A m \in 0 .. n - 1 : Level[m] \subseteq S,
         q[1].depth \in {n, n + 1},
         \A y \in S, m \in Nat : y \in Level[m] =>
           \A z \in Above(y) : z \in S \/ \E d \in 0 .. m + 1 : Waits(q, z, d)
  PROVE  \A m \in 0 .. q[1].depth - 1 : Level[m] \subseteq S
<1>1. CASE q[1].depth = n
  BY <1>1
<1>2. CASE q[1].depth = n + 1
  <2>1. \A m \in 0 .. q[1].depth - 1 : m \in 0 .. n - 1 \/ m = n
    BY <1>2
  <2>2. ASSUME NEW z \in Level[n] PROVE z \in S
    <3>1. PICK m \in Nat : m = n - 1
      OBVIOUS
    <3>2. m + 1 = n /\ m \in 0 .. n - 1
      BY <3>1
    <3>3. PICK y \in Level[m] : z \in Above(y)
      BY <2>2, <3>1, <3>2, LevelUnfolds
    <3>4. y \in S
      BY <3>2, <3>3
    <3>5. z \in S \/ \E d \in 0 .. n : Waits(q, z, d)
      BY <3>2, <3>3, <3>4
    <3>6. ASSUME NEW d \in 0 .. n, Waits(q, z, d) PROVE FALSE
      <4>1. d \in {n + 1, n + 2}
        BY <1>2, <3>6, FrontDepths
      <4>2. QED
        BY <4>1
    <3>7. QED
      BY <3>5, <3>6
  <2>3. QED
    BY <2>1, <2>2
<1>3. QED
  BY <1>1, <1>2

\* The shortest distance of an id is the one it is found at.
LEMMA DistanceFound ==
  ASSUME NEW id, NEW n \in 0 .. Cardinality(Ids), id \in Level[n],
         \A m \in 0 .. n - 1 : id \notin Level[m]
  PROVE  Distance(id) = n
<1>1. Cardinality(Ids) \in Nat
  BY EventGraphAssumption, FS_CardinalityType
<1>2. ASSUME NEW k \in 0 .. Cardinality(Ids), id \in Level[k],
             \A m \in 0 .. k - 1 : id \notin Level[m]
      PROVE  k = n
  <2>1. ~(k < n)
    BY <1>1, <1>2
  <2>2. ~(n < k)
    BY <1>1, <1>2
  <2>3. QED
    BY <1>1, <2>1, <2>2
<1>3. QED
  BY <1>2 DEF Distance

\* What is seen is all of the ancestry once nothing waits.
LEMMA AllSeen ==
  ASSUME IsLog(log), Searching, pending = <<>>
  PROVE  Ancestry \subseteq seen
<1>1. \A z, d : ~Waits(pending, z, d)
  BY DEF Waits
<1>2. ASSUME NEW y \in seen PROVE Above(y) \subseteq seen
  <2>1. PICK n \in Nat : y \in Level[n]
    BY DEF Searching, Climbed
  <2>2. QED
    BY <1>1, <2>1 DEF Searching, Expanded
<1>3. seen \in SUBSET Ids /\ Start \in seen /\ ClosedUp(seen)
  BY <1>2 DEF Searching, Climbed, Ancestry, ClosedUp
<1>4. QED
  BY <1>3, AncestryIsLeast

\* Finite sets of ids.
LEMMA IdsFinite ==
  ASSUME NEW S, S \subseteq Ids
  PROVE  /\ IsFiniteSet(S) /\ Cardinality(S) \in Nat /\ Cardinality(S) <= Cardinality(Ids)
         /\ Cardinality(Ids) \in Nat
BY EventGraphAssumption, FS_Subset, FS_CardinalityType

\* What is said of a log stays true of it.
LEMMA LogStands ==
  ASSUME UNCHANGED log
  PROVE  /\ Level' = Level /\ Ancestry' = Ancestry /\ Geneses' = Geneses
         /\ \A id : /\ Above(id)' = Above(id) /\ Held(id)' = Held(id)
                    /\ IsGenesis(id)' = IsGenesis(id) /\ Distance(id)' = Distance(id)
         /\ IsLog(log)' = IsLog(log)
<1>1. /\ \A id : /\ Above(id)' = Above(id) /\ Held(id)' = Held(id)
                 /\ IsGenesis(id)' = IsGenesis(id)
      /\ IsLog(log)' = IsLog(log)
  BY DEF Above, Held, IsGenesis, IsLog
<1>2. Level' = Level
  BY DEF Level, Above, Held, IsGenesis
<1>3. Ancestry' = Ancestry /\ Geneses' = Geneses
  BY DEF Geneses, Ancestry, ClosedUp, Above, Held, IsGenesis
<1>4. \A id : Distance(id)' = Distance(id)
  BY <1>2 DEF Distance
<1>5. QED
  BY <1>1, <1>2, <1>3, <1>4

\* An id is taken off the front; if it is new, its parents go to the end.
LEMMA TakenKeeps ==
  ASSUME IsLog(log), Searching, NEW id, Takes(id), Held(id), UNCHANGED log,
         NEW S \in SUBSET Ids, (id \in seen /\ S = {}) \/ (id \notin seen /\ S = Above(id)),
         pending' = PushAt(Rest(id), S, pending[1].depth + 1), seen' = seen \cup {id}
  PROVE  /\ pending' \in Seq(Entries) /\ Levelled(pending')
         /\ Climbed' /\ Expanded' /\ Shallow'
<1>1. /\ pending \in Seq(Entries) /\ Levelled(pending) /\ pending # <<>> /\ id \in pending[1].ids
  BY DEF Searching, Takes
<1>2. PICK n : n = pending[1].depth
  OBVIOUS
<1>3. /\ n \in Nat /\ id \in Ids /\ Waits(pending, id, n)
      /\ \A z, d : Waits(pending, z, d) => z \in Ids /\ d \in {n, n + 1}
  BY <1>1, <1>2, FrontDepths
<1>4. id \in Ancestry /\ n # 0 /\ id \in Level[n] /\ n <= Cardinality(seen)
  BY <1>3 DEF Searching, Climbed
<1>5. PICK r : r = Rest(id)
  OBVIOUS
<1>6. /\ r \in Seq(Entries) /\ Levelled(r)
      /\ \A z, d : Waits(r, z, d) => Waits(pending, z, d)
      /\ \A z, d : Waits(pending, z, d) => z = id \/ Waits(r, z, d)
  BY <1>1, <1>5, RestKeeps
<1>7. PICK q : q = pending'
  OBVIOUS
<1>8. q = PushAt(r, S, n + 1)
  BY <1>2, <1>5, <1>7
<1>9. \A z, d : Waits(r, z, d) => d \in {n, n + 1}
  BY <1>3, <1>6
<1>10. /\ q \in Seq(Entries) /\ Levelled(q)
       /\ \A z, d : Waits(q, z, d) <=> Waits(r, z, d) \/ (z \in S /\ d = n + 1)
  BY <1>3, <1>6, <1>8, <1>9, PushKeeps
<1>11. PICK s : s = seen'
  OBVIOUS
<1>12. s = seen \cup {id} /\ seen \subseteq Ids /\ Start \in seen
  BY <1>11 DEF Searching, Climbed, Ancestry
<1>13. /\ Start \in s /\ s \subseteq Ancestry
       /\ \A y \in s : Held(y) /\ \E m \in Nat : y \in Level[m]
  BY <1>3, <1>4, <1>12 DEF Searching, Climbed
<1>14. PICK size \in Nat : size = Cardinality(seen)
  BY <1>12, IdsFinite
<1>15. PICK after \in Nat : after = Cardinality(s)
  BY <1>3, <1>12, IdsFinite
<1>16. size <= after /\ (id \notin seen => after = size + 1)
  <2>1. IsFiniteSet(seen)
    BY <1>12, IdsFinite
  <2>2. Cardinality(s) = IF id \in seen THEN Cardinality(seen) ELSE Cardinality(seen) + 1
    BY <1>12, <2>1, FS_AddElement
  <2>3. QED
    BY <1>14, <1>15, <2>2
<1>17. \A z, d : Waits(q, z, d) => z \in Ancestry /\ d # 0 /\ z \in Level[d] /\ d <= after
  <2>1. ASSUME NEW z, NEW d, Waits(r, z, d)
        PROVE  z \in Ancestry /\ d # 0 /\ z \in Level[d] /\ d <= after
    <3>1. Waits(pending, z, d) /\ d \in Nat
      BY <1>3, <1>6, <2>1
    <3>2. z \in Ancestry /\ d # 0 /\ z \in Level[d] /\ d <= size
      BY <1>14, <3>1 DEF Searching, Climbed
    <3>3. QED
      BY <1>16, <3>1, <3>2
  <2>2. ASSUME NEW z \in S
        PROVE  z \in Ancestry /\ n + 1 # 0 /\ z \in Level[n + 1] /\ n + 1 <= after
    <3>1. id \notin seen /\ z \in Above(id)
      BY <2>2
    <3>2. z \in Ancestry
      BY <1>4, <3>1, AncestryIsLeast DEF ClosedUp
    <3>3. z \in Level[n + 1]
      BY <1>3, <1>4, <3>1, LevelUnfolds
    <3>4. n + 1 <= after /\ n + 1 # 0
      BY <1>3, <1>4, <1>14, <1>16, <3>1
    <3>5. QED
      BY <3>2, <3>3, <3>4
  <2>3. QED
    BY <1>10, <2>1, <2>2
<1>18. \A y \in s, m \in Nat : y \in Level[m] =>
         \A z \in Above(y) : z \in s \/ \E d \in 0 .. m + 1 : Waits(q, z, d)
  <2> SUFFICES ASSUME NEW y \in s, NEW m \in Nat, y \in Level[m], NEW z \in Above(y), z \notin s
               PROVE  \E d \in 0 .. m + 1 : Waits(q, z, d)
    OBVIOUS
  <2>1. CASE y \in seen
    <3>1. PICK d \in 0 .. m + 1 : Waits(pending, z, d)
      BY <1>12, <2>1 DEF Searching, Expanded
    <3>2. QED
      BY <1>6, <1>10, <1>12, <3>1
  <2>2. CASE y \notin seen
    <3>1. y = id /\ z \in S
      BY <1>12, <2>2
    <3>2. m \notin 0 .. n - 1
      BY <1>1, <1>2, <2>2 DEF Searching, Shallow
    <3>3. n + 1 \in 0 .. m + 1
      BY <1>3, <3>2
    <3>4. QED
      BY <1>10, <3>1, <3>3
  <2>3. QED
    BY <2>1, <2>2
<1>19. q # <<>> => \A m \in 0 .. q[1].depth - 1 : Level[m] \subseteq s
  <2> SUFFICES ASSUME q # <<>> PROVE \A m \in 0 .. q[1].depth - 1 : Level[m] \subseteq s
    OBVIOUS
  <2>1. \A m \in 0 .. n - 1 : Level[m] \subseteq s
    BY <1>1, <1>2, <1>12 DEF Searching, Shallow
  <2>2. q[1].depth \in {n, n + 1}
    <3>1. PICK z \in q[1].ids : Waits(q, z, q[1].depth)
      BY <1>10, FrontDepths
    <3>2. QED
      BY <1>9, <1>10, <3>1
  <2>3. QED
    BY <1>3, <1>4, <1>10, <1>18, <2>1, <2>2, ShallowLater
<1>20. Climbed'
  BY <1>7, <1>11, <1>13, <1>15, <1>17, LogStands DEF Climbed
<1>21. Expanded'
  BY <1>7, <1>11, <1>18, LogStands DEF Expanded
<1>22. Shallow'
  BY <1>7, <1>11, <1>19, LogStands DEF Shallow
<1>23. QED
  BY <1>7, <1>10, <1>20, <1>21, <1>22

\* A report, and what it has to say of the log.
LEMMA Reports ==
  ASSUME SearchInv, UNCHANGED log, NEW r, Report(r),
         \/ /\ r = "reachable" /\ \A id \in Ancestry : Held(id)
            /\ Geneses = {found} /\ foundDepth = Distance(found)
         \/ r = "parent_missing" /\ \E id \in Ancestry : ~Held(id)
         \/ r = "multiple_genesis_found" /\ Cardinality(Geneses) > 1
         \/ r = "depth_exceeded" /\ Cardinality(Ancestry) > MaxDepth
         \/ r = "transitive_genesis_unreachable" /\ Geneses = {}
  PROVE  SearchInv'
<1>1. /\ IsLog(log)' /\ Ancestry' = Ancestry /\ Geneses' = Geneses
      /\ \A id : Held(id)' = Held(id) /\ Distance(id)' = Distance(id)
  BY LogStands DEF SearchInv
<1>2. report' = r /\ found' = found /\ foundDepth' = foundDepth
  BY DEF Report
<1>3. report' # "none"
  BY <1>2
<1>4. Distance(found)' = Distance(found)
  BY <1>1, <1>2
<1>5. ReportIsExact'
  BY <1>1, <1>2, <1>4 DEF ReportIsExact
<1>6. QED
  BY <1>1, <1>3, <1>5 DEF SearchInv

\* What is still to be said of a search that took an id and goes on.
LEMMA GoesOn ==
  ASSUME SearchInv, report = "none", NEW id, Takes(id), Held(id), UNCHANGED <<log, report>>,
         NEW S \in SUBSET Ids, (id \in seen /\ S = {}) \/ (id \notin seen /\ S = Above(id)),
         pending' = PushAt(Rest(id), S, pending[1].depth + 1), seen' = seen \cup {id},
         FoundFirst'
  PROVE  SearchInv'
<1>1. IsLog(log) /\ Searching
  BY DEF SearchInv
<1>2. Searching'
  BY <1>1, TakenKeeps DEF Searching
<1>3. IsLog(log)' /\ report' = "none"
  BY <1>1, LogStands
<1>4. ReportIsExact'
  BY <1>3 DEF ReportIsExact
<1>5. QED
  BY <1>2, <1>3, <1>4 DEF SearchInv

LEMMA TakingStep ==
  ASSUME SearchInv, UNCHANGED log, NEW id \in Ids,
         SeenBefore(id) \/ FirstGenesis(id) \/ Descends(id)
  PROVE  SearchInv'
<1>1. Takes(id) /\ report = "none" /\ IsLog(log) /\ Searching
  BY DEF SearchInv, SeenBefore, FirstGenesis, Descends, Takes
<1>2. \A y : IsGenesis(y)' = IsGenesis(y)
  BY LogStands
<1>3. \A d : PushAt(Rest(id), {}, d) = Rest(id)
  BY DEF PushAt
<1>4. CASE SeenBefore(id)
  <2>1. id \in seen /\ pending' = Rest(id) /\ UNCHANGED <<seen, found, foundDepth, report>>
    BY <1>4 DEF SeenBefore
  <2>2. Held(id)
    BY <1>1, <2>1 DEF Searching, Climbed
  <2>3. FoundFirst'
    BY <1>1, <1>2, <2>1, LogStands DEF Searching, FoundFirst
  <2>4. PICK S \in SUBSET Ids : S = {}
    OBVIOUS
  <2>5. seen' = seen \cup {id} /\ pending' = PushAt(Rest(id), S, pending[1].depth + 1)
    BY <1>3, <2>1, <2>4
  <2>6. QED
    BY <1>1, <2>1, <2>2, <2>3, <2>4, <2>5, GoesOn
<1>5. CASE FirstGenesis(id)
  <2>1. /\ id \notin seen /\ IsGenesis(id) /\ found = NoId
        /\ seen' = seen \cup {id} /\ pending' = Rest(id) /\ found' = id /\ report' = report
        /\ foundDepth' = pending[1].depth
    BY <1>5 DEF FirstGenesis
  <2>2. Above(id) = {} /\ Held(id)
    BY <2>1 DEF Above, IsGenesis
  <2>3. /\ pending \in Seq(Entries) /\ Levelled(pending) /\ pending # <<>>
        /\ id \in pending[1].ids
    BY <1>1 DEF Searching, Takes
  <2>4. PICK n : n = pending[1].depth
    OBVIOUS
  <2>5. n \in Nat /\ Waits(pending, id, n)
    BY <2>3, <2>4, FrontDepths
  <2>6. id \in Level[n] /\ n <= Cardinality(seen)
    BY <1>1, <2>5 DEF Searching, Climbed
  <2>7. seen \subseteq Ids /\ NoId \notin Ids
    BY <1>1, EventGraphAssumption DEF Searching, Climbed, Ancestry
  <2>8. n \in 0 .. Cardinality(Ids)
    BY <2>5, <2>6, <2>7, IdsFinite
  <2>9. \A m \in 0 .. n - 1 : id \notin Level[m]
    BY <1>1, <2>1, <2>3, <2>4 DEF Searching, Shallow
  <2>10. \A y \in seen : ~IsGenesis(y)
    BY <1>1, <2>1, <2>7 DEF Searching, FoundFirst
  <2>11. Level' = Level
    BY LogStands
  <2>12. FoundFirst'
    BY <1>2, <2>1, <2>4, <2>6, <2>8, <2>9, <2>10, <2>11 DEF FoundFirst
  <2>13. pending' = PushAt(Rest(id), {}, pending[1].depth + 1)
    BY <1>3, <2>1
  <2>14. QED
    BY <1>1, <2>1, <2>2, <2>12, <2>13, GoesOn
<1>6. CASE Descends(id)
  <2>1. /\ id \notin seen /\ Held(id) /\ ~IsGenesis(id)
        /\ seen' = seen \cup {id}
        /\ pending' = PushAt(Rest(id), log[id].parents, pending[1].depth + 1)
        /\ UNCHANGED <<found, foundDepth, report>>
    BY <1>6 DEF Descends
  <2>2. Above(id) = log[id].parents /\ Above(id) \in SUBSET Ids
    BY <1>1, <2>1 DEF Above, IsLog, Event, Held
  <2>3. FoundFirst'
    BY <1>1, <1>2, <2>1, LogStands DEF Searching, FoundFirst
  <2>4. QED
    BY <1>1, <2>1, <2>2, <2>3, GoesOn
<1>7. QED
  BY <1>4, <1>5, <1>6

LEMMA EndingStep ==
  ASSUME SearchInv, UNCHANGED log,
         \/ \E id \in Ids : Missing(id) \/ SecondGenesis(id)
         \/ Overrun \/ Concludes
  PROVE  SearchInv'
<1>1. report = "none" /\ IsLog(log) /\ Searching
  BY DEF SearchInv, Missing, SecondGenesis, Takes, Overrun, Concludes
<1>2. seen \subseteq Ancestry /\ Ancestry \subseteq Ids /\ Geneses \subseteq Ancestry
  BY <1>1 DEF Searching, Climbed, Ancestry, Geneses
<1>3. ASSUME NEW id \in Ids, Takes(id)
      PROVE  id \in Ancestry
  <2>1. /\ pending \in Seq(Entries) /\ Levelled(pending) /\ pending # <<>>
        /\ id \in pending[1].ids
    BY <1>1, <1>3 DEF Searching, Takes
  <2>2. Waits(pending, id, pending[1].depth)
    BY <2>1, FrontDepths
  <2>3. QED
    BY <1>1, <2>2 DEF Searching, Climbed
<1>4. ASSUME NEW id \in Ids, Missing(id)
      PROVE  SearchInv'
  <2>1. Takes(id) /\ ~Held(id) /\ Report("parent_missing")
    BY <1>4 DEF Missing
  <2>2. QED
    BY <1>3, <2>1, Reports
<1>5. ASSUME NEW id \in Ids, SecondGenesis(id)
      PROVE  SearchInv'
  <2>1. /\ Takes(id) /\ id \notin seen /\ IsGenesis(id) /\ found # NoId
        /\ Report("multiple_genesis_found")
    BY <1>5 DEF SecondGenesis
  <2>2. found \in seen /\ IsGenesis(found)
    BY <1>1, <2>1 DEF Searching, FoundFirst
  <2>3. {id, found} \subseteq Geneses /\ id # found
    BY <1>2, <1>3, <2>1, <2>2 DEF Geneses
  <2>4. Cardinality({id, found}) = 2
    <3>1. {id, found} = {found} \cup {id} /\ id \notin {found}
      BY <2>3
    <3>2. IsFiniteSet({found}) /\ Cardinality({found}) = 1
      BY FS_Singleton
    <3>3. Cardinality({found} \cup {id}) = Cardinality({found}) + 1
      BY <3>1, <3>2, FS_AddElement
    <3>4. QED
      BY <3>1, <3>2, <3>3
  <2>5. Cardinality({id, found}) <= Cardinality(Geneses) /\ Cardinality(Geneses) \in Nat
    <3>1. IsFiniteSet(Geneses) /\ Cardinality(Geneses) \in Nat
      BY <1>2, IdsFinite
    <3>2. QED
      BY <2>3, <3>1, FS_Subset
  <2>6. Cardinality(Geneses) > 1
    BY <2>4, <2>5
  <2>7. QED
    BY <2>1, <2>6, Reports
<1>6. CASE Overrun
  <2>1. Report("depth_exceeded") /\ Cardinality(seen) > MaxDepth
    BY <1>6 DEF Overrun
  <2>2. PICK n \in Nat : n = Cardinality(seen)
    BY <1>2, IdsFinite
  <2>3. PICK m \in Nat : m = Cardinality(Ancestry)
    BY <1>2, IdsFinite
  <2>4. Cardinality(seen) <= Cardinality(Ancestry)
    BY <1>2, IdsFinite, FS_Subset
  <2>5. Cardinality(Ancestry) > MaxDepth
    BY <2>1, <2>2, <2>3, <2>4, EventGraphAssumption
  <2>6. QED
    BY <2>1, <2>5, Reports
<1>7. CASE Concludes
  <2>1. /\ pending = <<>>
        /\ Report(IF found = NoId THEN "transitive_genesis_unreachable" ELSE "reachable")
    BY <1>7 DEF Concludes
  <2>2. Ancestry \subseteq seen
    BY <1>1, <2>1, AllSeen
  <2>3. CASE found = NoId
    <3>1. NoId \notin seen
      BY <1>2, EventGraphAssumption
    <3>2. Geneses = {}
      BY <1>1, <2>2, <2>3, <3>1 DEF Searching, FoundFirst, Geneses
    <3>3. QED
      BY <2>1, <2>3, <3>2, Reports
  <2>4. CASE found # NoId
    <3>1. /\ found \in seen /\ \A y \in seen : IsGenesis(y) <=> y = found
          /\ foundDepth \in 0 .. Cardinality(Ids) /\ found \in Level[foundDepth]
          /\ \A m \in 0 .. foundDepth - 1 : found \notin Level[m]
      BY <1>1, <2>4 DEF Searching, FoundFirst
    <3>2. Geneses = {found}
      BY <1>2, <2>2, <3>1 DEF Geneses
    <3>3. foundDepth = Distance(found)
      BY <3>1, DistanceFound
    <3>4. \A id \in Ancestry : Held(id)
      BY <1>1, <2>2 DEF Searching, Climbed
    <3>5. Report("reachable")
      BY <2>1, <2>4
    <3>6. QED
      BY <3>2, <3>3, <3>4, <3>5, Reports
  <2>5. QED
    BY <2>3, <2>4
<1>8. QED
  BY <1>4, <1>5, <1>6, <1>7

LEMMA SearchInitial == Init => SearchInv
<1> SUFFICES ASSUME Init PROVE SearchInv
  OBVIOUS
<1>1. IsLog(log) /\ SearchInit
  BY EventGraphAssumption DEF Init
<1>2. Start \in Ids /\ Held(Start) /\ {Start} \in SUBSET Ids
  BY <1>1, EventGraphAssumption DEF IsLog, Held
<1>3. Start \in Ancestry /\ ClosedUp(Ancestry)
  BY <1>1, AncestryIsLeast
<1>4. Level[0] = {Start}
  BY <1>1, LevelUnfolds
<1>5. IsFiniteSet(Ids) /\ Cardinality(Ids) \in Nat
  BY <1>2, IdsFinite
<1>6. CASE IsGenesis(Start)
  <2>1. report = "reachable" /\ found = Start /\ foundDepth = 0
    BY <1>1, <1>6 DEF SearchInit
  <2>2. ClosedUp({Start})
    BY <1>6 DEF ClosedUp, Above
  <2>3. Ancestry = {Start}
    BY <1>1, <1>2, <1>3, <2>2, AncestryIsLeast
  <2>4. Geneses = {Start}
    BY <1>6, <2>3 DEF Geneses
  <2>5. Distance(Start) = 0
    BY <1>4, <1>5, DistanceFound
  <2>6. ReportIsExact
    BY <1>2, <2>1, <2>3, <2>4, <2>5 DEF ReportIsExact
  <2>7. QED
    BY <1>1, <2>1, <2>6 DEF SearchInv
<1>7. CASE ~IsGenesis(Start)
  <2>1. PICK S : S = log[Start].parents
    OBVIOUS
  <2>2. /\ report = "none" /\ found = NoId /\ seen = {Start}
        /\ pending = PushAt(<<>>, S, 1)
    BY <1>1, <1>7, <2>1 DEF SearchInit
  <2>3. Above(Start) = S /\ S \in SUBSET Ids
    BY <1>1, <1>2, <1>7, <2>1 DEF Above, IsLog, Event, Held
  <2>4. PICK q : q = <<>>
    OBVIOUS
  <2>5. q \in Seq(Entries) /\ Levelled(q) /\ \A z, d : ~Waits(q, z, d)
    BY <2>4 DEF Levelled, Waits
  <2>6. /\ pending \in Seq(Entries) /\ Levelled(pending)
        /\ \A z, d : Waits(pending, z, d) <=> z \in S /\ d = 1
    <3>1. 0 \in Nat /\ 0 + 1 = 1
      OBVIOUS
    <3>2. QED
      BY <2>2, <2>3, <2>4, <2>5, <3>1, PushKeeps
  <2>7. Cardinality(seen) = 1
    BY <2>2, FS_Singleton
  <2>8. Climbed
    <3>1. S \subseteq Level[1]
      <4>1. 0 + 1 = 1 /\ 0 \in Nat
        OBVIOUS
      <4>2. QED
        BY <1>1, <1>4, <2>3, <4>1, LevelUnfolds
    <3>2. S \subseteq Ancestry
      BY <1>3, <2>3 DEF ClosedUp
    <3>3. \A y \in seen : Held(y) /\ \E n \in Nat : y \in Level[n]
      BY <1>2, <1>4, <2>2
    <3>4. QED
      BY <1>3, <2>2, <2>6, <2>7, <3>1, <3>2, <3>3 DEF Climbed
  <2>9. Expanded
    BY <2>2, <2>3, <2>6 DEF Expanded
  <2>10. Shallow
    <3> SUFFICES ASSUME pending # <<>>, NEW n \in 0 .. pending[1].depth - 1
                 PROVE  Level[n] \subseteq seen
      BY DEF Shallow
    <3>1. PICK z \in pending[1].ids : Waits(pending, z, pending[1].depth)
      BY <2>6, FrontDepths
    <3>2. pending[1].depth = 1
      BY <2>6, <3>1
    <3>3. n = 0
      BY <3>2
    <3>4. QED
      BY <1>4, <2>2, <3>3
  <2>11. FoundFirst
    BY <1>7, <2>2 DEF FoundFirst
  <2>12. ReportIsExact
    BY <2>2 DEF ReportIsExact
  <2>13. QED
    BY <1>1, <2>6, <2>8, <2>9, <2>10, <2>11, <2>12 DEF SearchInv, Searching
<1>8. QED
  BY <1>6, <1>7

\* The inductive invariant of the search.
THEOREM SearchInvariance == Spec => []SearchInv
<1>1. SearchInv /\ [Next]_vars => SearchInv'
  <2> SUFFICES ASSUME SearchInv, [Next]_vars PROVE SearchInv'
    OBVIOUS
  <2>1. CASE UNCHANGED <<log, searchVars>>
    <3>1. /\ IsLog(log)' = IsLog(log) /\ Level' = Level
          /\ Ancestry' = Ancestry /\ Geneses' = Geneses
          /\ \A id : /\ Above(id)' = Above(id) /\ Held(id)' = Held(id)
                     /\ IsGenesis(id)' = IsGenesis(id) /\ Distance(id)' = Distance(id)
      BY <2>1, LogStands
    <3>2. /\ pending' = pending /\ seen' = seen /\ found' = found
          /\ foundDepth' = foundDepth /\ report' = report
      BY <2>1 DEF searchVars
    <3>3. ReportIsExact'
      BY <3>1, <3>2 DEF SearchInv, ReportIsExact
    <3>4. Climbed' = Climbed /\ Expanded' = Expanded
      BY <3>1, <3>2 DEF Climbed, Expanded, Waits
    <3>5. Shallow' = Shallow /\ FoundFirst' = FoundFirst /\ Levelled(pending)' = Levelled(pending)
      BY <3>1, <3>2 DEF Shallow, FoundFirst, Levelled
    <3>6. QED
      BY <3>1, <3>2, <3>3, <3>4, <3>5 DEF SearchInv, Searching
  <2>2. CASE Search /\ UNCHANGED log
    BY <2>2, TakingStep, EndingStep DEF Search
  <2>3. QED
    BY <2>1, <2>2 DEF Next, WalkStep, SearchStep, vars
<1>2. QED
  BY <1>1, SearchInitial, PTL DEF Spec

\* verifyTransitiveGenesis says of a log only what is so, and "reachable" with
\* the one genesis at its shortest distance, for every log with any joins,
\* any number of roots and every cap.
THEOREM SearchExact == Spec => []ReportIsExact
<1>1. SearchInv => ReportIsExact
  BY DEF SearchInv
<1>2. QED
  BY <1>1, SearchInvariance, PTL
=============================================================================
