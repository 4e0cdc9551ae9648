------------------------------ MODULE ChainWalk ------------------------------
(***************************************************************************)
(* walkChain of the verify package: from one event of a server's log up to *)
(* its genesis, checking every signature, every origination against the    *)
(* loan book, and the constitution of the genesis. A failed check is       *)
(* recorded and the walk goes on with the rest of the queue.               *)
(***************************************************************************)
EXTENDS EventGraph

CONSTANTS
  OnChain,      \* enableOnChainCheck
  MaxFaults     \* bound: calls to the server or the chain that fail

ASSUME ChainWalkAssumption == OnChain \in BOOLEAN /\ MaxFaults \in Nat

VARIABLES
  queue,     \* the ids still to fetch
  visited,
  errors,    \* the ids with an error, NoId for one of the walk itself
  genesis,   \* genesisId: the first genesis met
  verdict,   \* "none" while the walk runs, then result.ok
  faults     \* failed calls so far

walkVars == <<queue, visited, errors, genesis, verdict, faults>>

WalkInit ==
  /\ queue = << {Start} >>
  /\ visited = {}
  /\ errors = {}
  /\ genesis = NoId
  /\ verdict = "none"
  /\ faults = 0

\* Mutant: the cap is checked one event late.
RoomLate == Cardinality(visited) <= MaxDepth

Room == Cardinality(visited) < MaxDepth

End(ok, error) ==
  /\ verdict' = IF ok THEN "ok" ELSE "refused"
  /\ errors' = errors \cup error
  /\ UNCHANGED <<queue, visited, genesis>>

TooDeep ==
  /\ verdict = "none" /\ queue # <<>> /\ ~Room
  /\ End(FALSE, {NoId})
  /\ UNCHANGED faults

\* queue.shift()
Shift(id) ==
  /\ verdict = "none" /\ queue # <<>> /\ Room
  /\ id \in queue[1]
  /\ UNCHANGED verdict

\* Mutant: an id met again is taken for a cycle.
RevisitFails(id) ==
  /\ Shift(id) /\ id \in visited
  /\ queue' = Without(queue, id)
  /\ errors' = errors \cup {id}
  /\ UNCHANGED <<visited, genesis, faults>>

Revisit(id) ==
  /\ Shift(id) /\ id \in visited
  /\ queue' = Without(queue, id)
  /\ UNCHANGED <<visited, errors, genesis, faults>>

Visit(id) ==
  /\ Shift(id) /\ id \notin visited
  /\ visited' = visited \cup {id}

\* A call fails: the network, the server or the node behind it.
Fault == faults < MaxFaults /\ faults' = faults + 1

\* Mutant: an event the server does not return is passed over.
MissesQuietly(id) ==
  /\ Visit(id)
  /\ \/ ~Held(id) /\ UNCHANGED faults
     \/ Fault
  /\ queue' = Without(queue, id)
  /\ UNCHANGED <<errors, genesis>>

\* The server has no such event, or answers with an error or another event.
Misses(id) ==
  /\ Visit(id)
  /\ \/ ~Held(id) /\ UNCHANGED faults
     \/ Fault
  /\ queue' = Without(queue, id)
  /\ errors' = errors \cup {id}
  /\ UNCHANGED genesis

Checked(id) == log[id].type = "origination" /\ OnChain

\* The signature fails, or the loan book holds other parameters, or none, or
\* could not be read: the parents are not walked.
Rejects(id) ==
  /\ Visit(id) /\ Held(id)
  /\ \/ (log[id].signed => Checked(id) /\ ~log[id].stamped) /\ UNCHANGED faults
     \/ log[id].signed /\ Checked(id) /\ Fault
  /\ queue' = Without(queue, id)
  /\ errors' = errors \cup {id}
  /\ UNCHANGED genesis

Verified(id) == Held(id) /\ log[id].signed /\ (Checked(id) => log[id].stamped)

Expands(id) ==
  /\ Visit(id) /\ Held(id) /\ Verified(id) /\ ~IsGenesis(id)
  /\ queue' = Pushed(Without(queue, id), log[id].parents \ visited')
  /\ UNCHANGED <<errors, genesis, faults>>

ReachesGenesis(id) ==
  /\ Visit(id) /\ Held(id) /\ Verified(id) /\ IsGenesis(id)
  /\ queue' = Without(queue, id)
  /\ genesis' = IF genesis = NoId THEN id ELSE genesis
  /\ UNCHANGED <<errors, faults>>

Unrooted ==
  /\ verdict = "none" /\ queue = <<>> /\ genesis = NoId
  /\ End(FALSE, {NoId})
  /\ UNCHANGED faults

\* The genesis is fetched again and its constitution compared.
Judges ==
  /\ verdict = "none" /\ queue = <<>> /\ genesis # NoId
  /\ IF log[genesis].lawful THEN End(errors = {}, {}) ELSE End(FALSE, {genesis})
  /\ UNCHANGED faults

RefetchFails ==
  /\ verdict = "none" /\ queue = <<>> /\ genesis # NoId
  /\ End(FALSE, {genesis})
  /\ Fault

Walk ==
  \/ \E id \in Ids :
       Revisit(id) \/ Misses(id) \/ Rejects(id) \/ Expands(id) \/ ReachesGenesis(id)
  \/ TooDeep \/ Unrooted \/ Judges \/ RefetchFails

-----------------------------------------------------------------------------
WalkTypeOK ==
  /\ queue \in Seq((SUBSET Ids) \ {{}})
  /\ visited \subseteq Ids /\ Cardinality(visited) <= MaxDepth
  /\ errors \subseteq visited \cup {NoId}
  /\ genesis \in visited \cup {NoId}
  /\ verdict \in {"none", "ok", "refused"}
  /\ faults \in 0 .. MaxFaults

\* Exit code 0 means what the verifier says: every event above the start was
\* served, is signed and, where checked, is stamped on chain, however the
\* branches join, and one of them is a genesis of the served constitution.
AcceptedIsVerified ==
  verdict = "ok" =>
    /\ \A id \in Ancestry : Verified(id)
    /\ \E id \in Geneses : log[id].lawful

Sound ==
  /\ \A id \in Ancestry : Verified(id)
  /\ Geneses # {} /\ \A id \in Geneses : log[id].lawful

\* A sound ancestry below the cap is accepted, whatever its joins, unless a
\* call failed: one event reached along many paths is no error and no cycle.
SoundIsAccepted ==
  (Sound /\ Cardinality(Ancestry) < MaxDepth) ~> (verdict = "ok" \/ faults > 0)
=============================================================================
