---------------------------- MODULE GenesisSearch ----------------------------
(***************************************************************************)
(* verifyTransitiveGenesis of the events package: a breadth-first search   *)
(* for the genesis above an event of a complete log, which reports how far *)
(* it is and refuses a log with two.                                       *)
(***************************************************************************)
EXTENDS EventGraph

VARIABLES
  pending,      \* the queue: sets of ids with their depth
  seen,
  found,        \* foundGenesisId
  foundDepth,
  report        \* "none" while it runs, "reachable", or the error

searchVars == <<pending, seen, found, foundDepth, report>>

PushAt(q, S, d) == IF S = {} THEN q ELSE Append(q, [ids |-> S, depth |-> d])

SearchInit ==
  IF IsGenesis(Start)
  THEN /\ report = "reachable" /\ found = Start /\ foundDepth = 0
       /\ pending = <<>> /\ seen = {Start}
  ELSE /\ report = "none" /\ found = NoId /\ foundDepth = -1
       /\ pending = PushAt(<<>>, log[Start].parents, 1)
       /\ seen = {Start}

Report(r) == report' = r /\ UNCHANGED <<pending, seen, found, foundDepth>>

Overrun ==
  /\ report = "none" /\ pending # <<>> /\ Cardinality(seen) > MaxDepth
  /\ Report("depth_exceeded")

Rest(id) ==
  IF pending[1].ids = {id} THEN Tail(pending)
  ELSE [pending EXCEPT ![1].ids = @ \ {id}]

Takes(id) ==
  /\ report = "none" /\ pending # <<>> /\ Cardinality(seen) <= MaxDepth
  /\ id \in pending[1].ids

SeenBefore(id) ==
  /\ Takes(id) /\ id \in seen
  /\ pending' = Rest(id)
  /\ UNCHANGED <<seen, found, foundDepth, report>>

Missing(id) ==
  /\ Takes(id) /\ id \notin seen /\ ~Held(id)
  /\ Report("parent_missing")

\* Mutant: the search stops at the first genesis.
FirstGenesisEnds(id) ==
  /\ Takes(id) /\ id \notin seen /\ IsGenesis(id) /\ found = NoId
  /\ seen' = seen \cup {id}
  /\ pending' = <<>>
  /\ found' = id /\ foundDepth' = pending[1].depth
  /\ UNCHANGED report

\* The search goes on, to find a fork.
FirstGenesis(id) ==
  /\ Takes(id) /\ id \notin seen /\ IsGenesis(id) /\ found = NoId
  /\ seen' = seen \cup {id}
  /\ pending' = Rest(id)
  /\ found' = id /\ foundDepth' = pending[1].depth
  /\ UNCHANGED report

SecondGenesis(id) ==
  /\ Takes(id) /\ id \notin seen /\ IsGenesis(id) /\ found # NoId
  /\ Report("multiple_genesis_found")

Descends(id) ==
  /\ Takes(id) /\ id \notin seen /\ Held(id) /\ ~IsGenesis(id)
  /\ seen' = seen \cup {id}
  /\ pending' = PushAt(Rest(id), log[id].parents, pending[1].depth + 1)
  /\ UNCHANGED <<found, foundDepth, report>>

Concludes ==
  /\ report = "none" /\ pending = <<>>
  /\ Report(IF found = NoId THEN "transitive_genesis_unreachable" ELSE "reachable")

Search ==
  \/ \E id \in Ids :
       SeenBefore(id) \/ Missing(id) \/ FirstGenesis(id) \/ SecondGenesis(id) \/ Descends(id)
  \/ Overrun \/ Concludes

-----------------------------------------------------------------------------
\* The report is exact: "reachable" comes only for a complete ancestry with
\* one genesis, at its shortest distance; a refusal names something that is
\* so of the log. Joins in the graph and the order of the queue do not matter.
ReportIsExact ==
  CASE report = "none" -> TRUE
    [] report = "reachable" ->
         /\ \A id \in Ancestry : Held(id)
         /\ Geneses = {found} /\ foundDepth = Distance(found)
    [] report = "parent_missing" -> \E id \in Ancestry : ~Held(id)
    [] report = "multiple_genesis_found" -> Cardinality(Geneses) > 1
    [] report = "depth_exceeded" -> Cardinality(Ancestry) > MaxDepth
    [] report = "transitive_genesis_unreachable" -> Geneses = {}
=============================================================================
