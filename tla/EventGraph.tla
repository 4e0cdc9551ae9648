----------------------------- MODULE EventGraph -----------------------------
(***************************************************************************)
(* The signed log as the walkers of the repository see it: events that     *)
(* name their parents, up to a constitutional.genesis, which has none.     *)
(* An id is the hash of the event's content, so the content of an id never *)
(* changes. The order of the parents within one event is left out.         *)
(***************************************************************************)
EXTENDS Integers, Sequences, FiniteSets

CONSTANTS
  Ids,        \* the ids of events
  NoId,       \* no event
  Start,      \* the event a walk starts from
  MaxDepth,   \* MAX_WALK_DEPTH and MAX_TRANSITIVE_DEPTH
  Logs        \* the logs considered

\* An event: its type and parents; whether its signature verifies; for an
\* origination, whether the loan book holds its parameters; for a genesis,
\* whether it commits to the constitution the agent serves.
Event ==
  [type : {"genesis", "origination", "other"}, parents : SUBSET Ids,
   signed : BOOLEAN, stamped : BOOLEAN, lawful : BOOLEAN]

\* A log holds some of the ids, the start among them.
IsLog(l) ==
  /\ DOMAIN l \subseteq Ids /\ Start \in DOMAIN l
  /\ l \in [DOMAIN l -> Event]

ASSUME EventGraphAssumption ==
  /\ NoId \notin Ids /\ Start \in Ids /\ IsFiniteSet(Ids)
  /\ MaxDepth \in Nat \ {0}
  /\ \A l \in Logs : IsLog(l)

VARIABLE log    \* the events the server holds, by id

Held(id) == id \in DOMAIN log
IsGenesis(id) == Held(id) /\ log[id].type = "genesis"

\* What a walk goes on to from an event: a genesis ends it.
Above(id) == IF Held(id) /\ ~IsGenesis(id) THEN log[id].parents ELSE {}

\* The ancestry of the start: the least set with it that is closed under parents.
ClosedUp(S) == \A id \in S : Above(id) \subseteq S
Ancestry ==
  {id \in Ids : \A S \in SUBSET Ids : Start \in S /\ ClosedUp(S) => id \in S}

Geneses == {id \in Ancestry : IsGenesis(id)}

\* The ids n steps above the start, and the fewest steps to an id.
Level[n \in Nat] ==
  IF n = 0 THEN {Start} ELSE UNION {Above(id) : id \in Level[n - 1]}

Distance(id) ==
  CHOOSE n \in 0 .. Cardinality(Ids) :
    id \in Level[n] /\ \A m \in 0 .. n - 1 : id \notin Level[m]

-----------------------------------------------------------------------------
(* A queue of the code, as a sequence of the non-empty sets of ids pushed   *)
(* together: first in first out between sets, any order within one.         *)

Waiting(q) == UNION {q[i] : i \in DOMAIN q}
Without(q, id) ==
  IF q[1] = {id} THEN Tail(q) ELSE [q EXCEPT ![1] = @ \ {id}]
Pushed(q, S) == IF S = {} THEN q ELSE Append(q, S)
=============================================================================
