------------------------------ MODULE Verifier ------------------------------
(***************************************************************************)
(* The two walkers of the repository over one log: the third party's       *)
(* walkChain, whose calls may fail, and the search of the events package,  *)
(* which is one synchronous call.                                          *)
(***************************************************************************)
EXTENDS ChainWalk, GenesisSearch

vars == <<log, walkVars, searchVars>>

Init == log \in Logs /\ WalkInit /\ SearchInit

WalkStep == report # "none" /\ Walk /\ UNCHANGED <<log, searchVars>>
SearchStep == Search /\ UNCHANGED <<log, walkVars>>

Next == WalkStep \/ SearchStep

Spec == Init /\ [][Next]_vars

\* A call of a walk is answered or fails, and its loop goes on.
Fairness == WF_vars(WalkStep) /\ WF_vars(SearchStep)

FairSpec == Spec /\ Fairness
=============================================================================
