----------------------------- MODULE MCAgentPool -----------------------------
(***************************************************************************)
(* A small instance of AgentPool: a depositor, a donor, the relayer, two   *)
(* books so that one can be replaced under an open position.               *)
(***************************************************************************)
EXTENDS AgentClaims, TLC

CONSTANTS lp, donor, relayer

MCEndowment == (lp :> 40) @@ (donor :> 3) @@ (relayer :> 3)

Symmetry == Permutations(Books) \cup Permutations(PositionIds)
=============================================================================
