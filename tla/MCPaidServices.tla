--------------------------- MODULE MCPaidServices ---------------------------
(* Three calls and two authorizations: some header is sent twice.           *)
EXTENDS PaidServices, TLC

Interchangeable == Permutations(Calls) \cup Permutations(Auths)
=============================================================================
