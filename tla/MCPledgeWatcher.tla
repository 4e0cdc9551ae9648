---------------------------- MODULE MCPledgeWatcher ----------------------------
(***************************************************************************)
(* A small instance of PledgeWatcher.                                      *)
(***************************************************************************)
EXTENDS PledgeWatcher
=============================================================================
