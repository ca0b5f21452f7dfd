---------------------------- MODULE MCMcpManager ----------------------------
(* Instances of McpManager for TLC. *)
EXTENDS McpManager, TLC
CONSTANTS d1, d2, x, y

\* Both definitions list one name, and one of them a name of the agent's own as well.
MCOffers == (d1 :> {x}) @@ (d2 :> {x, y})
=============================================================================
