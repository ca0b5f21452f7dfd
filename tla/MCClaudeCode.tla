---------------------------- MODULE MCClaudeCode ----------------------------
(* Instances of ClaudeCode for TLC. *)
EXTENDS ClaudeCode, TLC
CONSTANTS hooks, off

MCHandlersOf == hooks :> 2 @@ off :> 0

Says(top, permission, input, continue) ==
  [top |-> top, permission |-> permission, input |-> input, continue |-> continue]
Ends(exit, says) == [exit |-> exit, says |-> says]

\* One reply of each kind that a rule of the aggregation tells apart.
MCReplies ==
  {Ends("ok", Says("none", "allow", TRUE, TRUE)),
   Ends("ok", Says("none", "ask", FALSE, TRUE)),
   Ends("ok", Says("none", "defer", TRUE, TRUE)),
   Ends("ok", Says("block", "none", FALSE, FALSE)),
   Ends("block", Says("none", "allow", TRUE, TRUE)),
   Ends("error", Says("none", "deny", FALSE, FALSE))}
=============================================================================
