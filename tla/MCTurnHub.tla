----------------------------- MODULE MCTurnHub -----------------------------
(* Instances of TurnHub for TLC. *)
EXTENDS TurnHub, TLC

\* Requests are interchangeable, and so are conversations: Init gives every
\* assignment of requests to conversations.
MCSymmetry == Permutations(Request) \cup Permutations(Session)
=============================================================================
