---------------------------- MODULE MCTurnStream ----------------------------
(* Instances of TurnStream for TLC. *)
EXTENDS TurnStream, TLC

\* Calls that run no subagent are interchangeable, and so are readers.
MCSymmetry == Permutations(Call) \cup Permutations(Reader)
=============================================================================
