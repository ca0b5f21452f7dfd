---------------------------- MODULE MCCheckpoint ----------------------------
(* Instances of Checkpoint for TLC. *)
EXTENDS Checkpoint, TLC

\* Every writer works for the one conversation there is.
MCSessionOf == [w \in Writer |-> CHOOSE s \in Session : TRUE]

\* The two files; manifests are sorted by path, so they are not interchangeable.
MCFile == {1, 2}
MCOneFile == {1}

MCSymmetry == Permutations(Writer) \cup Permutations(Restorer)
=============================================================================
