---------------------------- MODULE MCAnswerHub ----------------------------
(* Instances of AnswerHub for TLC. *)
EXTENDS AnswerHub, TLC

MCSymmetry ==
  Permutations(Question) \cup Permutations(Card \ Question) \cup Permutations(Turn)
  \cup Permutations(Subject) \cup Permutations(Submission)
=============================================================================
