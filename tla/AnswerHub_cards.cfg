\* Any two cards, each a question or a gated call, of two turns and about two things,
\* and two submissions, in every order.
SPECIFICATION Spec
CONSTANTS
  Card = {a1, a2, q1, q2}
  Question = {q1, q2}
  Turn = {t1, t2}
  Subject = {x1, x2}
  Submission = {s1, s2}
  None = None
  Remembered = 2
  MaxCards = 2
SYMMETRY MCSymmetry
INVARIANTS
  TypeOK
  NothingRunsUnallowed
  AnsweredOnce
CHECK_DEADLOCK FALSE
