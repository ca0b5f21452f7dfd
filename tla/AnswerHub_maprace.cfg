\* Two parallel calls are in the turn's allowances at once.
SPECIFICATION Spec
CONSTANTS
  Card = {a1, a2}
  Question = {}
  Turn = {t1}
  Subject = {x1, x2}
  Submission = {s1}
  None = None
  Remembered = 2
  MaxCards = 2
INVARIANT NoMapRace
CHECK_DEADLOCK FALSE
