\* Two turns with two calls in all, which may overlap and may be batches of two files, one
\* rollback, and one mishap at any moment: a write by somebody else, a file that cannot be
\* captured, a manifest or a file that cannot be written, or a crash.
SPECIFICATION Spec
CONSTANTS
  Session = {c1}
  Writer = {w1, w2}
  Restorer = {r1}
  SessionOf <- MCSessionOf
  File <- MCFile
  Paths = {1}
  Batches = {{1,2}}
  None = None
  KeepTurns = 1
  MaxTurns = 2
  MaxCalls = 2
  MaxRestores = 1
  MaxContents = 3
  MaxMishaps = 1
  MaxEvicted = 1
SYMMETRY MCSymmetry
INVARIANTS
  TypeOK
  FirstPreImage
  LaterWorkIsLostOnlyUnseen
  AllOrNothing
CHECK_DEADLOCK FALSE
