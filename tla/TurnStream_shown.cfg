\* Two parallel tool calls, a retried model call and a reader that comes and goes.
SPECIFICATION StreamSpec
CONSTANTS
  Reader = {b1}
  Call = {t1, t2}
  Spawning = {}
  Main = Main
  NoCall = NoCall
  MaxSteps = 2
  MaxChunks = 2
  MaxRetries = 1
SYMMETRY MCSymmetry
INVARIANTS
  StreamTypeOK
  
CHECK_DEADLOCK FALSE
