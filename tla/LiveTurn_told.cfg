\* One turn and its stream: one tool call, one reader, a stop, and two mishaps out of a
\* clear, a delete, a shutdown, a restart and an insert that fails, at any moment.
SPECIFICATION LiveSpec
CONSTANTS
  Session = {c1}
  Request = {r1}
  Stopper = {x1}
  None = None
  NoCall = NoCall
  MaxUpsets = 2
  Watched = r1
  Reader = {b1}
  Call = {t1}
  Spawning = {}
  Main = Main
  MaxSteps = 1
  MaxChunks = 1
  MaxRetries = 0
PROPERTIES
  ToldWhatIsStored
CHECK_DEADLOCK FALSE
