\* A subagent beside the turn's own loop and one reader, under the fairness of
\* their goroutines.
SPECIFICATION FairStreamSpec
CONSTANTS
  Reader = {b1}
  Call = {t1}
  Spawning = {t1}
  Main = Main
  NoCall = NoCall
  MaxSteps = 1
  MaxChunks = 2
  MaxRetries = 1
PROPERTIES
  StreamKeepsPromise
  ReadersAreTold
CHECK_DEADLOCK FALSE
