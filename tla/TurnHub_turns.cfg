\* Two turns and a stop, with a clear, a delete, a shutdown or a restart at any moment,
\* under the fairness of the scheduler.
SPECIFICATION FairSpec
CONSTANTS
  Session = {c1}
  Request = {r1, r2}
  Stopper = {x1}
  None = None
  MaxUpsets = 1
INVARIANTS
  LiveTurnIsTheOneFound
  OverMeansStored
  StopIsOnRecord
  ShutdownKeepsAnswers
PROPERTIES
  KeepsPromise
  StopEndsTheTurn
CHECK_DEADLOCK FALSE
