\* One job with two readers, a process that escapes it or one that is silent, a stop and
\* Close, under the fairness of the goroutines.
SPECIFICATION MCSpec
CONSTANTS
  Job = {j1}
  Reader = {r1, r2}
  Stopper = {x1}
  None = None
  Forks = {"silent", "escaped"}
  MaxJobs = 1
  MaxFinished = 1
  MaxWrites = 1
INVARIANTS
  TypeOK
  GroupsAreHeld
  StoppedIsSaid
  NothingOutlivesTheAgent
  FinishedHasItsOutput
  OutputIsHeard
PROPERTY EverythingEnds
CHECK_DEADLOCK FALSE
