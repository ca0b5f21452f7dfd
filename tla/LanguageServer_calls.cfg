\* Calls that ask at once for one server, which may fail to start, crash, be reaped and be
\* closed, under the fairness of the goroutines alone: a server need not read.
SPECIFICATION FairSpec
CONSTANTS
  Caller = {c1, c2}
  Server = {1, 2}
  None = None
  Room = 1
INVARIANTS
  TypeOK
  OneServerInHand
PROPERTY CallersReturn
CHECK_DEADLOCK FALSE
