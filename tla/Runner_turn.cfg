\* A turn of three steps over four kinds of reply, with hooks, retries, condensing and
\* one upset: a stop or a spent budget.
SPECIFICATION FairSpec
CONSTANTS
  read = read
  look = look
  edit = edit
  plan = plan
  spawn = spawn
  file = file
  Call = {read, look, edit, plan, spawn}
  KindOf <- MCKindOf
  Path = {file}
  ReadsOf <- MCReadsOf
  None = None
  RepeatNudge = 2
  RepeatStop = 3
  IdleNudge = 2
  IdleStop = 3
  MaxSteers = 2
  RereadNudge = 2
  KeepRecent = 1
  Replies <- MCReplies
  Unknown = {}
  Granted = {}
  Hooks = TRUE
  Earlier = 1
  MaxSteps = 3
  MaxAttempts = 2
  MaxParallel = 2
  MaxConcurrent = 1
  MaxUpsets = 1
INVARIANTS
  TypeOK
  StopIsWarned
  WindowIsSendable
  AsIfSerial
PROPERTY TurnEnds
CHECK_DEADLOCK FALSE
