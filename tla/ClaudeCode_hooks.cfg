\* One caller and one console request, over a file that is edited twice between hooks, no
\* hooks and no file, under the fairness of requests and of time.
SPECIFICATION FairSpec
CONSTANTS
  hooks = hooks
  off = off
  Caller = {c1}
  Console = {k1}
  Content = {hooks, off}
  HandlersOf <- MCHandlersOf
  Events = {"PreToolUse", "PostToolUse", "UserPromptSubmit"}
  Replies <- MCReplies
  None = None
  MaxEdits = 2
INVARIANTS
  TypeOK
  VerdictIsTheStrictest
PROPERTY EditsTakeEffect
