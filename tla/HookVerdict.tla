----------------------------- MODULE HookVerdict -----------------------------
(***************************************************************************)
(* What the hooks of Claude Code say of an event and what comes of it      *)
(* (internal/claudehook: output.go, engine.go; the adapter of              *)
(* internal/server/claudecode.go).                                         *)
(*                                                                         *)
(* A reply is how a handler ended and what its output says: a top-level    *)
(* decision, a permission and an input in the object for the event, and    *)
(* whether to go on.  Only PreToolUse acts on permissions, but they are    *)
(* read for every event.  Reasons, contexts and messages are left out.     *)
(***************************************************************************)
EXTENDS Naturals, Sequences

Blockable == {"PreToolUse", "UserPromptSubmit", "Stop"}
SupportedEvents == Blockable \cup {"PostToolUse", "SessionStart"}

Permission == {"none", "allow", "ask", "defer", "deny"}

\* An object for another event is refused whole, and says nothing.
Saying == [top : {"none", "block", "allow", "deny"}, permission : Permission,
           input : BOOLEAN, continue : BOOLEAN]

\* "ok" is exit code 0 and a 2xx, "block" is exit code 2, "error" any other. "lost" is a
\* handler that ran to no end: late, cancelled, not started, asynchronous. "skipped" is
\* one the configuration alone rules out.
Reply == [exit : {"ok", "block", "error", "lost", "skipped"}, says : Saying]

Silence == [top |-> "none", permission |-> "none", input |-> FALSE, continue |-> TRUE]

Outcome == [ran : BOOLEAN, block : BOOLEAN, permission : Permission,
            input : BOOLEAN, continue : BOOLEAN]

\* parseOutput: the object for the event has the last word on the permission, and a block
\* once said stays.
ParseOutput(says) ==
  LET permission == IF says.permission # "none" THEN says.permission
                    ELSE IF says.top \in {"allow", "deny"} THEN says.top
                    ELSE "none"
  IN  [ran |-> TRUE, block |-> says.top \in {"block", "deny"} \/ permission = "deny",
       permission |-> permission, input |-> says.input, continue |-> says.continue]

\* Mutant of ApplyOutput: exit code 2 leaves the permission that was said.
ApplyOutputAsSaid(event, reply) ==
  LET said == ParseOutput(reply.says)
  IN  IF reply.exit \in {"ok", "block"} THEN said
      ELSE [ParseOutput(Silence) EXCEPT !.ran = reply.exit # "skipped"]

\* runHandler and applyOutput.
ApplyOutput(event, reply) ==
  LET said == ParseOutput(reply.says)
  IN  CASE reply.exit = "ok" -> said
        [] reply.exit = "block" ->
             IF event \in Blockable THEN [said EXCEPT !.block = TRUE, !.permission = "deny"]
             ELSE said
        [] OTHER -> [ParseOutput(Silence) EXCEPT !.ran = reply.exit # "skipped"]

\* deny > defer > ask > allow > none.
DecisionRank(permission) ==
  CASE permission = "deny"  -> 4
    [] permission = "defer" -> 3
    [] permission = "ask"   -> 2
    [] permission = "allow" -> 1
    [] OTHER -> 0

NoInput == 0
Nobody == [ran |-> FALSE, block |-> FALSE, permission |-> "none", input |-> NoInput,
           continue |-> TRUE]

\* One handler's outcome, that of slot n, added to the verdict on those before it; the
\* verdict's input is the slot it is from.
Judge(verdict, n, out) ==
  LET heard == [verdict EXCEPT !.ran = TRUE, !.block = @ \/ out.block,
                               !.continue = @ /\ out.continue]
      outranks == DecisionRank(out.permission) > DecisionRank(verdict.permission)
  IN  CASE ~out.ran -> verdict
        [] out.ran /\ out.permission = "deny" ->
             [heard EXCEPT !.permission = "deny", !.block = TRUE, !.input = NoInput]
        [] out.ran /\ out.permission # "deny" /\ outranks ->
             [heard EXCEPT !.permission = out.permission,
                           !.input = IF out.permission = "defer" THEN NoInput
                                     ELSE IF out.input THEN n ELSE @]
        [] OTHER -> heard

\* aggregate: in the order the handlers are configured, whichever ended first. What the
\* first n of them say together:
VerdictsOf(outs) ==
  LET upTo[n \in 0 .. Len(outs)] ==
        IF n = 0 THEN Nobody ELSE Judge(upTo[n - 1], n, outs[n])
  IN  upTo

Aggregate(outs) == VerdictsOf(outs)[Len(outs)]

\* What the caller makes of it: whether the call, the message or the end of the answer is
\* refused.
Refuses(event, verdict) ==
  /\ verdict.ran
  /\ CASE event = "PreToolUse" -> verdict.block \/ verdict.permission = "deny"
       [] event = "UserPromptSubmit" -> verdict.block \/ ~verdict.continue
       [] event = "Stop" -> verdict.block
       [] OTHER -> FALSE
=============================================================================
