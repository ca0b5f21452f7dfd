------------------------------- MODULE Runner -------------------------------
(***************************************************************************)
(* One turn of the agent: the step loop of internal/chat/runner.go with    *)
(* its budget, its window, its loop guard and the schedule of a step's     *)
(* calls, and the subagents those calls spawn (internal/subagent).         *)
(***************************************************************************)
EXTENDS ProgressGuard, Window

CONSTANTS Replies,       \* the sequences of calls the model may ask for
          Unknown,       \* the calls of tools that are not there, which count as changes
          Granted,       \* the calls a spawn asks to be granted
          Hooks,         \* whether hooks are configured
          Earlier,       \* exchanges of the conversation before this turn
          MaxSteps, MaxAttempts, MaxParallel, MaxConcurrent,
          MaxUpsets      \* bound: budgets that run out and stops, together

ASSUME RunnerAssumption ==
  /\ Replies \subseteq Seq(Call) \ {<<>>} /\ IsFiniteSet(Replies)
  /\ {Unknown, Granted} \subseteq SUBSET Call
  /\ \A c \in Unknown : KindOf[c] = "change"
  /\ Hooks \in BOOLEAN /\ Earlier \in Nat
  /\ {MaxSteps, MaxAttempts, MaxParallel, MaxConcurrent} \subseteq Nat \ {0}
  /\ MaxUpsets \in Nat

VARIABLES pc,        \* where the loop is: "top", "model", "tools" or "done"
          step,
          window,    \* the history, as the next model call gets it
          attempt,   \* of the step's model call
          asked,     \* the calls of the step's reply
          state,     \* of each of them
          nested,    \* what the subagent of each of them is calling
          guard,
          spent,     \* the budgets that are spent
          cancelled,
          outcome,   \* how the turn ended
          squeezed,  \* history: was the window over its budget?
          heard,     \* history: what the model was told of its present repetitions
          blamed     \* history: what the guard stopped the turn for

turnVars == <<pc, step, attempt, outcome>>
callVars == <<asked, state, nested>>
historyVars == <<squeezed, heard, blamed>>
vars == <<turnVars, window, callVars, guard, spent, cancelled, historyVars>>

HeadLength == 1
Outcome == {"answered", "failed", "cancelled", "deadline", "tokens", "steps", "loop", "idle"}

ASSUME NoneIsNoOutcome == None \notin Outcome

\* The conversation before this turn: what the user said and what was answered.
Exchanges ==
  [k \in 1 .. 2 * Earlier |-> LET i == (k + 1) \div 2
                             IN  IF k % 2 = 1 THEN User(-i) ELSE Assistant(-i, 0)]

Init ==
  /\ pc = "top" /\ step = 1 /\ attempt = 0 /\ outcome = None
  /\ window = <<System(0, "rules")>> \o Exchanges \o <<User(0)>>
  /\ asked = <<>> /\ state = <<>> /\ nested = <<>>
  /\ guard = NewGuard
  /\ spent = {} /\ cancelled = FALSE
  /\ squeezed = FALSE /\ heard = {} /\ blamed = None

-----------------------------------------------------------------------------
(* The loop. *)
End(how) == pc' = "done" /\ outcome' = how /\ UNCHANGED <<step, attempt>>

\* The next step, or the stop of the step budget.
StepOn ==
  IF step < MaxSteps
  THEN pc' = "top" /\ step' = step + 1 /\ UNCHANGED <<attempt, outcome>>
  ELSE End("steps")

\* A step looks at the context and at the budgets before it spends anything.
StopAtTop ==
  /\ pc = "top" /\ (cancelled \/ spent # {})
  /\ End(IF cancelled THEN "cancelled" ELSE IF "deadline" \in spent THEN "deadline" ELSE "tokens")
  /\ UNCHANGED <<window, callVars, guard, spent, cancelled, historyVars>>

\* What the guard and the hooks said after the last step.
ToldBy(msgs) ==
  {msgs[i].about : i \in {j \in DOMAIN msgs : /\ msgs[j].role = "system"
                                             /\ msgs[j].step = step - 1 /\ step > 1}}

\* The head was counted once, in the window the turn began with.
Send(over, summarized) ==
  /\ pc = "top" /\ ~cancelled /\ spent = {}
  /\ window' = IF over THEN Condensed(window, HeadLength, summarized) ELSE window
  /\ pc' = "model" /\ attempt' = 1 /\ UNCHANGED <<step, outcome>>
  /\ squeezed' = over
  /\ heard' = heard \cup ToldBy(window')
  /\ UNCHANGED <<callVars, guard, spent, cancelled, blamed>>

Upsets == Cardinality(spent) + (IF cancelled THEN 1 ELSE 0)

\* A model call costs tokens, which may be the last.
Pay == spent' \in {spent} \cup (IF Upsets < MaxUpsets THEN {spent \cup {"tokens"}} ELSE {})

Reply(calls) ==
  /\ pc = "model" /\ pc' = "tools" /\ UNCHANGED <<step, attempt, outcome>>
  /\ window' = Append(window, Assistant(step, Len(calls)))
  /\ asked' = calls
  /\ state' = [i \in DOMAIN calls |-> "new"]
  /\ nested' = [i \in DOMAIN calls |-> None]
  /\ Pay
  /\ UNCHANGED <<guard, cancelled, historyVars>>

Answer ==
  /\ pc = "model" /\ End("answered")
  /\ window' = Append(window, Assistant(step, 0))
  /\ Pay
  /\ UNCHANGED <<callVars, guard, cancelled, historyVars>>

\* A Stop hook refuses the answer, which it cannot at the last step.
HookRefusesAnswer ==
  /\ pc = "model" /\ Hooks /\ step < MaxSteps
  /\ StepOn
  /\ window' = window \o <<Assistant(step, 0), System(step, "hook")>>
  /\ Pay
  /\ UNCHANGED <<callVars, guard, cancelled, historyVars>>

\* A failed call is made again from the window it was made with.
Retry ==
  /\ pc = "model" /\ attempt < MaxAttempts /\ ~cancelled /\ spent = {}
  /\ attempt' = attempt + 1
  /\ UNCHANGED <<pc, step, outcome, window, callVars, guard, spent, cancelled, historyVars>>

\* It is not when it is the last, or not of a kind to survive another attempt.
ModelFails ==
  /\ pc = "model"
  /\ \E how \in {"failed"} \cup (IF cancelled THEN {"cancelled"} ELSE {}) : End(how)
  /\ UNCHANGED <<window, callVars, guard, spent, cancelled, historyVars>>

-----------------------------------------------------------------------------
(* The calls of a step. *)
Calls == DOMAIN asked
Serial(i) == KindOf[asked[i]] \notin {"read", "search", "spawn"}

Started(i) == state[i] # "new"
Finished(i) == state[i] \in {"ok", "failed"}
InGate == {i \in Calls : state[i] = "nested"}

\* Mutant of OpensGroup: a serial call opens a group and the parallel calls after it join it.
OpensGroupBefore(i) == i = 1 \/ Serial(i)

\* Segment: a maximal run of parallel calls is a group, every other call is one alone.
OpensGroup(i) == i = 1 \/ Serial(i) \/ Serial(i - 1)
GroupOf(i) == Max({k \in 1 .. i : OpensGroup(k)})

\* One group at a time, and within it in order, as far as the bound on what runs at
\* once allows.
CanStart(i) ==
  /\ pc = "tools" /\ ~Started(i)
  /\ \A j \in 1 .. i - 1 : Started(j) /\ (GroupOf(j) = GroupOf(i) \/ Finished(j))
  /\ Cardinality({j \in Calls : Started(j) /\ ~Finished(j)}) < MaxParallel

Becomes(i, how) ==
  /\ state' = [state EXCEPT ![i] = how]
  /\ UNCHANGED <<turnVars, window, asked, guard, spent, cancelled, historyVars>>

\* Mutant of ForbiddenForSubagents: nothing keeps a subagent from spawning others.
ForbiddenButSpawn(c) == KindOf[c] \in {"ask", "plan_read"}

\* What a subagent never gets, whatever is asked for.
ForbiddenForSubagents(c) == KindOf[c] \in {"ask", "spawn", "plan_read"}

\* What a subagent has without asking: the parent's tools that read and run in parallel,
\* of which spawning one is declared to be.
MayBeInherited(c) == KindOf[c] \in {"read", "search", "spawn"}

Narrow ==
  {c \in Call \ Unknown : ~ForbiddenForSubagents(c) /\ (c \in Granted \/ MayBeInherited(c))}

\* A spawn that asks for what is forbidden or missing fails before it waits, and so
\* does one with nothing to grant.
SpawnRefused == Narrow = {} \/ \E c \in Granted : ForbiddenForSubagents(c) \/ c \in Unknown

StartCall(i) ==
  /\ CanStart(i)
  /\ Becomes(i, IF asked[i] \in Unknown THEN "failed"
                ELSE IF KindOf[asked[i]] # "spawn" THEN "running"
                ELSE IF SpawnRefused THEN "failed" ELSE "waits")
  /\ UNCHANGED nested

\* A PreToolUse hook blocks the call before it begins.
HookBlocksCall(i) ==
  /\ CanStart(i) /\ Hooks
  /\ Becomes(i, "failed") /\ UNCHANGED nested

\* A panic in a group of several is a failure like another.
EndCall(i, how) ==
  /\ state[i] = "running"
  /\ Becomes(i, how) /\ UNCHANGED nested

\* Mutant of EnterGate: nothing bounds them.
EnterGateFreely(i) ==
  /\ state[i] = "waits"
  /\ Becomes(i, "nested") /\ UNCHANGED nested

\* The gate bounds the subagents of the process; its places are taken in Spawn and
\* given back when it returns.
EnterGate(i) ==
  /\ state[i] = "waits" /\ Cardinality(InGate) < MaxConcurrent
  /\ Becomes(i, "nested") /\ UNCHANGED nested

LeaveGateQueue(i) ==
  /\ state[i] = "waits" /\ cancelled
  /\ Becomes(i, "failed") /\ UNCHANGED nested

\* The subagent may call a tool of its registry, once here. Were that a spawn, its
\* child would wait for a place of its own.
NestedCall(i, c) ==
  /\ state[i] = "nested" /\ nested[i] = None /\ c \in Narrow
  /\ nested' = [nested EXCEPT ![i] = c]
  /\ UNCHANGED <<turnVars, window, asked, state, guard, spent, cancelled, historyVars>>

\* A subagent that failed is a report that says so: the call succeeds either way.
SubagentReports(i) ==
  /\ state[i] = "nested"
  /\ nested[i] # None /\ KindOf[nested[i]] = "spawn" => Cardinality(InGate) < MaxConcurrent
  /\ Becomes(i, "ok") /\ UNCHANGED nested

-----------------------------------------------------------------------------
(* The end of a step: its results in the order of the calls, what the hooks have to *)
(* say of them, and what the guard does.                                            *)
Runs == [i \in Calls |-> [call |-> asked[i], ok |-> state[i] = "ok"]]

StepsOver == pc = "tools" /\ \A i \in Calls : Finished(i)

Results == [i \in Calls |-> ToolResult(step, i)]

\* What the model has been told of its repetitions holds until the world changes; of
\* its idling, until the streak ends.
StillHeard(g) ==
  (IF ChangedWorld(Runs) THEN heard \ Call ELSE heard) \ (IF g.idle = 0 THEN {"idle"} ELSE {})

\* Nothing to stop for: the results, the hooks' note and the guard's message are appended.
GoOn(seen, verdict, noted) ==
  /\ verdict.stop = None
  /\ window' = window \o Results
                 \o (IF noted THEN <<System(step, "hook")>> ELSE <<>>)
                 \o (IF verdict.kind # "none" THEN <<System(step, verdict.about)>> ELSE <<>>)
  /\ StepOn
  /\ heard' = StillHeard(seen)
  /\ asked' = <<>> /\ state' = <<>> /\ nested' = <<>>
  /\ UNCHANGED blamed

GuardStops(verdict) ==
  /\ verdict.stop # None
  /\ End(verdict.stop)
  /\ blamed' = verdict.about
  /\ window' = window \o Results
  /\ UNCHANGED <<callVars, heard>>

CloseStep ==
  /\ StepsOver
  /\ \E seen \in {Observed(guard, Runs)} :
     \E verdict \in {Verdict(seen, MostRepeated(seen, Runs))} :
       /\ guard' = Said(seen, verdict)
       /\ GuardStops(verdict) \/ \E noted \in {FALSE, Hooks} : GoOn(seen, verdict, noted)
  /\ UNCHANGED <<spent, cancelled, squeezed>>

-----------------------------------------------------------------------------
(* Around the turn: its deadline passes, its user stops it. *)
Expire ==
  /\ pc # "done" /\ "deadline" \notin spent /\ Upsets < MaxUpsets
  /\ spent' = spent \cup {"deadline"}
  /\ UNCHANGED <<turnVars, window, callVars, guard, cancelled, historyVars>>

Cancel ==
  /\ pc # "done" /\ ~cancelled /\ Upsets < MaxUpsets
  /\ cancelled' = TRUE
  /\ UNCHANGED <<turnVars, window, callVars, guard, spent, historyVars>>

Loop ==
  \/ StopAtTop
  \/ \E over, summarized \in BOOLEAN : Send(over, summarized)
  \/ \E calls \in Replies : Reply(calls)
  \/ Answer \/ HookRefusesAnswer \/ Retry \/ ModelFails
  \/ CloseStep

CallStep(i) ==
  \/ StartCall(i) \/ HookBlocksCall(i)
  \/ \E how \in {"ok", "failed"} : EndCall(i, how)
  \/ EnterGate(i) \/ LeaveGateQueue(i)
  \/ \E c \in Call : NestedCall(i, c)
  \/ SubagentReports(i)

Next == Loop \/ (\E i \in Calls : CallStep(i)) \/ Expire \/ Cancel

Spec == Init /\ [][Next]_vars

\* Model calls and tool calls come to their end, and the loop and the pool go on.
MaxCalls == Max({0} \cup {Len(calls) : calls \in Replies})
Fairness == /\ WF_vars(Loop)
            /\ \A i \in 1 .. MaxCalls : WF_vars(i \in Calls /\ CallStep(i))

FairSpec == Spec /\ Fairness

-----------------------------------------------------------------------------
State == {"new", "running", "waits", "nested", "ok", "failed"}

\* Every variable holds what its type says; the calls in flight respect the two bounds.
TypeOK ==
  /\ pc \in {"top", "model", "tools", "done"}
  /\ step \in 1 .. MaxSteps /\ attempt \in 0 .. MaxAttempts
  /\ \A i \in DOMAIN window : /\ window[i].role \in {"system", "user", "assistant", "tool"}
                               /\ window[i].step \in -Earlier .. MaxSteps
  /\ asked \in Replies \cup {<<>>}
  /\ state \in [Calls -> State] /\ nested \in [Calls -> Call \cup {None}]
  /\ guard \in Guard
  /\ spent \subseteq {"deadline", "tokens"} /\ cancelled \in BOOLEAN
  /\ outcome \in Outcome \cup {None} /\ (outcome = None <=> pc # "done")
  /\ squeezed \in BOOLEAN
  /\ heard \subseteq Call \cup Path \cup {"idle", "hook"}
  /\ blamed \in Call \cup {None, "idle"}
  /\ Cardinality(InGate) <= MaxConcurrent

\* A turn the guard ends, for a call made again and again or for steps that change
\* nothing, is one whose model was told so in a window it was sent, and whose earlier
\* steps have changed nothing since.
StopIsWarned == outcome \in {"loop", "idle"} => blamed \in heard

\* Every tool result follows the reply that asked for it, in the order of the calls.
ResultsFollowReplies(msgs) ==
  \A i \in DOMAIN msgs :
    /\ msgs[i].role = "tool" =>
         LET k == i - msgs[i].n
         IN  k >= 1 /\ msgs[k].role = "assistant" /\ msgs[k].step = msgs[i].step
    /\ msgs[i].role = "assistant" =>
         \A n \in 1 .. msgs[i].n :
            i + n <= Len(msgs) /\ msgs[i + n] = ToolResult(msgs[i].step, n)

\* Every window the model is sent has the rules first and the request, and each reply
\* with its results; and one that was over its budget has no more than the rules, the
\* ledger, the summary, the request, the latest messages and the rest of one exchange,
\* however often the turn was condensed.
WindowIsSendable ==
  pc = "model" =>
    /\ window[1] = System(0, "rules") /\ User(0) \in Range(window)
    /\ ResultsFollowReplies(window)
    /\ squeezed => Len(window) <= HeadLength + 3 + Kept + MaxCalls

\* Whatever overlaps, a call that must run alone starts when those before it have
\* ended, and those after it when it has.
AsIfSerial ==
  \A i, j \in Calls : i < j /\ Started(j) /\ (Serial(i) \/ Serial(j)) => Finished(i)

\* A turn ends: no retry, hook or subagent waiting for a place keeps it for ever.
TurnEnds == <>(pc = "done")
=============================================================================
