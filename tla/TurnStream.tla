----------------------------- MODULE TurnStream -----------------------------
(***************************************************************************)
(* One live turn's event stream: the run loop, the tool calls it runs side  *)
(* by side and the subagents those spawn all emit events; each event is     *)
(* folded into the accumulator that will be stored and then put into the    *)
(* log the readers replay; any number of readers attach, fall behind, catch  *)
(* up, leave and attach again; the browser folds what it is handed into what *)
(* it shows.                                                                 *)
(*                                                                           *)
(* A delta's text is a sequence of chunks and a chunk is a number, so that   *)
(* losing, repeating or misplacing a piece of text can be told.              *)
(*                                                                           *)
(* Module LiveTurn puts this module beside TurnHub, which is why names that  *)
(* both would have begin with Stream here.                                   *)
(***************************************************************************)
EXTENDS Naturals, Sequences, SequencesExt

CONSTANTS Reader,     \* browsers
          Call,       \* the tool calls the turn makes
          Spawning,   \* those that run a subagent
          Main,       \* the turn's own run loop
          NoCall,     \* no parent, no call
          MaxSteps,   \* bound: steps of one loop
          MaxChunks,  \* bound: deltas in the whole turn
          MaxRetries  \* bound: retried model calls in the whole turn

ASSUME TurnStreamAssumption ==
         /\ Spawning \subseteq Call
         /\ Main \notin Call /\ NoCall \notin Call /\ Main # NoCall
         /\ MaxSteps \in Nat /\ MaxChunks \in Nat /\ MaxRetries \in Nat

VARIABLES
  \* the emitters
  lpc,        \* how far each loop or call has come
  steps,      \* the step each loop is in
  said,       \* the text and the reasoning of the step each loop is in
  res,        \* chat.Result of the turn's own loop: its text, its plan and why it stopped
  chunks, retries,
  pending,    \* an event folded into the accumulator and not yet in the log
  \* the turn
  acc,        \* turnAccumulator
  log,        \* liveTurn.log
  done,       \* liveTurn.done
  written,    \* history variable: what was emitted, in the order of the log
  \* the readers
  rpc, cursor, bell,
  got         \* what each reader was handed, a chunk at a time

loopVars   == <<lpc, steps, said, res, chunks, retries>>
turnVars   == <<log, done, written>>
readerVars == <<rpc, cursor, bell, got>>
streamVars == <<loopVars, pending, acc, turnVars, readerVars>>

-----------------------------------------------------------------------------
(* Events and the log.                                                     *)

Loop  == {Main} \cup Call
Delta == {"text", "reasoning"}
Kind  == Delta \cup {"step_start", "step_end", "step_retry", "tool_call",
                     "tool_result", "done", "error"}

Event(kind, step, parent, call, text) ==
  [kind |-> kind, step |-> step, parent |-> parent, call |-> call, text |-> text]

\* The events of a subagent carry the call that spawned it, and that call's step.
LoopEvent(w, kind, text) ==
  IF w = Main THEN Event(kind, steps'[Main], NoCall, NoCall, text)
              ELSE Event(kind, steps[Main], w, NoCall, text)

\* Two deltas of one kind become one entry, whoever they came from.
AppendEvent(l, e) ==
  IF e.kind \in Delta /\ l # <<>> /\ Last(l).kind = e.kind
  THEN [l EXCEPT ![Len(l)].text = @ \o e.text]
  ELSE Append(l, e)

Start == [index |-> 0, offset |-> 0]

\* What has grown on the entry the reader has begun to read.
Grown(l, cur) ==
  IF cur.index > 0 /\ l[cur.index].kind \in Delta /\ Len(l[cur.index].text) > cur.offset
  THEN <<Event(l[cur.index].kind, l[cur.index].step, NoCall, NoCall,
               SubSeq(l[cur.index].text, cur.offset + 1, Len(l[cur.index].text)))>>
  ELSE <<>>

ReadFrom(l, cur) == Grown(l, cur) \o SubSeq(l, cur.index + 1, Len(l))

\* Mutant of CursorAfter: one entry too far.
CursorTooFar(l, cur) ==
  IF l = <<>> THEN cur ELSE [index |-> Len(l) + 1, offset |-> 0]

CursorAfter(l, cur) ==
  IF l = <<>> THEN cur ELSE [index |-> Len(l), offset |-> Len(Last(l).text)]

\* A delta as the single chunks that appending it amounts to.
Pieces(e) ==
  IF e.kind \in Delta THEN [i \in DOMAIN e.text |-> [e EXCEPT !.text = <<e.text[i]>>]]
                      ELSE <<e>>

Flat(events) == FlattenSeq([i \in DOMAIN events |-> Pieces(events[i])])

-----------------------------------------------------------------------------
(* The accumulator: what the events say of the turn.                       *)

Blank == [k \in Delta |-> <<>>]

NewAcc == [steps |-> <<>>,    \* each step's text and reasoning
           total |-> Blank,   \* the turn's answer and reasoning
           marks |-> <<>>,    \* how long total was when each step opened
           calls |-> {},      \* the tool calls on record
           cards |-> [c \in Call |-> <<>>]]  \* what each call's subagent said

OpenStep(a) ==
  [a EXCEPT !.steps = Append(@, Blank),
            !.marks = Append(@, [k \in Delta |-> Len(a.total[k])])]

AddDelta(a, e) ==
  [a EXCEPT !.steps[Len(a.steps)][e.kind] = @ \o e.text,
            !.total[e.kind] = @ \o e.text]

\* A retried step gives back its own text, from the steps and from the totals.
RetryStep(a) ==
  [a EXCEPT !.steps[Len(a.steps)] = Blank,
            !.total = [k \in Delta |-> SubSeq(@[k], 1, a.marks[Len(a.steps)][k])]]

OnCard(a, e) ==
  IF e.kind \in Delta /\ e.parent \in a.calls
  THEN [a EXCEPT !.cards[e.parent] = Append(@, [kind |-> e.kind, text |-> e.text])]
  ELSE a

\* The whole answer replaces the pieces that were streamed.
SettleAnswer(a, e) == IF e.text = <<>> THEN a ELSE [a EXCEPT !.total["text"] = e.text]

Own(e, kinds) == e.parent = NoCall /\ e.kind \in kinds

\* Mutant of Fold: a retried step keeps what the failed attempt said.
FoldKeepingRetried(a, e) ==
  CASE e.parent # NoCall     -> OnCard(a, e)
    [] Own(e, {"step_start"}) -> OpenStep(a)
    [] Own(e, Delta)          -> AddDelta(a, e)
    [] Own(e, {"tool_call"})  -> [a EXCEPT !.calls = @ \cup {e.call}]
    [] Own(e, {"done"})       -> SettleAnswer(a, e)
    [] OTHER                  -> a

\* turnAccumulator.add.
Fold(a, e) ==
  CASE e.parent # NoCall     -> OnCard(a, e)
    [] Own(e, {"step_start"}) -> OpenStep(a)
    [] Own(e, Delta)          -> AddDelta(a, e)
    [] Own(e, {"step_retry"}) -> RetryStep(a)
    [] Own(e, {"tool_call"})  -> [a EXCEPT !.calls = @ \cup {e.call}]
    [] Own(e, {"done"})       -> SettleAnswer(a, e)
    [] OTHER                  -> a

-----------------------------------------------------------------------------
(* What is stored.                                                         *)

NoResult == [text |-> <<>>, plan |-> <<>>, stop |-> "none"]

\* turnAccumulator.summary: the run's own result goes before the accumulated events
\* where it has something to say.  (Of the steps' calls, nothing is followed here.)
Summary ==
  [steps  |-> IF res.plan = <<>> THEN acc.steps ELSE res.plan,
   answer |-> IF res.text = <<>> THEN acc.total["text"] ELSE res.text]

-----------------------------------------------------------------------------
(* The browser: what the reader of a stream is shown (handleEvent).        *)

NewView == [steps |-> <<>>, answer |-> <<>>, calls |-> {},
            cards |-> [c \in Call |-> <<>>]]

Show(v, e) ==
  CASE e.kind = "step_start" /\ e.step > Len(v.steps) ->
         [v EXCEPT !.steps = Append(@, Blank)]
    [] e.kind \in Delta /\ e.parent # NoCall -> OnCard(v, e)
    [] Own(e, {"text"}) ->
         [v EXCEPT !.steps[Len(v.steps)]["text"] = @ \o e.text,
                   !.answer = @ \o e.text]
    [] Own(e, {"reasoning"}) ->
         [v EXCEPT !.steps[Len(v.steps)]["reasoning"] = @ \o e.text]
    [] e.kind = "step_end" ->
         [v EXCEPT !.steps[Len(v.steps)]["text"] = e.text, !.answer = <<>>]
    [] e.kind = "step_retry" ->
         [v EXCEPT !.steps[Len(v.steps)] = Blank, !.answer = <<>>]
    [] e.kind = "tool_call" -> [v EXCEPT !.calls = @ \cup {e.call}]
    [] e.kind = "done" /\ e.text # <<>> -> [v EXCEPT !.answer = e.text]
    [] OTHER -> v

View(events) ==
  LET shown[n \in 0..Len(events)] ==
        IF n = 0 THEN NewView ELSE Show(shown[n - 1], events[n])
  IN  shown[Len(events)]

-----------------------------------------------------------------------------
StreamInit ==
  /\ lpc = [w \in Loop |-> IF w = Main THEN "between" ELSE "idle"]
  /\ steps = [w \in Loop |-> 0]
  /\ said = [w \in Loop |-> Blank]
  /\ res = NoResult
  /\ chunks = 0
  /\ retries = 0
  /\ pending = [w \in Loop |-> <<>>]
  /\ acc = NewAcc
  /\ log = <<>>
  /\ done = FALSE
  /\ written = <<>>
  /\ rpc = [r \in Reader |-> "off"]
  /\ cursor = [r \in Reader |-> Start]
  /\ bell = [r \in Reader |-> FALSE]
  /\ got = [r \in Reader |-> <<>>]

-----------------------------------------------------------------------------
(* Emitting.  The closure in startTurn folds the event first and logs it     *)
(* second, each under a lock of its own, so two emitters may overtake each   *)
(* other in between.                                                         *)

Emit(w, e) ==
  /\ pending[w] = <<>>
  /\ pending' = [pending EXCEPT ![w] = <<e>>]
  /\ acc' = Fold(acc, e)
  /\ UNCHANGED <<turnVars, readerVars>>

Attached == {r \in Reader : rpc[r] \in {"waiting", "woken", "writing", "closing"}}

RingAll == bell' = [r \in Reader |-> bell[r] \/ r \in Attached]

\* liveTurn.emit.
Log(w) ==
  /\ pending[w] # <<>>
  /\ pending' = [pending EXCEPT ![w] = <<>>]
  /\ log' = AppendEvent(log, pending[w][1])
  /\ written' = written \o Pieces(pending[w][1])
  /\ RingAll
  /\ UNCHANGED <<loopVars, acc, done, rpc, cursor, got>>

Busy(c) == lpc[c] \notin {"idle", "returned"}

\* No tool call of this loop is still running, and the last has logged its result.
Joined(w) == w = Main => \A c \in Call : ~Busy(c) /\ pending[c] = <<>>

\* The step that the turn's own loop was in becomes one of its plan.
Planned(w) ==
  IF w = Main /\ lpc[w] # "between" THEN Append(res.plan, said[w]) ELSE res.plan

\* Runner.Run's result when the turn's own loop ends; startTurn drops that of a run
\* that failed.
EndsWith(w, result) == res' = IF w = Main THEN result ELSE res

\* The loop starts a step, its earlier step's tools being finished, or because a Stop
\* hook refused the answer of its earlier step.
StepStart(w) ==
  /\ \/ lpc[w] = "between"
     \/ lpc[w] = "model" /\ w = Main
     \/ lpc[w] = "tools" /\ Joined(w)
  /\ steps[w] < MaxSteps
  /\ steps' = [steps EXCEPT ![w] = @ + 1]
  /\ said' = [said EXCEPT ![w] = Blank]
  /\ res' = [res EXCEPT !.plan = Planned(w)]
  /\ lpc' = [lpc EXCEPT ![w] = "model"]
  /\ Emit(w, LoopEvent(w, "step_start", <<>>))
  /\ UNCHANGED <<chunks, retries>>

\* The model says a little more.
Say(w, kind) ==
  /\ lpc[w] = "model"
  /\ chunks < MaxChunks
  /\ chunks' = chunks + 1
  /\ said' = [said EXCEPT ![w][kind] = Append(@, chunks')]
  /\ UNCHANGED <<lpc, steps, res, retries>>
  /\ Emit(w, LoopEvent(w, kind, <<chunks'>>))

\* The model call fails and is made again.
Retry(w) ==
  /\ lpc[w] = "model"
  /\ retries < MaxRetries
  /\ retries' = retries + 1
  /\ said' = [said EXCEPT ![w] = Blank]
  /\ UNCHANGED <<lpc, steps, res, chunks>>
  /\ Emit(w, LoopEvent(w, "step_retry", <<>>))

\* The model asks for tools.  The calls of the turn's own step are run side by
\* side; those of a subagent's step are left out.
StepEnd(w) ==
  /\ lpc[w] = "model"
  /\ \E asked \in IF w = Main THEN SUBSET {c \in Call : lpc[c] = "idle"} ELSE {{}} :
       /\ w = Main => asked # {}
       /\ lpc' = [x \in Loop |-> IF x = w THEN "tools"
                                 ELSE IF x \in asked THEN "asked" ELSE lpc[x]]
  /\ UNCHANGED <<steps, said, res, chunks, retries>>
  /\ Emit(w, LoopEvent(w, "step_end", said[w]["text"]))

\* The model answers, or the turn is stopped short of an answer, with words of the
\* harness (chunk 0): by a budget, before another step, or by the loop guard, which
\* returns before the step it looked at has joined the plan.
Answer(w) ==
  /\ lpc' = [lpc EXCEPT ![w] = "over"]
  /\ UNCHANGED <<steps, said, chunks, retries>>
  /\ \/ /\ lpc[w] = "model"
        /\ EndsWith(w, [text |-> said[w]["text"], plan |-> Planned(w), stop |-> "none"])
        /\ Emit(w, LoopEvent(w, "done", said[w]["text"]))
     \/ /\ lpc[w] \in {"between", "tools"} /\ Joined(w)
        /\ EndsWith(w, [text |-> <<0>>, plan |-> Planned(w), stop |-> "budget"])
        /\ Emit(w, LoopEvent(w, "done", <<0>>))
     \/ /\ lpc[w] = "tools" /\ Joined(w)
        /\ EndsWith(w, [text |-> <<0>>, plan |-> res.plan, stop |-> "guard"])
        /\ Emit(w, LoopEvent(w, "done", <<0>>))

\* The loop ends in an error or is cancelled.
Fail(w) ==
  /\ lpc[w] \in {"between", "model", "tools"}
  /\ Joined(w)
  /\ lpc' = [lpc EXCEPT ![w] = IF w = Main THEN "failed" ELSE "over"]
  /\ EndsWith(w, NoResult)
  /\ UNCHANGED <<steps, said, chunks, retries>>
  /\ Emit(w, LoopEvent(w, "error", <<>>))

CallStart(c) ==
  /\ lpc[c] = "asked"
  /\ pending[Main] = <<>>
  /\ lpc' = [lpc EXCEPT ![c] = IF c \in Spawning THEN "between" ELSE "over"]
  /\ UNCHANGED <<steps, said, res, chunks, retries>>
  /\ Emit(c, Event("tool_call", steps[Main], NoCall, c, <<>>))

CallEnd(c) ==
  /\ lpc[c] = "over"
  /\ lpc' = [lpc EXCEPT ![c] = "returned"]
  /\ UNCHANGED <<steps, said, res, chunks, retries>>
  /\ Emit(c, Event("tool_result", steps[Main], NoCall, c, <<>>))

\* Runner.Run has returned: a failure is told on the stream, and so is a stop,
\* whatever the runner made of it.
Report ==
  /\ lpc[Main] \in {"over", "failed"} /\ ~done
  /\ lpc' = [lpc EXCEPT ![Main] = "reported"]
  /\ UNCHANGED <<steps, said, res, chunks, retries>>
  /\ Emit(Main, Event("error", 0, NoCall, NoCall, <<>>))

\* Mutant of StreamFinish: the readers are not woken.
FinishSilently ==
  /\ lpc[Main] \in {"over", "reported"} /\ ~done
  /\ \A w \in Loop : pending[w] = <<>>
  /\ done' = TRUE
  /\ UNCHANGED <<loopVars, pending, acc, log, written, readerVars>>

\* The turn has been stored: liveTurn.finish.
StreamFinish ==
  /\ lpc[Main] \in {"over", "reported"} /\ ~done
  /\ \A w \in Loop : pending[w] = <<>>
  /\ done' = TRUE
  /\ RingAll
  /\ UNCHANGED <<loopVars, pending, acc, log, written, rpc, cursor, got>>

-----------------------------------------------------------------------------
(* Reading (streamLiveTurn).                                               *)

Hand(r, cur, before) ==
  /\ got' = [got EXCEPT ![r] = before \o Flat(ReadFrom(log, cur))]
  /\ cursor' = [cursor EXCEPT ![r] = CursorAfter(log, cur)]
  /\ rpc' = [rpc EXCEPT ![r] = IF done THEN "closing" ELSE "writing"]

\* subscribe: the doorbell is registered and the log so far read under one lock.
Attach(r) ==
  /\ rpc[r] \in {"off", "gone"}
  /\ Hand(r, Start, <<>>)
  /\ bell' = [bell EXCEPT ![r] = FALSE]
  /\ UNCHANGED <<loopVars, pending, acc, turnVars>>

\* The reader has taken everything it was handed.
Wait(r) ==
  /\ rpc[r] = "writing"
  /\ rpc' = [rpc EXCEPT ![r] = "waiting"]
  /\ UNCHANGED <<loopVars, pending, acc, turnVars, cursor, bell, got>>

Wake(r) ==
  /\ rpc[r] = "waiting" /\ bell[r]
  /\ bell' = [bell EXCEPT ![r] = FALSE]
  /\ rpc' = [rpc EXCEPT ![r] = "woken"]
  /\ UNCHANGED <<loopVars, pending, acc, turnVars, cursor, got>>

\* A heartbeat reads the log too.
Heartbeat(r) ==
  /\ rpc[r] = "waiting"
  /\ rpc' = [rpc EXCEPT ![r] = "woken"]
  /\ UNCHANGED <<loopVars, pending, acc, turnVars, cursor, bell, got>>

\* Mutant of Since: the reader reads the last entry it has begun all over again.
SinceAgain(r) ==
  /\ rpc[r] = "woken"
  /\ Hand(r, [cursor[r] EXCEPT !.offset = 0], got[r])
  /\ UNCHANGED <<loopVars, pending, acc, turnVars, bell>>

\* liveTurn.since.
Since(r) ==
  /\ rpc[r] = "woken"
  /\ Hand(r, cursor[r], got[r])
  /\ UNCHANGED <<loopVars, pending, acc, turnVars, bell>>

\* The turn was over when the reader last looked: the stream ends.
StreamEnd(r) ==
  /\ rpc[r] = "closing"
  /\ rpc' = [rpc EXCEPT ![r] = "ended"]
  /\ UNCHANGED <<loopVars, pending, acc, turnVars, cursor, bell, got>>

\* The browser is closed or reloaded; it may attach again.
Detach(r) ==
  /\ rpc[r] \in {"waiting", "writing", "closing"}
  /\ rpc' = [rpc EXCEPT ![r] = "gone"]
  /\ got' = [got EXCEPT ![r] = <<>>]
  /\ cursor' = [cursor EXCEPT ![r] = Start]
  /\ bell' = [bell EXCEPT ![r] = FALSE]
  /\ UNCHANGED <<loopVars, pending, acc, turnVars>>

-----------------------------------------------------------------------------
\* What Runner.Run emits.
RunEmits ==
  \/ \E w \in Loop : \/ StepStart(w) \/ Retry(w) \/ StepEnd(w) \/ Answer(w) \/ Fail(w)
                     \/ \E kind \in Delta : Say(w, kind)
  \/ \E c \in Call : CallStart(c) \/ CallEnd(c)

\* A reader's goroutine goes on.
Reads(r) == Wait(r) \/ Wake(r) \/ Heartbeat(r) \/ Since(r) \/ StreamEnd(r)

StreamNext ==
  \/ RunEmits \/ Report \/ StreamFinish
  \/ \E w \in Loop : Log(w)
  \/ \E r \in Reader : Attach(r) \/ Reads(r) \/ Detach(r)

StreamSpec == StreamInit /\ [][StreamNext]_streamVars

\* A reader's goroutine goes on when it can; nothing is asked of the heartbeat,
\* of the browser, or of the run.
StreamFairness ==
  \A r \in Reader : WF_streamVars(Wait(r)) /\ WF_streamVars(Wake(r)) /\ WF_streamVars(Since(r))
                    /\ WF_streamVars(StreamEnd(r))

FairStreamSpec == StreamSpec /\ StreamFairness

-----------------------------------------------------------------------------
PieceType == [kind : Kind, step : 0..MaxSteps, parent : Call \cup {NoCall},
              call : Call \cup {NoCall}, text : Seq(0..MaxChunks)]
StepType == [Delta -> Seq(0..MaxChunks)]
ResultType == [text : Seq(0..MaxChunks), plan : Seq(StepType),
               stop : {"none", "budget", "guard"}]

\* Every variable has its type, and no cursor points past the log.
StreamTypeOK ==
  /\ lpc \in [Loop -> {"idle", "asked", "between", "model", "tools", "over",
                    "failed", "reported", "returned"}]
  /\ steps \in [Loop -> 0..MaxSteps]
  /\ said \in [Loop -> StepType]
  /\ res \in ResultType
  /\ chunks \in 0..MaxChunks
  /\ retries \in 0..MaxRetries
  /\ pending \in [Loop -> Seq(PieceType)]
  /\ log \in Seq(PieceType)
  /\ done \in BOOLEAN
  /\ written \in Seq(PieceType)
  /\ rpc \in [Reader -> {"off", "writing", "waiting", "woken", "closing", "ended", "gone"}]
  /\ cursor \in [Reader -> [index : 0..Len(log), offset : Nat]]
  /\ bell \in [Reader -> BOOLEAN]
  /\ got \in [Reader -> Seq(PieceType)]

\* The turn's own loop ended with an answer of some length.
Answered ==
  \E i \in DOMAIN log : Own(log[i], {"done"}) /\ log[i].text # <<>>

\* What the reader of a turn is shown is what persistTurn is given to store: when its
\* stream ends, every step's text and reasoning and the answer are those of the
\* summary, whatever was retried, however the run ended and however the reader's
\* cursor fell.  One step may be missing: where the loop guard stopped the turn after
\* an earlier step, the one it stopped at was shown and is not in the plan that is
\* stored.
ShownIsStored ==
  \A r \in Reader :
     rpc[r] = "ended" =>
        LET shown == View(got[r]) IN
        /\ Summary.steps = IF res.stop = "guard" /\ Len(shown.steps) > 1
                             THEN Front(shown.steps) ELSE shown.steps
        /\ Answered => Summary.answer = shown.answer

-----------------------------------------------------------------------------
\* Words without their attribution, which is what the log promises to keep.
Words(pieces) ==
  [i \in DOMAIN pieces |-> [kind |-> pieces[i].kind, text |-> pieces[i].text]]

StreamPromise == INSTANCE Broadcast WITH
             stream <- Words(written),
             over <- done,
             seen <- [r \in Reader |-> Words(got[r])],
             told <- {r \in Reader : rpc[r] = "ended"}

\* Every behaviour of the log, the cursors and the doorbells is one of module
\* Broadcast: a reader holds a prefix of what was emitted, nothing twice and
\* nothing missing, and its stream ends only when it has all of it.
StreamKeepsPromise == StreamPromise!Spec

\* A reader that stays attached to a turn that is over sees its stream end, with
\* no help from the heartbeat.
ReadersAreTold ==
  \A r \in Reader :
     (done /\ rpc[r] \in {"writing", "waiting", "woken", "closing"})
        ~> (rpc[r] \in {"ended", "gone"})
=============================================================================
