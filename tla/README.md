# Formal models of a-agent

TLA+ modules of the parts of a-agent whose correctness depends on the order in
which things happen, the TLC configurations that check them on small instances,
and TLAPS proofs of the properties that matter most for instances of any size.

`PROJECT.json` is the index: which definition models which lines of `src/`, which
run checks which properties, which mutated definition breaks each of them, the
hazards of the code and the properties that cover them.

Run a configuration with `tlc -config TurnHub_turns.cfg MCTurnHub`, the proofs
of a module with `tlapm LiveTurnProofs.tla`; section 5 names the others.

## 1. The system

a-agent is a single Go process that answers people with a language model and
tools. It has three surfaces (a web console, a Feishu bot, a terminal), one
streaming ReAct loop that the console and the terminal share, and a SQLite store.

| component | source | state | operations | what is hard |
|---|---|---|---|---|
| turn hub | `internal/server/turns.go`, `chat.go`, `resume.go` | the turn in memory of each conversation, a count of goroutines, rows in the store | send, resume, stop, clear, delete, shutdown; the turn's goroutine; its retirement timer | requests racing for one conversation; stops and shutdowns racing the end of a run; a crash loses memory and keeps the rows |
| turn stream | `internal/server/turns.go`, `chat.go`, `internal/chat/events.go`, `web/src/chatStore.js` | the turn's event log, its accumulator, each reader's cursor and doorbell, what the browser shows | emit, fold, log, attach, catch up, heartbeat, detach, finish | deltas merged in place under readers; one-place doorbells; parallel tool calls and subagents; retried model calls |
| answer hubs | `internal/server/ask.go`, `approval.go`, `internal/tool/approval_gate.go` | the cards that can be answered, each card's channel, a turn's allowances and remembered answers | put a card, submit, time out, cancel, close, forget, gate a tool | a submission racing the timeout, the stop and another submission |
| background jobs | `internal/jobs` | a record per job, its flags, its output window | start, read with a wait, stop, forget, close; drain, reap, poll, give up | four goroutines and a timer per job that may all finish it; forked and escaped processes; unkillable ones |
| ReAct runner | `internal/chat/runner.go`, `budget.go`, `progress.go`, `hook.go` | the history of the turn, its counters | step, retry, run tool calls in segments, stop on a budget, hooks | parallel calls whose results keep their order; panics; budgets in the middle of a step |
| tool scheduling | `internal/tool/concurrency.go`, `registry.go` | none | segment a reply's calls into parallel groups and barriers | what may overlap |
| subagents | `internal/subagent` | a gate with a number of places, a list of runs | spawn, spawn many, narrow the tools, trim the list | waiting for the gate; which runs are trimmed |
| checkpoints | `internal/checkpoint` | pre-images per turn on disk | capture, record after, restore, undo, prune, number turns | two edits of one file; a restore beside a turn; pruning |
| plans | `internal/tool/plan.go`, `internal/server/plan.go` | a plan per conversation | create, update, clear | a finished plan and the next turn |
| context and condensation | `internal/context` | none | estimate, condense with a ledger | what is dropped, again and again |
| memory | `internal/memory` | short and long term entries | add, search, forget | little of its own |
| Claude Code mode | `internal/claudecode`, `claudehook`, `internal/server/claudecode.go` | a copy of settings.json, the switch, the hook engine built from both, a cache of models | look at the file, reload, switch, dispatch an event to its handlers, aggregate what they say | an edit while requests read the file; handlers that end in any order or never |
| edits | `internal/edit` | files | apply a batch or none of it | a failure in the middle, and in the putting back |
| MCP clients | `internal/mcp`, `internal/server/mcp.go`, `internal/tool/registry.go` | the connections held, the tools registered from each | save, toggle, delete, reload, reconcile, probe, close | the rows are listed outside the lock the reconciliation takes; dials that last seconds; names two servers share |
| LSP clients | `internal/lsp` | a server per (command, root), remembered failures, what each has reported | start, open, ask, wait for diagnostics, reap, close | calls that ask for one server at once; servers that crash, hang or stop reading |
| model clients, retries | `internal/llm`, `internal/retry` | none | stream a reply, back off | conversions |
| workspaces, instance guard | `internal/workspaces`, `pidfile` | a list of directories, a lock file | add, remove; acquire | two processes |
| Feishu surface | `internal/platform/feishu`, `agent` | seen message ids | receive, answer | duplicated deliveries |
| store | `internal/store` | SQLite | rows | modelled from its callers |
| the rest | tracing, metrics, documents, media, web, viking, skills, configuration, pricing, command line, console views | | conversions, clients, text | |

How they interact. A request handler of the console asks the **turn hub** for a
turn; the hub's goroutine runs the **runner**, which emits events into the **turn
stream** and calls tools. A gated tool or `ask_user` puts a card into an **answer
hub** and blocks until another request answers it. A tool may start a **background
job**, which outlives its turn, or a **subagent**, whose events go into the
parent's stream. The runner's result is stored by the hub; readers are told
afterwards. Shutdown cancels turns, waits for them, drains the HTTP engine and
closes the store; closing the jobs is the command's own last step.

What makes each component correct:

- *turn hub*: one turn per conversation; the live turn is the one readers find;
  over means stored, if the store took it; a stop ends the turn and is on record; an
  orderly shutdown loses nothing it found.
- *turn stream*: no reader loses, repeats or misses the end of the stream; what is
  shown is what is stored.
- *answer hubs*: nothing runs unallowed; one submission wins; a question is not
  asked twice.
- *jobs*: finished means gone and its output complete; nothing is out of reach or
  outlives the agent; the end is decided once and said truly; calls return.
- *runner*: what overlaps may overlap and what is a barrier is one; every window it
  sends is well formed and stays small; it warns before it stops; the turn ends.
- *checkpoints*: a pre-image is what the turn found; a rollback that is not forced
  overwrites no later work it has seen; a batch is all or nothing.
- *language servers*: one server per key, none forgotten; every call returns, unless
  it is writing to a server that does not read.
- *MCP*: what is offered is connected, what is connected is held; the last edit is
  what is connected.
- *hooks*: the verdict is the strictest of what was said, in whatever order; an edit
  of the settings takes effect.

## 2. The modules

| module | what it is |
|---|---|
| `TurnHub` | the hub, its handlers, the goroutine of a turn, shutdown and restart |
| `Conversation` | the abstract promise: a conversation is idle or busy with one turn, which alone may answer, once |
| `TurnStream` | emitters, accumulator, log, cursors, doorbells, browser |
| `Broadcast` | the abstract promise: one stream, of which a reader holds a growing prefix, told of the end only when it has it all |
| `LiveTurn` | one turn of the hub together with its stream |
| `LiveTurnProofs` | the theorems about `TurnHub`, `TurnStream` and `LiveTurn` |
| `AnswerHub` | questions, approvals, the gate, submissions |
| `AnswerHubProofs` | the theorems about `AnswerHub` |
| `Jobs` | the jobs manager, the goroutines of a job, its processes, `Output`, `Stop`, `Close` |
| `JobsProofs` | the theorems about `Jobs` |
| `Runner` | the step loop of a turn, its pool of calls and their subagents |
| `RunnerProofs` | the theorems about `Runner`, its guard and its window |
| `ProgressGuard` | what the loop guard counts and says, a function of a step's calls |
| `Window` | the history as a sequence of messages and its condensation |
| `Checkpoint` | checkpoints, the file tools that fill them, rollback |
| `CheckpointProofs` | the theorems about `Checkpoint` |
| `LanguageServer` | one language server of the manager, its connection and its callers |
| `LanguageServerProofs` | the theorems about `LanguageServer` |
| `McpManager` | rows, reconciliation, connections and the registry of tools |
| `McpManagerProofs` | the theorems about `McpManager` |
| `ClaudeCode` | the settings file, its copy, the switch and the dispatch of events |
| `ClaudeCodeProofs` | the theorems about `ClaudeCode` and `HookVerdict` |
| `HookVerdict` | what one reply of a hook decides and how the replies are aggregated |
| `MC...` | each module's instances and symmetry sets for TLC |

`Runner` extends `ProgressGuard` and `Window`, `ClaudeCode` extends `HookVerdict`:
the algorithms are operators of their own, the state machine drives them. `LiveTurn`
extends `TurnHub` and `TurnStream` and composes them.

### TurnHub

A turn is named by the request that starts it. `pc` says how far a request or its
turn has come: `Handler` stages are inside the HTTP handler, `Active` ones belong to
an admitted turn. A handler is split where it lets go of a lock or of the
database: `Send` (the conversation is looked up), `Check` (first look at the hub,
model resolution), `Post` (the user's row), `Begin` (`turnHub.begin`), `Launch`
(`runs.Add`, `go`). The goroutine is `RunReturns`, `Settle` (the stop outranks the
run's own ending), `Persist`, `Finish` (readers are told), `Leave` (deferred calls),
`Retire` (the two-minute timer). `turns` is `turnHub.turns`, `counted` the wait
group, `messages` and `exists` the database. `Restart` loses all but the database.
`Insert` is the insert of an answer: it comes to nothing when the conversation was
deleted or the store closed (`Storable`), and it may fail for any other reason, the
5 s of `saveCtx` among them, which `dropped`, a history variable, records; the turn goes
on all the same, as in the code. The insert of a user's row (`Post`) may fail at any
time too. A run that came to nothing (`silent`) is stored as a failure (`empty`).
A stop is `StopFind`, `StopMark`, `StopCancel`: the lookup, `stopRequested` and the
cancellation are three steps in the code too. Plans are off. Clears and deletes,
shutdowns, restarts and failed inserts of an answer are counted together as `upsets`.

### TurnStream

An emission is two steps, because it is two locks in the code: a loop folds the
event into `acc` and leaves it in `pending`, then `Log` appends it and rings the
readers. `AppendEvent` merges consecutive deltas of one kind into one entry;
`ReadFrom` and `CursorAfter` are `readFrom`, with the part of a grown entry that a
cursor has not seen. `View` is the reducer of `chatStore.js`. Text is a sequence of
numbered chunks, so that a lost, repeated or misplaced piece can be told. `Answer` has
the three ends of a run that did not fail: the model's answer, a budget before the next
step, and the loop guard, which returns before the step it looked at has joined the plan;
a Stop hook may send the loop on to another step after an answer (`StepStart` from
`model`). `res` is `chat.Result` and `Summary` is `summary`, which is what is stored: the
result's plan and text, and the accumulated events where the result has none. `Report` is
what `startTurn` adds when `Runner.Run` has returned: a failure or a stop is told on
the stream. Names that the hub has too begin with `Stream` (`StreamInit`,
`StreamFinish`).

### LiveTurn

One turn, `Watched`, takes part in both modules, and the two meet where the code calls
from one into the other: `Returns` (the run returns when its loop has ended;
`OutcomeOfRun` says with what, from the result and the events it leaves to `Summary`),
`Reports` (a failure or a stop, `Reported`, is told; that a turn came to nothing is not,
being found when it is stored), `Stores` (what there is to tell has been told), `Ends`
(`liveTurn.finish`: over for the hub and for the readers in one step), `Attaches` (a reader looks the turn up in the hub) and `Restarts`. `Runs`, `Logs`,
`ReadsOn` and `Detaches` are the stream's own, `Elsewhere` is every step of the server
that takes the watched turn past none of these points. `severed` says that the process
that had the turn is gone: its readers are cut off and are told nothing.

### AnswerHub

A card goes through `AskStart` or `GateLook`/`GateLooked`, `Register`, a select that
is split into finding something ready (`SelectReady`) and parking (`Park`), `Close`
and `Forget`. A submission is `Peek`, `Take` (under the hub's lock) and `Deliver`
(after it). `pending` is the hub's map, `box` the one-place channel, `allowed` and
`answered` what a turn remembers. Reading the turn's allowance map and writing it are
steps that take time, because they take no lock.

### Jobs

`proc` is the environment: a shell, a child in its group, a `silent` one that has
redirected its output (so the end of the output does not mean that it has gone), and
an `escaped` one that has left the group with the pipe (so the end of the group does
not mean the end of the output). Any of them may exit or ignore SIGTERM; one that is
`doomed` (sent SIGKILL) may never go. Each job has `drain` (read, token, EOF),
`supervisor` (reap, poll the group, mark, finalize) and `timer` (the drain grace);
`TryFinalize` and `Ended` are `tryFinalize` and `finalizeLocked`. `Output` is a loop
of `Look`, `Decide` and a wait that the token, the end of the job or the deadline
ends. `closer` is how far `Close`'s goroutine for each job has come. `forced`, `hit` and
`heard` (how much of a job's output some call has looked at) are history variables.

### Runner, ProgressGuard, Window

A call is one of seven kinds (a read, a command that only looks, the plan read back, a
search, a question, a change, a spawn), which fixes its effect for the guard, whether
it may overlap others and whether a subagent inherits it. `pc` is the place in the
loop: `StopAtTop` and `Send` are the top of a step, the model's replies and failures
follow, then the calls of the reply in groups (`CanStart` decides which may start
under the segmentation and the two limits), then the guard and the hooks at the end of
the step (`CloseStep`, with `Observed` and `Verdict` of `ProgressGuard`). A
subagent makes at most one call. `ProgressGuard` puts the loop of `observe` over a
step's calls in closed form. `Window` keeps of a message its role, its step and what
it is about; `Condensed` is the whole of `Condense` with its head, its pinned request,
its boundary and its ledger. Whether a window is over its budget and whether the
summarizer answers are any choice. A panic in the pool is a failed call; a tool that
is not permitted is one too. `heard`, `blamed` and `squeezed` are history variables.

### Checkpoint

Contents are numbers, a new one for every write, so that equal contents are equal
hashes. A writer goes through the guard: capture (the pre-image is written once per
file and turn), the write, the hash after it. A capture may be skipped (`pre` is `None`:
the file is unreadable, too large or no regular file, and the code returns no error), or
it fails and is only logged. A batch plans all its files before it
writes the first and puts back what it wrote when one fails. A rollback compares,
picks the number of its undo checkpoint, lets the lock go, captures, and restores file
by file. Directories that are the oldest are evicted beyond `KeepTurns` or for their
size. Every change of a manifest is two steps, `Holds` (it is read) and `WriteBack` (what
was read, with the change, replaces whatever is there by then), because the lock that
surrounds them is a `Checkpointer`'s own and the server builds one per request: the
captures of a turn exclude one another, and nothing excludes a rollback, a prune or the
next turn's start. `raced` (the files somebody else wrote since an actor began), `ended`
(how old the contents were when a turn ended), and a turn's `start` and `lost` are history.

### LanguageServer

One (command, root) and one file. `Call` goes through `Lookup`, the start lock,
`Recheck`, the start and the handshake, `CountChange`, the write (which waits for
room in the pipe and for the lock on it) and the wait for diagnostics or an answer.
`diag` is the change a report is credited to. The reaper and `Close` say farewell,
wait and kill. A server may crash, keep silent or stop reading at any time, and for good.

### McpManager

An edit is the code's three parts: the row, the list of rows, the reconciliation
under the manager's lock, which lets go of servers that are no longer wanted and then
takes the specs in their order: one whose fingerprint and connection stand is left
alone, others are torn down, dialled and registered. A name already taken is refused.
`version` and `applied` are history variables: which state of the table was
reconciled with last. Dials may fail; after a failed listing (`ListFails`) the runtime
is reconciled with no server at all.

### ClaudeCode, HookVerdict

Every request asks for the engine, and looks at the file first unless it did within
the throttle. `Look`, `Stat`, `Compare`, `LoadTime`, `LoadContent` and `Install` are
the steps of `maybeReload`, `Load` and `Reload`: the lock is held at the first, the
third and the last only, and `Load` takes the time of the file before its content.
The switch writes the store before it changes anything. A caller takes the engine
(`TakeEngine`), its handlers end in any order (`HandlerEnds`) and fill their slots,
and `AllEnd` aggregates them. Each edit has a modification time of its own: two edits
within the resolution of the file system's clock would be one to the code. There is
one settings file; hooks are enabled in the configuration; what a handler says beside
its decision (reasons, contexts, a replaced output) is left out.

## 3. The runs

| run | bounds | shows |
|---|---|---|
| `hub` | 1 conversation, 2 requests, 1 stop, one upset (a clear, a delete, a shutdown, a restart or an insert that fails) | `LiveTurnIsTheOneFound`, `OverMeansStored`, `StopIsOnRecord`, `ShutdownKeepsAnswers`, the refinement `KeepsPromise`, `StopEndsTheTurn` |
| `stream_shown` | 1 reader, 2 parallel calls without subagents, 2 steps, 2 deltas, 1 retry; the run answers, fails, or is stopped by a budget or the guard | `StreamTypeOK`, `ShownIsStored` |
| `stream_live` | 1 reader, 1 call with a subagent, 1 step, 2 deltas, 1 retry | the refinement `StreamKeepsPromise`, `ReadersAreTold` |
| `told` | 1 turn with 1 call, 1 step and 1 delta, 1 reader, 1 stop, two upsets (of a clear, a delete, a shutdown, a restart and an insert that fails) | `ToldWhatIsStored` |
| `cards` | any 2 of 2 questions and 2 gated calls, 2 turns, 2 subjects, 2 submissions | `TypeOK`, `NothingRunsUnallowed`, `AnsweredOnce` |
| `cards_maprace` | 2 gated calls of one turn | *violated*: `NoMapRace` |
| `jobs` | 1 job with a process that escapes or one that is silent, 2 readers (the second only of a job that has forked nothing and that nobody stops), 1 stop, Close | `TypeOK`, `GroupsAreHeld`, `StoppedIsSaid`, `NothingOutlivesTheAgent`, `FinishedHasItsOutput`, `OutputIsHeard`, `EverythingEnds` |
| `undo` | 2 turns, 2 calls in all, 2 writers, a batch of 2 files, 1 rollback, 1 mishap (a write by somebody else, a capture that is skipped or fails, a failing disk, a crash) | `TypeOK`, `FirstPreImage`, `LaterWorkIsLostOnlyUnseen`, `AllOrNothing` |
| `runner` | 3 steps, 4 kinds of reply, hooks, 2 attempts, 1 upset (a stop, a deadline or spent tokens) | `TypeOK`, `StopIsWarned`, `WindowIsSendable`, `AsIfSerial`, `TurnEnds` |
| `lsp_calls` | 2 callers, 2 servers one after the other, a pipe with room for 1 message | `TypeOK`, `OneServerInHand`, `CallersReturn` |
| `mcp` | 2 servers, 2 definitions that share a name, 1 name of the agent's own, the start and 2 editors, 1 probe, 1 failed listing | `TypeOK`, `OfferedIsHeld`, `EditsTakeEffect` |
| `hooks` | 1 caller, 1 console request at a time, a file edited twice among hooks, no hooks and no file, 2 handlers, 6 replies, 3 events | `TypeOK`, `VerdictIsTheStrictest`, `EditsTakeEffect` |

Why the bounds are enough. Everything the hub does is about one conversation and
the newest turn of it: two turns give the old timer, the old stop and the lost
race; `LiveTurnProofs` removes the bound for the safety properties, and for `TypeOK`,
which is proved and not run. A reader's cursor
knows the entry it is in and the ones after it; two deltas grow one entry under it,
two calls interleave fold and log, one retry takes text back; readers do not touch
one another. What is told and what is stored of a turn meet at its end: the shortest
turn that says something has every order of its end, a stop, a reader and two upsets,
as when an insert fails in a conversation that is being cleared. The theorems about the
stream hold without these bounds. Cards of a turn meet only through the hub and the
turn's memory, so any two cards of two turns tell right from wrong deliveries. Jobs
meet only in the manager: one job shows all its own goroutines do, and that several
keep to their limit is the theorem `GroupsHeld`. `Apart`, with which `MCJobs`
restricts `Next`, bounds only what a shell forks, who reads and who stops, which are steps
without fairness (a call that has begun is never held up by it). Of a turn's
steps three are the fewest in which the guard nudges at the second repetition and
stops at the third, and in which a window is condensed on top of a condensed one. Two
turns give a rollback that meets a later turn; two files give a batch half of which
fails. Two callers race for one server, and a second server follows the first. Two
servers that share a name give every order of refusing and letting go of it. Two edits
are the fewest between which a request may read the time of one and the text of the
other; two handlers give every pair of decisions. Deadlock is not checked where every
run ends with all requests answered; it is checked in `hooks`, which never stops.

Symmetry is used only in runs of invariants and of refinements without fairness.

### Findings

- `cards_maprace`: with approval mode `all`, parallel-safe tools are gated, and two
  calls of one reply read and write the turn's `tools` map without a lock
  (`internal/tool/approval_gate.go:321`, `:330`); the Go runtime aborts on that.

### Met while modelling

Differences between the code and what its comments or documents say that no run
shows, because they are about one line, about a part that is not modelled, or about a
case the runs leave out:

- *hub*: a refused message is left in the conversation; the history is read before the
  previous turn has stored its answer (`chat.go:913`); a turn may begin after the
  shutdown's snapshot; a crashed turn cannot be resumed. An answer whose insert fails, be
  it for the 5 s of `saveCtx` (`chat.go:1205`, `:1289`), is lost, and its readers are told
  that the turn is over like any other. A turn that came to nothing is stored with an error
  (`chat.go:1264`) that no event reports: its readers see an answer of no words until the
  conversation is loaded again.
- *stream*: of a turn the guard stopped, the reader saw one step more than the stored plan
  has (`runner.go:586`, against `events.go:304`; `ShownIsStored` says so); what subagents'
  cards said is not stored when the result's plan goes before the accumulated events
  (`turns.go:732`). The browser takes a subagent's `done`, `step_end` and `step_retry` for the
  turn's own (`chatStore.js:1756`, `:1582`, `:1700`), so its text is shown as the turn's
  answer until the turn says more, which `chatStore.js:1561` and `turns.go:548` rule
  out; `readFrom` (`turns.go:289`) serves the rest of a grown delta without its parent;
  `appendEvent` (`turns.go:317`) merges the deltas of subagents that run side by side.
  What is shown of a turn with subagents is therefore not what is stored:
  `ShownIsStored` is about turns without them; that nothing is lost
  (`StreamKeepsPromise`) is about all.
- *answers*: a submission may be accepted after its card timed out.
- *jobs*: of two calls that wait for one job's output, one takes the only token
  (`jobs.go:937`) and the other sleeps until more output, the end or its deadline.
- *runner*: the loop stop counts reads made after an edit in the same step
  (`progress.go:261`); a refused write repeated for ever is never noticed
  (`docs/long-tasks.md:105`). The tracker of subagents trims the newest
  finished runs (`tracker.go:121`, `:228`) where its comments say the oldest.
- *checkpoints*: a file the turn created and somebody else changed is deleted by a
  rollback that was not forced (`restore.go:153`, against `:18`); undo checkpoints have
  no hashes, so undoing a rollback reports conflicts
  (`docs/approvals-and-checkpoints.md:86`); a prune for size may drop the directory a
  turn is filling; the number of a rollback's undo may be given to a turn as well, the lock
  being let go before the number is used (`restore.go:283`, against `:113`), and
  a rollback and a turn, or a prune, read and write one manifest under different locks
  (`server/checkpoint.go:32`, `:54`), so that one loses what the other filed; a file that
  could not be read is filed as skipped and `Capture` returns nil (`checkpoint.go:264`), so
  an undo is offered that has not got its content; what is written between a rollback's
  decision and its write is overwritten unasked (`restore.go:192`, against `:18`). So
  no property says what an undo checkpoint holds (`restore.go:14` says it is what was
  replaced). `apply_patch` records no hash after its writes (`turn.go`, against
  `docs/tools.md:184`).
- *LSP*: every request is said to be protected from a server that never answers
  (`client.go:133`), but the time limit is on the answer: the write before it, under
  `writeMu` (`protocol.go:326`), has none, so calls, and `Close` before it kills
  (`manager.go:439`), hang for as long as a server lives that does not read
  (`CallersReturn` says so). A report is credited to the newest change whatever version it is of
  (`client.go:471`, against `:363`); `Close` racing a start leaves a server nobody
  stops (`manager.go:302`); a start cancelled by its turn's stop is remembered as broken
  (`manager.go:293`); a crashed server stays the instance until it is reaped.
- *MCP*: a reload skips unchanged servers, so a dead transport is not reconnected
  (`manager.go:159`, against `docs/admin.md:140`); an older list may be reconciled with
  last (`mcp.go:452`); with specs in the order B, A, where A no longer lists the name
  they shared, B is refused it before A lets it go.
- *Claude Code*: turns run with a runner cached per provider and model
  (`server/chatmodel.go:33`), which only the console's own switch and reload reset, so
  after an automatic reload turns go on with the old hooks and credential until then
  (against `service.go:240` and `docs/claudecode.md:41`); the cached runner's hooks have
  the conversation it was first built for (`chatmodel.go:109`, against
  `server/claudecode.go:316`); a model that is built while the file is reloaded is
  cached with the old credential (`service.go:607`, against `:88`); `continue: false`
  is honoured for UserPromptSubmit only; mcp_tool handlers have no timeout
  (`engine.go:756`).
- *plans*: the planner's copy of a plan survives the clearing of the conversation
  beside a running turn (`chat.go:821`).

## 4. Fairness

Only what the Go scheduler and armed timers give: a goroutine or handler that can go
on does. Nobody has to send, stop, answer, edit or read. In particular

- an uncancelled run may never return; a cancelled one does, because the runner
  looks at its context before each step and hands it to the model and the tools;
- readers need no fairness of their own beyond running when their doorbell rings;
  the heartbeat is not fair, so `ReadersAreTold` shows that it is not needed;
- processes owe nothing: not even SIGKILL makes one go;
- in `Runner` model calls and tool calls return and the loop and the pool go on, but no
  budget has to run out and nobody has to stop the turn: `TurnEnds` is the loop's own;
- in `LanguageServer` the agent's goroutines go on, and nothing is assumed of a server:
  it may read its input late or never, and need not answer or publish anything. So
  `CallersReturn` says of a call, and of Close, that it comes to its end or hangs for good
  before a write for which a live server leaves no room (`CallHangs`, `FarewellHangs`);
- in `ClaudeCode` time passes, requests under way go on and handlers end (commands and
  URLs are run with a timeout; that an MCP tool returns is assumed). That events keep
  coming is the antecedent of `EditsTakeEffect`, not an assumption.

`AnswerHub`, `Checkpoint` and `McpManager` are checked for safety only.

## 5. Proofs

TLC shows a property for a small instance, the theorems below for all of them. Every
property that a run checks and a theorem states was checked by TLC first, and so was
each inductive invariant as far as it is not a matter of types. Each module of proofs
rests on the assumptions that the module it is about names (`TurnHubAssumption` and
so on: which constants are disjoint, which are numbers, that a bounded resource has a
place) and on nothing else.

### The turn hub

`LiveTurnProofs` proves, for any sets of conversations, requests and stops and any
numbers of edits, shutdowns and restarts, under `TurnHubAssumption` alone:

| theorem | statement |
|---|---|
| `TypeCorrect` | `Spec => []TypeOK` |
| `LiveTurnFound` | `Spec => []LiveTurnIsTheOneFound` |
| `OverIsStored` | `Spec => []OverMeansStored` |
| `StopRecorded` | `Spec => []StopIsOnRecord` |
| `ShutdownKeeps` | `Spec => []ShutdownKeepsAnswers` |
| `PromiseKept` | `Spec => KeepsPromise`, that the hub implements `Conversation` |

None of the invariants is inductive. The inductive one, `IInv`, adds

- `HubOwnsItsTurns`: the hub leads a conversation only to admitted turns of that
  conversation, and to each that is in flight, which is what makes `Retire`'s
  comparison and `Begin`'s test sufficient;
- `StoredMeansKept` and `SavedAfterPersist`: an answer is in the database exactly from
  `Persist` on, with a deleted conversation, a closed store or a failed insert (`dropped`,
  for whatever reason) as the excuses;
- `StopBeforeCancel`, `StopHasAReader`: `stopRequested` is set before the context is
  cancelled and read after the run has returned;
- `ShutdownOwes`: a goroutine counted when the shutdown began is counted until its
  answer is stored or given up, so a wait that returns by itself has seen it stored.

Each conjunct has a lemma with a case per action; the refinement maps each action to
`Admit`, `Answer`, `Release`, `Crash` or a stutter.

### The turn stream

The same module proves, for any readers and calls, any number of steps, deltas and
retries, under `TurnStreamAssumption` alone:

| theorem | statement |
|---|---|
| `StreamTyped` | `StreamSpec => []StreamTypeOK` |
| `StreamKept` | `StreamSpec => StreamKeepsPromise`, that the log and its readers implement `Broadcast` |
| `ShownStored` | `Spawning = {} /\ StreamSpec => []ShownIsStored` |

`StreamInv` is the invariant of the first two. Of the emitters it says who may have an
event on its way to the log (`Quiet`, `PendingOne`), that nobody has once the turn is
over (`DoneIsQuiet`) and what was emitted last (`LastWord`). Of the readers it says
`HandedAll`: what a reader was handed, with what it would still be handed at its cursor,
has the words of all that was emitted. That a step keeps it comes down to three lemmas about
the log: an entry that is added or has grown is the one more thing to read
(`AppendedLog`, `ReadsOneMore`), and a cursor that was moved up has nothing left to read
(`ReadToTheEnd`). `Log` is then a `Publish` of the abstract module, `StreamFinish` a
`Close`, `StreamEnd` a `Tell`, `Detach` a `Leave`, `Attach` and `Since` a `Read`,
and everything else changes nothing a reader can tell.

`ShownStored` follows the browser. Its invariant, `ShownInv`, says that what is shown
of all that was emitted, the event still on its way included (`Ahead`), agrees with the
accumulator (`Agree`) and has its answer (`AnswerSays`), and that a reader who reads on
is handed what was emitted, each word in its step (`HandedWhole`), since without
subagents two deltas that are merged are of one step (`LastDelta`). The step is
`FoldAsShown`: folding an event into the accumulator and showing it keep the two in
agreement. `OnRecord` relates the steps on record to the plan of the result (`StepTold`):
a plan that goes before them has the same steps, but for the one the guard looked at,
which is the exception `ShownIsStored` makes. The hypothesis `Spawning = {}` is needed:
with subagents the property is false, for the reasons given in section 3.

### The turn and its stream

| theorem | statement |
|---|---|
| `LiveIsHub` | `LiveSpec => Spec` |
| `LiveIsStream` | `LiveSpec => StreamSpec` |
| `ToldIsStored` | `LiveSpec => ToldWhatIsStored` |

The first two make every theorem about the hub and about the stream one about their
composition, for any constants of both. The third needs more than either has: `Met`
says how far the loop of the stream and the goroutine of the hub can be from one
another until the process dies, in particular that a turn is over for its readers
exactly when it is over for the hub, and that by then its answer is stored, if the store
took it, a failure or a stop has been reported exactly when there was one, and a turn that
came to nothing has said nothing (`ComesToNothing`), although what is stored of it is a
failure. What a reader was told last is therefore right as far as it goes
(`ToldRightly`). `LastHeld` adds that a reader about to be
told of the end has been handed the loop's last word.

### Background jobs

`JobsProofs` proves, for any sets of jobs, readers and stops, any limits and any of
the processes a shell may fork, under `JobsAssumption` alone:

| theorem | statement |
|---|---|
| `FinishedIsGone` | `Spec => []FinishedMeansGone` |
| `StoppedIsRight` | `Spec => []StoppedIsSaid` |
| `NothingIsLeft` | `Spec => []NothingOutlivesTheAgent` |
| `EndsOnce` | `Spec => EndIsFinal` |
| `TypesHold` | `Spec => []TypeOK`, with it that the manager's list has each of its jobs once |
| `GroupsHeld` | `Spec => []GroupsAreHeld` |
| `OutputIsComplete` | `Spec => []FinishedHasItsOutput` |
| `SomebodyHears` | `Spec => []OutputIsHeard`, for any number of calls that wait for one job |

`FinishedMeansGone` and `EndIsFinal` are checked by no run: they are proved instead.

Here too the invariant is larger than what it serves. `GoneIsGone` alone would not
do: a group found empty stays empty only because nothing forks into it
(`UnbornIsBare` for the jobs that have not started), and `groupGone` is a lie where
Close has set it, so `ForcedIsStopped` says for which jobs. `StoppedIsSaid` rests on
`StopsAreMarked` and on the second line of `CloseIsThorough`, that a signal comes
after the recorded intent. `NothingOutlivesTheAgent` rests on the rest of
`CloseIsThorough`: Close finds every running job because the manager never lets go of
one, and none starts once it is closing. There is a lemma per action, with a step per
conjunct, and one for all the steps (output, readers, stages) that move nothing the
invariant mentions.

`GroupsHeld` adds the bound itself (`HeldBounded`): the jobs that hold a group are at
most `MaxJobs` because `Start` counts the running ones under the lock it registers the
new one under, and a group outlives its record only if Close gave it up.

`OutputIsComplete` rests on `ReadToTheEnd`: an output read to its end is all there is,
because nobody who has the pipe is left to write or to hand it on, and a job ends with
its output read, given up by the timer or cut off by Close. `SomebodyHears` rests on
`ReadersHear`, which is about a job and not about a reader: all of its output has been
looked at by some call, or there is a token, or the drain is about to leave one, or a call
is on its way to look. `WakePoked` turns the token into such a call, and `Look` hears all
there is. It is not said of each reader, because it is false of each: section 3 has what
two readers of one job may do.

`TypesHold` rests on the list of jobs: what is left of it after a job is forgotten or
pruned (`Without`, a recursive function) still has every other job once
(`WithoutLists`), and `Start` adds a job that was not on it (`ListedOnce`).
The model was changed for this proof: `Without` was written with `SelectSeq` before, of
which the provers know nothing.

### Questions and approvals

`AnswerHubProofs` proves, for any cards, turns, subjects and submissions:

| theorem | statement |
|---|---|
| `OneAnswerPerCard` | `Spec => []TypeOK`, with it that a card's channel never holds two answers |
| `RunsOnlyAllowed` | `Spec => []NothingRunsUnallowed` |
| `AskedOnce` | `Spec => []AnsweredOnce` |

The invariant has two parts. `HubInv` is about the hub and its submissions: a card
that is not in the hub yet is known to nobody (`EarlyIsUnknown`), one that was taken
was taken once (`TakenOnce`), and its channel holds the answer of whoever took it
(`BoxIsTaken`), whose verdict is the card's (`VerdictIsSaid`). Without `TakenOnce` a
second submission could fill the channel again after the timeout had emptied it.
`TurnInv` is about the turns: what a turn allows was said of one of its cards
(`AllowedIsSaid`), and an answer is remembered before the next question is put
(`AnswersAreKept`), which rests on a turn's questions being put one after another
(`QuestionsAreSerial`). `AskedOnce` is for turns whose subjects fit what the hub
remembers of a turn; beyond that it remembers no more.

### The runner

`RunnerProofs` proves, for any sequences of calls the model may reply with, any
budgets, thresholds, limits and length of the conversation before the turn:

| theorem | statement |
|---|---|
| `TypesHold` | `Spec => []TypeOK`, with it that the gate of subagents lets in no more than it has places |
| `NoStopUnwarned` | `Spec => []StopIsWarned` |
| `WindowsAreSendable` | `Spec => []WindowIsSendable` |
| `CallsAreAsIfSerial` | `Spec => []AsIfSerial` |

The invariant of the window (`WindowIs`) is that it is `Sound`: the rules are first, the
turn's request is the last thing the user said (`Asks`), and each reply is followed by
its results and each result preceded by its reply (`Whole`). While calls run, the
window is sound with their results to come, not as it stands. `AppendIsSound` and
`ReplyIsSound` are what the loop adds to it. Condensing cuts it: `TailIs` shows that the
boundary is never at a result and how far it may move, `CutIsSound` that a sound window
stays so when it is cut at such a place, and `CondenseIsSound`, `LedgerIsSound` and
`CondensedIsSound` put the head, the summary, the pinned request and the ledger in
front of what was kept and count the messages. The request survives because it is the
last thing the user said, wherever the boundary is.

`StopIsWarned` is not inductive because the model has not heard a warning when the guard
gives it: `WarningsAreTold` says that it was heard, or is the last message of the window
about to be sent, for as long as the guard counts on it. `ObservedIs`, `MostRepeatedIs`
and `VerdictIs` are what the guard's operators return. `GroupsPart` shows that the groups
of a reply are in order and that a call which must run alone has one of its own.

The model was changed in two places for these proofs: `Init` writes the conversation
before the turn out as a function (`Exchanges`) instead of flattening a sequence, and
the assumptions say that the model's possible replies are finitely many, so that there
is a longest one, and that no ending is called `None`.

### Checkpoints

`CheckpointProofs` proves, for any conversations, writers, files, rollbacks and bounds:

| theorem | statement | why it holds |
|---|---|---|
| `WellTyped` | `Spec => []TypeOK` | one more than the highest number there is stays in range because every turn and every rollback takes at most one (`NumbersAreGiven`); the loops of a batch and of a rollback stay in range because something is left to do whenever they go on (`BatchesGoOn`, `RollbacksGoOn`) |
| `GivesBackWhatWasFound` | `Spec => []FirstPreImage` | no writer touches a file before it is filed (`FiledFirst`), so one that is not filed is as the turn found it (`FoundOrFiled`) |
| `BatchIsAllOrNothing` | `Spec => []AllOrNothing` | at every step of both loops what is not written yet, or put back, is as it was planned (`UntouchedIsOriginal`) |
| `LaterWorkIsLostUnseen` | `Spec => []LaterWorkIsLostOnlyUnseen` | a hash is recorded while its turn goes on, so none on record, nor in a manifest about to be written, is newer than the turn's end (`RecordsAreOfTheTurn`, `OpenWhileRunning`, `NothingIsNewer`), and a rollback decides to overwrite only what has such a hash (`OverwritesItsOwn`) |

Since a manifest may be read by one and replaced by another, all of them need to know of
one that is about to be written: `HoldersHold` says whose it is, `HeldFollows` what it can
be of a running turn, and `BooksStep`, for `LaterWorkIsLostUnseen`, what each step makes of
it. `FirstPreImage` excuses a file whose record was skipped, pruned or replaced by a
rollback with the turn's own number (`lost`), and both it and `AllOrNothing` what somebody
else wrote meanwhile: `PutIsNoted` and `OthersAreNoted` show that every write of another
actor is noted as such, once for all actions, so that the lemmas per action are about the
actor's own steps.

### Language servers

`LanguageServerProofs` proves, for any callers and servers, `ServerTypes`
(`Spec => []TypeOK`) and `OneServer` (`Spec => []OneServerInHand`). A live process is
held by somebody (`UpIsHeld`) and by one only (`HeldOnce`): its starter, the manager or
a stopper; what a starter holds is the only one because it holds the start lock
(`LockIsHeld`, `StartsTheOnlyOne`).

### MCP servers

`McpManagerProofs` proves, for any servers, definitions, names, editors and probes:

| theorem | statement |
|---|---|
| `OnlyTheOwnerReconciles` | `Spec => []TypeOK` |
| `OfferStaysHeld` | `Spec => []OfferedIsHeld` |
| `EditsComeThrough` | `Spec => []EditsTakeEffect` |

That as many connections are open as servers and probes hold is not inductive: it is
kept as `OneEach` (no two hold one connection) and `OpenIsUsed`, from which the lemma
`OpenAreCounted` counts, and which gives `FreshIsFree`, that a connection is left
whenever one is dialled. A name can be given to a new connection only because the
server dialled has let its own go (`DialingIsGone`); nothing is held after Close
because Close waits for the lock of the reconciliation (`ClosedIsEmpty`). For the edits
`AppliedComesTo` says what a reconciliation in the middle is on the way to: whatever
is right already, still to do, or being dialled, is exactly what the table asks for. It
needs `VersionsAreHad`, that nothing is of a version the table has not had, or a
write could make an old list current again.

### Hooks

`ClaudeCodeProofs` proves, for any requests, settings, handlers and replies,
`EngineIsOfTheSettings` (`Spec => []TypeOK`) and `StrictestIsHonoured`
(`Spec => []VerdictIsTheStrictest`). `Aggregate` is a recursive function over a list of
any length. The library's induction theorems are out of the prover's reach, so that
this function has its defining equation (`VerdictIsDefined`) and what it comes to
(`AggregateIsStrictest`) are shown by the least number of handlers for which it would
not be so (`AllUpTo`, from the well-foundedness of finite subsets); the step is the
lemma `JudgeKeepsStrictest`.

### What is only model-checked

- Liveness: fairness and `ENABLED` are beyond the prover. This is `StopEndsTheTurn`,
  `ReadersAreTold`, `EverythingEnds`, `TurnEnds`, `CallersReturn` and `ClaudeCode`'s
  `EditsTakeEffect`.
- Every invariant and every action property that a run checks is stated by a theorem,
  as is every refinement. `Spawning = {}` in `ShownStored` is what its run has too.

## 6. Not modelled

Of the modelled parts:

- hub and stream: the order of the calls within a step and what subagents' cards hold,
  which `ShownIsStored` does not compare; titles, usage rows, renaming, listing and reading
  of conversations;
  plans and their effect on resume; events that are stored or shown beside the text;
- jobs: the window's ring (what `FinishedHasItsOutput` calls read may have been pushed out
  of it since) and the log file of a job; a pipe that fails instead of ending
  (`jobs.go:920`); reuse of a process group id. That `done` is closed once is only proved
  (`EndsOnce`);
- runner: events (they are in `TurnStream`), usage, tracing, the wording of the ledger,
  arguments rewritten by hooks, which tools a turn has, subagents beyond one call, the
  tracker, calls of other turns in the gate;
- checkpoints: sizes, what git says, rename_symbol, listing and diffs, a turn that was given
  no number, a manifest that cannot be read;
- language servers: the choice of a server and a root, several keys, texts, versions,
  positions, renames and the contents of answers;
- MCP: rows declared in the configuration, the recorded error, calls of tools,
  transports that die, the drafting assistant; the order in which a server's tools are
  unregistered and its connection closed, which turns can see because they read the
  registry under its own lock (`Teardown` is one step, `mcp/manager.go:236`). An older list that is
  reconciled with last is what `EditsTakeEffect` has as its condition, not what it finds;
- Claude Code: the cache of models, contexts and prompt ids of a conversation, the event
  log, matchers, payloads, and how a handler is run.

Of the system: every component that the index lists as `not_modelled`, with its
reason there. Most of the source is conversions (provider formats, documents, media,
configuration), clients of other services, SQL and Vue components, where a state
machine would say nothing that the code does not.

## 7. Plan

Done, with proofs: `TurnHub` with `Conversation`; `TurnStream` with `Broadcast`;
`LiveTurn`; `AnswerHub`; `Jobs`; `Checkpoint`; `LanguageServer`; `McpManager`;
`ClaudeCode` with `HookVerdict`; `Runner` with its guard and window.

1. Composition: `AnswerHub` and `Runner` with `LiveTurn`, as the hub and the stream are
   composed: a card that is open when the turn is stopped, a report of the guard on the
   stream.
2. Modules: plans beside a running turn; the batch sender of the traces; the sends of
   the Feishu surface with their retries and budget; the refresh of the model list; the
   cache of runners and models beside a reload of the settings.
