------------------------------ MODULE TurnHub ------------------------------
(***************************************************************************)
(* The life of a conversation's turns in the web console's server: the     *)
(* HTTP handlers that start one (send a message, resume a dead turn), the  *)
(* hub that admits at most one per conversation, the goroutine that runs   *)
(* it, stores the answer and reports it over, the reader's stop, clearing  *)
(* and deleting a conversation, the graceful shutdown of the server and a  *)
(* restart that loses everything that was only in memory.                  *)
(*                                                                         *)
(* A turn is named by the request that starts it, so `Request` is also the *)
(* set of turns.  Every handler is split where it gives up the lock or the *)
(* database it was holding: those are the points at which another request, *)
(* the turn itself or the shutdown can get in between.                     *)
(*                                                                         *)
(* Deployment modelled: plans off (chat.PlanEnable false), so whether a    *)
(* turn can be resumed depends on the last stored answer alone.            *)
(***************************************************************************)
EXTENDS Naturals, Sequences, FiniteSets

CONSTANTS Session,      \* conversations
          Request,      \* requests that ask for a turn; also the turns' names
          Stopper,      \* requests that ask for a turn to be stopped
          None,         \* "no turn"
          MaxUpsets     \* bound: how often, taken together, conversations are cleared or
                        \* deleted, inserts of an answer fail that could be made, shutdowns
                        \* begin and the process dies

ASSUME TurnHubAssumption ==
         /\ None \notin Request
         /\ MaxUpsets \in Nat

VARIABLES
  \* one request and, once it is admitted, its turn
  pc,         \* how far each request or turn has come
  conv,       \* the conversation it is for
  cancelled,  \* who cancelled the turn's context first, while its run was still
              \* there to notice: "no", "stop" or "shutdown"
  stopReq,    \* liveTurn.stopRequested
  outcome,    \* what the run came to, and then the failure stored with the answer
  saved,      \* history variable: the turns whose answer reached the database
  \* the hub
  turns,      \* turnHub.turns: the turn a conversation's id leads to, or None
  counted,    \* turnHub.runs: the goroutines the wait group counts
  \* the database
  exists,     \* conversations that have a row
  messages,   \* the rows of each conversation, oldest first
  dropped,    \* history variable: the turns whose answer it did not take although the
              \* conversation was there and the store open
  \* requests to stop a turn
  spc, starget,
  \* the process
  server,     \* "serving", "cancelling", "waiting", "draining" or "closed"
  flying,     \* shutdown's snapshot of the turns still to be cancelled
  owed,       \* history variable: the goroutines counted when shutdown began
  deadline,   \* whether the shutdown's deadline has passed: "ahead" or "passed"
  upsets      \* how many of the mishaps that MaxUpsets bounds there have been

reqVars  == <<pc, conv>>
runVars  == <<cancelled, stopReq, outcome, saved>>
hubVars  == <<turns, counted>>
dbVars   == <<exists, messages, dropped>>
stopVars == <<spc, starget>>
procVars == <<server, flying, owed, deadline, upsets>>
vars == <<reqVars, runVars, hubVars, dbVars, stopVars, procVars>>

-----------------------------------------------------------------------------
(* The stages a request goes through; those of Handler are inside the HTTP *)
(* handler, those of Turn belong to a turn that the hub has admitted.      *)
Handler  == {"read", "checked", "posted", "begun"}
Active   == {"begun", "running", "returned", "settled", "stored"}
Finished == {"done", "left", "retired"}
Refused  == {"conflict", "failed", "nothing"}
Stage    == {"idle", "lost"} \cup Handler \cup Active \cup Finished \cup Refused

Outcome  == {"none", "answer", "silent", "error", "budget", "stopped", "empty"}

Row == [role : {"user", "assistant"}, turn : Request]

IsDone(t) == pc[t] \in Finished

\* turnHub.running: a retained turn that is over does not count.
Running(s) == turns[s] # None /\ ~IsDone(turns[s])

Answers(s) == {i \in DOMAIN messages[s] : messages[s][i].role = "assistant"}

\* lastAssistantMessage, and whether it failed or ran out of budget.
Resumable(s) ==
  \E i \in Answers(s) :
     /\ \A j \in Answers(s) : j <= i
     /\ outcome[messages[s][i].turn] # "answer"

Goto(r, stage) == pc' = [pc EXCEPT ![r] = stage]

\* The turn's context is cancelled: only a run that has not returned is affected,
\* and only the first time.
CancelRun(r, who) ==
  [cancelled EXCEPT ![r] = IF @ = "no" /\ pc[r] \in {"begun", "running"} THEN who ELSE @]

Accepting == server \in {"serving", "cancelling", "waiting"}
StoreOpen == server # "closed"

-----------------------------------------------------------------------------
Init ==
  /\ pc = [r \in Request |-> "idle"]
  /\ conv \in [Request -> Session]
  /\ cancelled = [r \in Request |-> "no"]
  /\ stopReq = [r \in Request |-> FALSE]
  /\ outcome = [r \in Request |-> "none"]
  /\ saved = {}
  /\ turns = [s \in Session |-> None]
  /\ counted = {}
  /\ exists = Session
  /\ messages = [s \in Session |-> <<>>]
  /\ dropped = {}
  /\ spc = [x \in Stopper |-> "idle"]
  /\ starget = [x \in Stopper |-> None]
  /\ server = "serving"
  /\ flying = {}
  /\ owed = {}
  /\ deadline = "ahead"
  /\ upsets = 0

-----------------------------------------------------------------------------
(* Starting a turn.                                                        *)

\* handleSendMessage up to launchTurn: the conversation must exist.  Its history is
\* read here too, before anything looks at the hub.
Send(r) ==
  /\ Accepting
  /\ pc[r] = "idle"
  /\ conv[r] \in exists
  /\ Goto(r, "read")
  /\ UNCHANGED <<conv, runVars, hubVars, dbVars, stopVars, procVars>>

\* handleResumeTurn up to launchTurn, with something to carry on with.
Resume(r) ==
  /\ ~Running(conv[r])
  /\ Resumable(conv[r])
  /\ Send(r)

\* handleResumeTurn refusing: the conversation is busy (409), or its last stored
\* answer is a complete one, or there is none (400: "the last turn ended normally").
ResumeRefused(r) ==
  /\ Accepting
  /\ pc[r] = "idle"
  /\ conv[r] \in exists
  /\ \/ Running(conv[r]) /\ Goto(r, "conflict")
     \/ ~Running(conv[r]) /\ ~Resumable(conv[r]) /\ Goto(r, "nothing")
  /\ UNCHANGED <<conv, runVars, hubVars, dbVars, stopVars, procVars>>

\* launchTurn's first look at the hub, and the resolution of the model, which
\* can fail before anything is written.
Check(r) ==
  /\ pc[r] = "read"
  /\ \/ Running(conv[r]) /\ Goto(r, "conflict")
     \/ ~Running(conv[r]) /\ \E next \in {"checked", "failed"} : Goto(r, next)
  /\ UNCHANGED <<conv, runVars, hubVars, dbVars, stopVars, procVars>>

\* The database can take a row of the conversation: it has not been deleted (the
\* rows refer to it) and the store is open.
Storable(s) == s \in exists /\ StoreOpen

\* launchTurn stores the user's message.  The insert may fail for reasons of its own
\* even where it could be stored.
Post(r) ==
  /\ pc[r] = "checked"
  /\ \/ /\ Storable(conv[r])
        /\ messages' = [messages EXCEPT ![conv[r]] =
                          Append(@, [role |-> "user", turn |-> r])]
        /\ Goto(r, "posted")
     \/ Goto(r, "failed") /\ UNCHANGED messages
  /\ UNCHANGED <<conv, runVars, hubVars, exists, dropped, stopVars, procVars>>

\* Mutant of Begin: a second turn replaces the one that is running.
BeginAnyway(r) ==
  /\ pc[r] = "posted"
  /\ Goto(r, "begun")
  /\ turns' = [turns EXCEPT ![conv[r]] = r]
  /\ UNCHANGED <<conv, runVars, counted, dbVars, stopVars, procVars>>

\* turnHub.begin, under the hub's lock.  Losing here answers 409 with the user's
\* message already stored.
Begin(r) ==
  /\ pc[r] = "posted"
  /\ IF Running(conv[r])
     THEN Goto(r, "conflict") /\ UNCHANGED turns
     ELSE Goto(r, "begun") /\ turns' = [turns EXCEPT ![conv[r]] = r]
  /\ UNCHANGED <<conv, runVars, counted, dbVars, stopVars, procVars>>

\* The rest of startTurn, which counts the goroutine only after the turn is in
\* the hub, and the 202 answer.
Launch(r) ==
  /\ pc[r] = "begun"
  /\ counted' = counted \cup {r}
  /\ Goto(r, "running")
  /\ UNCHANGED <<conv, runVars, turns, dbVars, stopVars, procVars>>

-----------------------------------------------------------------------------
(* The turn's goroutine.                                                   *)

\* Mutant of RunReturns: the wait group is told as soon as the run returns.
RunReturnsUncounted(r) ==
  /\ pc[r] = "running"
  /\ \E o \in {"answer", "silent", "error", "budget"} :
       outcome' = [outcome EXCEPT ![r] = o]
  /\ counted' = counted \ {r}
  /\ Goto(r, "returned")
  /\ UNCHANGED <<conv, cancelled, stopReq, saved, turns, dbVars,
                 stopVars, procVars>>

\* Runner.Run returns.  A cancelled run may look like an ordinary end: the
\* response simply stops arriving.
RunReturns(r) ==
  /\ pc[r] = "running"
  /\ \E o \in {"answer", "silent", "error", "budget"} :
       outcome' = [outcome EXCEPT ![r] = o]
  /\ Goto(r, "returned")
  /\ UNCHANGED <<conv, cancelled, stopReq, saved, hubVars, dbVars,
                 stopVars, procVars>>

\* Mutant of Settle: the stop is believed only when the runner reported an error.
SettleOnError(r) ==
  /\ pc[r] = "returned"
  /\ outcome' = [outcome EXCEPT ![r] = IF stopReq[r] /\ @ = "error" THEN "stopped" ELSE @]
  /\ Goto(r, "settled")
  /\ UNCHANGED <<conv, cancelled, stopReq, saved, hubVars,
                 dbVars, stopVars, procVars>>

\* The failure the answer will carry is decided: a reader's stop outranks
\* whatever the runner made of the cancellation.
Settle(r) ==
  /\ pc[r] = "returned"
  /\ outcome' = [outcome EXCEPT ![r] = IF stopReq[r] THEN "stopped" ELSE @]
  /\ Goto(r, "settled")
  /\ UNCHANGED <<conv, cancelled, stopReq, saved, hubVars,
                 dbVars, stopVars, procVars>>

\* The insert of the answer: it is taken, or it fails, which is logged and given up.
\* It fails where the conversation is gone or the store closed, and may fail for any
\* other reason, the five seconds that persistTurn has for all its writes among them.
Insert(r) ==
  \/ /\ Storable(conv[r])
     /\ messages' = [messages EXCEPT ![conv[r]] =
                       Append(@, [role |-> "assistant", turn |-> r])]
     /\ saved' = saved \cup {r}
     /\ UNCHANGED <<dropped, upsets>>
  \/ /\ Storable(conv[r]) /\ upsets < MaxUpsets
     /\ upsets' = upsets + 1
     /\ dropped' = dropped \cup {r}
     /\ UNCHANGED <<messages, saved>>
  \/ /\ ~Storable(conv[r])
     /\ UNCHANGED <<messages, saved, dropped, upsets>>

\* Mutant of Persist: a turn that said nothing writes no row.
PersistUnlessSilent(r) ==
  /\ pc[r] = "settled"
  /\ Goto(r, "stored")
  /\ IF outcome[r] = "silent" THEN UNCHANGED <<messages, saved, dropped, upsets>>
                              ELSE Insert(r)
  /\ UNCHANGED <<conv, cancelled, stopReq, outcome, hubVars, exists,
                 stopVars, server, flying, owed, deadline>>

\* persistTurn.  A turn without a word and without a failure is stored as the
\* failure it was.
Persist(r) ==
  /\ pc[r] = "settled"
  /\ Goto(r, "stored")
  /\ outcome' = [outcome EXCEPT ![r] = IF @ = "silent" THEN "empty" ELSE @]
  /\ Insert(r)
  /\ UNCHANGED <<conv, cancelled, stopReq, hubVars, exists, stopVars, server, flying,
                 owed, deadline>>

\* liveTurn.finish: the attached readers' streams end.
Finish(r) ==
  /\ pc[r] = "stored"
  /\ Goto(r, "done")
  /\ UNCHANGED <<conv, runVars, hubVars, dbVars, stopVars, procVars>>

\* The deferred calls: the context is released, the retirement timer armed and
\* the wait group told.
Leave(r) ==
  /\ pc[r] = "done"
  /\ Goto(r, "left")
  /\ counted' = counted \ {r}
  /\ UNCHANGED <<conv, runVars, turns, dbVars, stopVars, procVars>>

\* Mutant of Retire: the timer forgets whatever turn the conversation has now.
RetireAny(r) ==
  /\ pc[r] = "left"
  /\ Goto(r, "retired")
  /\ turns' = [turns EXCEPT ![conv[r]] = None]
  /\ UNCHANGED <<conv, runVars, counted, dbVars, stopVars, procVars>>

\* The timer of turnHub.retire: forget the turn, unless a newer one has taken
\* its place.
Retire(r) ==
  /\ pc[r] = "left"
  /\ Goto(r, "retired")
  /\ turns' = IF turns[conv[r]] = r THEN [turns EXCEPT ![conv[r]] = None] ELSE turns
  /\ UNCHANGED <<conv, runVars, counted, dbVars, stopVars, procVars>>

-----------------------------------------------------------------------------
(* handleStopTurn.                                                         *)

\* turnHub.stop looks the turn up and asks whether it is over ...
StopFind(x, s) ==
  /\ Accepting
  /\ spc[x] = "idle"
  /\ IF Running(s)
     THEN /\ spc' = [spc EXCEPT ![x] = "found"]
          /\ starget' = [starget EXCEPT ![x] = turns[s]]
     ELSE /\ spc' = [spc EXCEPT ![x] = "nothing"]
          /\ UNCHANGED starget
  /\ UNCHANGED <<reqVars, runVars, hubVars, dbVars, procVars>>

\* ... then liveTurn.stop records who ended it ...
StopMark(x) ==
  /\ spc[x] = "found"
  /\ spc' = [spc EXCEPT ![x] = "marked"]
  /\ stopReq' = [stopReq EXCEPT ![starget[x]] = TRUE]
  /\ UNCHANGED <<reqVars, cancelled, outcome, saved, hubVars, dbVars,
                 starget, procVars>>

\* Mutant of StopCancel: the stop is recorded but nothing is cancelled.
StopWithoutCancel(x) ==
  /\ spc[x] = "marked"
  /\ spc' = [spc EXCEPT ![x] = "stopped"]
  /\ UNCHANGED <<reqVars, runVars, hubVars, dbVars, starget, procVars>>

\* ... and only then cancels the run; the reader is told it was stopped.
StopCancel(x) ==
  /\ spc[x] = "marked"
  /\ spc' = [spc EXCEPT ![x] = "stopped"]
  /\ cancelled' = CancelRun(starget[x], "stop")
  /\ UNCHANGED <<reqVars, stopReq, outcome, saved, hubVars, dbVars,
                 starget, procVars>>

-----------------------------------------------------------------------------
(* Clearing and deleting: neither handler asks the hub about a turn.       *)

Clear(s) ==
  /\ Accepting /\ s \in exists /\ upsets < MaxUpsets
  /\ upsets' = upsets + 1
  /\ messages' = [messages EXCEPT ![s] = <<>>]
  /\ UNCHANGED <<reqVars, runVars, hubVars, exists, dropped, stopVars, server, flying,
                 owed, deadline>>

Delete(s) ==
  /\ Accepting /\ s \in exists /\ upsets < MaxUpsets
  /\ upsets' = upsets + 1
  /\ messages' = [messages EXCEPT ![s] = <<>>]
  /\ exists' = exists \ {s}
  /\ UNCHANGED <<reqVars, runVars, hubVars, dropped, stopVars, server, flying, owed,
                 deadline>>

-----------------------------------------------------------------------------
(* Server.Start after its context is cancelled, and turnHub.shutdown.      *)

\* shutdown takes its snapshot under the hub's lock; the engine is still
\* accepting requests.
ShutdownSnapshot ==
  /\ server = "serving" /\ upsets < MaxUpsets
  /\ upsets' = upsets + 1
  /\ server' = "cancelling"
  /\ flying' = {turns[s] : s \in Session} \ {None}
  /\ owed' = counted
  /\ UNCHANGED <<reqVars, runVars, hubVars, dbVars, stopVars, deadline>>

\* liveTurn.cancelRun, one turn at a time.
ShutdownCancel(r) ==
  /\ server = "cancelling" /\ r \in flying
  /\ flying' = flying \ {r}
  /\ cancelled' = CancelRun(r, "shutdown")
  /\ UNCHANGED <<reqVars, stopReq, outcome, saved, hubVars, dbVars,
                 stopVars, server, owed, deadline, upsets>>

ShutdownWait ==
  /\ server = "cancelling" /\ flying = {}
  /\ server' = "waiting"
  /\ UNCHANGED <<reqVars, runVars, hubVars, dbVars, stopVars, flying, owed, deadline, upsets>>

\* runs.Wait returns, or the shutdown's context does.
ShutdownWaited ==
  /\ server = "waiting"
  /\ server' = "draining"
  /\ \/ counted = {} /\ UNCHANGED deadline
     \/ counted # {} /\ deadline' = "passed"
  /\ UNCHANGED <<reqVars, runVars, hubVars, dbVars, stopVars, flying, owed, upsets>>

\* hertz.Shutdown: no new request, and those in flight finish or the same
\* context runs out; the store is closed on the way out of the process.
CloseStore ==
  /\ server = "draining"
  /\ server' = "closed"
  /\ \/ (\A r \in Request : pc[r] \notin Handler) /\ UNCHANGED deadline
     \/ (\E r \in Request : pc[r] \in Handler) /\ deadline' = "passed"
  /\ UNCHANGED <<reqVars, runVars, hubVars, dbVars, stopVars, flying, owed, upsets>>

\* The process dies, at any moment or after an orderly shutdown, and is started
\* again: the database is what is left.
Restart ==
  /\ upsets < MaxUpsets
  /\ upsets' = upsets + 1
  /\ server' = "serving" /\ flying' = {} /\ owed' = {} /\ deadline' = "ahead"
  /\ pc' = [r \in Request |->
              IF pc[r] \in {"idle"} \cup Refused THEN pc[r]
              ELSE IF IsDone(r) THEN "retired" ELSE "lost"]
  /\ turns' = [s \in Session |-> None]
  /\ counted' = {}
  /\ stopReq' = [r \in Request |-> FALSE]
  /\ spc' = [x \in Stopper |-> IF spc[x] \in {"found", "marked"} THEN "nothing" ELSE spc[x]]
  /\ UNCHANGED <<conv, cancelled, outcome, saved, dbVars, starget>>

-----------------------------------------------------------------------------
TurnStep(r) ==
  \/ RunReturns(r) \/ Settle(r) \/ Persist(r) \/ Finish(r) \/ Leave(r) \/ Retire(r)

\* A step of the process that is running.
Works ==
  \/ \E r \in Request : \/ Send(r) \/ Resume(r) \/ ResumeRefused(r)
                        \/ Check(r) \/ Post(r) \/ Begin(r) \/ Launch(r)
                        \/ TurnStep(r) \/ ShutdownCancel(r)
  \/ \E x \in Stopper : \/ \E s \in Session : StopFind(x, s)
                        \/ StopMark(x) \/ StopCancel(x)
  \/ \E s \in Session : Clear(s) \/ Delete(s)
  \/ ShutdownSnapshot \/ ShutdownWait \/ ShutdownWaited \/ CloseStore

Next == Works \/ Restart

Spec == Init /\ [][Next]_vars

\* A handler and a goroutine that can go on are scheduled.  Nothing makes an
\* uncancelled run return; a cancelled one does, because the runner looks at its
\* context before every step and hands it to the model and to the tools.
Fairness ==
  /\ \A r \in Request :
       /\ WF_vars(Check(r) \/ Post(r) \/ Begin(r) \/ Launch(r))
       /\ WF_vars(\/ cancelled[r] # "no" /\ RunReturns(r)
                  \/ Settle(r) \/ Persist(r) \/ Finish(r) \/ Leave(r))
       /\ WF_vars(ShutdownCancel(r))
  /\ \A x \in Stopper : WF_vars(StopMark(x) \/ StopCancel(x))
  /\ WF_vars(ShutdownWait \/ ShutdownWaited \/ CloseStore)

FairSpec == Spec /\ Fairness

-----------------------------------------------------------------------------
TypeReq ==
  /\ pc \in [Request -> Stage]
  /\ conv \in [Request -> Session]

TypeRun ==
  /\ cancelled \in [Request -> {"no", "stop", "shutdown"}]
  /\ stopReq \in [Request -> BOOLEAN]
  /\ outcome \in [Request -> Outcome]
  /\ saved \subseteq Request

TypeHub ==
  /\ turns \in [Session -> Request \cup {None}]
  /\ counted \subseteq Request

TypeDb ==
  /\ exists \subseteq Session
  /\ messages \in [Session -> Seq(Row)]
  /\ dropped \subseteq Request

TypeStop ==
  /\ spc \in [Stopper -> {"idle", "nothing", "found", "marked", "stopped"}]
  /\ starget \in [Stopper -> Request \cup {None}]
  /\ \A x \in Stopper : spc[x] \notin {"idle", "nothing"} => starget[x] \in Request

TypeProc ==
  /\ server \in {"serving", "cancelling", "waiting", "draining", "closed"}
  /\ flying \subseteq Request
  /\ owed \subseteq Request
  /\ deadline \in {"ahead", "passed"}
  /\ upsets \in 0..MaxUpsets

\* Every variable has its type, and a request to stop that goes ahead has found a
\* turn.
TypeOK == TypeReq /\ TypeRun /\ TypeHub /\ TypeDb /\ TypeStop /\ TypeProc

-----------------------------------------------------------------------------
(* Safety.                                                                 *)

\* A turn that has been admitted and is not over is the one its conversation's
\* id leads to: readers can attach to it and stop it, no other turn of the
\* conversation is in flight beside it, and the timer of an older turn never
\* makes it unreachable.
LiveTurnIsTheOneFound ==
  \A r \in Request : pc[r] \in Active => turns[conv[r]] = r

\* When the readers of a turn are told it is over, its answer has been stored, or the
\* database would not take it: because the conversation is deleted or the store
\* closed, or because the one attempt that is made to insert it failed.
OverMeansStored ==
  \A r \in Request :
     pc[r] \in {"done", "left"} =>
        r \in saved \/ conv[r] \notin exists \/ ~StoreOpen \/ r \in dropped

\* An answer that is short because a reader stopped it is stored as stopped,
\* whatever the runner made of the cancellation; a shutdown is not a stop.
StopIsOnRecord ==
  \A r \in saved :
     /\ cancelled[r] = "stop" => outcome[r] = "stopped"
     /\ outcome[r] = "stopped" => \E x \in Stopper : starget[x] = r

\* The store is closed with every answer that shutdown found being produced in
\* it, as long as neither wait ran into the deadline and no insert failed.
ShutdownKeepsAnswers ==
  server = "closed" /\ deadline = "ahead" =>
     \A r \in owed : r \in saved \/ conv[r] \notin exists \/ r \in dropped

-----------------------------------------------------------------------------
(* Refinement: whatever the requests, the timers and the shutdown do, the   *)
(* readers of a conversation see the one-turn-at-a-time promise.            *)

Promise == INSTANCE Conversation WITH
             Turn <- Request,
             busy <- [s \in Session |-> IF Running(s) THEN turns[s] ELSE None],
             answered <- saved

\* Every behaviour of the server keeps the promise of module Conversation.
KeepsPromise == Promise!Spec

-----------------------------------------------------------------------------
(* Liveness.                                                               *)

\* A reader who is told "stopped" sees the turn end (the process dying ends it
\* too), whatever the model was doing.
StopEndsTheTurn ==
  \A x \in Stopper, r \in Request :
     (spc[x] = "stopped" /\ starget[x] = r) ~> (IsDone(r) \/ pc[r] = "lost")
=============================================================================
