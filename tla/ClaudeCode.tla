----------------------------- MODULE ClaudeCode -----------------------------
(***************************************************************************)
(* The Claude Code compatibility mode (internal/claudecode/service.go): a  *)
(* settings file that somebody edits, the copy the service keeps of it and *)
(* the hook engine built from that, the switch of the console, and the     *)
(* events for which the hooks are run.                                     *)
(*                                                                         *)
(* The service looks at the file when it is asked for anything, but not    *)
(* too often; every request does so by itself, and several may be reading  *)
(* the file while it is edited.  The models built with the file's          *)
(* credential and the contexts kept for each conversation are left out.    *)
(***************************************************************************)
EXTENDS HookVerdict

CONSTANTS Caller,     \* requests and tool calls that have hooks run
          Console,    \* requests of the console that switch the mode or reload
          Content,    \* what the file may say
          HandlersOf, \* how many handlers each runs for an event; none if disabled or broken
          Events,     \* the events that occur
          Replies,    \* how handlers may answer
          None,
          MaxEdits    \* bound: how often the file is edited

ASSUME ClaudeCodeAssumption ==
         /\ HandlersOf \in [Content -> Nat]
         /\ Events \subseteq SupportedEvents /\ Replies \subseteq Reply
         /\ None \notin Content \cup Replies /\ Caller \cap Console = {}
         /\ MaxEdits \in Nat

VARIABLES
  \* the disk and the store
  file,      \* how many edits it has had and what it says, None when it is removed
  stored,    \* whether the mode is on, as the store has it
  \* Service
  settings,  \* the modification time and the content of the copy
  compat,
  engine,    \* the content whose hooks it runs, or None
  due,       \* whether reloadThrottle has passed since checkedAt
  \* the requests
  pc,
  seen,      \* what each has found of the file
  want,      \* the mode each console request asks for
  event, running, replies, verdict   \* the dispatch of each caller

serviceVars == <<settings, compat, engine, due>>
dispatchVars == <<event, running, replies, verdict>>
vars == <<file, stored, serviceVars, pc, seen, want, dispatchVars>>

Process == Caller \cup Console
NoTime == 0

\* What os.Stat says; every edit has a time of its own.
MTime == IF file.content = None THEN NoTime ELSE file.edits

Copy(mtime, content) == [mtime |-> mtime, content |-> content]
NotFound == Copy(NoTime, None)
Current == Copy(MTime, file.content)

\* newEngineLocked, with hooks enabled in the configuration.
EngineOf(on, content) ==
  IF on /\ content # None /\ HandlersOf[content] > 0 THEN content ELSE None

\* NewService.
Begins ==
  /\ settings' = Current /\ compat' = stored /\ engine' = EngineOf(stored, file.content)
  /\ due' = TRUE
  /\ pc' = [p \in Process |-> "idle"]
  /\ seen' = [p \in Process |-> NotFound]
  /\ want' = [k \in Console |-> FALSE]
  /\ event' = [c \in Caller |-> "PreToolUse"]
  /\ running' = [c \in Caller |-> None]
  /\ replies' = [c \in Caller |-> <<>>]
  /\ verdict' = [c \in Caller |-> Nobody]

Init ==
  /\ file \in [edits : {1}, content : Content] /\ stored \in BOOLEAN
  /\ settings = Current /\ compat = stored /\ engine = EngineOf(stored, file.content)
  /\ due = TRUE
  /\ pc = [p \in Process |-> "idle"]
  /\ seen = [p \in Process |-> NotFound]
  /\ want = [k \in Console |-> FALSE]
  /\ event = [c \in Caller |-> "PreToolUse"]
  /\ running = [c \in Caller |-> None]
  /\ replies = [c \in Caller |-> <<>>]
  /\ verdict = [c \in Caller |-> Nobody]

Goto(p, where) == pc' = [pc EXCEPT ![p] = where]

\* What the request was asking the service for; what it saw of the file is forgotten.
GoOn(p) ==
  /\ Goto(p, IF p \in Caller THEN "engine" ELSE "idle")
  /\ seen' = [seen EXCEPT ![p] = NotFound]

-----------------------------------------------------------------------------
(* The world. *)

Edit(content) ==
  /\ file.edits <= MaxEdits /\ content # file.content
  /\ file' = [edits |-> file.edits + 1, content |-> content]
  /\ UNCHANGED <<stored, serviceVars, pc, seen, want, dispatchVars>>

\* reloadThrottle passes.
Elapse ==
  /\ ~due
  /\ due' = TRUE
  /\ UNCHANGED <<file, stored, settings, compat, engine, pc, seen, want, dispatchVars>>

Restart ==
  /\ Begins
  /\ UNCHANGED <<file, stored>>

-----------------------------------------------------------------------------
(* maybeReload and Reload, of any request. *)

\* The time of the last look is read under one lock, and the file looked at under none.
Look(p) ==
  /\ pc[p] = "look"
  /\ IF due THEN Goto(p, "stat") /\ UNCHANGED seen ELSE GoOn(p)
  /\ UNCHANGED <<file, stored, serviceVars, want, dispatchVars>>

Stat(p) ==
  /\ pc[p] = "stat"
  /\ seen' = [seen EXCEPT ![p] = Copy(MTime, None)]
  /\ Goto(p, "compare")
  /\ UNCHANGED <<file, stored, serviceVars, want, dispatchVars>>

\* Mutant of Changed: a file that was removed is not a change.
ChangedIfFound(p) == seen[p].mtime # NoTime /\ seen[p].mtime # settings.mtime

\* A copy of a file that was not found has no time, as a file that is not there.
Changed(p) == seen[p].mtime # settings.mtime

Compare(p) ==
  /\ pc[p] = "compare"
  /\ due' = FALSE
  /\ IF Changed(p) THEN Goto(p, "load") /\ UNCHANGED seen ELSE GoOn(p)
  /\ UNCHANGED <<file, stored, settings, compat, engine, want, dispatchVars>>

\* Load: the time is taken first and the file read then, which is what makes a copy
\* that mixes two edits older than the file.
LoadTime(p) ==
  /\ pc[p] = "load"
  /\ seen' = [seen EXCEPT ![p] = Copy(MTime, None)]
  /\ Goto(p, IF file.content = None THEN "install" ELSE "read")
  /\ UNCHANGED <<file, stored, serviceVars, want, dispatchVars>>

LoadContent(p) ==
  /\ pc[p] = "read"
  /\ seen' = [seen EXCEPT ![p] = IF file.content = None THEN NotFound
                                 ELSE Copy(@.mtime, file.content)]
  /\ Goto(p, "install")
  /\ UNCHANGED <<file, stored, serviceVars, want, dispatchVars>>

\* Mutant of Install: the engine is the one of the copy before.
InstallSettings(p) ==
  /\ pc[p] = "install"
  /\ settings' = seen[p] /\ engine' = EngineOf(compat, settings.content)
  /\ due' = FALSE
  /\ GoOn(p)
  /\ UNCHANGED <<file, stored, compat, want, dispatchVars>>

Install(p) ==
  /\ pc[p] = "install"
  /\ settings' = seen[p] /\ engine' = EngineOf(compat, seen[p].content)
  /\ due' = FALSE
  /\ GoOn(p)
  /\ UNCHANGED <<file, stored, compat, want, dispatchVars>>

-----------------------------------------------------------------------------
(* The console. *)

\* The button that reloads.
AskReload(k) ==
  /\ pc[k] = "idle"
  /\ Goto(k, "load")
  /\ UNCHANGED <<file, stored, serviceVars, seen, want, dispatchVars>>

\* SetCompat: the store first, and nothing else if it refuses.
AskSwitch(k, on) ==
  /\ pc[k] = "idle"
  /\ \/ stored' = on /\ want' = [want EXCEPT ![k] = on] /\ Goto(k, "switch")
     \/ UNCHANGED <<stored, want, pc>>
  /\ UNCHANGED <<file, serviceVars, seen, dispatchVars>>

\* Its log line asks for the settings, as any request does.
Switch(k) ==
  /\ pc[k] = "switch"
  /\ compat' = want[k] /\ engine' = EngineOf(want[k], settings.content)
  /\ want' = [want EXCEPT ![k] = FALSE]
  /\ Goto(k, "look")
  /\ UNCHANGED <<file, stored, settings, due, seen, dispatchVars>>

-----------------------------------------------------------------------------
(* Dispatch. *)

Ask(c, e) ==
  /\ pc[c] \in {"idle", "judged"}
  /\ event' = [event EXCEPT ![c] = e]
  /\ replies' = [replies EXCEPT ![c] = <<>>]
  /\ verdict' = [verdict EXCEPT ![c] = Nobody]
  /\ Goto(c, "look")
  /\ UNCHANGED <<file, stored, serviceVars, seen, want, running>>

\* The engine as it is now: an edit or a switch from here on does not concern the event.
TakeEngine(c) ==
  /\ pc[c] = "engine"
  /\ running' = [running EXCEPT ![c] = engine]
  /\ IF engine = None THEN Goto(c, "judged") /\ UNCHANGED replies
     ELSE /\ Goto(c, "running")
          /\ replies' = [replies EXCEPT ![c] = [n \in 1 .. HandlersOf[engine] |-> None]]
  /\ UNCHANGED <<file, stored, serviceVars, seen, want, event, verdict>>

\* Every handler runs by itself and fills its own slot.
HandlerEnds(c, n) ==
  /\ pc[c] = "running" /\ n \in DOMAIN replies[c] /\ replies[c][n] = None
  /\ \E r \in Replies : replies' = [replies EXCEPT ![c][n] = r]
  /\ UNCHANGED <<file, stored, serviceVars, pc, seen, want, event, running, verdict>>

Outs(c) == [n \in DOMAIN replies[c] |-> ApplyOutput(event[c], replies[c][n])]

AllEnd(c) ==
  /\ pc[c] = "running" /\ \A n \in DOMAIN replies[c] : replies[c][n] # None
  /\ verdict' = [verdict EXCEPT ![c] = Aggregate(Outs(c))]
  /\ Goto(c, "judged")
  /\ UNCHANGED <<file, stored, serviceVars, seen, want, event, running, replies>>

-----------------------------------------------------------------------------
Reloading(p) ==
  Look(p) \/ Stat(p) \/ Compare(p) \/ LoadTime(p) \/ LoadContent(p) \/ Install(p)

Dispatching(c) ==
  TakeEngine(c) \/ AllEnd(c) \/ \E n \in 1 .. Len(replies[c]) : HandlerEnds(c, n)

Next ==
  \/ \E content \in Content \cup {None} : Edit(content)
  \/ Elapse \/ Restart
  \/ \E p \in Process : Reloading(p)
  \/ \E k \in Console : AskReload(k) \/ Switch(k) \/ \E on \in BOOLEAN : AskSwitch(k, on)
  \/ \E c \in Caller : Dispatching(c) \/ \E e \in Events : Ask(c, e)

Spec == Init /\ [][Next]_vars

\* Time passes, and requests that are under way go on.
Fairness ==
  /\ WF_vars(Elapse)
  /\ \A p \in Process : WF_vars(Reloading(p))
  /\ \A k \in Console : WF_vars(Switch(k))
  /\ \A c \in Caller : WF_vars(Dispatching(c))

FairSpec == Spec /\ Fairness

-----------------------------------------------------------------------------
Copies == [mtime : 0 .. MaxEdits + 1, content : Content \cup {None}]

\* Every variable has its type, and the engine is always the one of the mode and the
\* settings, whoever of the requests under way has changed which.
TypeOK ==
  /\ file \in [edits : 1 .. MaxEdits + 1, content : Content \cup {None}]
  /\ {stored, compat, due} \subseteq BOOLEAN
  /\ settings \in Copies /\ engine = EngineOf(compat, settings.content)
  /\ pc \in [Process -> {"idle", "look", "stat", "compare", "load", "read", "install",
                         "switch", "engine", "running", "judged"}]
  /\ seen \in [Process -> Copies] /\ want \in [Console -> BOOLEAN]
  /\ event \in [Caller -> SupportedEvents] /\ running \in [Caller -> Content \cup {None}]
  /\ \A c \in Caller : \A n \in DOMAIN replies[c] : replies[c][n] \in Replies \cup {None}

\* An edit takes effect without a restart: while there are events, the settings come to
\* be the file's and stay so, however many requests read it while it was edited.
EditsTakeEffect ==
  []<>(\E c \in Caller : pc[c] = "look") => <>[](settings = Current)

\* Whatever order the handlers end in, what they say is all honoured: an event is refused
\* if one of them refuses it, one that says stop stops, the strictest permission wins, and
\* an input is taken only from a handler that permits and under a permission.
VerdictIsTheStrictest ==
  \A c \in Caller : pc[c] = "judged" /\ running[c] # None =>
    LET v == verdict[c]
        outs == Outs(c)
        heard == {n \in DOMAIN outs : outs[n].ran}
    IN  /\ v.block <=> \E n \in heard :
                          \/ outs[n].block
                          \/ replies[c][n].exit = "block" /\ event[c] \in Blockable
        /\ v.continue <=> \A n \in heard : outs[n].continue
        /\ \A n \in heard : DecisionRank(outs[n].permission) <= DecisionRank(v.permission)
        /\ v.permission # "none" => \E n \in heard : outs[n].permission = v.permission
        /\ v.input # NoInput =>
             /\ v.permission \in {"allow", "ask"}
             /\ outs[v.input].permission \in {"allow", "ask"} /\ outs[v.input].input
        /\ Refuses(event[c], v) <=>
             \/ v.block /\ event[c] \in Blockable
             \/ ~v.continue /\ event[c] = "UserPromptSubmit"
=============================================================================
