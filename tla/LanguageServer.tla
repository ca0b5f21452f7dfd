--------------------------- MODULE LanguageServer ---------------------------
(***************************************************************************)
(* The language servers of internal/lsp: the manager that starts one per   *)
(* (command, root), hands out its client, reaps it when idle and stops it  *)
(* on Close; the connection to it; and the two kinds of call that use it,  *)
(* an edit that wants its diagnostics and a query about a position.        *)
(*                                                                         *)
(* One (command, root) and one file: keys share nothing but the manager's  *)
(* lock and Close. What the file and the reports on it say is left out.    *)
(***************************************************************************)
EXTENDS Naturals, Sequences, FiniteSets

CONSTANTS Caller,      \* tool calls, of any turns
          Server,      \* the processes that may be started, in their order
          None,
          Room         \* bound: messages the pipe to a server holds unread

Stopper == {"reaper", "closer"}

ASSUME ServerAssumption ==
  /\ Server \subseteq Nat /\ None \notin Caller \cup Server /\ Caller \cap Stopper = {}
  /\ Room \in Nat \ {0}

VARIABLES
  \* the manager
  instance,   \* instances[key], or None
  broken,     \* whether broken[key] is set
  startLock,  \* who holds startLocks[key], or None
  closed,
  \* the processes and the connections to them
  proc,       \* "unborn", "up" or "gone"
  conn,       \* "none", "open" or "closed"
  inbox,      \* what is written and not yet read by the server
  told,       \* whether the server has been sent a text, and read it
  \* the clients
  changed,    \* changedSeq[uri]
  diag,       \* the change that diags[uri] counts for, or None before any report
  \* the callers
  pc, mine, result,
  \* those who stop servers: the reaper and Close
  stage, doomed

managerVars == <<instance, broken, startLock, closed>>
wireVars == <<proc, conn, inbox, told>>
clientVars == <<changed, diag>>
callerVars == <<pc, mine, result>>
stopVars == <<stage, doomed>>
vars == <<managerVars, wireVars, clientVars, callerVars, stopVars>>

Init ==
  /\ instance = None /\ broken = FALSE /\ startLock = None /\ closed = FALSE
  /\ proc = [s \in Server |-> "unborn"] /\ conn = [s \in Server |-> "none"]
  /\ inbox = [s \in Server |-> <<>>] /\ told = [s \in Server |-> FALSE]
  /\ changed = [s \in Server |-> 0]
  /\ diag = [s \in Server |-> None]
  /\ pc = [c \in Caller |-> "idle"] /\ mine = [c \in Caller |-> None]
  /\ result = [c \in Caller |-> "none"]
  /\ stage = [w \in Stopper |-> "idle"] /\ doomed = [w \in Stopper |-> None]

Goto(c, where) == pc' = [pc EXCEPT ![c] = where]

\* The call is over, and with it what it had of the client.
Return(c, how) ==
  /\ Goto(c, "done")
  /\ result' = [result EXCEPT ![c] = how]
  /\ mine' = [mine EXCEPT ![c] = None]

-----------------------------------------------------------------------------
(* clientForSpec. *)

\* A query, or an edit that has been written and now wants its diagnostics.
Call(c) ==
  /\ pc[c] = "idle"
  /\ Goto(c, "lookup")
  /\ \/ UNCHANGED result
     \/ result' = [result EXCEPT ![c] = "edit"]
  /\ UNCHANGED <<managerVars, wireVars, clientVars, mine, stopVars>>

\* An edit's result says so until the call returns.
IsEdit(c) == result[c] = "edit"

Lookup(c) ==
  /\ pc[c] = "lookup"
  /\ IF closed THEN Return(c, "unavailable")
     ELSE IF instance # None
          THEN Goto(c, "change") /\ mine' = [mine EXCEPT ![c] = instance] /\ UNCHANGED result
     ELSE IF broken THEN Return(c, "unavailable")
     ELSE Goto(c, "locking") /\ UNCHANGED <<mine, result>>
  /\ UNCHANGED <<managerVars, wireVars, clientVars, stopVars>>

LockStart(c) ==
  /\ pc[c] = "locking" /\ startLock = None
  /\ startLock' = c
  /\ Goto(c, "recheck")
  /\ UNCHANGED <<instance, broken, closed, wireVars, clientVars,
                 mine, result, stopVars>>

\* Mutant of Recheck: whoever gets the lock starts a server.
RecheckNot(c) ==
  /\ pc[c] = "recheck"
  /\ Goto(c, "starting")
  /\ UNCHANGED <<managerVars, wireVars, clientVars, mine, result, stopVars>>

\* Whether the one before has started it, or failed to. That the manager was closed in
\* the meantime is not looked at.
Recheck(c) ==
  /\ pc[c] = "recheck"
  /\ IF instance # None
     THEN /\ Goto(c, "change") /\ mine' = [mine EXCEPT ![c] = instance]
          /\ startLock' = None /\ UNCHANGED result
     ELSE IF broken THEN Return(c, "unavailable") /\ startLock' = None
     ELSE Goto(c, "starting") /\ UNCHANGED <<startLock, mine, result>>
  /\ UNCHANGED <<instance, broken, closed, wireVars, clientVars, stopVars>>

StartProcess(c, s) ==
  /\ pc[c] = "starting"
  /\ proc[s] = "unborn" /\ \A t \in Server : t < s => proc[t] # "unborn"
  /\ proc' = [proc EXCEPT ![s] = "up"] /\ conn' = [conn EXCEPT ![s] = "open"]
  /\ mine' = [mine EXCEPT ![c] = s]
  /\ Goto(c, "handshake")
  /\ UNCHANGED <<managerVars, inbox, told, clientVars, result, stopVars>>

\* The command is not installed, or cannot be run.
StartFails(c) ==
  /\ pc[c] = "starting"
  /\ Goto(c, "failing")
  /\ UNCHANGED <<managerVars, wireVars, clientVars, mine, result, stopVars>>

\* NewClient: initialize is answered, and initialized sent.
Handshake(c) ==
  /\ pc[c] = "handshake" /\ proc[mine[c]] = "up"
  /\ Goto(c, "started")
  /\ UNCHANGED <<managerVars, wireVars, clientVars, mine, result, stopVars>>

\* It is not, in time or at all, or the caller's turn is stopped: the process is
\* terminated, before anything else.
HandshakeFails(c) ==
  /\ pc[c] = "handshake"
  /\ conn' = [conn EXCEPT ![mine[c]] = "closed"]
  /\ proc' = [proc EXCEPT ![mine[c]] = "gone"]
  /\ Goto(c, "failing")
  /\ UNCHANGED <<managerVars, inbox, told, clientVars, mine, result, stopVars>>

\* Mutant of MarkBroken: the start lock is not given back on the way out.
MarkBrokenHolding(c) ==
  /\ pc[c] = "failing"
  /\ broken' = TRUE
  /\ Return(c, "unavailable")
  /\ UNCHANGED <<instance, startLock, closed, wireVars, clientVars, stopVars>>

\* It will not be tried again for the life of the process.
MarkBroken(c) ==
  /\ pc[c] = "failing"
  /\ broken' = TRUE /\ startLock' = None
  /\ Return(c, "unavailable")
  /\ UNCHANGED <<instance, closed, wireVars, clientVars, stopVars>>

Insert(c) ==
  /\ pc[c] = "started"
  /\ instance' = mine[c] /\ startLock' = None
  /\ Goto(c, "change")
  /\ UNCHANGED <<broken, closed, wireVars, clientVars, mine, result, stopVars>>

-----------------------------------------------------------------------------
(* A call on the client: Open, and then the diagnostics or the answer. *)

\* A write to the pipe goes through when there is room, and fails when nobody is at its
\* other end or our own is closed. Until then it blocks, and with it every other: the
\* writer has writeMu.
BrokenPipe(s) == conn[s] = "closed" \/ proc[s] = "gone"
CanWrite(s) == BrokenPipe(s) \/ Len(inbox[s]) < Room

Write(s, what) ==
  /\ CanWrite(s)
  /\ inbox' = IF BrokenPipe(s) THEN inbox ELSE [inbox EXCEPT ![s] = Append(@, what)]

\* Open, which reads the file before it counts the change. That a file is opened once
\* and changed from then on makes no difference: either way its whole text is sent.
CountChange(c) ==
  /\ pc[c] = "change"
  /\ changed' = [changed EXCEPT ![mine[c]] = @ + 1]
  /\ Goto(c, "send")
  /\ UNCHANGED <<managerVars, wireVars, diag, mine, result, stopVars>>

SendText(c) ==
  /\ pc[c] = "send"
  /\ Write(mine[c], [kind |-> "text", of |-> c])
  /\ IF BrokenPipe(mine[c]) THEN Return(c, "error")
     ELSE Goto(c, IF IsEdit(c) THEN "wait" ELSE "request") /\ UNCHANGED <<mine, result>>
  /\ UNCHANGED <<managerVars, proc, conn, told, clientVars, stopVars>>

\* WaitDiagnostics: the last report counts for the last change, and none has come for a
\* while.
Settles(c) ==
  /\ pc[c] = "wait"
  /\ LET d == diag[mine[c]]
     IN  d # None /\ d >= changed[mine[c]]
  /\ Return(c, "ready")
  /\ UNCHANGED <<managerVars, wireVars, clientVars, stopVars>>

\* The wait is over, the turn is stopped or the connection is closed.
StopsWaiting(c) ==
  /\ pc[c] = "wait"
  /\ Return(c, "unready")
  /\ UNCHANGED <<managerVars, wireVars, clientVars, stopVars>>

\* conn.call: a request on a connection known to be closed is not sent.
SendRequest(c) ==
  /\ pc[c] = "request"
  /\ IF conn[mine[c]] = "closed"
     THEN Return(c, "error") /\ UNCHANGED inbox
     ELSE /\ Write(mine[c], [kind |-> "request", of |-> c])
          /\ IF BrokenPipe(mine[c]) THEN Return(c, "error")
             ELSE Goto(c, "asked") /\ UNCHANGED <<mine, result>>
  /\ UNCHANGED <<managerVars, proc, conn, told, clientVars, stopVars>>

\* The request is given up: its time is up, the turn stopped, the connection closed.
GivesUp(c) ==
  /\ pc[c] = "asked"
  /\ Return(c, "error")
  /\ UNCHANGED <<managerVars, wireVars, clientVars, stopVars>>

-----------------------------------------------------------------------------
(* The server, which need not answer or report, and the loop that reads from it. *)

Takes(s) ==
  /\ proc[s] = "up" /\ inbox[s] # <<>>
  /\ inbox' = [inbox EXCEPT ![s] = Tail(@)]

ReadsText(s) ==
  /\ Takes(s) /\ Head(inbox[s]).kind = "text"
  /\ told' = [told EXCEPT ![s] = TRUE]
  /\ UNCHANGED <<managerVars, proc, conn, clientVars, callerVars, stopVars>>

\* A request: it may answer, which its caller hears of if it still waits. What it answers
\* is left out.
ReadsRequest(s) ==
  /\ Takes(s) /\ Head(inbox[s]).kind = "request"
  /\ LET c == Head(inbox[s]).of
     IN  \/ UNCHANGED <<pc, mine, result>>
         \/ pc[c] = "asked" /\ conn[s] = "open" /\ Return(c, "answered")
  /\ UNCHANGED <<managerVars, proc, conn, told, clientVars, stopVars>>

\* The stopper's shutdown, and exit.
ReadsFarewell(s) ==
  /\ Takes(s) /\ Head(inbox[s]).kind \in {"shutdown", "exit"}
  /\ proc' = IF Head(inbox[s]).kind = "exit" THEN [proc EXCEPT ![s] = "gone"] ELSE proc
  /\ UNCHANGED <<managerVars, conn, told, clientVars, callerVars, stopVars>>

\* A report on the text it has, as onPublishDiagnostics takes it: it counts for the last
\* change made, whichever text it is about.
Publishes(s) ==
  /\ proc[s] = "up" /\ conn[s] = "open" /\ told[s]
  /\ diag' = [diag EXCEPT ![s] = changed[s]]
  /\ UNCHANGED <<managerVars, wireVars, changed, callerVars, stopVars>>

Crashes(s) ==
  /\ proc[s] = "up"
  /\ proc' = [proc EXCEPT ![s] = "gone"]
  /\ UNCHANGED <<managerVars, conn, inbox, told, clientVars, callerVars, stopVars>>

\* readLoop comes to the end of the stream.
EndOfStream(s) ==
  /\ proc[s] = "gone" /\ conn[s] = "open"
  /\ conn' = [conn EXCEPT ![s] = "closed"]
  /\ UNCHANGED <<managerVars, proc, inbox, told, clientVars, callerVars, stopVars>>

-----------------------------------------------------------------------------
(* Stopping: Reap, Close and stopInstance. *)

Dooms(w) ==
  /\ doomed' = [doomed EXCEPT ![w] = instance]
  /\ stage' = [stage EXCEPT ![w] = IF instance = None THEN "joining" ELSE "farewell"]
  /\ instance' = None

\* A server nobody has asked for since the idle timeout, which is longer than any wait or
\* request: whoever still has it is stuck in a write.
Reap ==
  /\ ~closed /\ stage["reaper"] = "idle" /\ instance # None
  /\ \A c \in Caller : mine[c] = instance => pc[c] \in {"send", "request"}
  /\ Dooms("reaper")
  /\ UNCHANGED <<broken, startLock, closed, wireVars, clientVars, callerVars>>

CloseAll ==
  /\ ~closed
  /\ closed' = TRUE
  /\ Dooms("closer")
  /\ UNCHANGED <<broken, startLock, wireVars, clientVars, callerVars>>

\* The client's Close: a shutdown request, for whose answer it waits two seconds at most,
\* and an exit.
Farewell(w) ==
  /\ stage[w] = "farewell"
  /\ IF conn[doomed[w]] = "closed" THEN UNCHANGED inbox
     ELSE Write(doomed[w], [kind |-> "shutdown", of |-> None])
  /\ stage' = [stage EXCEPT ![w] = "exit"]
  /\ UNCHANGED <<managerVars, proc, conn, told, clientVars, callerVars, doomed>>

SendExit(w) ==
  /\ stage[w] = "exit"
  /\ Write(doomed[w], [kind |-> "exit", of |-> None])
  /\ conn' = [conn EXCEPT ![doomed[w]] = "closed"]
  /\ stage' = [stage EXCEPT ![w] = "kill"]
  /\ UNCHANGED <<managerVars, proc, told, clientVars, callerVars, doomed>>

\* terminateProcess; the reaper goes back to its loop, Close waits for it to end.
Kill(w) ==
  /\ stage[w] = "kill"
  /\ proc' = [proc EXCEPT ![doomed[w]] = "gone"]
  /\ stage' = [stage EXCEPT ![w] = IF w = "reaper" THEN "idle" ELSE "joining"]
  /\ doomed' = [doomed EXCEPT ![w] = None]
  /\ UNCHANGED <<managerVars, conn, inbox, told, clientVars, callerVars>>

CloseReturns ==
  /\ stage["closer"] = "joining" /\ stage["reaper"] = "idle"
  /\ stage' = [stage EXCEPT !["closer"] = "returned"]
  /\ UNCHANGED <<managerVars, wireVars, clientVars, callerVars, doomed>>

-----------------------------------------------------------------------------
CallerStep(c) ==
  \/ Lookup(c) \/ LockStart(c) \/ Recheck(c)
  \/ \E s \in Server : StartProcess(c, s)
  \/ StartFails(c) \/ Handshake(c) \/ HandshakeFails(c) \/ MarkBroken(c) \/ Insert(c)
  \/ CountChange(c) \/ SendText(c)
  \/ Settles(c) \/ StopsWaiting(c) \/ SendRequest(c) \/ GivesUp(c)

Reads(s) == ReadsText(s) \/ ReadsRequest(s) \/ ReadsFarewell(s)

StopperStep(w) == Farewell(w) \/ SendExit(w) \/ Kill(w)

Next ==
  \/ \E c \in Caller : Call(c) \/ CallerStep(c)
  \/ \E s \in Server : Reads(s) \/ Publishes(s) \/ Crashes(s) \/ EndOfStream(s)
  \/ Reap \/ CloseAll \/ CloseReturns
  \/ \E w \in Stopper : StopperStep(w)

Spec == Init /\ [][Next]_vars

\* Goroutines that can go on do. A server owes nothing: it need not even read.
Fairness ==
  /\ \A c \in Caller : WF_vars(CallerStep(c))
  /\ \A w \in Stopper : WF_vars(StopperStep(w))
  /\ WF_vars(CloseReturns)
  /\ \A s \in Server : WF_vars(EndOfStream(s))

FairSpec == Spec /\ Fairness

-----------------------------------------------------------------------------
Locked == {"recheck", "starting", "handshake", "started", "failing"}
InCall == {"change", "send", "wait", "request", "asked"}
Letter == [kind : {"text", "request"}, of : Caller]
            \cup [kind : {"shutdown", "exit"}, of : {None}]

TypeManager ==
  /\ instance \in Server \cup {None}
  /\ startLock \in Caller \cup {None}

TypeFlags == broken \in BOOLEAN /\ closed \in BOOLEAN

TypeWire ==
  /\ proc \in [Server -> {"unborn", "up", "gone"}]
  /\ conn \in [Server -> {"none", "open", "closed"}]
  /\ told \in [Server -> BOOLEAN]

\* No pipe holds more than there is room for.
TypeInbox ==
  \A s \in Server : Len(inbox[s]) <= Room /\ \A i \in DOMAIN inbox[s] : inbox[s][i] \in Letter

\* A report never counts for a change that has not been made.
TypeClient ==
  /\ changed \in [Server -> Nat]
  /\ DOMAIN diag = Server
  /\ \A s \in Server : diag[s] # None => diag[s] \in 0 .. changed[s]

TypeCaller ==
  /\ pc \in [Caller -> {"idle", "lookup", "locking", "done"} \cup Locked \cup InCall]
  /\ mine \in [Caller -> Server \cup {None}]
  /\ result \in [Caller -> {"none", "edit", "unavailable", "error", "ready", "unready", "answered"}]

TypeStopper ==
  /\ stage \in [Stopper -> {"idle", "farewell", "exit", "kill", "joining", "returned"}]
  /\ doomed \in [Stopper -> Server \cup {None}]

\* The start lock is held by the caller that is between taking it and giving it back.
LockIsHeld == \A c \in Caller : pc[c] \in Locked <=> startLock = c

\* Every variable has its type and the lock its holder.
TypeOK ==
  /\ TypeManager /\ TypeFlags /\ TypeWire /\ TypeInbox /\ TypeClient
  /\ TypeCaller /\ TypeStopper /\ LockIsHeld

\* Who will start using server s or stop it, apart from the manager itself.
InHand(s) == {c \in Caller : mine[c] = s /\ pc[c] \in {"handshake", "started"}}
               \cup {w \in Stopper : doomed[w] = s}

\* Calls that ask at once get one server, and none is forgotten: a live process is the
\* manager's instance, or in the hands of exactly one goroutine that is starting or
\* stopping it, and there are never two that nobody is stopping.
OneServerInHand ==
  /\ \A s \in Server : proc[s] = "up" =>
        Cardinality(InHand(s)) + (IF instance = s THEN 1 ELSE 0) = 1
  /\ \A s, t \in Server :
        /\ proc[s] = "up" /\ proc[t] = "up"
        /\ s \notin {doomed[w] : w \in Stopper} /\ t \notin {doomed[w] : w \in Stopper}
        => s = t

\* In a write to a live server that does not take it, which nothing bounds.
CallHangs(c) == pc[c] \in {"send", "request"} /\ ~CanWrite(mine[c])
FarewellHangs(w) == stage[w] \in {"farewell", "exit"} /\ ~CanWrite(doomed[w])

\* A call for a server always comes to an end, whatever becomes of the server, and so
\* does Close: unless the pipe to a server that lives is full and it reads no more. The
\* timeouts are on answers, and no other wait, of the lock of another's start included,
\* is without an end.
CallersReturn ==
  /\ \A c \in Caller : pc[c] = "lookup" ~> (pc[c] = "done" \/ []CallHangs(c))
  /\ closed ~> (stage["closer"] = "returned" \/ [](\E w \in Stopper : FarewellHangs(w)))

=============================================================================
