------------------------ MODULE LanguageServerProofs ------------------------
(***************************************************************************)
(* Proofs about LanguageServer, for any number of calls and of servers,    *)
(* and pipes of any size.                                                  *)
(***************************************************************************)
EXTENDS LanguageServer, FiniteSetTheorems, TLAPS

-----------------------------------------------------------------------------
(* The inductive invariant.                                                *)

\* What a server has not read is a queue of letters that fits its pipe.
InboxFits ==
  /\ inbox \in [Server -> Seq(Letter)]
  /\ \A s \in Server : Len(inbox[s]) <= Room

\* Caller c has started server s, and is not through with it.
Starts(c, s) == c \in Caller /\ pc[c] \in {"handshake", "started"} /\ mine[c] = s

\* A caller that starts or uses a server has one.
HasItsServer ==
  \A c \in Caller : pc[c] \in {"handshake", "started"} \cup InCall => mine[c] \in Server

\* Whoever stops a server has one, and whoever does not has none.
StopsItsServer ==
  \A w \in Stopper : doomed[w] # None <=> stage[w] \in {"farewell", "exit", "kill"}

\* Until Close is called it stops nothing.
ClosesOnce == ~closed => doomed["closer"] = None

\* There is no instance while one is being started.
StartsTheOnlyOne ==
  \A c \in Caller : pc[c] \in {"starting", "handshake", "started", "failing"} => instance = None

\* No two hold one server: the manager, whoever starts it and whoever stops it.
HeldOnce ==
  \A s \in Server :
     /\ instance = s => \A w \in Stopper : doomed[w] # s
     /\ \A c \in Caller, w \in Stopper : Starts(c, s) => doomed[w] # s
     /\ \A v, w \in Stopper : doomed[v] = s /\ doomed[w] = s => v = w

\* Nobody holds a server that has not been started.
UnbornIsUnheld ==
  \A s \in Server : proc[s] = "unborn" =>
     /\ instance # s
     /\ \A c \in Caller : ~Starts(c, s)
     /\ \A w \in Stopper : doomed[w] # s

\* Somebody holds a server that runs.
UpIsHeld ==
  \A s \in Server : proc[s] = "up" =>
     \/ instance = s
     \/ \E c \in Caller : Starts(c, s)
     \/ \E w \in Stopper : doomed[w] = s

Types ==
  /\ TypeManager /\ TypeFlags /\ TypeWire /\ InboxFits /\ TypeClient
  /\ TypeCaller /\ TypeStopper /\ LockIsHeld /\ HasItsServer
  /\ StopsItsServer /\ ClosesOnce

Holding ==
  /\ StartsTheOnlyOne /\ HeldOnce /\ UnbornIsUnheld /\ UpIsHeld

-----------------------------------------------------------------------------
(* Types.                                                                  *)

\* A write adds a letter where there is room for it, or none.
LEMMA WriteFits ==
  ASSUME InboxFits, NEW s \in Server, NEW what \in Letter, Write(s, what)
  PROVE  InboxFits'
<1>1. CASE UNCHANGED inbox
  BY <1>1 DEF InboxFits
<1>2. CASE Len(inbox[s]) < Room /\ inbox' = [inbox EXCEPT ![s] = Append(@, what)]
  <2> DEFINE q == Append(inbox[s], what)
  <2>1. inbox[s] \in Seq(Letter) /\ Len(inbox[s]) \in Nat /\ Room \in Nat
    BY ServerAssumption DEF InboxFits
  <2>2. q \in Seq(Letter) /\ Len(q) = Len(inbox[s]) + 1
    BY <2>1
  <2>3. Len(q) <= Room
    BY <1>2, <2>1, <2>2
  <2>4. inbox' = [inbox EXCEPT ![s] = q]
    BY <1>2
  <2> QED
    BY <2>2, <2>3, <2>4 DEF InboxFits
<1> QED
  BY <1>1, <1>2 DEF Write, CanWrite

\* Reading takes the oldest letter out.
LEMMA TakeFits ==
  ASSUME InboxFits, NEW s \in Server, Takes(s)
  PROVE  InboxFits' /\ Head(inbox[s]) \in Letter
<1> DEFINE q == Tail(inbox[s])
<1>1. inbox[s] \in Seq(Letter) /\ inbox[s] # <<>> /\ inbox' = [inbox EXCEPT ![s] = q]
  BY DEF InboxFits, Takes
<1>2. q \in Seq(Letter) /\ Len(q) = Len(inbox[s]) - 1 /\ Head(inbox[s]) \in Letter
  BY <1>1
<1>3. Len(inbox[s]) \in Nat /\ Len(inbox[s]) <= Room /\ Room \in Nat
  BY <1>1, ServerAssumption DEF InboxFits
<1>4. Len(q) <= Room
  BY <1>2, <1>3
<1> QED
  BY <1>1, <1>2, <1>4 DEF InboxFits

\* Nothing is started, opened or called.
LEMMA TypesInit == Init => Types
<1> SUFFICES ASSUME Init PROVE Types
  OBVIOUS
<1>1. TypeManager /\ TypeClient /\ TypeStopper /\ StopsItsServer /\ ClosesOnce
  BY DEF Init, TypeManager, TypeClient, TypeStopper, StopsItsServer, ClosesOnce, Stopper
<1>2. TypeFlags
  BY DEF Init, TypeFlags
<1>3. TypeCaller /\ LockIsHeld /\ HasItsServer
  BY ServerAssumption DEF Init, TypeCaller, LockIsHeld, HasItsServer, Locked, InCall
<1>4. TypeWire /\ InboxFits
  BY ServerAssumption DEF Init, TypeWire, InboxFits
<1> QED
  BY <1>1, <1>2, <1>3, <1>4 DEF Types

\* Every step keeps every variable in its type.
LEMMA TypesStep == Types /\ [Next]_vars => Types'
<1> SUFFICES ASSUME Types, [Next]_vars PROVE Types'
  OBVIOUS
<1>0. /\ TypeManager /\ TypeFlags /\ TypeWire /\ InboxFits /\ TypeClient
      /\ TypeCaller /\ TypeStopper /\ LockIsHeld /\ HasItsServer
      /\ StopsItsServer /\ ClosesOnce
  BY DEF Types
<1>1. ASSUME NEW c \in Caller, Call(c) PROVE Types'
  <2>1. TypeCaller'
    BY <1>0, <1>1 DEF TypeCaller, TypeManager, Locked, InCall, Call, Goto,
       managerVars, wireVars, clientVars, stopVars
  <2>2. LockIsHeld'
    BY <1>0, <1>1, ServerAssumption DEF LockIsHeld, TypeCaller, TypeManager,
       Locked, InCall, Call, Goto, managerVars, wireVars, clientVars, stopVars
  <2>3. HasItsServer'
    BY <1>0, <1>1 DEF HasItsServer, TypeCaller, TypeManager, InCall, Call, Goto,
       managerVars, wireVars, clientVars, stopVars
  <2>4. TypeManager' /\ TypeFlags' /\ TypeWire' /\ InboxFits' /\ TypeClient' /\
     TypeStopper' /\ StopsItsServer' /\ ClosesOnce'
    BY <1>0, <1>1 DEF TypeManager, TypeFlags, TypeWire, InboxFits, TypeClient,
       TypeStopper, StopsItsServer, ClosesOnce, Stopper, Call, Goto, managerVars,
       wireVars, clientVars, stopVars
  <2> QED
    BY <2>1, <2>2, <2>3, <2>4 DEF Types
<1>2. ASSUME NEW c \in Caller, Lookup(c) PROVE Types'
  <2>1. TypeCaller'
    BY <1>0, <1>2 DEF TypeCaller, TypeManager, Locked, InCall, Lookup, Return,
       Goto, managerVars, wireVars, clientVars, stopVars
  <2>2. LockIsHeld'
    BY <1>0, <1>2, ServerAssumption DEF LockIsHeld, TypeCaller, TypeManager,
       Locked, InCall, Lookup, Return, Goto, managerVars, wireVars, clientVars,
       stopVars
  <2>3. HasItsServer'
    BY <1>0, <1>2 DEF HasItsServer, TypeCaller, TypeManager, InCall, Lookup,
       Return, Goto, managerVars, wireVars, clientVars, stopVars
  <2>4. TypeManager' /\ TypeFlags' /\ TypeWire' /\ InboxFits' /\ TypeClient' /\
     TypeStopper' /\ StopsItsServer' /\ ClosesOnce'
    BY <1>0, <1>2 DEF TypeManager, TypeFlags, TypeWire, InboxFits, TypeClient,
       TypeStopper, StopsItsServer, ClosesOnce, Stopper, Lookup, Return, Goto,
       managerVars, wireVars, clientVars, stopVars
  <2> QED
    BY <2>1, <2>2, <2>3, <2>4 DEF Types
<1>3. ASSUME NEW c \in Caller, LockStart(c) PROVE Types'
  <2>1. TypeManager'
    BY <1>0, <1>3 DEF TypeManager, TypeCaller, HasItsServer, LockStart, Goto,
       wireVars, clientVars, stopVars
  <2>2. TypeCaller'
    BY <1>0, <1>3 DEF TypeCaller, TypeManager, Locked, InCall, LockStart, Goto,
       wireVars, clientVars, stopVars
  <2>3. LockIsHeld'
    BY <1>0, <1>3, ServerAssumption DEF LockIsHeld, TypeCaller, TypeManager,
       Locked, InCall, LockStart, Goto, wireVars, clientVars, stopVars
  <2>4. HasItsServer'
    BY <1>0, <1>3 DEF HasItsServer, TypeCaller, TypeManager, InCall, LockStart,
       Goto, wireVars, clientVars, stopVars
  <2>5. TypeFlags' /\ TypeWire' /\ InboxFits' /\ TypeClient' /\ TypeStopper' /\
     StopsItsServer' /\ ClosesOnce'
    BY <1>0, <1>3 DEF TypeFlags, TypeWire, InboxFits, TypeClient, TypeStopper,
       StopsItsServer, ClosesOnce, Stopper, LockStart, Goto, wireVars, clientVars,
       stopVars
  <2> QED
    BY <2>1, <2>2, <2>3, <2>4, <2>5 DEF Types
<1>4. ASSUME NEW c \in Caller, Recheck(c) PROVE Types'
  <2>1. TypeManager'
    BY <1>0, <1>4 DEF TypeManager, TypeCaller, HasItsServer, Recheck, Goto, Return,
       wireVars, clientVars, stopVars
  <2>2. TypeCaller'
    BY <1>0, <1>4 DEF TypeCaller, TypeManager, Locked, InCall, Recheck, Goto,
       Return, wireVars, clientVars, stopVars
  <2>3. LockIsHeld'
    BY <1>0, <1>4, ServerAssumption DEF LockIsHeld, TypeCaller, TypeManager,
       Locked, InCall, Recheck, Goto, Return, wireVars, clientVars, stopVars
  <2>4. HasItsServer'
    BY <1>0, <1>4 DEF HasItsServer, TypeCaller, TypeManager, InCall, Recheck, Goto,
       Return, wireVars, clientVars, stopVars
  <2>5. TypeFlags' /\ TypeWire' /\ InboxFits' /\ TypeClient' /\ TypeStopper' /\
     StopsItsServer' /\ ClosesOnce'
    BY <1>0, <1>4 DEF TypeFlags, TypeWire, InboxFits, TypeClient, TypeStopper,
       StopsItsServer, ClosesOnce, Stopper, Recheck, Goto, Return, wireVars,
       clientVars, stopVars
  <2> QED
    BY <2>1, <2>2, <2>3, <2>4, <2>5 DEF Types
<1>5. ASSUME NEW c \in Caller, NEW s \in Server, StartProcess(c, s) PROVE Types'
  <2>1. TypeWire'
    BY <1>0, <1>5 DEF TypeWire, TypeCaller, HasItsServer, StartProcess, Goto,
       managerVars, clientVars, stopVars
  <2>2. TypeCaller'
    BY <1>0, <1>5 DEF TypeCaller, TypeManager, Locked, InCall, StartProcess, Goto,
       managerVars, clientVars, stopVars
  <2>3. LockIsHeld'
    BY <1>0, <1>5, ServerAssumption DEF LockIsHeld, TypeCaller, TypeManager,
       Locked, InCall, StartProcess, Goto, managerVars, clientVars, stopVars
  <2>4. HasItsServer'
    BY <1>0, <1>5 DEF HasItsServer, TypeCaller, TypeManager, InCall, StartProcess,
       Goto, managerVars, clientVars, stopVars
  <2>5. TypeManager' /\ TypeFlags' /\ InboxFits' /\ TypeClient' /\ TypeStopper' /\
     StopsItsServer' /\ ClosesOnce'
    BY <1>0, <1>5 DEF TypeManager, TypeFlags, InboxFits, TypeClient, TypeStopper,
       StopsItsServer, ClosesOnce, Stopper, StartProcess, Goto, managerVars,
       clientVars, stopVars
  <2> QED
    BY <2>1, <2>2, <2>3, <2>4, <2>5 DEF Types
<1>6. ASSUME NEW c \in Caller, StartFails(c) PROVE Types'
  <2>1. TypeCaller'
    BY <1>0, <1>6 DEF TypeCaller, TypeManager, Locked, InCall, StartFails, Goto,
       managerVars, wireVars, clientVars, stopVars
  <2>2. LockIsHeld'
    BY <1>0, <1>6, ServerAssumption DEF LockIsHeld, TypeCaller, TypeManager,
       Locked, InCall, StartFails, Goto, managerVars, wireVars, clientVars,
       stopVars
  <2>3. HasItsServer'
    BY <1>0, <1>6 DEF HasItsServer, TypeCaller, TypeManager, InCall, StartFails,
       Goto, managerVars, wireVars, clientVars, stopVars
  <2>4. TypeManager' /\ TypeFlags' /\ TypeWire' /\ InboxFits' /\ TypeClient' /\
     TypeStopper' /\ StopsItsServer' /\ ClosesOnce'
    BY <1>0, <1>6 DEF TypeManager, TypeFlags, TypeWire, InboxFits, TypeClient,
       TypeStopper, StopsItsServer, ClosesOnce, Stopper, StartFails, Goto,
       managerVars, wireVars, clientVars, stopVars
  <2> QED
    BY <2>1, <2>2, <2>3, <2>4 DEF Types
<1>7. ASSUME NEW c \in Caller, Handshake(c) PROVE Types'
  <2>1. TypeCaller'
    BY <1>0, <1>7 DEF TypeCaller, TypeManager, Locked, InCall, Handshake, Goto,
       managerVars, wireVars, clientVars, stopVars
  <2>2. LockIsHeld'
    BY <1>0, <1>7, ServerAssumption DEF LockIsHeld, TypeCaller, TypeManager,
       Locked, InCall, Handshake, Goto, managerVars, wireVars, clientVars, stopVars
  <2>3. HasItsServer'
    BY <1>0, <1>7 DEF HasItsServer, TypeCaller, TypeManager, InCall, Handshake,
       Goto, managerVars, wireVars, clientVars, stopVars
  <2>4. TypeManager' /\ TypeFlags' /\ TypeWire' /\ InboxFits' /\ TypeClient' /\
     TypeStopper' /\ StopsItsServer' /\ ClosesOnce'
    BY <1>0, <1>7 DEF TypeManager, TypeFlags, TypeWire, InboxFits, TypeClient,
       TypeStopper, StopsItsServer, ClosesOnce, Stopper, Handshake, Goto,
       managerVars, wireVars, clientVars, stopVars
  <2> QED
    BY <2>1, <2>2, <2>3, <2>4 DEF Types
<1>8. ASSUME NEW c \in Caller, HandshakeFails(c) PROVE Types'
  <2>1. TypeWire'
    BY <1>0, <1>8 DEF TypeWire, TypeCaller, HasItsServer, HandshakeFails, Goto,
       managerVars, clientVars, stopVars
  <2>2. TypeCaller'
    BY <1>0, <1>8 DEF TypeCaller, TypeManager, Locked, InCall, HandshakeFails,
       Goto, managerVars, clientVars, stopVars
  <2>3. LockIsHeld'
    BY <1>0, <1>8, ServerAssumption DEF LockIsHeld, TypeCaller, TypeManager,
       Locked, InCall, HandshakeFails, Goto, managerVars, clientVars, stopVars
  <2>4. HasItsServer'
    BY <1>0, <1>8 DEF HasItsServer, TypeCaller, TypeManager, InCall,
       HandshakeFails, Goto, managerVars, clientVars, stopVars
  <2>5. TypeManager' /\ TypeFlags' /\ InboxFits' /\ TypeClient' /\ TypeStopper' /\
     StopsItsServer' /\ ClosesOnce'
    BY <1>0, <1>8 DEF TypeManager, TypeFlags, InboxFits, TypeClient, TypeStopper,
       StopsItsServer, ClosesOnce, Stopper, HandshakeFails, Goto, managerVars,
       clientVars, stopVars
  <2> QED
    BY <2>1, <2>2, <2>3, <2>4, <2>5 DEF Types
<1>9. ASSUME NEW c \in Caller, MarkBroken(c) PROVE Types'
  <2>1. TypeManager'
    BY <1>0, <1>9 DEF TypeManager, TypeCaller, HasItsServer, MarkBroken, Return,
       Goto, wireVars, clientVars, stopVars
  <2>2. TypeFlags'
    BY <1>0, <1>9 DEF TypeFlags, MarkBroken, Return, Goto, wireVars, clientVars,
       stopVars
  <2>3. TypeCaller'
    BY <1>0, <1>9 DEF TypeCaller, TypeManager, Locked, InCall, MarkBroken, Return,
       Goto, wireVars, clientVars, stopVars
  <2>4. LockIsHeld'
    BY <1>0, <1>9, ServerAssumption DEF LockIsHeld, TypeCaller, TypeManager,
       Locked, InCall, MarkBroken, Return, Goto, wireVars, clientVars, stopVars
  <2>5. HasItsServer'
    BY <1>0, <1>9 DEF HasItsServer, TypeCaller, TypeManager, InCall, MarkBroken,
       Return, Goto, wireVars, clientVars, stopVars
  <2>6. TypeWire' /\ InboxFits' /\ TypeClient' /\ TypeStopper' /\ StopsItsServer'
     /\ ClosesOnce'
    BY <1>0, <1>9 DEF TypeWire, InboxFits, TypeClient, TypeStopper, StopsItsServer,
       ClosesOnce, Stopper, MarkBroken, Return, Goto, wireVars, clientVars,
       stopVars
  <2> QED
    BY <2>1, <2>2, <2>3, <2>4, <2>5, <2>6 DEF Types
<1>10. ASSUME NEW c \in Caller, Insert(c) PROVE Types'
  <2>1. TypeManager'
    BY <1>0, <1>10 DEF TypeManager, TypeCaller, HasItsServer, Insert, Goto,
       wireVars, clientVars, stopVars
  <2>2. TypeCaller'
    BY <1>0, <1>10 DEF TypeCaller, TypeManager, Locked, InCall, Insert, Goto,
       wireVars, clientVars, stopVars
  <2>3. LockIsHeld'
    BY <1>0, <1>10, ServerAssumption DEF LockIsHeld, TypeCaller, TypeManager,
       Locked, InCall, Insert, Goto, wireVars, clientVars, stopVars
  <2>4. HasItsServer'
    BY <1>0, <1>10 DEF HasItsServer, TypeCaller, TypeManager, InCall, Insert, Goto,
       wireVars, clientVars, stopVars
  <2>5. TypeFlags' /\ TypeWire' /\ InboxFits' /\ TypeClient' /\ TypeStopper' /\
     StopsItsServer' /\ ClosesOnce'
    BY <1>0, <1>10 DEF TypeFlags, TypeWire, InboxFits, TypeClient, TypeStopper,
       StopsItsServer, ClosesOnce, Stopper, Insert, Goto, wireVars, clientVars,
       stopVars
  <2> QED
    BY <2>1, <2>2, <2>3, <2>4, <2>5 DEF Types
<1>11. ASSUME NEW c \in Caller, CountChange(c) PROVE Types'
  <2>1. TypeClient'
    BY <1>0, <1>11 DEF TypeClient, TypeCaller, HasItsServer, InCall, CountChange,
       Goto, managerVars, wireVars, stopVars
  <2>2. TypeCaller'
    BY <1>0, <1>11 DEF TypeCaller, TypeManager, Locked, InCall, CountChange, Goto,
       managerVars, wireVars, stopVars
  <2>3. LockIsHeld'
    BY <1>0, <1>11, ServerAssumption DEF LockIsHeld, TypeCaller, TypeManager,
       Locked, InCall, CountChange, Goto, managerVars, wireVars, stopVars
  <2>4. HasItsServer'
    BY <1>0, <1>11 DEF HasItsServer, TypeCaller, TypeManager, InCall, CountChange,
       Goto, managerVars, wireVars, stopVars
  <2>5. TypeManager' /\ TypeFlags' /\ TypeWire' /\ InboxFits' /\ TypeStopper' /\
     StopsItsServer' /\ ClosesOnce'
    BY <1>0, <1>11 DEF TypeManager, TypeFlags, TypeWire, InboxFits, TypeStopper,
       StopsItsServer, ClosesOnce, Stopper, CountChange, Goto, managerVars,
       wireVars, stopVars
  <2> QED
    BY <2>1, <2>2, <2>3, <2>4, <2>5 DEF Types
<1>12. ASSUME NEW c \in Caller, SendText(c) PROVE Types'
  <2>1. InboxFits'
    <3>1. mine[c] \in Server
      BY <1>0, <1>12 DEF HasItsServer, InCall, SendText
    <3>2. [kind |-> "text", of |-> c] \in Letter
      BY DEF Letter
    <3> QED
      BY <1>0, <1>12, <3>1, <3>2, WriteFits DEF SendText, InboxFits
  <2>2. TypeCaller'
    BY <1>0, <1>12 DEF TypeCaller, TypeManager, Locked, InCall, SendText, Write,
       CanWrite, BrokenPipe, Return, Goto, IsEdit, managerVars, clientVars,
       stopVars
  <2>3. LockIsHeld'
    BY <1>0, <1>12, ServerAssumption DEF LockIsHeld, TypeCaller, TypeManager,
       Locked, InCall, SendText, Write, CanWrite, BrokenPipe, Return, Goto, IsEdit,
       managerVars, clientVars, stopVars
  <2>4. HasItsServer'
    BY <1>0, <1>12 DEF HasItsServer, TypeCaller, TypeManager, InCall, SendText,
       Write, CanWrite, BrokenPipe, Return, Goto, IsEdit, managerVars, clientVars,
       stopVars
  <2>5. TypeManager' /\ TypeFlags' /\ TypeWire' /\ TypeClient' /\ TypeStopper' /\
     StopsItsServer' /\ ClosesOnce'
    BY <1>0, <1>12 DEF TypeManager, TypeFlags, TypeWire, TypeClient, TypeStopper,
       StopsItsServer, ClosesOnce, Stopper, SendText, Write, CanWrite, BrokenPipe,
       Return, Goto, IsEdit, managerVars, clientVars, stopVars
  <2> QED
    BY <2>1, <2>2, <2>3, <2>4, <2>5 DEF Types
<1>13. ASSUME NEW c \in Caller, Settles(c) PROVE Types'
  <2>1. TypeCaller'
    BY <1>0, <1>13 DEF TypeCaller, TypeManager, Locked, InCall, Settles, Return,
       Goto, managerVars, wireVars, clientVars, stopVars
  <2>2. LockIsHeld'
    BY <1>0, <1>13, ServerAssumption DEF LockIsHeld, TypeCaller, TypeManager,
       Locked, InCall, Settles, Return, Goto, managerVars, wireVars, clientVars,
       stopVars
  <2>3. HasItsServer'
    BY <1>0, <1>13 DEF HasItsServer, TypeCaller, TypeManager, InCall, Settles,
       Return, Goto, managerVars, wireVars, clientVars, stopVars
  <2>4. TypeManager' /\ TypeFlags' /\ TypeWire' /\ InboxFits' /\ TypeClient' /\
     TypeStopper' /\ StopsItsServer' /\ ClosesOnce'
    BY <1>0, <1>13 DEF TypeManager, TypeFlags, TypeWire, InboxFits, TypeClient,
       TypeStopper, StopsItsServer, ClosesOnce, Stopper, Settles, Return, Goto,
       managerVars, wireVars, clientVars, stopVars
  <2> QED
    BY <2>1, <2>2, <2>3, <2>4 DEF Types
<1>14. ASSUME NEW c \in Caller, StopsWaiting(c) PROVE Types'
  <2>1. TypeCaller'
    BY <1>0, <1>14 DEF TypeCaller, TypeManager, Locked, InCall, StopsWaiting,
       Return, Goto, managerVars, wireVars, clientVars, stopVars
  <2>2. LockIsHeld'
    BY <1>0, <1>14, ServerAssumption DEF LockIsHeld, TypeCaller, TypeManager,
       Locked, InCall, StopsWaiting, Return, Goto, managerVars, wireVars,
       clientVars, stopVars
  <2>3. HasItsServer'
    BY <1>0, <1>14 DEF HasItsServer, TypeCaller, TypeManager, InCall, StopsWaiting,
       Return, Goto, managerVars, wireVars, clientVars, stopVars
  <2>4. TypeManager' /\ TypeFlags' /\ TypeWire' /\ InboxFits' /\ TypeClient' /\
     TypeStopper' /\ StopsItsServer' /\ ClosesOnce'
    BY <1>0, <1>14 DEF TypeManager, TypeFlags, TypeWire, InboxFits, TypeClient,
       TypeStopper, StopsItsServer, ClosesOnce, Stopper, StopsWaiting, Return,
       Goto, managerVars, wireVars, clientVars, stopVars
  <2> QED
    BY <2>1, <2>2, <2>3, <2>4 DEF Types
<1>15. ASSUME NEW c \in Caller, SendRequest(c) PROVE Types'
  <2>1. InboxFits'
    <3>1. mine[c] \in Server
      BY <1>0, <1>15 DEF HasItsServer, InCall, SendRequest
    <3>2. [kind |-> "request", of |-> c] \in Letter
      BY DEF Letter
    <3> QED
      BY <1>0, <1>15, <3>1, <3>2, WriteFits DEF SendRequest, InboxFits
  <2>2. TypeCaller'
    BY <1>0, <1>15 DEF TypeCaller, TypeManager, Locked, InCall, SendRequest,
       Return, Goto, Write, CanWrite, BrokenPipe, managerVars, clientVars, stopVars
  <2>3. LockIsHeld'
    BY <1>0, <1>15, ServerAssumption DEF LockIsHeld, TypeCaller, TypeManager,
       Locked, InCall, SendRequest, Return, Goto, Write, CanWrite, BrokenPipe,
       managerVars, clientVars, stopVars
  <2>4. HasItsServer'
    BY <1>0, <1>15 DEF HasItsServer, TypeCaller, TypeManager, InCall, SendRequest,
       Return, Goto, Write, CanWrite, BrokenPipe, managerVars, clientVars, stopVars
  <2>5. TypeManager' /\ TypeFlags' /\ TypeWire' /\ TypeClient' /\ TypeStopper' /\
     StopsItsServer' /\ ClosesOnce'
    BY <1>0, <1>15 DEF TypeManager, TypeFlags, TypeWire, TypeClient, TypeStopper,
       StopsItsServer, ClosesOnce, Stopper, SendRequest, Return, Goto, Write,
       CanWrite, BrokenPipe, managerVars, clientVars, stopVars
  <2> QED
    BY <2>1, <2>2, <2>3, <2>4, <2>5 DEF Types
<1>16. ASSUME NEW c \in Caller, GivesUp(c) PROVE Types'
  <2>1. TypeCaller'
    BY <1>0, <1>16 DEF TypeCaller, TypeManager, Locked, InCall, GivesUp, Return,
       Goto, managerVars, wireVars, clientVars, stopVars
  <2>2. LockIsHeld'
    BY <1>0, <1>16, ServerAssumption DEF LockIsHeld, TypeCaller, TypeManager,
       Locked, InCall, GivesUp, Return, Goto, managerVars, wireVars, clientVars,
       stopVars
  <2>3. HasItsServer'
    BY <1>0, <1>16 DEF HasItsServer, TypeCaller, TypeManager, InCall, GivesUp,
       Return, Goto, managerVars, wireVars, clientVars, stopVars
  <2>4. TypeManager' /\ TypeFlags' /\ TypeWire' /\ InboxFits' /\ TypeClient' /\
     TypeStopper' /\ StopsItsServer' /\ ClosesOnce'
    BY <1>0, <1>16 DEF TypeManager, TypeFlags, TypeWire, InboxFits, TypeClient,
       TypeStopper, StopsItsServer, ClosesOnce, Stopper, GivesUp, Return, Goto,
       managerVars, wireVars, clientVars, stopVars
  <2> QED
    BY <2>1, <2>2, <2>3, <2>4 DEF Types
<1>17. ASSUME NEW s \in Server, ReadsText(s) PROVE Types'
  <2>1. TypeWire'
    BY <1>0, <1>17 DEF TypeWire, TypeCaller, HasItsServer, ReadsText, Takes,
       managerVars, clientVars, callerVars, stopVars
  <2>2. InboxFits'
    BY <1>0, <1>17, TakeFits DEF ReadsText
  <2>3. TypeManager' /\ TypeFlags' /\ TypeClient' /\ TypeCaller' /\ TypeStopper' /\
     LockIsHeld' /\ HasItsServer' /\ StopsItsServer' /\ ClosesOnce'
    BY <1>0, <1>17 DEF TypeManager, TypeFlags, TypeClient, TypeCaller, TypeStopper,
       LockIsHeld, HasItsServer, StopsItsServer, ClosesOnce, Stopper, ReadsText,
       Takes, managerVars, clientVars, callerVars, stopVars
  <2> QED
    BY <2>1, <2>2, <2>3 DEF Types
<1>18. ASSUME NEW s \in Server, ReadsRequest(s) PROVE Types'
  <2>1. InboxFits'
    BY <1>0, <1>18, TakeFits DEF ReadsRequest
  <2>2. TypeCaller'
    BY <1>0, <1>18 DEF TypeCaller, TypeManager, Locked, InCall, ReadsRequest,
       Takes, Return, Goto, managerVars, clientVars, stopVars
  <2>3. LockIsHeld'
    BY <1>0, <1>18, ServerAssumption DEF LockIsHeld, TypeCaller, TypeManager,
       Locked, InCall, ReadsRequest, Takes, Return, Goto, managerVars, clientVars,
       stopVars
  <2>4. HasItsServer'
    BY <1>0, <1>18 DEF HasItsServer, TypeCaller, TypeManager, InCall, ReadsRequest,
       Takes, Return, Goto, managerVars, clientVars, stopVars
  <2>5. TypeManager' /\ TypeFlags' /\ TypeWire' /\ TypeClient' /\ TypeStopper' /\
     StopsItsServer' /\ ClosesOnce'
    BY <1>0, <1>18 DEF TypeManager, TypeFlags, TypeWire, TypeClient, TypeStopper,
       StopsItsServer, ClosesOnce, Stopper, ReadsRequest, Takes, Return, Goto,
       managerVars, clientVars, stopVars
  <2> QED
    BY <2>1, <2>2, <2>3, <2>4, <2>5 DEF Types
<1>19. ASSUME NEW s \in Server, ReadsFarewell(s) PROVE Types'
  <2>1. TypeWire'
    BY <1>0, <1>19 DEF TypeWire, TypeCaller, HasItsServer, ReadsFarewell, Takes,
       managerVars, clientVars, callerVars, stopVars
  <2>2. InboxFits'
    BY <1>0, <1>19, TakeFits DEF ReadsFarewell
  <2>3. TypeManager' /\ TypeFlags' /\ TypeClient' /\ TypeCaller' /\ TypeStopper' /\
     LockIsHeld' /\ HasItsServer' /\ StopsItsServer' /\ ClosesOnce'
    BY <1>0, <1>19 DEF TypeManager, TypeFlags, TypeClient, TypeCaller, TypeStopper,
       LockIsHeld, HasItsServer, StopsItsServer, ClosesOnce, Stopper,
       ReadsFarewell, Takes, managerVars, clientVars, callerVars, stopVars
  <2> QED
    BY <2>1, <2>2, <2>3 DEF Types
<1>20. ASSUME NEW s \in Server, Publishes(s) PROVE Types'
  <2>1. TypeClient'
    BY <1>0, <1>20 DEF TypeClient, TypeCaller, HasItsServer, InCall, Publishes,
       managerVars, wireVars, callerVars, stopVars
  <2>2. TypeManager' /\ TypeFlags' /\ TypeWire' /\ InboxFits' /\ TypeCaller' /\
     TypeStopper' /\ LockIsHeld' /\ HasItsServer' /\ StopsItsServer' /\ ClosesOnce'
    BY <1>0, <1>20 DEF TypeManager, TypeFlags, TypeWire, InboxFits, TypeCaller,
       TypeStopper, LockIsHeld, HasItsServer, StopsItsServer, ClosesOnce, Stopper,
       Publishes, managerVars, wireVars, callerVars, stopVars
  <2> QED
    BY <2>1, <2>2 DEF Types
<1>21. ASSUME NEW s \in Server, Crashes(s) PROVE Types'
  <2>1. TypeWire'
    BY <1>0, <1>21 DEF TypeWire, TypeCaller, HasItsServer, Crashes, managerVars,
       clientVars, callerVars, stopVars
  <2>2. TypeManager' /\ TypeFlags' /\ InboxFits' /\ TypeClient' /\ TypeCaller' /\
     TypeStopper' /\ LockIsHeld' /\ HasItsServer' /\ StopsItsServer' /\ ClosesOnce'
    BY <1>0, <1>21 DEF TypeManager, TypeFlags, InboxFits, TypeClient, TypeCaller,
       TypeStopper, LockIsHeld, HasItsServer, StopsItsServer, ClosesOnce, Stopper,
       Crashes, managerVars, clientVars, callerVars, stopVars
  <2> QED
    BY <2>1, <2>2 DEF Types
<1>22. ASSUME NEW s \in Server, EndOfStream(s) PROVE Types'
  <2>1. TypeWire'
    BY <1>0, <1>22 DEF TypeWire, TypeCaller, HasItsServer, EndOfStream,
       managerVars, clientVars, callerVars, stopVars
  <2>2. TypeManager' /\ TypeFlags' /\ InboxFits' /\ TypeClient' /\ TypeCaller' /\
     TypeStopper' /\ LockIsHeld' /\ HasItsServer' /\ StopsItsServer' /\ ClosesOnce'
    BY <1>0, <1>22 DEF TypeManager, TypeFlags, InboxFits, TypeClient, TypeCaller,
       TypeStopper, LockIsHeld, HasItsServer, StopsItsServer, ClosesOnce, Stopper,
       EndOfStream, managerVars, clientVars, callerVars, stopVars
  <2> QED
    BY <2>1, <2>2 DEF Types
<1>23. ASSUME Reap PROVE Types'
  <2>1. TypeManager'
    BY <1>0, <1>23 DEF TypeManager, TypeCaller, HasItsServer, Reap, Dooms,
       wireVars, clientVars, callerVars
  <2>2. TypeStopper'
    BY <1>0, <1>23 DEF TypeStopper, TypeManager, Stopper, Reap, Dooms, wireVars,
       clientVars, callerVars
  <2>3. StopsItsServer'
    BY <1>0, <1>23 DEF StopsItsServer, TypeStopper, Stopper, Reap, Dooms, wireVars,
       clientVars, callerVars
  <2>4. ClosesOnce'
    BY <1>0, <1>23 DEF ClosesOnce, TypeStopper, Stopper, Reap, Dooms, wireVars,
       clientVars, callerVars
  <2>5. TypeFlags' /\ TypeWire' /\ InboxFits' /\ TypeClient' /\ TypeCaller' /\
     LockIsHeld' /\ HasItsServer'
    BY <1>0, <1>23 DEF TypeFlags, TypeWire, InboxFits, TypeClient, TypeCaller,
       LockIsHeld, HasItsServer, Reap, Dooms, wireVars, clientVars, callerVars
  <2> QED
    BY <2>1, <2>2, <2>3, <2>4, <2>5 DEF Types
<1>24. ASSUME CloseAll PROVE Types'
  <2>1. TypeManager'
    BY <1>0, <1>24 DEF TypeManager, TypeCaller, HasItsServer, CloseAll, Dooms,
       wireVars, clientVars, callerVars
  <2>2. TypeFlags'
    BY <1>0, <1>24 DEF TypeFlags, CloseAll, Dooms, wireVars, clientVars, callerVars
  <2>3. TypeStopper'
    BY <1>0, <1>24 DEF TypeStopper, TypeManager, Stopper, CloseAll, Dooms,
       wireVars, clientVars, callerVars
  <2>4. StopsItsServer'
    BY <1>0, <1>24 DEF StopsItsServer, TypeStopper, Stopper, CloseAll, Dooms,
       wireVars, clientVars, callerVars
  <2>5. ClosesOnce'
    BY <1>0, <1>24 DEF ClosesOnce, TypeStopper, Stopper, CloseAll, Dooms, wireVars,
       clientVars, callerVars
  <2>6. TypeWire' /\ InboxFits' /\ TypeClient' /\ TypeCaller' /\ LockIsHeld' /\
     HasItsServer'
    BY <1>0, <1>24 DEF TypeWire, InboxFits, TypeClient, TypeCaller, LockIsHeld,
       HasItsServer, CloseAll, Dooms, wireVars, clientVars, callerVars
  <2> QED
    BY <2>1, <2>2, <2>3, <2>4, <2>5, <2>6 DEF Types
<1>25. ASSUME NEW w \in Stopper, Farewell(w) PROVE Types'
  <2>1. InboxFits'
    <3>1. doomed[w] \in Server
      BY <1>0, <1>25 DEF TypeStopper, StopsItsServer, Farewell
    <3>2. [kind |-> "shutdown", of |-> None] \in Letter
      BY DEF Letter
    <3> QED
      BY <1>0, <1>25, <3>1, <3>2, WriteFits DEF Farewell, InboxFits
  <2>2. TypeStopper'
    BY <1>0, <1>25 DEF TypeStopper, TypeManager, Stopper, Farewell, Write,
       CanWrite, BrokenPipe, managerVars, clientVars, callerVars
  <2>3. StopsItsServer'
    BY <1>0, <1>25 DEF StopsItsServer, TypeStopper, Stopper, Farewell, Write,
       CanWrite, BrokenPipe, managerVars, clientVars, callerVars
  <2>4. TypeManager' /\ TypeFlags' /\ TypeWire' /\ TypeClient' /\ TypeCaller' /\
     LockIsHeld' /\ HasItsServer' /\ ClosesOnce'
    BY <1>0, <1>25 DEF TypeManager, TypeFlags, TypeWire, TypeClient, TypeCaller,
       LockIsHeld, HasItsServer, ClosesOnce, Farewell, Write, CanWrite, BrokenPipe,
       managerVars, clientVars, callerVars
  <2> QED
    BY <2>1, <2>2, <2>3, <2>4 DEF Types
<1>26. ASSUME NEW w \in Stopper, SendExit(w) PROVE Types'
  <2>1. TypeWire'
    BY <1>0, <1>26 DEF TypeWire, TypeCaller, HasItsServer, SendExit, Write,
       CanWrite, BrokenPipe, managerVars, clientVars, callerVars
  <2>2. InboxFits'
    <3>1. doomed[w] \in Server
      BY <1>0, <1>26 DEF TypeStopper, StopsItsServer, SendExit
    <3>2. [kind |-> "exit", of |-> None] \in Letter
      BY DEF Letter
    <3> QED
      BY <1>0, <1>26, <3>1, <3>2, WriteFits DEF SendExit, InboxFits
  <2>3. TypeStopper'
    BY <1>0, <1>26 DEF TypeStopper, TypeManager, Stopper, SendExit, Write,
       CanWrite, BrokenPipe, managerVars, clientVars, callerVars
  <2>4. StopsItsServer'
    BY <1>0, <1>26 DEF StopsItsServer, TypeStopper, Stopper, SendExit, Write,
       CanWrite, BrokenPipe, managerVars, clientVars, callerVars
  <2>5. TypeManager' /\ TypeFlags' /\ TypeClient' /\ TypeCaller' /\ LockIsHeld' /\
     HasItsServer' /\ ClosesOnce'
    BY <1>0, <1>26 DEF TypeManager, TypeFlags, TypeClient, TypeCaller, LockIsHeld,
       HasItsServer, ClosesOnce, SendExit, Write, CanWrite, BrokenPipe,
       managerVars, clientVars, callerVars
  <2> QED
    BY <2>1, <2>2, <2>3, <2>4, <2>5 DEF Types
<1>27. ASSUME NEW w \in Stopper, Kill(w) PROVE Types'
  <2>1. TypeWire'
    BY <1>0, <1>27 DEF TypeWire, TypeCaller, HasItsServer, Kill, managerVars,
       clientVars, callerVars
  <2>2. TypeStopper'
    BY <1>0, <1>27 DEF TypeStopper, TypeManager, Stopper, Kill, managerVars,
       clientVars, callerVars
  <2>3. StopsItsServer'
    BY <1>0, <1>27 DEF StopsItsServer, TypeStopper, Stopper, Kill, managerVars,
       clientVars, callerVars
  <2>4. ClosesOnce'
    BY <1>0, <1>27 DEF ClosesOnce, TypeStopper, Stopper, Kill, managerVars,
       clientVars, callerVars
  <2>5. TypeManager' /\ TypeFlags' /\ InboxFits' /\ TypeClient' /\ TypeCaller' /\
     LockIsHeld' /\ HasItsServer'
    BY <1>0, <1>27 DEF TypeManager, TypeFlags, InboxFits, TypeClient, TypeCaller,
       LockIsHeld, HasItsServer, Kill, managerVars, clientVars, callerVars
  <2> QED
    BY <2>1, <2>2, <2>3, <2>4, <2>5 DEF Types
<1>28. ASSUME CloseReturns PROVE Types'
  <2>1. TypeStopper'
    BY <1>0, <1>28 DEF TypeStopper, TypeManager, Stopper, CloseReturns,
       managerVars, wireVars, clientVars, callerVars
  <2>2. StopsItsServer'
    BY <1>0, <1>28 DEF StopsItsServer, TypeStopper, Stopper, CloseReturns,
       managerVars, wireVars, clientVars, callerVars
  <2>3. TypeManager' /\ TypeFlags' /\ TypeWire' /\ InboxFits' /\ TypeClient' /\
     TypeCaller' /\ LockIsHeld' /\ HasItsServer' /\ ClosesOnce'
    BY <1>0, <1>28 DEF TypeManager, TypeFlags, TypeWire, InboxFits, TypeClient,
       TypeCaller, LockIsHeld, HasItsServer, ClosesOnce, CloseReturns, managerVars,
       wireVars, clientVars, callerVars
  <2> QED
    BY <2>1, <2>2, <2>3 DEF Types
<1>29. CASE UNCHANGED vars
  BY <1>0, <1>29 DEF Types, TypeManager, TypeFlags, TypeWire, InboxFits,
     TypeClient, TypeCaller, TypeStopper, LockIsHeld, HasItsServer, StopsItsServer,
     ClosesOnce, Stopper, vars, managerVars, wireVars, clientVars, callerVars,
     stopVars
<1> QED
  BY <1>1, <1>2, <1>3, <1>4, <1>5, <1>6, <1>7, <1>8, <1>9, <1>10, <1>11, <1>12,
     <1>13, <1>14, <1>15, <1>16, <1>17, <1>18, <1>19, <1>20, <1>21, <1>22, <1>23,
     <1>24, <1>25, <1>26, <1>27, <1>28, <1>29 DEF Next, CallerStep, Reads,
     StopperStep

-----------------------------------------------------------------------------
(* Who holds a server.                                                     *)

Starting == {"starting", "handshake", "started", "failing"}

\* A step in which no server changes hands: one that is started may be given up, but
\* then its process is gone, and a start is begun only when there is no instance.
Quiet ==
  /\ UNCHANGED <<instance, doomed>>
  /\ \A s \in Server : proc'[s] # proc[s] => proc'[s] = "gone" /\ proc[s] # "unborn"
  /\ \A c \in Caller : pc'[c] \in Starting => pc[c] \in Starting \/ instance = None
  /\ \A c \in Caller, s \in Server :
        /\ Starts(c, s)' => Starts(c, s)
        /\ Starts(c, s) => Starts(c, s)' \/ proc'[s] = "gone"

\* Such a step leaves every server with the one who holds it.
LEMMA QuietHolds == Holding /\ Quiet => Holding'
<1> SUFFICES ASSUME Holding, Quiet PROVE Holding'
  OBVIOUS
<1>1. StartsTheOnlyOne'
  BY DEF Holding, StartsTheOnlyOne, Quiet, Starting
<1>2. HeldOnce'
  BY DEF Holding, HeldOnce, Quiet
<1>3. UnbornIsUnheld'
  BY DEF Holding, UnbornIsUnheld, Quiet
<1>4. UpIsHeld'
  <2> SUFFICES ASSUME NEW s \in Server, proc'[s] = "up"
               PROVE  \/ instance' = s
                      \/ \E c \in Caller : Starts(c, s)'
                      \/ \E w \in Stopper : doomed'[w] = s
    BY DEF UpIsHeld
  <2>1. proc[s] = "up"
    BY DEF Quiet
  <2> QED
    BY <2>1 DEF Holding, UpIsHeld, Quiet
<1> QED
  BY <1>1, <1>2, <1>3, <1>4 DEF Holding

\* The steps of a call before it has a client, but for the two that take and give a server.
LEMMA StartingIsQuiet ==
  ASSUME Types, Holding, NEW c \in Caller,
         \/ Call(c) \/ Lookup(c) \/ LockStart(c) \/ Recheck(c)
         \/ StartFails(c) \/ Handshake(c) \/ HandshakeFails(c) \/ MarkBroken(c)
  PROVE  Quiet
<1>0. TypeCaller /\ TypeWire /\ LockIsHeld /\ HasItsServer
  BY DEF Types
<1>1. CASE Call(c)
  BY <1>0, <1>1 DEF Call, Goto, Quiet, Starts, Starting, TypeCaller,
     managerVars, wireVars, stopVars
<1>2. CASE Lookup(c)
  BY <1>0, <1>2 DEF Lookup, Goto, Return, Quiet, Starts, Starting, TypeCaller,
     managerVars, wireVars, stopVars
<1>3. CASE LockStart(c)
  BY <1>0, <1>3 DEF LockStart, Goto, Quiet, Starts, Starting, TypeCaller,
     wireVars, stopVars
<1>4. CASE Recheck(c)
  BY <1>0, <1>4 DEF Recheck, Goto, Return, Quiet, Starts, Starting, TypeCaller,
     wireVars, stopVars
<1>5. CASE StartFails(c)
  BY <1>0, <1>5 DEF StartFails, Goto, Quiet, Starts, Starting, TypeCaller,
     managerVars, wireVars, stopVars
<1>6. CASE Handshake(c)
  BY <1>0, <1>6 DEF Handshake, Goto, Quiet, Starts, Starting, TypeCaller,
     managerVars, wireVars, stopVars
<1>7. CASE HandshakeFails(c)
  <2>1. mine[c] \in Server /\ proc' = [proc EXCEPT ![mine[c]] = "gone"]
    BY <1>0, <1>7 DEF HandshakeFails, HasItsServer
  <2>2. proc[mine[c]] # "unborn"
    BY <1>7, <2>1 DEF HandshakeFails, Holding, UnbornIsUnheld, Starts
  <2> QED
    BY <1>0, <1>7, <2>1, <2>2 DEF HandshakeFails, Goto, Quiet, Starts, Starting,
       TypeCaller, TypeWire, managerVars, stopVars
<1>8. CASE MarkBroken(c)
  BY <1>0, <1>8 DEF MarkBroken, Return, Goto, Quiet, Starts, Starting, TypeCaller,
     wireVars, stopVars
<1> QED
  BY <1>1, <1>2, <1>3, <1>4, <1>5, <1>6, <1>7, <1>8

\* The steps of a call on its client.
LEMMA CallingIsQuiet ==
  ASSUME Types, NEW c \in Caller,
         \/ CountChange(c) \/ SendText(c) \/ Settles(c) \/ StopsWaiting(c)
         \/ SendRequest(c) \/ GivesUp(c)
  PROVE  Quiet
<1>0. TypeCaller /\ TypeWire
  BY DEF Types
<1>1. CASE CountChange(c)
  BY <1>0, <1>1 DEF CountChange, Goto, Quiet, Starts, Starting, TypeCaller,
     managerVars, wireVars, stopVars
<1>2. CASE SendText(c)
  BY <1>0, <1>2 DEF SendText, Goto, Return, Quiet, Starts, Starting, TypeCaller,
     managerVars, stopVars
<1>3. CASE Settles(c) \/ StopsWaiting(c) \/ GivesUp(c)
  BY <1>0, <1>3 DEF Settles, StopsWaiting, GivesUp, Return, Goto, Quiet, Starts,
     Starting, TypeCaller, managerVars, wireVars, stopVars
<1>4. CASE SendRequest(c)
  BY <1>0, <1>4 DEF SendRequest, Goto, Return, Quiet, Starts, Starting, TypeCaller,
     managerVars, stopVars
<1> QED
  BY <1>1, <1>2, <1>3, <1>4

\* The steps of a server and of the loop that reads from it.
LEMMA ServerIsQuiet ==
  ASSUME Types, NEW s \in Server, Reads(s) \/ Publishes(s) \/ Crashes(s) \/ EndOfStream(s)
  PROVE  Quiet
<1>0. TypeCaller /\ TypeWire
  BY DEF Types
<1>1. CASE ReadsText(s) \/ Publishes(s) \/ EndOfStream(s)
  BY <1>1 DEF ReadsText, Publishes, EndOfStream, Quiet, Starts, Starting,
     managerVars, wireVars, callerVars, stopVars
<1>2. CASE ReadsRequest(s)
  <2> DEFINE c == Head(inbox[s]).of
  <2>1. \/ UNCHANGED <<pc, mine>>
        \/ pc[c] = "asked" /\ Return(c, "answered")
    BY <1>2 DEF ReadsRequest
  <2> HIDE DEF c
  <2> QED
    BY <1>0, <1>2, <2>1 DEF ReadsRequest, Return, Goto, Quiet, Starts, Starting,
       TypeCaller, managerVars, stopVars
<1>3. CASE ReadsFarewell(s) \/ Crashes(s)
  <2>1. proc[s] = "up" /\ (proc' = proc \/ proc' = [proc EXCEPT ![s] = "gone"])
    BY <1>3 DEF ReadsFarewell, Takes, Crashes
  <2> QED
    BY <1>0, <1>3, <2>1 DEF ReadsFarewell, Crashes, Quiet, Starts, Starting,
       TypeWire, managerVars, callerVars, stopVars
<1> QED
  BY <1>1, <1>2, <1>3 DEF Reads

\* The steps of a stopper on its way.
LEMMA FarewellIsQuiet ==
  ASSUME NEW w \in Stopper, Farewell(w) \/ SendExit(w) \/ CloseReturns
  PROVE  Quiet
BY DEF Farewell, SendExit, CloseReturns, Quiet, Starts, Starting,
   managerVars, wireVars, callerVars

\* A server that is started is held by its caller.
LEMMA StartHolds ==
  ASSUME Types, Holding, NEW c \in Caller, NEW s \in Server, StartProcess(c, s)
  PROVE  Holding'
<1>0. TypeCaller /\ TypeWire
  BY DEF Types
<1>1. /\ proc[s] = "unborn" /\ proc'[s] = "up"
      /\ \A t \in Server \ {s} : proc'[t] = proc[t]
      /\ UNCHANGED <<instance, doomed>>
  BY <1>0 DEF StartProcess, TypeWire, managerVars, stopVars
<1>2. /\ pc[c] = "starting" /\ Starts(c, s)'
      /\ \A d \in Caller, t \in Server : d # c \/ t # s => (Starts(d, t)' <=> Starts(d, t))
      /\ \A d \in Caller : pc'[d] \in Starting => pc[d] \in Starting
  BY <1>0 DEF StartProcess, TypeCaller, Goto, Starts, Starting
<1>3. StartsTheOnlyOne'
  BY <1>1, <1>2 DEF Holding, StartsTheOnlyOne, Starting
<1>4. HeldOnce'
  BY <1>1, <1>2 DEF Holding, HeldOnce, UnbornIsUnheld
<1>5. UnbornIsUnheld'
  BY <1>1, <1>2 DEF Holding, UnbornIsUnheld
<1>6. UpIsHeld'
  BY <1>1, <1>2 DEF Holding, UpIsHeld
<1> QED
  BY <1>3, <1>4, <1>5, <1>6 DEF Holding

\* The caller gives it to the manager, which has none.
LEMMA InsertHolds ==
  ASSUME Types, Holding, NEW c \in Caller, Insert(c)
  PROVE  Holding'
<1>0. TypeCaller /\ LockIsHeld /\ HasItsServer
  BY DEF Types
<1>1. /\ pc[c] = "started" /\ mine[c] \in Server /\ instance = None
      /\ instance' = mine[c] /\ Starts(c, mine[c])
      /\ UNCHANGED <<proc, doomed, mine>>
  BY <1>0 DEF Insert, HasItsServer, Holding, StartsTheOnlyOne, Starts, wireVars, stopVars
<1>2. /\ pc' = [pc EXCEPT ![c] = "change"]
      /\ \A d \in Caller : pc'[d] \notin Starting
  BY <1>0, <1>1 DEF Insert, Goto, LockIsHeld, Locked, Starting, TypeCaller
<1>3. \A d \in Caller, t \in Server : ~Starts(d, t)'
  BY <1>2 DEF Starts, Starting
<1>4. \A d \in Caller, t \in Server : Starts(d, t) => d = c /\ t = mine[c]
  BY <1>0, <1>1 DEF Starts, LockIsHeld, Locked
<1>5. StartsTheOnlyOne'
  BY <1>2 DEF StartsTheOnlyOne, Starting
<1>6. HeldOnce'
  BY <1>1, <1>3 DEF Holding, HeldOnce
<1>7. UnbornIsUnheld'
  BY <1>1, <1>3 DEF Holding, UnbornIsUnheld
<1>8. UpIsHeld'
  BY <1>1, <1>4, ServerAssumption DEF Holding, UpIsHeld
<1> QED
  BY <1>5, <1>6, <1>7, <1>8 DEF Holding

\* A stopper that has none takes the manager's.
LEMMA DoomHolds ==
  ASSUME Types, Holding, NEW w \in Stopper, doomed[w] = None, Dooms(w),
         UNCHANGED <<proc, pc, mine>>
  PROVE  Holding'
<1>0. TypeManager /\ TypeStopper
  BY DEF Types
<1>1. /\ instance' = None /\ doomed'[w] = instance
      /\ \A v \in Stopper \ {w} : doomed'[v] = doomed[v]
      /\ \A d \in Caller, t \in Server : Starts(d, t)' <=> Starts(d, t)
  BY <1>0 DEF Dooms, TypeStopper, Starts
<1>2. \A d \in Caller, t \in Server : Starts(d, t) => instance # t
  BY ServerAssumption DEF Holding, StartsTheOnlyOne, Starts
<1>3. StartsTheOnlyOne'
  BY <1>1 DEF StartsTheOnlyOne
<1>4. HeldOnce'
  BY <1>0, <1>1, <1>2, ServerAssumption DEF Holding, HeldOnce
<1>5. UnbornIsUnheld'
  BY <1>0, <1>1, ServerAssumption DEF Holding, UnbornIsUnheld
<1>6. UpIsHeld'
  <2> SUFFICES ASSUME NEW s \in Server, proc'[s] = "up"
               PROVE  \/ \E c \in Caller : Starts(c, s)'
                      \/ \E v \in Stopper : doomed'[v] = s
    BY DEF UpIsHeld
  <2>1. \/ instance = s \/ \E c \in Caller : Starts(c, s)
        \/ \E v \in Stopper : v # w /\ doomed[v] = s
    BY ServerAssumption DEF Holding, UpIsHeld
  <2> QED
    BY <1>1, <2>1
<1> QED
  BY <1>3, <1>4, <1>5, <1>6 DEF Holding

\* A stopper lets go of a process it has killed.
LEMMA KillHolds ==
  ASSUME Types, Holding, NEW w \in Stopper, Kill(w)
  PROVE  Holding'
<1>0. TypeStopper /\ TypeWire /\ StopsItsServer
  BY DEF Types
<1>1. /\ doomed[w] \in Server
      /\ proc' = [proc EXCEPT ![doomed[w]] = "gone"]
      /\ doomed' = [doomed EXCEPT ![w] = None]
      /\ UNCHANGED <<instance, pc, mine>>
  BY <1>0 DEF Kill, StopsItsServer, TypeStopper, managerVars, callerVars
<1>2. /\ proc'[doomed[w]] = "gone" /\ \A s \in Server : s # doomed[w] => proc'[s] = proc[s]
      /\ doomed'[w] = None /\ \A v \in Stopper : v # w => doomed'[v] = doomed[v]
  BY <1>0, <1>1 DEF TypeWire, TypeStopper
<1>3. \A d \in Caller, t \in Server : Starts(d, t)' <=> Starts(d, t)
  BY <1>1 DEF Starts
<1>4. StartsTheOnlyOne'
  BY <1>1 DEF Holding, StartsTheOnlyOne
<1>5. HeldOnce'
  BY <1>1, <1>2, <1>3, ServerAssumption DEF Holding, HeldOnce
<1>6. UnbornIsUnheld'
  <2>1. ASSUME NEW s \in Server, proc'[s] = "unborn"
        PROVE  proc[s] = "unborn" /\ s # doomed[w]
    BY <1>2, <2>1
  <2>2. ASSUME NEW s \in Server, proc[s] = "unborn", NEW v \in Stopper
        PROVE  doomed'[v] # s
    BY <1>2, <2>2, ServerAssumption DEF Holding, UnbornIsUnheld
  <2> QED
    BY <1>1, <1>3, <2>1, <2>2 DEF Holding, UnbornIsUnheld
<1>7. UpIsHeld'
  BY <1>1, <1>2, <1>3 DEF Holding, UpIsHeld
<1> QED
  BY <1>4, <1>5, <1>6, <1>7 DEF Holding

\* Nothing is started.
LEMMA HoldingInit == Init => Holding
BY ServerAssumption DEF Init, Holding, StartsTheOnlyOne, HeldOnce, UnbornIsUnheld,
   UpIsHeld, Starts

\* Every step keeps every server in one hand.
LEMMA HoldingStep == Types /\ Holding /\ [Next]_vars => Holding'
<1> SUFFICES ASSUME Types, Holding, [Next]_vars PROVE Holding'
  OBVIOUS
<1>1. ASSUME NEW c \in Caller, Call(c) \/ CallerStep(c) PROVE Holding'
  BY <1>1, StartingIsQuiet, CallingIsQuiet, QuietHolds, StartHolds, InsertHolds
     DEF CallerStep
<1>2. ASSUME NEW s \in Server, Reads(s) \/ Publishes(s) \/ Crashes(s) \/ EndOfStream(s)
      PROVE  Holding'
  BY <1>2, ServerIsQuiet, QuietHolds
<1>3. CASE Reap
  <2>1. "reaper" \in Stopper /\ doomed["reaper"] = None /\ Dooms("reaper")
        /\ UNCHANGED <<proc, pc, mine>>
    BY <1>3 DEF Reap, Types, StopsItsServer, Stopper, wireVars, callerVars
  <2> QED
    BY <2>1, DoomHolds
<1>4. CASE CloseAll
  <2>1. "closer" \in Stopper /\ doomed["closer"] = None /\ Dooms("closer")
        /\ UNCHANGED <<proc, pc, mine>>
    BY <1>4 DEF CloseAll, Types, ClosesOnce, Stopper, wireVars, callerVars
  <2> QED
    BY <2>1, DoomHolds
<1>5. ASSUME NEW w \in Stopper, StopperStep(w) \/ CloseReturns PROVE Holding'
  BY <1>5, FarewellIsQuiet, QuietHolds, KillHolds DEF StopperStep
<1>6. CASE UNCHANGED vars
  <2>1. Quiet
    BY <1>6 DEF vars, managerVars, wireVars, callerVars, stopVars, Quiet, Starts
  <2> QED
    BY <2>1, QuietHolds
<1> QED
  BY <1>1, <1>2, <1>3, <1>4, <1>5, <1>6 DEF Next, Stopper

-----------------------------------------------------------------------------
(* The theorems.                                                           *)

\* Both halves of the invariant hold in every reachable state.
LEMMA ServersHold == Spec => [](Types /\ Holding)
<1>1. Init => Types /\ Holding
  BY TypesInit, HoldingInit
<1>2. Types /\ Holding /\ [Next]_vars => (Types /\ Holding)'
  BY TypesStep, HoldingStep
<1> QED
  BY <1>1, <1>2, PTL DEF Spec

\* Every variable keeps its type, no pipe holds more than it has room for, no report
\* counts for a change not made, and the start lock is with the caller that took it.
THEOREM ServerTypes == Spec => []TypeOK
<1>1. InboxFits => TypeInbox
  <2> SUFFICES ASSUME InboxFits, NEW s \in Server
               PROVE  /\ Len(inbox[s]) <= Room
                      /\ \A i \in DOMAIN inbox[s] : inbox[s][i] \in Letter
    BY DEF TypeInbox
  <2>1. inbox[s] \in Seq(Letter)
    BY DEF InboxFits
  <2> QED
    BY <2>1 DEF InboxFits
<1>2. Types => TypeOK
  BY <1>1 DEF Types, TypeOK
<1> QED
  BY <1>2, ServersHold, PTL

\* Two servers that run and that nobody stops are one.
LEMMA OneRuns ==
  ASSUME Types, Holding, NEW s \in Server, NEW t \in Server, proc[s] = "up", proc[t] = "up",
         \A w \in Stopper : doomed[w] # s /\ doomed[w] # t
  PROVE  s = t
<1>1. \A u \in {s, t} : instance = u \/ \E c \in Caller : Starts(c, u)
  BY DEF Holding, UpIsHeld
<1>2. \A c \in Caller, u \in Server : Starts(c, u) => instance = None /\ startLock = c
  BY DEF Types, LockIsHeld, Locked, Holding, StartsTheOnlyOne, Starts
<1>3. CASE instance \in {s, t}
  BY <1>1, <1>2, <1>3, ServerAssumption
<1>4. CASE instance \notin {s, t}
  <2>1. PICK c \in Caller, d \in Caller : Starts(c, s) /\ Starts(d, t)
    BY <1>1, <1>4
  <2> QED
    BY <1>2, <2>1 DEF Starts
<1> QED
  BY <1>3, <1>4

\* The manager's share of a server and the hands it is in add up to one.
LEMMA OneHand ==
  ASSUME Types, Holding, NEW s \in Server, proc[s] = "up"
  PROVE  Cardinality(InHand(s)) + (IF instance = s THEN 1 ELSE 0) = 1
<1>1. \A c \in Caller : Starts(c, s) => instance # s /\ startLock = c
  BY ServerAssumption DEF Types, LockIsHeld, Locked, Holding, StartsTheOnlyOne, Starts
<1>2. InHand(s) = {c \in Caller : Starts(c, s)} \cup {w \in Stopper : doomed[w] = s}
  BY DEF InHand, Starts
<1>3. CASE instance = s
  <2>1. InHand(s) = {}
    BY <1>1, <1>2, <1>3 DEF Holding, HeldOnce
  <2> QED
    BY <1>3, <2>1, FS_EmptySet
<1>4. CASE instance # s
  <2>1. PICK x : x \in InHand(s)
    BY <1>2, <1>4 DEF Holding, UpIsHeld
  <2>2. \A y \in InHand(s) : y = x
    BY <1>1, <1>2, <2>1 DEF Holding, HeldOnce
  <2>3. InHand(s) = {x}
    BY <2>1, <2>2
  <2> QED
    BY <1>4, <2>3, FS_Singleton
<1> QED
  BY <1>3, <1>4

\* However many calls ask at once, and whatever fails, crashes, is reaped or closed
\* meanwhile: a server that runs is in exactly one hand, and there are never two that
\* nobody is stopping.
THEOREM OneServer == Spec => []OneServerInHand
<1>1. Types /\ Holding => OneServerInHand
  <2> SUFFICES ASSUME Types, Holding PROVE OneServerInHand
    OBVIOUS
  <2>1. \A s \in Server : proc[s] = "up" =>
           Cardinality(InHand(s)) + (IF instance = s THEN 1 ELSE 0) = 1
    BY OneHand
  <2>2. \A s, t \in Server :
           /\ proc[s] = "up" /\ proc[t] = "up"
           /\ s \notin {doomed[w] : w \in Stopper} /\ t \notin {doomed[w] : w \in Stopper}
           => s = t
    BY OneRuns
  <2> QED
    BY <2>1, <2>2 DEF OneServerInHand
<1> QED
  BY <1>1, ServersHold, PTL

=============================================================================
