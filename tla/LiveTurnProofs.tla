---------------------------- MODULE LiveTurnProofs ----------------------------
(***************************************************************************)
(* Proofs about the hub (TurnHub), about the event stream of a turn          *)
(* (TurnStream) and about the two together (LiveTurn), in this order: for    *)
(* any number of conversations, requests, stops, clears and restarts, any    *)
(* number of calls, subagents and readers, and any length of turn.           *)
(***************************************************************************)
EXTENDS LiveTurn, SequenceTheorems, FiniteSetTheorems, WellFoundedInduction, TLAPS

(***************************************************************************)
(* The hub.                                                                *)
(***************************************************************************)

-----------------------------------------------------------------------------
(* Types.                                                                  *)

\* Adding a row to a conversation keeps the table's type.
LEMMA AppendedRow ==
  ASSUME messages \in [Session -> Seq(Row)], NEW s \in Session, NEW row \in Row
  PROVE  [messages EXCEPT ![s] = Append(@, row)] \in [Session -> Seq(Row)]
  OBVIOUS

\* Emptying a conversation keeps the table's type.
LEMMA EmptiedRows ==
  ASSUME messages \in [Session -> Seq(Row)], NEW s \in Session
  PROVE  [messages EXCEPT ![s] = <<>>] \in [Session -> Seq(Row)]
  OBVIOUS

\* The server starts with every variable in its type.
LEMMA TypeInit == Init => TypeOK
<1> SUFFICES ASSUME Init PROVE TypeOK
  OBVIOUS
<1>1. TypeReq
  BY DEF Init, TypeReq, Stage
<1>2. TypeRun
  BY DEF Init, TypeRun, Outcome
<1>3. TypeHub /\ TypeStop
  BY DEF Init, TypeHub, TypeStop
<1>4. TypeDb
  BY TurnHubAssumption DEF Init, TypeDb
<1>5. TypeProc
  BY TurnHubAssumption DEF Init, TypeProc
<1> QED
  BY <1>1, <1>2, <1>3, <1>4, <1>5 DEF TypeOK

\* Every step, of every actor, keeps every variable in its type.
LEMMA TypeStep == TypeOK /\ [Next]_vars => TypeOK'
<1> SUFFICES ASSUME TypeOK, [Next]_vars PROVE TypeOK'
  OBVIOUS
<1>0. TypeReq /\ TypeRun /\ TypeHub /\ TypeDb /\ TypeStop /\ TypeProc
  BY DEF TypeOK
<1>1. ASSUME NEW r \in Request, Send(r) PROVE TypeOK'
  <2>1. TypeReq'
    BY <1>0, <1>1 DEF TypeReq, Send, Goto, Stage,
       Handler, Active, Finished, Refused, TypeDb
  <2>2. TypeRun' /\ TypeHub' /\ TypeDb' /\ TypeStop' /\ TypeProc'
    BY <1>0, <1>1 DEF TypeRun, TypeHub, TypeDb, TypeStop, TypeProc, runVars,
       hubVars, dbVars, stopVars, procVars, Send
  <2> QED
    BY <2>1, <2>2 DEF TypeOK
<1>2. ASSUME NEW r \in Request, Resume(r) PROVE TypeOK'
  <2>1. TypeReq'
    BY <1>0, <1>2 DEF TypeReq, Resume, Send, Goto,
       Stage, Handler, Active, Finished, Refused, TypeDb
  <2>2. TypeRun' /\ TypeHub' /\ TypeDb' /\ TypeStop' /\ TypeProc'
    BY <1>0, <1>2 DEF TypeRun, TypeHub, TypeDb, TypeStop, TypeProc, runVars,
       hubVars, dbVars, stopVars, procVars, Resume, Send
  <2> QED
    BY <2>1, <2>2 DEF TypeOK
<1>3. ASSUME NEW r \in Request, ResumeRefused(r) PROVE TypeOK'
  <2>1. TypeReq'
    BY <1>0, <1>3 DEF TypeReq, ResumeRefused, Goto, Stage, Handler, Active,
       Finished, Refused
  <2>2. TypeRun' /\ TypeHub' /\ TypeDb' /\ TypeStop' /\ TypeProc'
    BY <1>0, <1>3 DEF TypeRun, TypeHub, TypeDb, TypeStop, TypeProc, runVars,
       hubVars, dbVars, stopVars, procVars, ResumeRefused
  <2> QED
    BY <2>1, <2>2 DEF TypeOK
<1>4. ASSUME NEW r \in Request, Check(r) PROVE TypeOK'
  <2>1. TypeReq'
    BY <1>0, <1>4 DEF TypeReq, Check, Goto, Stage, Handler, Active, Finished, Refused
  <2>2. TypeRun' /\ TypeHub' /\ TypeDb' /\ TypeStop' /\ TypeProc'
    BY <1>0, <1>4 DEF TypeRun, TypeHub, TypeDb, TypeStop, TypeProc, runVars,
       hubVars, dbVars, stopVars, procVars, Check
  <2> QED
    BY <2>1, <2>2 DEF TypeOK
<1>5. ASSUME NEW r \in Request, Post(r) PROVE TypeOK'
  <2>1. TypeReq'
    BY <1>0, <1>5 DEF TypeReq, Post, Storable, Goto, Stage, Handler, Active, Finished, Refused
  <2>2. TypeDb'
    <3> DEFINE row == [role |-> "user", turn |-> r]
    <3>1. row \in Row /\ conv[r] \in Session /\ messages \in [Session -> Seq(Row)]
      BY <1>0 DEF Row, TypeReq, TypeDb
    <3>2. [messages EXCEPT ![conv[r]] = Append(@, row)] \in [Session -> Seq(Row)]
      BY <3>1, AppendedRow
    <3>3. messages' \in [Session -> Seq(Row)]
      BY <1>5, <3>1, <3>2 DEF Post, Storable
    <3> QED
      BY <1>0, <1>5, <3>3 DEF Post, Storable, TypeDb
  <2>3. TypeRun' /\ TypeHub' /\ TypeStop' /\ TypeProc'
    BY <1>0, <1>5 DEF TypeRun, TypeHub, TypeStop, TypeProc, runVars, hubVars,
       stopVars, procVars, Post
  <2> QED
    BY <2>1, <2>2, <2>3 DEF TypeOK
<1>6. ASSUME NEW r \in Request, Begin(r) PROVE TypeOK'
  <2>1. TypeReq'
    BY <1>0, <1>6 DEF TypeReq, Begin, Goto, Stage, Handler, Active, Finished, Refused
  <2>2. TypeHub'
    BY <1>0, <1>6 DEF TypeHub, Begin, TypeReq
  <2>3. TypeRun' /\ TypeDb' /\ TypeStop' /\ TypeProc'
    BY <1>0, <1>6 DEF TypeRun, TypeDb, TypeStop, TypeProc, runVars, dbVars,
       stopVars, procVars, Begin
  <2> QED
    BY <2>1, <2>2, <2>3 DEF TypeOK
<1>7. ASSUME NEW r \in Request, Launch(r) PROVE TypeOK'
  <2>1. TypeReq'
    BY <1>0, <1>7 DEF TypeReq, Launch, Goto, Stage, Handler, Active, Finished, Refused
  <2>2. TypeHub'
    BY <1>0, <1>7 DEF TypeHub, Launch, TypeReq
  <2>3. TypeRun' /\ TypeDb' /\ TypeStop' /\ TypeProc'
    BY <1>0, <1>7 DEF TypeRun, TypeDb, TypeStop, TypeProc, runVars, dbVars,
       stopVars, procVars, Launch
  <2> QED
    BY <2>1, <2>2, <2>3 DEF TypeOK
<1>8. ASSUME NEW r \in Request, RunReturns(r) PROVE TypeOK'
  <2>1. TypeReq'
    BY <1>0, <1>8 DEF TypeReq, RunReturns, Goto, Stage, Handler, Active,
       Finished, Refused
  <2>2. TypeRun'
    BY <1>0, <1>8 DEF TypeRun, RunReturns, Outcome
  <2>3. TypeHub' /\ TypeDb' /\ TypeStop' /\ TypeProc'
    BY <1>0, <1>8 DEF TypeHub, TypeDb, TypeStop, TypeProc, hubVars, dbVars,
       stopVars, procVars, RunReturns
  <2> QED
    BY <2>1, <2>2, <2>3 DEF TypeOK
<1>9. ASSUME NEW r \in Request, Settle(r) PROVE TypeOK'
  <2>1. TypeReq'
    BY <1>0, <1>9 DEF TypeReq, Settle, Goto, Stage, Handler, Active, Finished, Refused
  <2>2. TypeRun'
    BY <1>0, <1>9 DEF TypeRun, Settle, Outcome
  <2>3. TypeHub' /\ TypeDb' /\ TypeStop' /\ TypeProc'
    BY <1>0, <1>9 DEF TypeHub, TypeDb, TypeStop, TypeProc, hubVars, dbVars,
       stopVars, procVars, Settle
  <2> QED
    BY <2>1, <2>2, <2>3 DEF TypeOK
<1>10. ASSUME NEW r \in Request, Persist(r) PROVE TypeOK'
  <2>1. TypeReq'
    BY <1>0, <1>10 DEF TypeReq, Persist, Insert, Storable, Goto, Stage, Handler, Active, Finished, Refused
  <2>2. TypeRun'
    BY <1>0, <1>10 DEF TypeRun, Persist, Insert, Storable, Outcome
  <2>3. TypeDb'
    <3> DEFINE row == [role |-> "assistant", turn |-> r]
    <3>1. row \in Row /\ conv[r] \in Session /\ messages \in [Session -> Seq(Row)]
      BY <1>0 DEF Row, TypeReq, TypeDb
    <3>2. [messages EXCEPT ![conv[r]] = Append(@, row)] \in [Session -> Seq(Row)]
      BY <3>1, AppendedRow
    <3>3. messages' \in [Session -> Seq(Row)]
      BY <1>10, <3>1, <3>2 DEF Persist, Insert
    <3>4. exists' \subseteq Session /\ dropped' \subseteq Request
      BY <1>0, <1>10 DEF Persist, Insert, TypeDb
    <3> QED
      BY <3>3, <3>4 DEF TypeDb
  <2>4. TypeHub' /\ TypeStop' /\ TypeProc'
    BY <1>0, <1>10, TurnHubAssumption
       DEF TypeHub, TypeStop, TypeProc, hubVars, stopVars, Persist, Insert, Storable
  <2> QED
    BY <2>1, <2>2, <2>3, <2>4 DEF TypeOK
<1>11. ASSUME NEW r \in Request, Finish(r) PROVE TypeOK'
  <2>1. TypeReq'
    BY <1>0, <1>11 DEF TypeReq, Finish, Goto, Stage, Handler, Active, Finished, Refused
  <2>2. TypeRun' /\ TypeHub' /\ TypeDb' /\ TypeStop' /\ TypeProc'
    BY <1>0, <1>11 DEF TypeRun, TypeHub, TypeDb, TypeStop, TypeProc, runVars,
       hubVars, dbVars, stopVars, procVars, Finish
  <2> QED
    BY <2>1, <2>2 DEF TypeOK
<1>12. ASSUME NEW r \in Request, Leave(r) PROVE TypeOK'
  <2>1. TypeReq'
    BY <1>0, <1>12 DEF TypeReq, Leave, Goto, Stage, Handler, Active, Finished, Refused
  <2>2. TypeHub'
    BY <1>0, <1>12 DEF TypeHub, Leave, TypeReq
  <2>3. TypeRun' /\ TypeDb' /\ TypeStop' /\ TypeProc'
    BY <1>0, <1>12 DEF TypeRun, TypeDb, TypeStop, TypeProc, runVars, dbVars,
       stopVars, procVars, Leave
  <2> QED
    BY <2>1, <2>2, <2>3 DEF TypeOK
<1>13. ASSUME NEW r \in Request, Retire(r) PROVE TypeOK'
  <2>1. TypeReq'
    BY <1>0, <1>13 DEF TypeReq, Retire, Goto, Stage, Handler, Active, Finished, Refused
  <2>2. TypeHub'
    BY <1>0, <1>13 DEF TypeHub, Retire, TypeReq
  <2>3. TypeRun' /\ TypeDb' /\ TypeStop' /\ TypeProc'
    BY <1>0, <1>13 DEF TypeRun, TypeDb, TypeStop, TypeProc, runVars, dbVars,
       stopVars, procVars, Retire
  <2> QED
    BY <2>1, <2>2, <2>3 DEF TypeOK
<1>14. ASSUME NEW x \in Stopper, NEW s \in Session, StopFind(x, s) PROVE TypeOK'
  <2>1. TypeStop'
    BY <1>0, <1>14 DEF TypeStop, StopFind, Running, TypeHub
  <2>2. TypeReq' /\ TypeRun' /\ TypeHub' /\ TypeDb' /\ TypeProc'
    BY <1>0, <1>14 DEF TypeReq, TypeRun, TypeHub, TypeDb, TypeProc, reqVars,
       runVars, hubVars, dbVars, procVars, StopFind
  <2> QED
    BY <2>1, <2>2 DEF TypeOK
<1>15. ASSUME NEW x \in Stopper, StopMark(x) PROVE TypeOK'
  <2>1. TypeRun'
    BY <1>0, <1>15 DEF TypeRun, StopMark, Outcome
  <2>2. TypeStop'
    BY <1>0, <1>15 DEF TypeStop, StopMark
  <2>3. TypeReq' /\ TypeHub' /\ TypeDb' /\ TypeProc'
    BY <1>0, <1>15 DEF TypeReq, TypeHub, TypeDb, TypeProc, reqVars, hubVars,
       dbVars, procVars, StopMark
  <2> QED
    BY <2>1, <2>2, <2>3 DEF TypeOK
<1>16. ASSUME NEW x \in Stopper, StopCancel(x) PROVE TypeOK'
  <2>1. TypeRun'
    BY <1>0, <1>16 DEF TypeRun, StopCancel, Outcome, CancelRun
  <2>2. TypeStop'
    BY <1>0, <1>16 DEF TypeStop, StopCancel
  <2>3. TypeReq' /\ TypeHub' /\ TypeDb' /\ TypeProc'
    BY <1>0, <1>16 DEF TypeReq, TypeHub, TypeDb, TypeProc, reqVars, hubVars,
       dbVars, procVars, StopCancel
  <2> QED
    BY <2>1, <2>2, <2>3 DEF TypeOK
<1>17. ASSUME NEW s \in Session, Clear(s) PROVE TypeOK'
  <2>1. TypeDb'
    <3>1. messages' \in [Session -> Seq(Row)]
      BY <1>0, <1>17, EmptiedRows DEF Clear, TypeDb
    <3>2. exists' \subseteq Session /\ dropped' \subseteq Request
      BY <1>0, <1>17 DEF Clear, TypeDb
    <3> QED
      BY <3>1, <3>2 DEF TypeDb
  <2>2. TypeProc'
    BY <1>0, <1>17, TurnHubAssumption DEF TypeProc, Clear
  <2>3. TypeReq' /\ TypeRun' /\ TypeHub' /\ TypeStop'
    BY <1>0, <1>17 DEF TypeReq, TypeRun, TypeHub, TypeStop, reqVars,
       runVars, hubVars, stopVars, Clear
  <2> QED
    BY <2>1, <2>2, <2>3 DEF TypeOK
<1>18. ASSUME NEW s \in Session, Delete(s) PROVE TypeOK'
  <2>1. TypeDb'
    <3>1. messages' \in [Session -> Seq(Row)]
      BY <1>0, <1>18, EmptiedRows DEF Delete, TypeDb
    <3>2. exists' \subseteq Session /\ dropped' \subseteq Request
      BY <1>0, <1>18 DEF Delete, TypeDb
    <3> QED
      BY <3>1, <3>2 DEF TypeDb
  <2>2. TypeProc'
    BY <1>0, <1>18, TurnHubAssumption DEF TypeProc, Delete
  <2>3. TypeReq' /\ TypeRun' /\ TypeHub' /\ TypeStop'
    BY <1>0, <1>18 DEF TypeReq, TypeRun, TypeHub, TypeStop, reqVars,
       runVars, hubVars, stopVars, Delete
  <2> QED
    BY <2>1, <2>2, <2>3 DEF TypeOK
<1>19. ASSUME ShutdownSnapshot PROVE TypeOK'
  <2>1. TypeProc'
    BY <1>0, <1>19, TurnHubAssumption DEF TypeProc, ShutdownSnapshot, TypeHub
  <2>2. TypeReq' /\ TypeRun' /\ TypeHub' /\ TypeDb' /\ TypeStop'
    BY <1>0, <1>19 DEF TypeReq, TypeRun, TypeHub, TypeDb, TypeStop, reqVars,
       runVars, hubVars, dbVars, stopVars, ShutdownSnapshot
  <2> QED
    BY <2>1, <2>2 DEF TypeOK
<1>20. ASSUME NEW r \in Request, ShutdownCancel(r) PROVE TypeOK'
  <2>1. TypeRun'
    BY <1>0, <1>20 DEF TypeRun, ShutdownCancel, Outcome, CancelRun
  <2>2. TypeProc'
    BY <1>0, <1>20, TurnHubAssumption DEF TypeProc, ShutdownCancel
  <2>3. TypeReq' /\ TypeHub' /\ TypeDb' /\ TypeStop'
    BY <1>0, <1>20 DEF TypeReq, TypeHub, TypeDb, TypeStop, reqVars, hubVars,
       dbVars, stopVars, ShutdownCancel
  <2> QED
    BY <2>1, <2>2, <2>3 DEF TypeOK
<1>21. ASSUME ShutdownWait PROVE TypeOK'
  <2>1. TypeProc'
    BY <1>0, <1>21, TurnHubAssumption DEF TypeProc, ShutdownWait
  <2>2. TypeReq' /\ TypeRun' /\ TypeHub' /\ TypeDb' /\ TypeStop'
    BY <1>0, <1>21 DEF TypeReq, TypeRun, TypeHub, TypeDb, TypeStop, reqVars,
       runVars, hubVars, dbVars, stopVars, ShutdownWait
  <2> QED
    BY <2>1, <2>2 DEF TypeOK
<1>22. ASSUME ShutdownWaited PROVE TypeOK'
  <2>1. TypeProc'
    BY <1>0, <1>22, TurnHubAssumption DEF TypeProc, ShutdownWaited
  <2>2. TypeReq' /\ TypeRun' /\ TypeHub' /\ TypeDb' /\ TypeStop'
    BY <1>0, <1>22 DEF TypeReq, TypeRun, TypeHub, TypeDb, TypeStop, reqVars,
       runVars, hubVars, dbVars, stopVars, ShutdownWaited
  <2> QED
    BY <2>1, <2>2 DEF TypeOK
<1>23. ASSUME CloseStore PROVE TypeOK'
  <2>1. TypeProc'
    BY <1>0, <1>23, TurnHubAssumption DEF TypeProc, CloseStore
  <2>2. TypeReq' /\ TypeRun' /\ TypeHub' /\ TypeDb' /\ TypeStop'
    BY <1>0, <1>23 DEF TypeReq, TypeRun, TypeHub, TypeDb, TypeStop, reqVars,
       runVars, hubVars, dbVars, stopVars, CloseStore
  <2> QED
    BY <2>1, <2>2 DEF TypeOK
<1>24. ASSUME Restart PROVE TypeOK'
  <2>1. TypeReq'
    BY <1>0, <1>24 DEF TypeReq, Restart, Goto, Stage, Handler, Active,
       Finished, Refused, IsDone
  <2>2. TypeRun'
    BY <1>0, <1>24 DEF TypeRun, Restart, Outcome
  <2>3. TypeHub'
    BY <1>0, <1>24 DEF TypeHub, Restart, TypeReq
  <2>4. TypeStop'
    BY <1>0, <1>24 DEF TypeStop, Restart
  <2>5. TypeProc'
    BY <1>0, <1>24, TurnHubAssumption DEF TypeProc, Restart
  <2>6. TypeDb'
    BY <1>0, <1>24 DEF TypeDb, dbVars, Restart
  <2> QED
    BY <2>1, <2>2, <2>3, <2>4, <2>5, <2>6 DEF TypeOK
<1>25. CASE UNCHANGED vars
  BY <1>0, <1>25 DEF vars, reqVars, runVars, hubVars, dbVars, stopVars,
     procVars, TypeOK,
               TypeReq, TypeRun, TypeHub, TypeDb, TypeStop, TypeProc
<1> QED
  BY <1>0, <1>1, <1>2, <1>3, <1>4, <1>5, <1>6, <1>7, <1>8, <1>9, <1>10, <1>11,
     <1>12, <1>13, <1>14, <1>15, <1>16, <1>17, <1>18, <1>19, <1>20, <1>21,
     <1>22, <1>23, <1>24, <1>25 DEF Next, Works, TurnStep

\* Every variable keeps its type whatever the requests, the turns, the readers
\* and the shutdown do.
THEOREM TypeCorrect == Spec => []TypeOK
<1> QED
  BY TypeInit, TypeStep, PTL DEF Spec

-----------------------------------------------------------------------------
(* The inductive invariant.                                                *)

\* What lets a done turn be unsaved.
Kept(r) == r \in saved \/ conv[r] \notin exists \/ r \in dropped

\* The hub leads from a conversation to a turn of that conversation that has
\* been admitted, and to every turn in flight.
HubOwnsItsTurns ==
  /\ \A s \in Session :
       turns[s] # None => /\ conv[turns[s]] = s
                          /\ pc[turns[s]] \in Active \cup Finished
  /\ LiveTurnIsTheOneFound

\* From the moment persistTurn returns.
StoredMeansKept ==
  \A r \in Request : pc[r] \in {"stored", "done", "left"} => Kept(r) \/ ~StoreOpen

\* No answer is stored before persistTurn.
SavedAfterPersist ==
  \A r \in saved : pc[r] \in {"stored", "lost"} \cup Finished

\* A stop is recorded before the run is cancelled, and read after it returned.
StopBeforeCancel ==
  /\ \A x \in Stopper : spc[x] = "marked" => stopReq[starget[x]]
  /\ \A r \in Request :
       /\ cancelled[r] = "stop" /\ pc[r] \in {"begun", "running", "returned"} => stopReq[r]
       /\ cancelled[r] = "stop" /\ pc[r] \in {"settled", "stored"} \cup Finished
             => outcome[r] = "stopped"
       /\ pc[r] \in {"idle", "read", "checked", "posted"} => cancelled[r] = "no"

StopHasAReader ==
  /\ \A x \in Stopper : spc[x] \in {"found", "marked"} => starget[x] \in Request
  /\ \A x \in Stopper : spc[x] = "idle" => starget[x] = None
  /\ \A r \in Request :
       stopReq[r] \/ outcome[r] = "stopped" => \E x \in Stopper : starget[x] = r

ShutdownOwes ==
  /\ server \in {"cancelling", "waiting"} => \A r \in owed : r \in counted \/ Kept(r)
  /\ server \in {"draining", "closed"} /\ deadline = "ahead" => \A r \in owed : Kept(r)

IInv ==
  /\ TypeOK
  /\ HubOwnsItsTurns
  /\ StoredMeansKept
  /\ SavedAfterPersist
  /\ StopBeforeCancel
  /\ StopHasAReader
  /\ StopIsOnRecord
  /\ ShutdownOwes

-----------------------------------------------------------------------------
(* One lemma per part: a step from a state that satisfies the invariant    *)
(* keeps that part.                                                        *)

\* Steps of the parts of the system that admit, move and forget no turn.
Aside ==
  \/ \E x \in Stopper : (\E s \in Session : StopFind(x, s)) \/ StopMark(x) \/ StopCancel(x)
  \/ \E s \in Session : Clear(s) \/ Delete(s)
  \/ ShutdownSnapshot \/ (\E r \in Request : ShutdownCancel(r)) \/ ShutdownWait
  \/ ShutdownWaited \/ CloseStore
  \/ UNCHANGED vars

\* Steps of a handler before the hub admits its turn.
Unadmitted(r) == Send(r) \/ Resume(r) \/ ResumeRefused(r) \/ Check(r) \/ Post(r)

\* Stops, cancellations and the stages of a shutdown leave the hub's map and the
\* stages of the turns alone.
LEMMA AsideMovesNothing == Aside => UNCHANGED <<pc, conv, turns>>
  BY DEF Aside, StopFind, StopMark, StopCancel, Clear, Delete, ShutdownSnapshot,
         ShutdownCancel, ShutdownWait, ShutdownWaited, CloseStore, vars, reqVars, hubVars

\* A request that begin has not seen yet changes no turn and not the hub.
LEMMA UnadmittedStays ==
  ASSUME TypeOK, NEW r \in Request, Unadmitted(r)
  PROVE  /\ UNCHANGED <<turns, counted, conv, runVars, spc, starget, procVars, exists, dropped>>
         /\ pc[r] \in {"idle", "read", "checked"}
         /\ \E stage \in {"read", "checked", "posted"} \cup Refused : Goto(r, stage)
<1>1. CASE Send(r) \/ Resume(r)
  BY <1>1 DEF Send, Resume, hubVars, dbVars, stopVars
<1>2. CASE ResumeRefused(r)
  BY <1>2 DEF ResumeRefused, Refused, hubVars, dbVars, stopVars
<1>3. CASE Check(r)
  BY <1>3 DEF Check, Refused, hubVars, dbVars, stopVars
<1>4. CASE Post(r)
  BY <1>4 DEF Post, Storable, Refused, hubVars, stopVars
<1> QED
  BY <1>1, <1>2, <1>3, <1>4 DEF Unadmitted

\* Every step is of one of the kinds the proofs below distinguish.
LEMMA NextCases ==
  ASSUME [Next]_vars
  PROVE  \/ Aside
         \/ \E r \in Request : \/ Unadmitted(r) \/ Begin(r) \/ Launch(r) \/ TurnStep(r)
         \/ Restart
  BY DEF Next, Works, Aside, Unadmitted

\* The hub and the turns' stages move together.
LEMMA HubStep == IInv /\ [Next]_vars => HubOwnsItsTurns'
<1> SUFFICES ASSUME IInv, [Next]_vars PROVE HubOwnsItsTurns'
  OBVIOUS
<1>0. TypeOK /\ TypeReq /\ TypeHub /\ HubOwnsItsTurns
  BY DEF IInv, TypeOK
<1> USE DEF HubOwnsItsTurns, LiveTurnIsTheOneFound, Active, Finished
<1>1. CASE Aside
  BY <1>0, <1>1, AsideMovesNothing
<1>2. ASSUME NEW r \in Request, Unadmitted(r) PROVE HubOwnsItsTurns'
  BY <1>0, <1>2, UnadmittedStays DEF TypeReq, TypeHub, Goto, Refused
<1>3. ASSUME NEW r \in Request, Begin(r) PROVE HubOwnsItsTurns'
  <2>1. CASE Running(conv[r])
    BY <1>0, <1>3, <2>1 DEF Begin, TypeReq, TypeHub, Goto
  <2>2. CASE ~Running(conv[r])
    BY <1>0, <1>3, <2>2, TurnHubAssumption
       DEF Begin, Running, IsDone, TypeReq, TypeHub, Goto
  <2> QED
    BY <2>1, <2>2
<1>4. ASSUME NEW r \in Request, Launch(r) PROVE HubOwnsItsTurns'
  BY <1>0, <1>4 DEF Launch, TypeReq, TypeHub, Goto
<1>5. ASSUME NEW r \in Request, RunReturns(r) \/ Settle(r) \/ Persist(r) \/ Finish(r) \/ Leave(r)
      PROVE  HubOwnsItsTurns'
  <2>1. UNCHANGED <<turns, conv>>
    BY <1>5 DEF RunReturns, Settle, Persist, Insert, Storable, Finish, Leave, hubVars
  <2>2. /\ pc[r] \in (Active \cup {"done"}) \ {"begun"}
        /\ \E stage \in {"returned", "settled", "stored", "done", "left"} :
             /\ Goto(r, stage)
             /\ stage \in Active => pc[r] \in Active
    BY <1>5 DEF RunReturns, Settle, Persist, Insert, Storable, Finish, Leave
  <2> QED
    BY <1>0, <2>1, <2>2 DEF TypeReq, TypeHub, Goto
<1>6. ASSUME NEW r \in Request, Retire(r) PROVE HubOwnsItsTurns'
  <2>1. /\ pc[r] = "left" /\ pc' = [pc EXCEPT ![r] = "retired"] /\ conv' = conv
        /\ turns' = IF turns[conv[r]] = r THEN [turns EXCEPT ![conv[r]] = None] ELSE turns
    BY <1>6 DEF Retire, Goto
  <2> QED
    BY <1>0, <2>1, TurnHubAssumption DEF TypeReq, TypeHub
<1>7. CASE Restart
  BY <1>0, <1>7 DEF Restart, TypeReq, TypeHub, IsDone, Refused
<1> QED
  BY <1>1, <1>2, <1>3, <1>4, <1>5, <1>6, <1>7, NextCases DEF TurnStep

\* What is stored stays stored, and persistTurn's only excuses last.
LEMMA StoredStep == IInv /\ [Next]_vars => StoredMeansKept' /\ SavedAfterPersist'
<1> SUFFICES ASSUME IInv, [Next]_vars PROVE StoredMeansKept' /\ SavedAfterPersist'
  OBVIOUS
<1>0. TypeOK /\ TypeReq /\ TypeRun /\ StoredMeansKept /\ SavedAfterPersist
  BY DEF IInv, TypeOK
<1> USE DEF StoredMeansKept, SavedAfterPersist, Kept, StoreOpen, Finished
<1>1. CASE Aside
  <2>1. UNCHANGED <<pc, conv, saved, dropped>> /\ exists' \subseteq exists
    BY <1>1 DEF Aside, StopFind, StopMark, StopCancel, Clear, Delete, ShutdownSnapshot,
                ShutdownCancel, ShutdownWait, ShutdownWaited, CloseStore, vars, reqVars,
                runVars, dbVars
  <2>2. server = "closed" => server' = "closed"
    BY <1>1 DEF Aside, StopFind, StopMark, StopCancel, Clear, Delete, ShutdownSnapshot,
                ShutdownCancel, ShutdownWait, ShutdownWaited, CloseStore, vars, procVars
  <2> QED
    BY <1>0, <2>1, <2>2
<1>2. ASSUME NEW r \in Request, Unadmitted(r)
      PROVE  StoredMeansKept' /\ SavedAfterPersist'
  BY <1>0, <1>2, UnadmittedStays DEF TypeReq, TypeRun, Goto, Refused, runVars, procVars
<1>3. ASSUME NEW r \in Request, Begin(r) \/ Launch(r)
      PROVE  StoredMeansKept' /\ SavedAfterPersist'
  BY <1>0, <1>3 DEF Begin, Launch, Goto, TypeReq, TypeRun, runVars, dbVars, procVars
<1>4. ASSUME NEW r \in Request, RunReturns(r) \/ Settle(r)
      PROVE  StoredMeansKept' /\ SavedAfterPersist'
  BY <1>0, <1>4 DEF RunReturns, Settle, Goto, TypeReq, TypeRun, dbVars, procVars
<1>5. ASSUME NEW r \in Request, Persist(r) PROVE StoredMeansKept' /\ SavedAfterPersist'
  BY <1>0, <1>5 DEF Persist, Insert, Storable, Goto, TypeReq, procVars
<1>6. ASSUME NEW r \in Request, Finish(r) \/ Leave(r) \/ Retire(r)
      PROVE  StoredMeansKept' /\ SavedAfterPersist'
  BY <1>0, <1>6 DEF Finish, Leave, Retire, Goto, TypeReq, TypeRun, runVars, dbVars, procVars
<1>7. CASE Restart
  BY <1>0, <1>7 DEF Restart, IsDone, Refused, TypeReq, TypeRun, dbVars
<1> QED
  BY <1>1, <1>2, <1>3, <1>4, <1>5, <1>6, <1>7, NextCases DEF TurnStep

\* The reader's stop reaches the answer.
LEMMA StopStep ==
  IInv /\ [Next]_vars => StopBeforeCancel' /\ StopHasAReader' /\ StopIsOnRecord'
<1> SUFFICES ASSUME IInv, [Next]_vars
             PROVE  StopBeforeCancel' /\ StopHasAReader' /\ StopIsOnRecord'
  OBVIOUS
<1> DEFINE Goal == StopBeforeCancel /\ StopHasAReader /\ StopIsOnRecord
<1>0. TypeOK /\ TypeReq /\ TypeRun /\ TypeHub /\ TypeStop /\ SavedAfterPersist /\ Goal
  BY DEF IInv, TypeOK
<1> USE DEF StopBeforeCancel, StopHasAReader, StopIsOnRecord, Finished
<1>1. CASE \/ \E s \in Session : Clear(s) \/ Delete(s)
           \/ ShutdownSnapshot \/ ShutdownWait \/ ShutdownWaited \/ CloseStore
           \/ UNCHANGED vars
  <2>1. UNCHANGED <<pc, cancelled, stopReq, outcome, saved, spc, starget>>
    BY <1>1 DEF Clear, Delete, ShutdownSnapshot, ShutdownWait, ShutdownWaited,
                CloseStore, vars, reqVars, runVars, stopVars
  <2> QED
    BY <1>0, <2>1
<1>2. ASSUME NEW r \in Request, Unadmitted(r) PROVE Goal'
  BY <1>0, <1>2, UnadmittedStays DEF TypeReq, Goto, Refused, runVars
<1>3. ASSUME NEW r \in Request, Begin(r) \/ Launch(r) PROVE Goal'
  BY <1>0, <1>3 DEF Begin, Launch, Goto, TypeReq, runVars, stopVars
<1>4. ASSUME NEW r \in Request, RunReturns(r) PROVE Goal'
  BY <1>0, <1>4 DEF RunReturns, Goto, TypeReq, TypeRun, SavedAfterPersist, stopVars
<1>5. ASSUME NEW r \in Request, Settle(r) PROVE Goal'
  BY <1>0, <1>5 DEF Settle, Goto, TypeReq, TypeRun, stopVars
<1>6. ASSUME NEW r \in Request, Persist(r) PROVE Goal'
  BY <1>0, <1>6 DEF Persist, Insert, Storable, Goto, TypeReq, TypeRun, stopVars
<1>7. ASSUME NEW r \in Request, Finish(r) \/ Leave(r) \/ Retire(r) PROVE Goal'
  BY <1>0, <1>7 DEF Finish, Leave, Retire, Goto, TypeReq, runVars, stopVars
<1>8. ASSUME NEW x \in Stopper, NEW s \in Session, StopFind(x, s) PROVE Goal'
  <2>1. UNCHANGED <<pc, cancelled, stopReq, outcome, saved>> /\ spc[x] = "idle"
    BY <1>8 DEF StopFind, reqVars, runVars
  <2>2. CASE Running(s)
    <3>1. /\ spc' = [spc EXCEPT ![x] = "found"]
          /\ starget' = [starget EXCEPT ![x] = turns[s]]
          /\ turns[s] \in Request
      BY <1>0, <1>8, <2>2 DEF StopFind, Running, TypeHub
    <3>2. \A r \in Request, y \in Stopper : starget[y] = r => starget'[y] = r
      BY <1>0, <2>1, <3>1, TurnHubAssumption DEF TypeStop
    <3> QED
      BY <1>0, <2>1, <3>1, <3>2 DEF TypeStop, TypeRun
  <2>3. CASE ~Running(s)
    BY <1>0, <1>8, <2>1, <2>3 DEF StopFind, TypeStop
  <2> QED
    BY <2>2, <2>3
<1>9. ASSUME NEW x \in Stopper, StopMark(x) PROVE Goal'
  BY <1>0, <1>9 DEF StopMark, TypeRun, TypeStop, reqVars
<1>10. ASSUME NEW x \in Stopper, StopCancel(x) PROVE Goal'
  <2>1. /\ spc[x] = "marked" /\ starget[x] \in Request /\ stopReq[starget[x]]
        /\ UNCHANGED <<pc, stopReq, outcome, saved, starget>>
        /\ spc' = [spc EXCEPT ![x] = "stopped"]
    BY <1>0, <1>10 DEF StopCancel, reqVars
  <2>2. \A r \in Request :
           \/ cancelled'[r] = cancelled[r]
           \/ r = starget[x] /\ pc[r] \in {"begun", "running"}
    BY <1>0, <1>10, <2>1 DEF StopCancel, CancelRun, TypeRun
  <2> QED
    BY <1>0, <2>1, <2>2 DEF TypeStop, TypeRun, SavedAfterPersist
<1>11. ASSUME NEW r \in Request, ShutdownCancel(r) PROVE Goal'
  BY <1>0, <1>11 DEF ShutdownCancel, CancelRun, TypeRun, reqVars, stopVars
<1>12. CASE Restart
  BY <1>0, <1>12 DEF Restart, IsDone, Refused, TypeReq, TypeRun, TypeStop
<1> QED
  BY <1>1, <1>2, <1>3, <1>4, <1>5, <1>6, <1>7, <1>8, <1>9, <1>10, <1>11, <1>12
     DEF Next, Works, TurnStep, Unadmitted

\* What a shutdown found in flight is either still counted or already kept.
LEMMA OwesStep == IInv /\ [Next]_vars => ShutdownOwes'
<1> SUFFICES ASSUME IInv, [Next]_vars PROVE ShutdownOwes'
  OBVIOUS
<1>0. TypeOK /\ TypeReq /\ StoredMeansKept /\ SavedAfterPersist /\ ShutdownOwes
  BY DEF IInv, TypeOK
<1> USE DEF ShutdownOwes, Kept
<1>1. CASE \/ \E x \in Stopper : \/ \E s \in Session : StopFind(x, s)
                                 \/ StopMark(x) \/ StopCancel(x)
           \/ \E s \in Session : Clear(s) \/ Delete(s)
           \/ \E r \in Request : ShutdownCancel(r)
           \/ UNCHANGED vars
  <2>1. /\ UNCHANGED <<counted, saved, dropped, conv, server, deadline, owed>>
        /\ exists' \subseteq exists
    BY <1>1 DEF StopFind, StopMark, StopCancel, Clear, Delete, ShutdownCancel, vars,
                reqVars, runVars, hubVars, dbVars, procVars
  <2> QED
    BY <1>0, <2>1
<1>2. ASSUME NEW r \in Request, Unadmitted(r) PROVE ShutdownOwes'
  BY <1>0, <1>2, UnadmittedStays DEF runVars, procVars
<1>3. ASSUME NEW r \in Request,
             \/ Begin(r) \/ Launch(r) \/ RunReturns(r) \/ Settle(r) \/ Persist(r)
             \/ Finish(r) \/ Retire(r)
      PROVE  ShutdownOwes'
  <2>1. /\ UNCHANGED <<conv, exists, server, deadline, owed>>
        /\ counted \subseteq counted' /\ saved \subseteq saved' /\ dropped \subseteq dropped'
    BY <1>3 DEF Begin, Launch, RunReturns, Settle, Persist, Insert, Storable, Finish, Retire, runVars,
                hubVars, dbVars, procVars
  <2> QED
    BY <1>0, <2>1
<1>4. ASSUME NEW r \in Request, Leave(r) PROVE ShutdownOwes'
  BY <1>0, <1>4 DEF Leave, StoredMeansKept, StoreOpen, runVars, dbVars, procVars
<1>5. CASE ShutdownSnapshot
  BY <1>0, <1>5 DEF ShutdownSnapshot, reqVars, runVars, hubVars, dbVars
<1>6. CASE ShutdownWait \/ ShutdownWaited \/ CloseStore
  BY <1>0, <1>6 DEF ShutdownWait, ShutdownWaited, CloseStore, reqVars, runVars,
                    hubVars, dbVars
<1>7. CASE Restart
  BY <1>7 DEF Restart
<1> QED
  BY <1>1, <1>2, <1>3, <1>4, <1>5, <1>6, <1>7 DEF Next, Works, TurnStep, Unadmitted

-----------------------------------------------------------------------------
(* The theorems.                                                           *)

\* The strengthened invariant holds in every reachable state.
LEMMA Invariance == Spec => []IInv
<1>1. Init => IInv
  <2> SUFFICES ASSUME Init PROVE IInv
    OBVIOUS
  <2>1. HubOwnsItsTurns
    BY DEF Init, HubOwnsItsTurns, LiveTurnIsTheOneFound, Active
  <2>2. StoredMeansKept /\ SavedAfterPersist /\ ShutdownOwes
    BY DEF Init, StoredMeansKept, SavedAfterPersist, ShutdownOwes
  <2>3. StopBeforeCancel /\ StopHasAReader /\ StopIsOnRecord
    BY TurnHubAssumption DEF Init, StopBeforeCancel, StopHasAReader, StopIsOnRecord, Finished
  <2> QED
    BY <2>1, <2>2, <2>3, TypeInit DEF IInv
<1>2. IInv /\ [Next]_vars => IInv'
  BY TypeStep, HubStep, StoredStep, StopStep, OwesStep DEF IInv
<1> QED
  BY <1>1, <1>2, PTL DEF Spec

\* A turn in flight is the one its conversation leads to, whatever else starts,
\* ends or is forgotten; so no conversation ever has two turns in flight.
THEOREM LiveTurnFound == Spec => []LiveTurnIsTheOneFound
<1>1. IInv => LiveTurnIsTheOneFound
  BY DEF IInv, HubOwnsItsTurns
<1> QED
  BY <1>1, Invariance, PTL

\* Readers are told a turn is over only when its answer can be read back.
THEOREM OverIsStored == Spec => []OverMeansStored
<1>1. IInv => OverMeansStored
  BY DEF IInv, StoredMeansKept, Kept, OverMeansStored
<1> QED
  BY <1>1, Invariance, PTL

\* An answer cut short by a reader is stored as stopped, and only such a one.
THEOREM StopRecorded == Spec => []StopIsOnRecord
<1>1. IInv => StopIsOnRecord
  BY DEF IInv
<1> QED
  BY <1>1, Invariance, PTL

\* A shutdown whose deadline has not passed closes the store after the answers
\* it found being produced are in it.
THEOREM ShutdownKeeps == Spec => []ShutdownKeepsAnswers
<1>1. IInv => ShutdownKeepsAnswers
  BY DEF IInv, ShutdownOwes, Kept, ShutdownKeepsAnswers
<1> QED
  BY <1>1, Invariance, PTL

-----------------------------------------------------------------------------
(* The refinement of module Conversation.                                  *)

\* The busy turn of each conversation, as the refinement sees it.
BusyWith == [s \in Session |-> IF Running(s) THEN turns[s] ELSE None]

\* Steps that leave every conversation exactly as busy and as answered.
LEMMA Stutter ==
  ASSUME TypeOK, HubOwnsItsTurns, UNCHANGED <<turns, saved>>,
         \A s \in Session : turns[s] # None => IsDone(turns[s])' = IsDone(turns[s])
  PROVE  UNCHANGED <<BusyWith, saved>>
  BY DEF BusyWith, Running, TypeOK, TypeHub

\* Every step of the server is a step of Conversation or leaves it alone.
LEMMA PromiseStep == IInv /\ [Next]_vars => [Promise!Next]_(Promise!vars)
<1> SUFFICES ASSUME IInv, [Next]_vars
             PROVE  Promise!Next \/ UNCHANGED <<BusyWith, saved>>
  BY DEF Promise!vars, BusyWith
<1>0. /\ TypeOK /\ TypeReq /\ TypeRun /\ TypeHub /\ HubOwnsItsTurns
      /\ LiveTurnIsTheOneFound /\ SavedAfterPersist
  BY DEF IInv, TypeOK, HubOwnsItsTurns
<1>1. CASE Aside
  <2>1. UNCHANGED <<pc, turns, saved>>
    BY <1>1, AsideMovesNothing DEF Aside, StopFind, StopMark, StopCancel, Clear, Delete,
       ShutdownSnapshot, ShutdownCancel, ShutdownWait, ShutdownWaited, CloseStore, vars,
       runVars
  <2> QED
    BY <1>0, <2>1, Stutter DEF IsDone
<1>2. ASSUME NEW r \in Request, Unadmitted(r) PROVE UNCHANGED <<BusyWith, saved>>
  BY <1>0, <1>2, UnadmittedStays, Stutter
     DEF IsDone, Goto, TypeReq, TypeHub, Finished, Refused, runVars
<1>3. ASSUME NEW r \in Request, Begin(r)
      PROVE  Promise!Next \/ UNCHANGED <<BusyWith, saved>>
  <2>1. CASE Running(conv[r])
    BY <1>0, <1>3, <2>1, Stutter
       DEF Begin, IsDone, Goto, TypeReq, TypeHub, Finished, runVars
  <2>2. CASE ~Running(conv[r])
    <3>1. /\ conv[r] \in Session /\ r \notin saved /\ UNCHANGED saved
          /\ BusyWith[conv[r]] = None
      BY <1>0, <1>3, <2>2 DEF Begin, SavedAfterPersist, Finished, TypeReq, BusyWith, runVars
    <3>2. \A s \in Session : s # conv[r] => BusyWith'[s] = BusyWith[s]
      BY <1>0, <1>3, <2>2 DEF Begin, BusyWith, Running, IsDone, Goto, HubOwnsItsTurns,
                              TypeReq, TypeHub, Active, Finished
    <3>3. BusyWith'[conv[r]] = r
      BY <1>0, <1>3, <2>2, TurnHubAssumption
         DEF Begin, BusyWith, Running, IsDone, Goto, TypeReq, TypeHub, Finished
    <3>4. BusyWith' = [BusyWith EXCEPT ![conv[r]] = r]
      BY <3>1, <3>2, <3>3 DEF BusyWith
    <3>5. Promise!Admit(conv[r], r)
      BY <3>1, <3>4 DEF Promise!Admit, BusyWith
    <3> QED
      BY <3>1, <3>5 DEF Promise!Next
  <2> QED
    BY <2>1, <2>2
<1>4. ASSUME NEW r \in Request, Launch(r) \/ RunReturns(r) \/ Settle(r) \/ Leave(r)
      PROVE  UNCHANGED <<BusyWith, saved>>
  <2>1. /\ UNCHANGED <<turns, saved>>
        /\ \E stage \in {"running", "returned", "settled", "left"} :
             Goto(r, stage) /\ (stage = "left" <=> pc[r] = "done")
        /\ pc[r] \in {"begun", "running", "returned", "done"}
    BY <1>4 DEF Launch, RunReturns, Settle, Leave, runVars, hubVars
  <2> QED
    BY <1>0, <2>1, Stutter DEF IsDone, Goto, TypeReq, TypeHub, Finished
<1>5. ASSUME NEW r \in Request, Persist(r)
      PROVE  Promise!Next \/ UNCHANGED <<BusyWith, saved>>
  <2>1. /\ UNCHANGED turns /\ pc[r] = "settled" /\ pc' = [pc EXCEPT ![r] = "stored"]
        /\ saved' = saved \/ saved' = saved \cup {r}
    BY <1>5 DEF Persist, Insert, Storable, Goto, hubVars
  <2>2. UNCHANGED BusyWith
    BY <1>0, <2>1 DEF BusyWith, Running, IsDone, TypeReq, TypeHub, Finished
  <2>3. conv[r] \in Session /\ BusyWith[conv[r]] = r /\ r # None /\ r \notin saved
    BY <1>0, <2>1, TurnHubAssumption
       DEF BusyWith, Running, IsDone, LiveTurnIsTheOneFound, SavedAfterPersist, Active,
           Finished, TypeReq, TypeHub
  <2>4. CASE saved' = saved \cup {r}
    <3>1. Promise!Answer(conv[r])
      BY <2>2, <2>3, <2>4 DEF Promise!Answer, BusyWith
    <3> QED
      BY <2>3, <3>1 DEF Promise!Next
  <2> QED
    BY <2>1, <2>2, <2>4
<1>6. ASSUME NEW r \in Request, Finish(r) PROVE Promise!Next
  <2>1. /\ UNCHANGED <<turns, conv, saved>> /\ pc[r] = "stored"
        /\ pc' = [pc EXCEPT ![r] = "done"]
    BY <1>6 DEF Finish, Goto, hubVars, runVars
  <2>2. /\ conv[r] \in Session /\ turns[conv[r]] = r /\ r # None
        /\ BusyWith[conv[r]] = r
    BY <1>0, <2>1, TurnHubAssumption
       DEF BusyWith, Running, IsDone, LiveTurnIsTheOneFound, Active, Finished, TypeReq, TypeHub
  <2>3. \A s \in Session : s # conv[r] => BusyWith'[s] = BusyWith[s]
    BY <1>0, <2>1 DEF BusyWith, Running, IsDone, HubOwnsItsTurns, TypeReq, TypeHub
  <2>4. BusyWith'[conv[r]] = None
    BY <1>0, <2>1, <2>2 DEF BusyWith, Running, IsDone, Finished, TypeReq, TypeHub
  <2>5. BusyWith' = [BusyWith EXCEPT ![conv[r]] = None]
    BY <2>2, <2>3, <2>4 DEF BusyWith
  <2>6. \E s \in Session : Promise!Release(s)
    BY <2>1, <2>2, <2>5 DEF Promise!Release, BusyWith
  <2> QED
    BY <2>6 DEF Promise!Next
<1>7. ASSUME NEW r \in Request, Retire(r) PROVE UNCHANGED <<BusyWith, saved>>
  <2>1. /\ pc[r] = "left" /\ pc' = [pc EXCEPT ![r] = "retired"] /\ UNCHANGED saved
        /\ turns' = IF turns[conv[r]] = r THEN [turns EXCEPT ![conv[r]] = None] ELSE turns
    BY <1>7 DEF Retire, Goto, runVars
  <2>2. \A s \in Session : BusyWith'[s] = BusyWith[s]
    BY <1>0, <2>1, TurnHubAssumption DEF BusyWith, Running, IsDone, Finished, TypeReq, TypeHub
  <2> QED
    BY <2>1, <2>2 DEF BusyWith
<1>8. CASE Restart
  <2>1. UNCHANGED saved /\ turns' = [s \in Session |-> None]
    BY <1>8 DEF Restart
  <2>2. BusyWith' = [s \in Session |-> None]
    BY <2>1 DEF BusyWith, Running
  <2>3. Promise!Crash
    BY <2>1, <2>2 DEF Promise!Crash, BusyWith
  <2> QED
    BY <2>3 DEF Promise!Next
<1> QED
  BY <1>1, <1>2, <1>3, <1>4, <1>5, <1>6, <1>7, <1>8, NextCases DEF TurnStep

\* The server keeps the promise of module Conversation: one turn at a time, its
\* answer stored once and only while the conversation is busy with it.
THEOREM PromiseKept == Spec => KeepsPromise
<1>1. Init => Promise!Init
  BY DEF Init, Promise!Init, Running
<1> QED
  BY <1>1, PromiseStep, Invariance, PTL DEF Spec, KeepsPromise, Promise!Spec

(***************************************************************************)
(* The stream.                                                             *)
(***************************************************************************)

-----------------------------------------------------------------------------
(* Numbers.                                                                *)

\* A set of numbers up to m that is not empty has a least one.
LEMMA LeastUpTo ==
  ASSUME NEW m \in Nat, NEW S \in SUBSET (0 .. m), S # {}
  PROVE  \E x \in S : \A y \in S : x <= y
<1> DEFINE Upto(x) == {y \in S : y <= x}
           Sets == {Upto(x) : x \in S}
<1>0. IsFiniteSet(S)
  <2>1. S \in SUBSET Nat /\ \A x \in S : x <= m
    OBVIOUS
  <2> QED
    BY <2>1, FS_BoundedSetOfNaturals
<1>1. Sets \subseteq FiniteSubsetsOf(S) /\ Sets # {}
  <2>1. \A x \in S : Upto(x) \subseteq S /\ IsFiniteSet(Upto(x))
    BY <1>0, FS_Subset
  <2> QED
    BY <2>1 DEF FiniteSubsetsOf
<1>2. IsWellFoundedOn(StrictSubsetOrdering(S), FiniteSubsetsOf(S))
  BY FS_StrictSubsetOrderingWellFounded
<1> HIDE DEF Sets
<1>3. PICK d \in Sets : \A e \in Sets : <<e, d>> \notin StrictSubsetOrdering(S)
  BY <1>1, <1>2, WFMin
<1>4. PICK x \in S : d = Upto(x)
  BY DEF Sets
<1>5. ASSUME NEW y \in S, ~ (x <= y) PROVE FALSE
  <2>1. x \in Nat /\ y \in Nat /\ y < x
    BY <1>5
  <2>2. Upto(y) \subseteq Upto(x)
    <3>1. \A z \in S : z <= y => z <= x
      BY <2>1
    <3> QED
      BY <3>1
  <2>3. x \in Upto(x) /\ x \notin Upto(y)
    <3>1. ~ (x <= y) /\ x <= x
      BY <2>1
    <3> QED
      BY <3>1
  <2>4. <<Upto(y), Upto(x)>> \in StrictSubsetOrdering(S)
    BY <2>2, <2>3 DEF StrictSubsetOrdering
  <2>5. Upto(y) \in Sets
    BY DEF Sets
  <2> QED
    BY <1>3, <1>4, <2>4, <2>5
<1> QED
  BY <1>5

\* What holds of 0, and of a number if of the one before it, holds of all up to m.
LEMMA AllUpTo ==
  ASSUME NEW m \in Nat, NEW S \in SUBSET (0 .. m), 0 \in S,
         \A n \in 1 .. m : n - 1 \in S => n \in S
  PROVE  S = 0 .. m
<1> DEFINE Rest == (0 .. m) \ S
<1>1. SUFFICES ASSUME Rest # {} PROVE FALSE
  <2>1. Rest = {} => \A x \in 0 .. m : x \in S
    OBVIOUS
  <2> QED
    BY <2>1
<1>2. PICK x \in Rest : \A y \in Rest : x <= y
  <2>1. Rest \in SUBSET (0 .. m)
    OBVIOUS
  <2> HIDE DEF Rest
  <2> QED
    BY <1>1, <2>1, LeastUpTo
<1>3. x \in 0 .. m /\ x # 0 /\ x \notin S
  OBVIOUS
<1>4. x \in 1 .. m /\ x - 1 \in 0 .. m /\ ~ (x <= x - 1)
  BY <1>3, SMT
<1>5. x - 1 \in S
  BY <1>2, <1>4
<1> QED
  BY <1>3, <1>4, <1>5

-----------------------------------------------------------------------------
(* Sequences of sequences, one after the other.                            *)

\* The step of the recursion in FlattenSeq, as a function of what came of the fewer.
Joining(seqs, f) ==
  [i \in 1 .. Len(seqs) |-> IF i = 1 THEN seqs[i] ELSE f[i - 1] \o seqs[i]]

Joins(seqs) == CHOOSE f : f = Joining(seqs, f)

\* There is such a function for every list of sequences.
LEMMA JoinsIsDefined ==
  ASSUME NEW X, NEW seqs \in Seq(X), seqs # <<>>
  PROVE  /\ Joins(seqs)[1] = seqs[1]
         /\ \A i \in 2 .. Len(seqs) : Joins(seqs)[i] = Joins(seqs)[i - 1] \o seqs[i]
<1> DEFINE N == Len(seqs) - 1
           Good(g, m) == \A n \in 0 .. m :
             g[n] = IF n = 0 THEN seqs[1] ELSE g[n - 1] \o seqs[n + 1]
           S == {m \in 0 .. N : \E g : Good(g, m)}
<1>0. N \in Nat /\ Len(seqs) \in Nat /\ 1 .. Len(seqs) = 1 .. N + 1
  OBVIOUS
<1>1. 0 \in S
  <2>1. \A n \in 0 .. 0 : n = 0
    OBVIOUS
  <2> DEFINE g == [n \in {0} |-> seqs[1]]
  <2>2. g[0] = seqs[1]
    OBVIOUS
  <2>3. Good(g, 0)
    <3> HIDE DEF g
    <3> QED
      BY <2>1, <2>2
  <2>4. 0 \in 0 .. N
    BY <1>0
  <2> HIDE DEF g, Good, N
  <2> QED
    BY <2>3, <2>4
<1>2. ASSUME NEW n \in 1 .. N, n - 1 \in S PROVE n \in S
  <2> HIDE DEF N
  <2>1. PICK g : Good(g, n - 1)
    BY <1>2
  <2> DEFINE both == g[n - 1] \o seqs[n + 1]
             h == [k \in 0 .. n |-> IF k = n THEN both ELSE g[k]]
  <2>2. n \in Nat /\ n # 0 /\ n - 1 \in 0 .. n /\ n - 1 # n
    BY <1>0
  <2>3. h[n] = h[n - 1] \o seqs[n + 1]
    <3>1. h[n - 1] = g[n - 1] /\ h[n] = both
      <4> HIDE DEF both
      <4> QED
        BY <2>2
    <3> HIDE DEF h
    <3> QED
      BY <3>1
  <2>4. ASSUME NEW k \in 0 .. n, k # n
        PROVE  h[k] = IF k = 0 THEN seqs[1] ELSE h[k - 1] \o seqs[k + 1]
    <3>1. k \in 0 .. n - 1 /\ h[k] = g[k]
      BY <2>2, <2>4
    <3>2. k # 0 => (k - 1 \in 0 .. n /\ k - 1 # n)
      BY <2>2, <2>4
    <3>3. k # 0 => h[k - 1] = g[k - 1]
      BY <3>2
    <3> HIDE DEF h
    <3> QED
      BY <2>1, <3>1, <3>3
  <2>5. Good(h, n)
    <3> HIDE DEF h
    <3> QED
      BY <2>2, <2>3, <2>4
  <2> HIDE DEF h, Good
  <2> QED
    BY <2>5, <1>0
<1>3. S = 0 .. N
  <2>1. S \in SUBSET (0 .. N)
    OBVIOUS
  <2> HIDE DEF S, N
  <2> QED
    BY <1>0, <1>1, <1>2, <2>1, AllUpTo
<1>4. PICK g : Good(g, N)
  <2>1. N \in S
    <3> HIDE DEF S, N
    <3> QED
      BY <1>3, <1>0
  <2> QED
    BY <2>1
<1> DEFINE f == [i \in 1 .. Len(seqs) |-> g[i - 1]]
<1>5. f = Joining(seqs, f)
  <2>1. ASSUME NEW i \in 1 .. Len(seqs)
        PROVE  f[i] = IF i = 1 THEN seqs[i] ELSE f[i - 1] \o seqs[i]
    <3>1. /\ i - 1 \in 0 .. N /\ (i - 1) + 1 = i /\ (i = 1 <=> i - 1 = 0)
          /\ (i # 1 => i - 1 \in 1 .. Len(seqs))
      BY <1>0
    <3>2. f[i] = g[i - 1] /\ (i # 1 => f[i - 1] = g[(i - 1) - 1])
      BY <3>1
    <3>3. g[i - 1] = IF i - 1 = 0 THEN seqs[1] ELSE g[(i - 1) - 1] \o seqs[(i - 1) + 1]
      BY <1>4, <3>1
    <3> HIDE DEF f
    <3> QED
      BY <3>1, <3>2, <3>3
  <2>2. f = [i \in 1 .. Len(seqs) |-> f[i]]
    OBVIOUS
  <2> HIDE DEF f
  <2> QED
    BY <2>1, <2>2 DEF Joining
<1>6. Joins(seqs) = Joining(seqs, Joins(seqs))
  <2> HIDE DEF f
  <2> QED
    BY <1>5 DEF Joins
<1>7. \A i \in 1 .. Len(seqs) :
         Joins(seqs)[i] = IF i = 1 THEN seqs[i] ELSE Joins(seqs)[i - 1] \o seqs[i]
  <2> DEFINE J == Joins(seqs)
  <2>1. \A i \in 1 .. Len(seqs) :
           Joining(seqs, J)[i] = IF i = 1 THEN seqs[i] ELSE J[i - 1] \o seqs[i]
    BY DEF Joining
  <2> HIDE DEF J
  <2>2. J = Joining(seqs, J)
    BY <1>6 DEF J
  <2>3. \A i \in 1 .. Len(seqs) : J[i] = IF i = 1 THEN seqs[i] ELSE J[i - 1] \o seqs[i]
    BY <2>1, <2>2
  <2> QED
    BY <2>3 DEF J
<1>8. 1 \in 1 .. Len(seqs) /\ \A i \in 2 .. Len(seqs) : i \in 1 .. Len(seqs) /\ i # 1
  BY <1>0
<1> QED
  BY <1>7, <1>8

\* What FlattenSeq is.
LEMMA FlattenIsJoins ==
  ASSUME NEW X, NEW seqs \in Seq(X)
  PROVE  FlattenSeq(seqs) = IF seqs = <<>> THEN <<>> ELSE Joins(seqs)[Len(seqs)]
<1>1. (Len(seqs) = 0) <=> (seqs = <<>>)
  OBVIOUS
<1> QED
  BY <1>1 DEF FlattenSeq, Joins, Joining

\* One more sequence goes to the end of what the others make.
LEMMA FlattenOneMore ==
  ASSUME NEW X, NEW seqs \in Seq(Seq(X)), NEW s \in Seq(X)
  PROVE  /\ FlattenSeq(seqs) \in Seq(X)
         /\ FlattenSeq(Append(seqs, s)) = FlattenSeq(seqs) \o s
<1> DEFINE N == Len(seqs)
           more == Append(seqs, s)
           J == Joins(seqs)
           M == Joins(more)
<1>0. /\ N \in Nat /\ more \in Seq(Seq(X)) /\ Len(more) = N + 1 /\ more # <<>>
      /\ more[N + 1] = s /\ \A i \in 1 .. N : more[i] = seqs[i]
  BY AppendProperties
<1>1. M[1] = more[1] /\ \A i \in 2 .. N + 1 : M[i] = M[i - 1] \o more[i]
  BY <1>0, JoinsIsDefined
<1>2. FlattenSeq(more) = M[N + 1]
  BY <1>0, FlattenIsJoins
<1>3. CASE seqs = <<>>
  <2>1. N = 0 /\ FlattenSeq(seqs) = <<>>
    BY <1>3, FlattenIsJoins
  <2>2. M[N + 1] = s
    BY <1>0, <1>1, <2>1
  <2>3. <<>> \o s = s /\ <<>> \in Seq(X)
    OBVIOUS
  <2> HIDE DEF M, more
  <2>4. FlattenSeq(more) = FlattenSeq(seqs) \o s
    BY <1>2, <2>1, <2>2, <2>3
  <2> QED
    BY <2>1, <2>3, <2>4 DEF more
<1>4. CASE seqs # <<>>
  <2>1. N >= 1 /\ 1 \in 1 .. N
    BY <1>4
  <2>2. J[1] = seqs[1] /\ \A i \in 2 .. N : J[i] = J[i - 1] \o seqs[i]
    BY <1>4, JoinsIsDefined
  <2>3. FlattenSeq(seqs) = J[N]
    BY <1>4, FlattenIsJoins
  <2> DEFINE S == {m \in 0 .. N : m # 0 => M[m] = J[m] /\ J[m] \in Seq(X)}
  <2>4. ASSUME NEW m \in 1 .. N, m - 1 \in S PROVE m \in S
    <3>1. m \in 0 .. N /\ m # 0 /\ seqs[m] \in Seq(X) /\ more[m] = seqs[m]
      BY <1>0
    <3> HIDE DEF M, J
    <3>2. CASE m = 1
      <4>1. M[m] = J[m] /\ J[m] \in Seq(X)
        BY <1>1, <2>2, <3>1, <3>2
      <4> QED
        BY <3>1, <4>1
    <3>3. CASE m # 1
      <4>1. m \in 2 .. N /\ m \in 2 .. N + 1 /\ m - 1 # 0
        BY <1>0, <3>1, <3>3
      <4>2. M[m - 1] = J[m - 1] /\ J[m - 1] \in Seq(X)
        BY <2>4, <4>1
      <4>3. M[m] = M[m - 1] \o more[m] /\ J[m] = J[m - 1] \o seqs[m]
        BY <1>1, <2>2, <4>1
      <4>4. M[m] = J[m] /\ J[m] \in Seq(X)
        BY <3>1, <4>2, <4>3
      <4> QED
        BY <3>1, <4>4
    <3> QED
      BY <3>2, <3>3
  <2>5. 0 \in S /\ S \in SUBSET (0 .. N)
    BY <1>0
  <2>6. S = 0 .. N
    <3> HIDE DEF S, N
    <3> QED
      BY <1>0, <2>4, <2>5, AllUpTo
  <2> HIDE DEF M, J
  <2>7. M[N] = J[N] /\ J[N] \in Seq(X)
    <3>1. N \in S /\ N # 0
      <4> HIDE DEF S, N
      <4> QED
        BY <1>0, <2>1, <2>6
    <3> QED
      BY <3>1
  <2>8. M[N + 1] = M[N] \o s
    <3>1. N + 1 \in 2 .. N + 1 /\ (N + 1) - 1 = N
      BY <1>0, <2>1
    <3> QED
      BY <1>0, <1>1, <3>1
  <2> QED
    BY <1>2, <2>3, <2>7, <2>8
<1> QED
  BY <1>3, <1>4

-----------------------------------------------------------------------------
(* Events, the log and what is read from it.                               *)

\* Two events that read alike.
Alike(e, d) == e.kind = d.kind /\ e.text = d.text

\* A delta's text can be given to it whole.
WithText(e, text) == [e EXCEPT !.text = text]

\* The fields of an event.
LEMMA PieceFields ==
  ASSUME NEW e \in PieceType
  PROVE  /\ e.kind \in Kind /\ e.text \in Seq(0 .. MaxChunks)
         /\ \A text \in Seq(0 .. MaxChunks) :
              /\ WithText(e, text) \in PieceType
              /\ WithText(e, text).kind = e.kind /\ WithText(e, text).text = text
              /\ WithText(e, text).step = e.step /\ WithText(e, text).parent = e.parent
              /\ WithText(e, text).call = e.call
  BY DEF PieceType, WithText

\* The pieces of an event are events.
LEMMA PiecesAreEvents ==
  ASSUME NEW e \in PieceType
  PROVE  /\ Pieces(e) \in Seq(PieceType)
         /\ e.kind \in Delta =>
              /\ Len(Pieces(e)) = Len(e.text)
              /\ \A i \in 1 .. Len(e.text) :
                   Pieces(e)[i] = WithText(e, <<e.text[i]>>)
         /\ e.kind \notin Delta => Pieces(e) = <<e>>
<1> DEFINE X == 0 .. MaxChunks
<1>0. e.text \in Seq(X)
  BY PieceFields
<1>1. CASE e.kind \in Delta
  <2> DEFINE p == [i \in DOMAIN e.text |-> WithText(e, <<e.text[i]>>)]
  <2>1. Pieces(e) = p
    BY <1>1 DEF Pieces, WithText
  <2>2. DOMAIN e.text = 1 .. Len(e.text) /\ Len(e.text) \in Nat
    <3> HIDE DEF X
    <3> QED
      BY <1>0
  <2>3. ASSUME NEW i \in 1 .. Len(e.text)
        PROVE  WithText(e, <<e.text[i]>>) \in PieceType
    <3>1. <<e.text[i]>> \in Seq(X)
      <4> HIDE DEF X
      <4>1. e.text[i] \in X
        BY <1>0, ElementOfSeq
      <4> QED
        BY <4>1
    <3> QED
      BY <3>1, PieceFields
  <2>4. p \in Seq(PieceType)
    BY <2>2, <2>3, IsASeq
  <2>5. DOMAIN p = 1 .. Len(e.text)
    BY <2>2
  <2>6. Len(p) = Len(e.text)
    BY <2>2, <2>5
  <2>7. \A i \in 1 .. Len(e.text) : p[i] = WithText(e, <<e.text[i]>>)
    BY <2>2
  <2> HIDE DEF p
  <2> QED
    BY <1>1, <2>1, <2>4, <2>6, <2>7
<1>2. CASE e.kind \notin Delta
  <2>1. Pieces(e) = <<e>>
    BY <1>2 DEF Pieces
  <2> QED
    BY <1>2, <2>1
<1> QED
  BY <1>1, <1>2

\* The pieces of a delta with a text of its own.
LEMMA DeltaPieces ==
  ASSUME NEW e \in PieceType, e.kind \in Delta,
         NEW t \in Seq(0 .. MaxChunks)
  PROVE  /\ Pieces(WithText(e, t)) \in Seq(PieceType)
         /\ Len(Pieces(WithText(e, t))) = Len(t)
         /\ \A i \in 1 .. Len(t) :
              Pieces(WithText(e, t))[i] = WithText(e, <<t[i]>>)
<1> DEFINE d == WithText(e, t)
<1>1. d \in PieceType /\ d.kind \in Delta /\ d.text = t
  BY PieceFields
<1>2. \A v : WithText(d, v) = WithText(e, v)
  BY DEF WithText, PieceType
<1> HIDE DEF d
<1>3. /\ Pieces(d) \in Seq(PieceType)
      /\ Len(Pieces(d)) = Len(d.text)
      /\ \A i \in 1 .. Len(d.text) : Pieces(d)[i] = WithText(d, <<d.text[i]>>)
  BY <1>1, PiecesAreEvents
<1>4. \A i \in 1 .. Len(t) : Pieces(d)[i] = WithText(e, <<t[i]>>)
  BY <1>1, <1>2, <1>3
<1> QED
  BY <1>1, <1>3, <1>4 DEF d

\* The pieces of a delta that has grown are the old ones and the new ones.
LEMMA PiecesGrow ==
  ASSUME NEW e \in PieceType, e.kind \in Delta,
         NEW t \in Seq(0 .. MaxChunks), NEW u \in Seq(0 .. MaxChunks)
  PROVE  Pieces(WithText(e, t \o u)) =
           Pieces(WithText(e, t)) \o Pieces(WithText(e, u))
<1> DEFINE a == Pieces(WithText(e, t))
           b == Pieces(WithText(e, u))
           c == Pieces(WithText(e, t \o u))
           X == 0 .. MaxChunks
<1>1. t \o u \in Seq(X) /\ Len(t \o u) = Len(t) + Len(u)
  <2> HIDE DEF X
  <2>1. t \in Seq(X) /\ u \in Seq(X)
    BY DEF X
  <2> QED
    BY <2>1, ConcatProperties
<1>2. /\ a \in Seq(PieceType) /\ Len(a) = Len(t)
      /\ \A i \in 1 .. Len(t) : a[i] = WithText(e, <<t[i]>>)
  BY DeltaPieces
<1>3. /\ b \in Seq(PieceType) /\ Len(b) = Len(u)
      /\ \A i \in 1 .. Len(u) : b[i] = WithText(e, <<u[i]>>)
  BY DeltaPieces
<1>4. /\ c \in Seq(PieceType) /\ Len(c) = Len(t \o u)
      /\ \A i \in 1 .. Len(t \o u) : c[i] = WithText(e, <<(t \o u)[i]>>)
  BY <1>1, DeltaPieces
<1> HIDE DEF a, b, c
<1>6. Len(t) \in Nat /\ Len(u) \in Nat
  OBVIOUS
<1>7. a \o b \in Seq(PieceType) /\ Len(a \o b) = Len(t) + Len(u)
  <2>1. Len(a \o b) = Len(a) + Len(b) /\ a \o b \in Seq(PieceType)
    BY <1>2, <1>3, ConcatProperties
  <2> QED
    BY <1>2, <1>3, <2>1
<1>8. ASSUME NEW i \in 1 .. Len(t) + Len(u) PROVE c[i] = (a \o b)[i]
  <2>1. CASE i <= Len(t)
    <3>1. i \in 1 .. Len(t) /\ (t \o u)[i] = t[i]
      BY <1>6, <2>1, ConcatProperties
    <3>2. (a \o b)[i] = a[i]
      BY <1>2, <1>3, <1>6, <2>1, ConcatProperties
    <3> QED
      BY <1>1, <1>2, <1>4, <3>1, <3>2
  <2>2. CASE i > Len(t)
    <3>1. i - Len(t) \in 1 .. Len(u) /\ (t \o u)[i] = u[i - Len(t)]
      BY <1>6, <2>2, ConcatProperties
    <3>2. (a \o b)[i] = b[i - Len(t)]
      BY <1>2, <1>3, <1>6, <2>2, ConcatProperties
    <3> QED
      BY <1>1, <1>3, <1>4, <3>1, <3>2
  <2>3. i \in Nat /\ (i <= Len(t) \/ i > Len(t))
    BY <1>6
  <2> QED
    BY <2>1, <2>2, <2>3
<1>9. c = a \o b
  BY <1>1, <1>4, <1>7, <1>8, SeqEqual
<1> QED
  BY <1>9 DEF a, b, c

\* The log as pieces: one more event adds its pieces.
LEMMA FlatOneMore ==
  ASSUME NEW s \in Seq(PieceType), NEW e \in PieceType
  PROVE  /\ Flat(s) \in Seq(PieceType)
         /\ Flat(Append(s, e)) = Flat(s) \o Pieces(e)
<1> DEFINE cut(q) == [i \in DOMAIN q |-> Pieces(q[i])]
           p == cut(s)
           n == Append(s, e)
<1>0. /\ Len(s) \in Nat /\ DOMAIN s = 1 .. Len(s) /\ n \in Seq(PieceType)
      /\ Len(n) = Len(s) + 1 /\ DOMAIN n = 1 .. Len(s) + 1
      /\ n[Len(s) + 1] = e /\ \A i \in 1 .. Len(s) : n[i] = s[i]
  BY AppendProperties
<1>1. p \in Seq(Seq(PieceType))
  <2>1. \A i \in 1 .. Len(s) : Pieces(s[i]) \in Seq(PieceType)
    BY PiecesAreEvents
  <2> QED
    BY <1>0, <2>1, IsASeq
<1>2. Len(p) = Len(s) /\ \A i \in 1 .. Len(s) : p[i] = Pieces(s[i])
  BY <1>0
<1>3. cut(n) \in Seq(Seq(PieceType))
  <2>1. \A i \in 1 .. Len(n) : Pieces(n[i]) \in Seq(PieceType)
    BY <1>0, PiecesAreEvents, ElementOfSeq
  <2>2. DOMAIN n = 1 .. Len(n) /\ Len(n) \in Nat
    BY <1>0
  <2> HIDE DEF n
  <2> QED
    BY <2>1, <2>2, IsASeq
<1>4. Len(cut(n)) = Len(s) + 1 /\ \A i \in 1 .. Len(s) + 1 : cut(n)[i] = Pieces(n[i])
  <2> HIDE DEF n
  <2> QED
    BY <1>0
<1>5. Pieces(e) \in Seq(PieceType)
  BY PiecesAreEvents
<1>6. cut(n) = Append(p, Pieces(e))
  <2> DEFINE c == cut(n)
             a == Append(p, Pieces(e))
  <2>1. a \in Seq(Seq(PieceType)) /\ Len(a) = Len(s) + 1
    BY <1>1, <1>2, <1>5, AppendProperties
  <2>2. a[Len(s) + 1] = Pieces(e) /\ \A i \in 1 .. Len(s) : a[i] = p[i]
    BY <1>1, <1>2, <1>5, AppendProperties
  <2>3. c \in Seq(Seq(PieceType)) /\ Len(c) = Len(s) + 1
        /\ \A i \in 1 .. Len(s) + 1 : c[i] = Pieces(n[i])
    BY <1>3, <1>4
  <2> HIDE DEF a, c, p, n
  <2>4. ASSUME NEW i \in 1 .. Len(s) + 1 PROVE c[i] = a[i]
    <3>1. CASE i = Len(s) + 1
      BY <1>0, <2>2, <2>3, <3>1
    <3>2. CASE i # Len(s) + 1
      <4>1. i \in 1 .. Len(s)
        BY <1>0, <3>2
      <4> QED
        BY <1>0, <1>2, <2>2, <2>3, <4>1
    <3> QED
      BY <3>1, <3>2
  <2>5. c = a
    BY <2>1, <2>3, <2>4, SeqEqual
  <2> QED
    BY <2>5 DEF a, c
<1>7. Flat(s) = FlattenSeq(p) /\ Flat(n) = FlattenSeq(cut(n))
  BY DEF Flat
<1> HIDE DEF p, cut, n
<1>8. /\ FlattenSeq(p) \in Seq(PieceType)
      /\ FlattenSeq(Append(p, Pieces(e))) =
           FlattenSeq(p) \o Pieces(e)
  BY <1>1, <1>5, FlattenOneMore
<1> QED
  BY <1>6, <1>7, <1>8 DEF n

\* The pieces of nothing and of one event.
LEMMA FlatOfOne ==
  /\ Flat(<<>>) = <<>>
  /\ \A e \in PieceType : Flat(<<e>>) = Pieces(e)
<1>1. Flat(<<>>) = <<>>
  BY DEF Flat, FlattenSeq
<1>2. ASSUME NEW e \in PieceType PROVE Flat(<<e>>) = Pieces(e)
  <2>1. <<>> \in Seq(PieceType) /\ Append(<<>>, e) = <<e>>
    OBVIOUS
  <2>2. Flat(<<e>>) = <<>> \o Pieces(e)
    BY <1>1, <2>1, FlatOneMore
  <2>3. Pieces(e) \in Seq(PieceType)
    BY PiecesAreEvents
  <2> QED
    BY <2>2, <2>3, ConcatEmptySeq
<1> QED
  BY <1>1, <1>2

\* Words of one list after another.
LEMMA WordsJoin ==
  ASSUME NEW p \in Seq(PieceType), NEW q \in Seq(PieceType)
  PROVE  /\ Words(p \o q) = Words(p) \o Words(q)
         /\ Len(Words(p)) = Len(p)
         /\ \A i \in 1 .. Len(p) :
              Words(p)[i] = [kind |-> p[i].kind, text |-> p[i].text]
         /\ Words(p) \in Seq([kind : Kind, text : Seq(0 .. MaxChunks)])
<1> DEFINE W == [kind : Kind, text : Seq(0 .. MaxChunks)]
           word(e) == [kind |-> e.kind, text |-> e.text]
<1>1. ASSUME NEW s \in Seq(PieceType)
      PROVE  /\ Words(s) \in Seq(W) /\ Len(Words(s)) = Len(s)
             /\ \A i \in 1 .. Len(s) : Words(s)[i] = word(s[i])
  <2> DEFINE v == [i \in DOMAIN s |-> word(s[i])]
  <2>1. DOMAIN s = 1 .. Len(s) /\ Len(s) \in Nat
    OBVIOUS
  <2>2. \A i \in 1 .. Len(s) : word(s[i]) \in W
    BY PieceFields, ElementOfSeq
  <2> HIDE DEF word, W
  <2>3. v \in Seq(W)
    BY <2>1, <2>2, IsASeq
  <2>4. Len(v) = Len(s) /\ \A i \in 1 .. Len(s) : v[i] = word(s[i])
    BY <2>1
  <2>5. Words(s) = v
    BY DEF Words, word
  <2> HIDE DEF v
  <2> QED
    BY <2>3, <2>4, <2>5
<1>2. p \o q \in Seq(PieceType)
  BY ConcatProperties
<1> DEFINE a == Words(p)
           b == Words(q)
           c == Words(p \o q)
<1>3. a \in Seq(W) /\ b \in Seq(W) /\ c \in Seq(W)
  BY <1>1, <1>2
<1>4. Len(a) = Len(p) /\ Len(b) = Len(q) /\ Len(c) = Len(p \o q)
  BY <1>1, <1>2
<1>5. Len(p \o q) = Len(p) + Len(q) /\ Len(p) \in Nat /\ Len(q) \in Nat
  BY ConcatProperties
<1>6. /\ \A i \in 1 .. Len(p) : a[i] = word(p[i])
      /\ \A i \in 1 .. Len(q) : b[i] = word(q[i])
      /\ \A i \in 1 .. Len(p) + Len(q) : c[i] = word((p \o q)[i])
  BY <1>1, <1>2, <1>5
<1> HIDE DEF a, b, c, word, W
<1>7. a \o b \in Seq(W) /\ Len(a \o b) = Len(p) + Len(q)
  BY <1>3, <1>4, ConcatProperties
<1>8. ASSUME NEW i \in 1 .. Len(p) + Len(q) PROVE c[i] = (a \o b)[i]
  <2>1. CASE i <= Len(p)
    <3>1. i \in 1 .. Len(p) /\ (p \o q)[i] = p[i]
      BY <1>5, <2>1, ConcatProperties
    <3>2. (a \o b)[i] = a[i]
      BY <1>3, <1>4, <1>5, <2>1, ConcatProperties
    <3> QED
      BY <1>6, <3>1, <3>2
  <2>2. CASE i > Len(p)
    <3>1. i - Len(p) \in 1 .. Len(q) /\ (p \o q)[i] = q[i - Len(p)]
      BY <1>5, <2>2, ConcatProperties
    <3>2. (a \o b)[i] = b[i - Len(p)]
      BY <1>3, <1>4, <1>5, <2>2, ConcatProperties
    <3> QED
      BY <1>6, <3>1, <3>2
  <2>3. i \in Nat /\ (i <= Len(p) \/ i > Len(p))
    BY <1>5
  <2> QED
    BY <2>1, <2>2, <2>3
<1>9. c = a \o b
  BY <1>3, <1>4, <1>5, <1>7, <1>8, SeqEqual
<1> QED
  BY <1>3, <1>4, <1>6, <1>9 DEF a, b, c, word, W

\* Events that read alike have the same words in pieces.
LEMMA AlikeInWords ==
  ASSUME NEW e \in PieceType, NEW d \in PieceType, Alike(e, d)
  PROVE  Words(Pieces(e)) = Words(Pieces(d))
<1> DEFINE p == Pieces(e)
           q == Pieces(d)
<1>1. e.kind = d.kind /\ e.text = d.text
  BY DEF Alike
<1>2. p \in Seq(PieceType) /\ q \in Seq(PieceType)
  BY PiecesAreEvents
<1>3. Len(p) = Len(q) /\ \A i \in 1 .. Len(p) : p[i].kind = q[i].kind /\ p[i].text = q[i].text
  <2>1. CASE e.kind \in Delta
    <3>1. Len(p) = Len(e.text) /\ Len(q) = Len(e.text)
      BY <1>1, <2>1, PiecesAreEvents
    <3>2. ASSUME NEW i \in 1 .. Len(e.text)
          PROVE  p[i].kind = q[i].kind /\ p[i].text = q[i].text
      <4>1. p[i] = WithText(e, <<e.text[i]>>) /\ q[i] = WithText(d, <<e.text[i]>>)
        BY <1>1, <2>1, PiecesAreEvents
      <4>2. e.text[i] \in 0 .. MaxChunks
        BY PieceFields, ElementOfSeq
      <4>3. <<e.text[i]>> \in Seq(0 .. MaxChunks)
        BY <4>2
      <4>4. /\ WithText(e, <<e.text[i]>>).kind = e.kind
            /\ WithText(e, <<e.text[i]>>).text = <<e.text[i]>>
        BY <4>3, PieceFields
      <4>5. /\ WithText(d, <<e.text[i]>>).kind = d.kind
            /\ WithText(d, <<e.text[i]>>).text = <<e.text[i]>>
        BY <4>3, PieceFields
      <4> QED
        BY <1>1, <4>1, <4>4, <4>5
    <3> QED
      BY <3>1, <3>2
  <2>2. CASE e.kind \notin Delta
    <3>1. p = <<e>> /\ q = <<d>>
      BY <1>1, <2>2, PiecesAreEvents
    <3> QED
      BY <1>1, <3>1
  <2> QED
    BY <2>1, <2>2
<1> HIDE DEF p, q
<1> DEFINE v == Words(p)
           w == Words(q)
           W == [kind : Kind, text : Seq(0 .. MaxChunks)]
<1>4. /\ v \in Seq(W) /\ Len(v) = Len(p)
      /\ \A i \in 1 .. Len(p) : v[i] = [kind |-> p[i].kind, text |-> p[i].text]
  BY <1>2, WordsJoin
<1>5. /\ w \in Seq(W) /\ Len(w) = Len(q)
      /\ \A i \in 1 .. Len(q) : w[i] = [kind |-> q[i].kind, text |-> q[i].text]
  BY <1>2, WordsJoin
<1> HIDE DEF v, w, W
<1>6. \A i \in 1 .. Len(p) : v[i] = w[i]
  BY <1>3, <1>4, <1>5
<1>7. v = w
  BY <1>3, <1>4, <1>5, <1>6, SeqEqual
<1> QED
  BY <1>7 DEF v, w, p, q

\* What is left of a sequence after its first k elements, once more has been added.
LEMMA RestGrows ==
  ASSUME NEW X, NEW t \in Seq(X), NEW u \in Seq(X), NEW k \in 0 .. Len(t)
  PROVE  /\ SubSeq(t, k + 1, Len(t)) \in Seq(X)
         /\ SubSeq(t \o u, k + 1, Len(t \o u)) = SubSeq(t, k + 1, Len(t)) \o u
<1> DEFINE M == Len(t)
           N == Len(u)
           w == t \o u
           a == SubSeq(t, k + 1, M)
           c == SubSeq(w, k + 1, M + N)
<1>0. M \in Nat /\ N \in Nat /\ k \in Nat /\ k <= M
  OBVIOUS
<1>1. /\ w \in Seq(X) /\ Len(w) = M + N
      /\ \A i \in 1 .. M + N : w[i] = IF i <= M THEN t[i] ELSE u[i - M]
  BY ConcatProperties
<1> HIDE DEF w
<1>2. a \in Seq(X) /\ Len(a) = M - k /\ \A i \in 1 .. M - k : a[i] = t[k + i]
  <2>1. k + 1 \in Int /\ M \in Int /\ \A i \in k + 1 .. M : t[i] \in X
    BY <1>0, ElementOfSeq
  <2>2. /\ a \in Seq(X) /\ Len(a) = IF k + 1 <= M THEN M - (k + 1) + 1 ELSE 0
        /\ \A i \in 1 .. M - (k + 1) + 1 : a[i] = t[(k + 1) + i - 1]
    BY <2>1, SubSeqProperties
  <2>3. M - (k + 1) + 1 = M - k /\ (k + 1 <= M \/ M - k = 0)
    BY <1>0
  <2>4. \A i \in 1 .. M - k : (k + 1) + i - 1 = k + i
    BY <1>0
  <2> HIDE DEF a, M
  <2> QED
    BY <2>2, <2>3, <2>4
<1>3. /\ c \in Seq(X) /\ Len(c) = M + N - k
      /\ \A i \in 1 .. M + N - k : c[i] = w[k + i]
  <2>1. k + 1 \in Int /\ M + N \in Int /\ \A i \in k + 1 .. M + N : w[i] \in X
    <3> HIDE DEF M, N
    <3>1. \A i \in k + 1 .. M + N : i \in 1 .. Len(w)
      BY <1>0, <1>1
    <3>2. \A i \in k + 1 .. M + N : w[i] \in X
      BY <1>1, <3>1, ElementOfSeq
    <3> QED
      BY <1>0, <3>2
  <2>2. /\ c \in Seq(X) /\ Len(c) = IF k + 1 <= M + N THEN M + N - (k + 1) + 1 ELSE 0
        /\ \A i \in 1 .. M + N - (k + 1) + 1 : c[i] = w[(k + 1) + i - 1]
    <3> DEFINE P == M + N
    <3>1. P \in Int /\ k + 1 \in Int /\ \A i \in k + 1 .. P : w[i] \in X
      BY <2>1
    <3> HIDE DEF P
    <3>2. /\ SubSeq(w, k + 1, P) \in Seq(X)
          /\ Len(SubSeq(w, k + 1, P)) = IF k + 1 <= P THEN P - (k + 1) + 1 ELSE 0
          /\ \A i \in 1 .. P - (k + 1) + 1 : SubSeq(w, k + 1, P)[i] = w[(k + 1) + i - 1]
      BY <3>1, SubSeqProperties
    <3> QED
      BY <3>2 DEF P
  <2> HIDE DEF c, M, N
  <2>3. M + N - (k + 1) + 1 = M + N - k /\ (k + 1 <= M + N \/ M + N - k = 0)
    BY <1>0
  <2>4. \A i \in 1 .. M + N - k : (k + 1) + i - 1 = k + i
    BY <1>0
  <2> QED
    BY <2>2, <2>3, <2>4
<1>4. /\ a \o u \in Seq(X) /\ Len(a \o u) = Len(a) + Len(u)
      /\ \A i \in 1 .. Len(a) + Len(u) :
           (a \o u)[i] = IF i <= Len(a) THEN a[i] ELSE u[i - Len(a)]
  <2> HIDE DEF a
  <2> QED
    BY <1>2, ConcatProperties
<1> HIDE DEF a, c, M
<1>5. Len(a \o u) = M + N - k
  <2> HIDE DEF N
  <2>1. Len(a) = M - k /\ Len(a \o u) = Len(a) + N
    BY <1>2, <1>4 DEF N
  <2> QED
    BY <1>0, <2>1
<1>6. ASSUME NEW i \in 1 .. M + N - k PROVE c[i] = (a \o u)[i]
  <2> HIDE DEF N
  <2>1. /\ i \in Nat /\ k + i \in 1 .. M + N /\ i \in 1 .. (M - k) + N
        /\ (i <= M - k \/ i > M - k) /\ (i <= M - k <=> k + i <= M)
        /\ (i <= M - k => i \in 1 .. M - k) /\ (k + i) - M = i - (M - k)
    BY <1>0
  <2>2. c[i] = IF k + i <= M THEN t[k + i] ELSE u[(k + i) - M]
    BY <1>1, <1>3, <2>1
  <2>3. (a \o u)[i] = IF i <= M - k THEN a[i] ELSE u[i - (M - k)]
    <3>1. Len(a) = M - k /\ Len(u) = N
      BY <1>2 DEF N
    <3> QED
      BY <1>4, <2>1, <3>1
  <2> QED
    BY <1>2, <2>1, <2>2, <2>3
<1>7. c = a \o u
  <2> HIDE DEF N
  <2> QED
    BY <1>3, <1>4, <1>5, <1>6, SeqEqual
<1> QED
  BY <1>1, <1>2, <1>7 DEF a, c, w, M

\* The place of a cursor is one of the log's.
Fits(l, cur) ==
  /\ cur \in [index : 0 .. Len(l), offset : Nat]
  /\ cur.index > 0 /\ l[cur.index].kind \in Delta =>
       cur.offset <= Len(l[cur.index].text)

\* The tail of an entry, as the reader is handed it, without a text yet.
Handful(e) == Event(e.kind, e.step, NoCall, NoCall, <<>>)

\* It is an event of the same kind.
LEMMA HandfulIsEvent ==
  ASSUME NEW e \in PieceType
  PROVE  /\ Handful(e) \in PieceType /\ Handful(e).kind = e.kind
         /\ \A text : WithText(Handful(e), text) = Event(e.kind, e.step, NoCall, NoCall, text)
         /\ \A text \in Seq(0 .. MaxChunks) :
              e.parent = NoCall /\ e.call = NoCall =>
                WithText(Handful(e), text) = WithText(e, text)
  BY DEF Handful, Event, PieceType, WithText

\* The pieces that have grown on the entry a reader has begun.
LEMMA GrownPieces ==
  ASSUME NEW l \in Seq(PieceType), NEW cur, Fits(l, cur), cur.index > 0,
         l[cur.index].kind \in Delta
  PROVE  LET e == l[cur.index]
             rest == SubSeq(e.text, cur.offset + 1, Len(e.text))
         IN  /\ rest \in Seq(0 .. MaxChunks)
             /\ Flat(Grown(l, cur)) = Pieces(WithText(Handful(e), rest))
<1> DEFINE e == l[cur.index]
           X == 0 .. MaxChunks
           rest == SubSeq(e.text, cur.offset + 1, Len(e.text))
           h == Handful(e)
<1>1. e \in PieceType /\ cur.offset \in Nat /\ cur.offset <= Len(e.text)
  BY ElementOfSeq DEF Fits
<1> HIDE DEF e
<1>2. e.text \in Seq(X) /\ e.kind \in Delta
  BY <1>1, PieceFields DEF e
<1>3. rest \in Seq(X)
  <2> HIDE DEF X
  <2>1. Len(e.text) \in Nat /\ <<>> \in Seq(X)
    BY <1>2
  <2>2. cur.offset \in 0 .. Len(e.text)
    BY <1>1, <2>1
  <2> QED
    BY <1>2, <2>1, <2>2, RestGrows
<1>4. /\ h \in PieceType /\ h.kind \in Delta
      /\ WithText(h, rest) = Event(e.kind, e.step, NoCall, NoCall, rest)
  BY <1>1, <1>2, HandfulIsEvent
<1>5. WithText(h, rest) \in PieceType
  BY <1>3, <1>4, PieceFields
<1> HIDE DEF h
<1>6. CASE Len(e.text) > cur.offset
  <2>1. Grown(l, cur) = <<WithText(h, rest)>>
    BY <1>2, <1>4, <1>6 DEF Grown, e
  <2>2. Flat(<<WithText(h, rest)>>) = Pieces(WithText(h, rest))
    BY <1>5, FlatOfOne
  <2> QED
    BY <1>3, <2>1, <2>2 DEF h, e
<1>7. CASE ~ (Len(e.text) > cur.offset)
  <2>1. Grown(l, cur) = <<>>
    BY <1>7 DEF Grown, e
  <2>2. rest = <<>>
    <3> HIDE DEF X
    <3>1. Len(e.text) \in Nat
      BY <1>2
    <3>2. cur.offset + 1 \in Int /\ Len(e.text) \in Int /\ Len(e.text) < cur.offset + 1
      BY <1>1, <1>7, <3>1
    <3> QED
      BY <3>2, SubSeqEmpty
  <2> DEFINE p == Pieces(WithText(h, rest))
  <2>3. p \in Seq(PieceType) /\ Len(p) = 0
    <3>1. Len(p) = Len(rest) /\ p \in Seq(PieceType)
      BY <1>3, <1>4, DeltaPieces
    <3> HIDE DEF p
    <3> QED
      BY <2>2, <3>1
  <2>4. p = <<>>
    <3> HIDE DEF p
    <3> QED
      BY <2>3
  <2> QED
    BY <1>3, <2>1, <2>4, FlatOfOne DEF h, e
<1> QED
  BY <1>6, <1>7

\* What a reader is handed are events.
LEMMA ReadsEvents ==
  ASSUME NEW l \in Seq(PieceType), NEW cur, Fits(l, cur)
  PROVE  /\ Grown(l, cur) \in Seq(PieceType)
         /\ SubSeq(l, cur.index + 1, Len(l)) \in Seq(PieceType)
         /\ ReadFrom(l, cur) \in Seq(PieceType)
<1>1. Grown(l, cur) \in Seq(PieceType)
  <2>1. CASE Grown(l, cur) = <<>>
    BY <2>1
  <2>2. CASE Grown(l, cur) # <<>>
    <3> DEFINE e == l[cur.index]
               rest == SubSeq(e.text, cur.offset + 1, Len(e.text))
    <3>1. /\ cur.index > 0 /\ e.kind \in Delta
          /\ Grown(l, cur) = <<Event(e.kind, e.step, NoCall, NoCall, rest)>>
      BY <2>2 DEF Grown
    <3>2. rest \in Seq(0 .. MaxChunks)
      BY <3>1, GrownPieces
    <3>3. e \in PieceType
      BY <3>1, ElementOfSeq DEF Fits
    <3> HIDE DEF e, rest
    <3>4. Event(e.kind, e.step, NoCall, NoCall, rest) \in PieceType
      BY <3>2, <3>3 DEF Event, PieceType
    <3> QED
      BY <3>1, <3>4
  <2> QED
    BY <2>1, <2>2
<1>2. SubSeq(l, cur.index + 1, Len(l)) \in Seq(PieceType)
  <2>1. <<>> \in Seq(PieceType) /\ cur.index \in 0 .. Len(l)
    BY DEF Fits
  <2> QED
    BY <2>1, RestGrows
<1> QED
  BY <1>1, <1>2, ConcatProperties DEF ReadFrom

\* A cursor that has been moved to the end leaves nothing to read.
LEMMA CaughtUp ==
  ASSUME NEW l \in Seq(PieceType), NEW cur, Fits(l, cur)
  PROVE  /\ Fits(l, CursorAfter(l, cur))
         /\ ReadFrom(l, CursorAfter(l, cur)) = <<>>
<1> DEFINE new == CursorAfter(l, cur)
<1>1. CASE l = <<>>
  <2>1. new = cur /\ cur.index = 0 /\ Len(l) = 0
    BY <1>1 DEF CursorAfter, Fits
  <2>2. Grown(l, cur) = <<>>
    BY <2>1 DEF Grown
  <2>3. SubSeq(l, cur.index + 1, Len(l)) = <<>>
    BY <2>1, SubSeqEmpty
  <2> HIDE DEF new
  <2> QED
    BY <2>1, <2>2, <2>3 DEF ReadFrom, new
<1>2. CASE l # <<>>
  <2> DEFINE e == l[Len(l)]
  <2>1. Len(l) \in Nat /\ Len(l) # 0 /\ Len(l) \in 1 .. Len(l)
    BY <1>2
  <2>2. e \in PieceType
    BY <2>1, ElementOfSeq
  <2>3. Len(e.text) \in Nat
    <3>1. e.text \in Seq(0 .. MaxChunks)
      BY <2>2, PieceFields
    <3> QED
      BY <3>1, LenProperties
  <2>4. new = [index |-> Len(l), offset |-> Len(e.text)]
    BY <1>2 DEF CursorAfter, Last
  <2> HIDE DEF new, e
  <2>5. new.index = Len(l) /\ new.offset = Len(e.text)
    BY <2>4
  <2>6. Fits(l, new)
    <3>1. new \in [index : 0 .. Len(l), offset : Nat]
      BY <2>1, <2>3, <2>4
    <3>2. Len(e.text) <= Len(e.text)
      BY <2>3
    <3> QED
      BY <2>5, <3>1, <3>2 DEF Fits, e
  <2>7. Grown(l, new) = <<>>
    <3>1. ~ (Len(e.text) > Len(e.text))
      BY <2>3
    <3> QED
      BY <2>5, <3>1 DEF Grown, e
  <2>8. SubSeq(l, new.index + 1, Len(l)) = <<>>
    BY <2>1, <2>5, SubSeqEmpty
  <2> QED
    BY <2>6, <2>7, <2>8 DEF ReadFrom, new
<1> QED
  BY <1>1, <1>2

\* An event that becomes part of the log's last entry.
Merges(l, e) == e.kind \in Delta /\ l # <<>> /\ l[Len(l)].kind = e.kind

\* Nothing is lost by merging: the two are of one step and of the turn's own loop.
SameSource(l, e) ==
  LET last == l[Len(l)]
  IN  /\ e.parent = NoCall /\ e.call = NoCall /\ last.parent = NoCall /\ last.call = NoCall
      /\ last.step = e.step

\* The log with one more event.
LEMMA AppendedLog ==
  ASSUME NEW l \in Seq(PieceType), NEW e \in PieceType
  PROVE  /\ AppendEvent(l, e) \in Seq(PieceType)
         /\ ~ Merges(l, e) => AppendEvent(l, e) = l \o <<e>>
         /\ Merges(l, e) =>
              LET m == l[Len(l)]
                  n == AppendEvent(l, e)
              IN  /\ m \in PieceType /\ m.kind = e.kind
                  /\ Len(n) = Len(l) /\ n[Len(l)] = WithText(m, m.text \o e.text)
                  /\ \A i \in 1 .. Len(l) : i # Len(l) => n[i] = l[i]
<1>1. CASE ~ Merges(l, e)
  <2>1. AppendEvent(l, e) = Append(l, e)
    BY <1>1 DEF Merges, AppendEvent, Last
  <2>2. Append(l, e) = l \o <<e>> /\ Append(l, e) \in Seq(PieceType)
    BY AppendIsConcat, AppendProperties
  <2> QED
    BY <1>1, <2>1, <2>2
<1>2. CASE Merges(l, e)
  <2> DEFINE m == l[Len(l)]
             w == WithText(m, m.text \o e.text)
  <2>1. Len(l) \in 1 .. Len(l) /\ m.kind = e.kind
    BY <1>2 DEF Merges
  <2>2. m \in PieceType
    BY <2>1, ElementOfSeq
  <2>3. w \in PieceType
    <3>1. m.text \o e.text \in Seq(0 .. MaxChunks)
      BY <2>2, PieceFields, ConcatProperties
    <3> QED
      BY <2>2, <3>1, PieceFields
  <2>4. AppendEvent(l, e) = [l EXCEPT ![Len(l)] = w]
    BY <1>2 DEF Merges, AppendEvent, Last, WithText
  <2> HIDE DEF w, m
  <2>5. /\ [l EXCEPT ![Len(l)] = w] \in Seq(PieceType)
        /\ Len([l EXCEPT ![Len(l)] = w]) = Len(l)
        /\ \A j \in 1 .. Len(l) :
             [l EXCEPT ![Len(l)] = w][j] = IF j = Len(l) THEN w ELSE l[j]
    BY <2>1, <2>3, ExceptSeq
  <2> QED
    BY <1>2, <2>1, <2>2, <2>4, <2>5 DEF m, w
<1> QED
  BY <1>1, <1>2

\* One more event is one more thing to read, wherever the reader is: an event that reads
\* like it, and that very event if nothing is lost by merging.
LEMMA ReadsOneMore ==
  ASSUME NEW l \in Seq(PieceType), NEW e \in PieceType,
         NEW cur, Fits(l, cur)
  PROVE  /\ Fits(AppendEvent(l, e), cur)
         /\ \E d \in PieceType :
              /\ Alike(d, e)
              /\ (Merges(l, e) => SameSource(l, e)) => d = e
              /\ Flat(ReadFrom(AppendEvent(l, e), cur)) =
                   Flat(ReadFrom(l, cur)) \o Pieces(d)
<1> DEFINE n == AppendEvent(l, e)
           N == Len(l)
           k == cur.index
           X == 0 .. MaxChunks
<1>0. /\ N \in Nat /\ k \in 0 .. N /\ k \in Nat /\ k <= N /\ cur.offset \in Nat
      /\ cur \in [index : 0 .. N, offset : Nat]
  BY DEF Fits
<1>00. n \in Seq(PieceType)
  BY AppendedLog
<1>01. /\ Grown(l, cur) \in Seq(PieceType)
       /\ SubSeq(l, k + 1, N) \in Seq(PieceType)
       /\ ReadFrom(l, cur) \in Seq(PieceType)
  BY ReadsEvents
<1>1. CASE ~ Merges(l, e)
  <2>1. n = l \o <<e>> /\ <<e>> \in Seq(PieceType) /\ Len(<<e>>) = 1
    BY <1>1, AppendedLog
  <2>2. Len(n) = N + 1 /\ \A i \in 1 .. N : n[i] = l[i]
    <3> HIDE DEF n
    <3>1. /\ Len(l \o <<e>>) = Len(l) + Len(<<e>>)
          /\ \A i \in 1 .. Len(l) + Len(<<e>>) :
               (l \o <<e>>)[i] = IF i <= Len(l) THEN l[i] ELSE <<e>>[i - Len(l)]
      BY <2>1, ConcatProperties
    <3>2. Len(n) = N + 1
      BY <2>1, <3>1
    <3>3. \A i \in 1 .. N : n[i] = l[i]
      BY <1>0, <2>1, <3>1
    <3> QED
      BY <3>2, <3>3
  <2>3. SubSeq(n, k + 1, Len(n)) = SubSeq(l, k + 1, N) \o <<e>>
    <3> HIDE DEF n
    <3> QED
      BY <1>0, <2>1, RestGrows
  <2> HIDE DEF n, N, k
  <2>4. k > 0 => n[k] = l[k]
    BY <1>0, <2>2
  <2>5. Grown(n, cur) = Grown(l, cur)
    BY <2>4 DEF Grown, k
  <2>6. Fits(n, cur)
    <3>1. cur \in [index : 0 .. Len(n), offset : Nat]
      BY <1>0, <2>2
    <3> QED
      BY <2>4, <3>1 DEF Fits, k
  <2>7. ReadFrom(n, cur) = Append(ReadFrom(l, cur), e)
    <3>1. ReadFrom(n, cur) =
            Grown(l, cur) \o (SubSeq(l, k + 1, N) \o <<e>>)
      BY <2>3, <2>5 DEF ReadFrom, k
    <3>2. ReadFrom(l, cur) = Grown(l, cur) \o SubSeq(l, k + 1, N)
      BY DEF ReadFrom, k, N
    <3>3. (Grown(l, cur) \o SubSeq(l, k + 1, N)) \o <<e>> =
            Grown(l, cur) \o (SubSeq(l, k + 1, N) \o <<e>>)
      <4> DEFINE g == Grown(l, cur)
                 s == SubSeq(l, k + 1, N)
                 u == <<e>>
      <4>1. /\ g \in Seq(PieceType) /\ s \in Seq(PieceType)
            /\ u \in Seq(PieceType)
        BY <1>01, <2>1 DEF k, N
      <4> HIDE DEF g, s, u
      <4>2. (g \o s) \o u = g \o (s \o u)
        BY <4>1, ConcatAssociative
      <4> QED
        BY <4>2 DEF g, s, u
    <3>4. Append(ReadFrom(l, cur), e) = ReadFrom(l, cur) \o <<e>>
      BY <1>01, AppendIsConcat
    <3> QED
      BY <3>1, <3>2, <3>3, <3>4
  <2>8. Flat(ReadFrom(n, cur)) =
          Flat(ReadFrom(l, cur)) \o Pieces(e)
    BY <1>01, <2>7, FlatOneMore
  <2> QED
    BY <2>6, <2>8 DEF Alike, n
<1>2. CASE Merges(l, e)
  <2> DEFINE m == l[N]
             t == m.text \o e.text
  <2>1. /\ m \in PieceType /\ m.kind = e.kind /\ e.kind \in Delta
        /\ Len(n) = N /\ n[N] = WithText(m, t)
        /\ \A i \in 1 .. N : i # N => n[i] = l[i]
    BY <1>2, AppendedLog DEF Merges
  <2>2. N \in 1 .. N /\ N # 0
    BY <1>2 DEF Merges
  <2> HIDE DEF n, N, k
  <2>3. m.text \in Seq(X) /\ e.text \in Seq(X)
    BY <2>1, PieceFields
  <2>4. t \in Seq(X) /\ Len(t) = Len(m.text) + Len(e.text) /\ Len(m.text) \in Nat
        /\ Len(e.text) \in Nat
    <3> HIDE DEF X, m
    <3> QED
      BY <2>3, ConcatProperties
  <2>5. /\ WithText(m, t) \in PieceType
        /\ WithText(m, t).kind = m.kind /\ WithText(m, t).text = t
        /\ WithText(m, t).step = m.step
    BY <2>1, <2>4, PieceFields
  <2> HIDE DEF m, t, X
  <2>6. Fits(n, cur)
    <3>1. cur \in [index : 0 .. Len(n), offset : Nat]
      BY <1>0, <2>1
    <3>2. CASE k = N
      <4>1. cur.offset <= Len(m.text)
        BY <1>0, <2>1, <2>2, <3>2 DEF Fits, k, m
      <4>2. cur.offset <= Len(t)
        <5> DEFINE o == cur.offset
                   old == Len(m.text)
                   more == Len(e.text)
                   all == Len(t)
        <5>1. /\ o \in Nat /\ old \in Nat /\ more \in Nat /\ all = old + more
              /\ o <= old
          BY <1>0, <2>4, <4>1
        <5> HIDE DEF o, old, more, all
        <5>2. o <= all
          BY <5>1
        <5> QED
          BY <5>2 DEF o, all
      <4> QED
        BY <2>1, <2>5, <3>1, <3>2, <4>2 DEF Fits, k
    <3>3. CASE k # N
      <4>1. k > 0 => n[k] = l[k]
        BY <1>0, <2>1, <3>3
      <4> QED
        BY <3>1, <4>1 DEF Fits, k
    <3> QED
      BY <3>2, <3>3
  <2>7. CASE k = N
    <3> DEFINE h == Handful(m)
               old == SubSeq(m.text, cur.offset + 1, Len(m.text))
               new == SubSeq(t, cur.offset + 1, Len(t))
    <3>1. old \in Seq(0 .. MaxChunks) /\ Flat(Grown(l, cur)) =
            Pieces(WithText(h, old))
      BY <2>1, <2>2, <2>7, <1>0, GrownPieces DEF k, m
    <3>2. new \in Seq(0 .. MaxChunks) /\ Flat(Grown(n, cur)) =
            Pieces(WithText(h, new))
      <4>1. n[cur.index] = WithText(m, t) /\ cur.index > 0
        BY <1>0, <2>1, <2>2, <2>7 DEF k
      <4>2. Handful(WithText(m, t)) = h
        BY <2>5 DEF Handful
      <4> HIDE DEF h
      <4> QED
        BY <1>00, <2>1, <2>5, <2>6, <4>1, <4>2, GrownPieces DEF n
    <3>3. new = old \o e.text
      <4>1. cur.offset \in 0 .. Len(m.text)
        BY <1>0, <2>1, <2>2, <2>4, <2>7 DEF Fits, k, m
      <4> QED
        BY <2>3, <4>1, RestGrows DEF t
    <3>4. h \in PieceType /\ h.kind = m.kind
      BY <2>1, HandfulIsEvent
    <3> DEFINE d == WithText(h, e.text)
    <3>5. /\ d \in PieceType /\ Alike(d, e)
      BY <2>1, <2>3, <3>4, PieceFields DEF Alike, X
    <3>6. SameSource(l, e) => d = e
      <4>1. SameSource(l, e) => m.parent = NoCall /\ m.call = NoCall /\ e.parent = NoCall
                                /\ e.call = NoCall /\ m.step = e.step
        BY DEF SameSource, m, N
      <4>2. d = Event(m.kind, m.step, NoCall, NoCall, e.text)
        BY <2>1, HandfulIsEvent
      <4>3. SameSource(l, e) => Event(e.kind, e.step, e.parent, e.call, e.text) = e
        BY DEF Event, PieceType
      <4> QED
        BY <2>1, <4>1, <4>2, <4>3
    <3> HIDE DEF old, new, h
    <3>7. Pieces(WithText(h, new)) = Pieces(WithText(h, old)) \o Pieces(d)
      BY <2>1, <2>3, <3>1, <3>3, <3>4, PiecesGrow DEF X
    <3>8. /\ ReadFrom(l, cur) = Grown(l, cur)
          /\ ReadFrom(n, cur) = Grown(n, cur)
      <4>1. SubSeq(l, k + 1, N) = <<>> /\ SubSeq(n, k + 1, N) = <<>>
        BY <1>0, <2>7, SubSeqEmpty
      <4>2. Grown(n, cur) \in Seq(PieceType)
        BY <1>00, <2>6, ReadsEvents DEF n
      <4>3. /\ Grown(n, cur) \o <<>> = Grown(n, cur)
            /\ Grown(l, cur) \o <<>> = Grown(l, cur)
        BY <1>01, <4>2, ConcatEmptySeq
      <4>4. ReadFrom(l, cur) = Grown(l, cur) \o SubSeq(l, k + 1, N)
        BY DEF ReadFrom, k, N
      <4>5. ReadFrom(n, cur) = Grown(n, cur) \o SubSeq(n, k + 1, N)
        BY <2>1 DEF ReadFrom, k
      <4> QED
        BY <4>1, <4>3, <4>4, <4>5
    <3> HIDE DEF d
    <3> QED
      BY <1>2, <2>6, <3>1, <3>2, <3>5, <3>6, <3>7, <3>8 DEF n
  <2>8. CASE k # N
    <3> DEFINE A == Grown(l, cur) \o SubSeq(l, k + 1, N - 1)
               d == WithText(m, e.text)
    <3>0. k \in 0 .. N - 1 /\ k + 1 \in 1 .. N /\ N \in k + 1 .. N /\ N - 1 \in Int
          /\ k + 1 \in Int
      BY <1>0, <2>8
    <3>1. Grown(n, cur) = Grown(l, cur)
      <4>1. k > 0 => n[k] = l[k]
        BY <1>0, <2>1, <2>8
      <4> QED
        BY <4>1 DEF Grown, k
    <3>2. SubSeq(l, k + 1, N) = SubSeq(l, k + 1, N - 1) \o <<m>>
      BY <3>0, SubSeqRecursiveSecond DEF N, m
    <3>3. SubSeq(n, k + 1, N) = SubSeq(n, k + 1, N - 1) \o <<WithText(m, t)>>
      BY <1>00, <2>1, <3>0, SubSeqRecursiveSecond DEF n
    <3>4. /\ SubSeq(l, k + 1, N - 1) \in Seq(PieceType)
          /\ SubSeq(n, k + 1, N - 1) = SubSeq(l, k + 1, N - 1)
      <4>1. \A i \in k + 1 .. N - 1 : i \in 1 .. N /\ i # N
        BY <1>0
      <4>2. \A i \in k + 1 .. N - 1 : n[i] = l[i]
        BY <2>1, <4>1
      <4>3. \A i \in k + 1 .. N - 1 : l[i] \in PieceType
        BY <4>1, ElementOfSeq DEF N
      <4>4. \A i \in k + 1 .. N - 1 : n[i] \in PieceType
        BY <4>2, <4>3
      <4> DEFINE M == N - 1
                 a == SubSeq(l, k + 1, M)
                 b == SubSeq(n, k + 1, M)
      <4> HIDE DEF M
      <4>5. M \in Int /\ M = N - 1
        BY <3>0 DEF M
      <4>6. /\ a \in Seq(PieceType)
            /\ Len(a) = IF k + 1 <= M THEN M - (k + 1) + 1 ELSE 0
            /\ \A i \in 1 .. M - (k + 1) + 1 : a[i] = l[(k + 1) + i - 1]
        BY <3>0, <4>3, <4>5, SubSeqProperties
      <4>7. /\ b \in Seq(PieceType)
            /\ Len(b) = IF k + 1 <= M THEN M - (k + 1) + 1 ELSE 0
            /\ \A i \in 1 .. M - (k + 1) + 1 : b[i] = n[(k + 1) + i - 1]
        BY <3>0, <4>4, <4>5, SubSeqProperties
      <4> HIDE DEF a, b
      <4>8. ASSUME NEW i \in 1 .. Len(a) PROVE a[i] = b[i]
        <5>1. k \in Nat /\ Len(a) = IF k + 1 <= M THEN M - (k + 1) + 1 ELSE 0
          BY <1>0, <4>6
        <5>2. i \in 1 .. M - (k + 1) + 1 /\ (k + 1) + i - 1 \in k + 1 .. M
          BY <4>5, <5>1
        <5> QED
          BY <4>2, <4>5, <4>6, <4>7, <5>2
      <4>9. a = b
        BY <4>6, <4>7, <4>8, SeqEqual
      <4> QED
        BY <4>6, <4>9 DEF a, b, M
    <3>5. A \in Seq(PieceType)
      BY <1>01, <3>4, ConcatProperties
    <3>6. <<m>> \in Seq(PieceType) /\ <<WithText(m, t)>> \in Seq(PieceType)
      BY <2>1, <2>5
    <3>7. ReadFrom(l, cur) = Append(A, m)
      <4>1. ReadFrom(l, cur) = Grown(l, cur) \o (SubSeq(l, k + 1, N - 1) \o <<m>>)
        BY <3>2 DEF ReadFrom, k, N
      <4>2. A \o <<m>> = Grown(l, cur) \o (SubSeq(l, k + 1, N - 1) \o <<m>>)
        <5> DEFINE g == Grown(l, cur)
                   s == SubSeq(l, k + 1, N - 1)
                   u == <<m>>
        <5>1. /\ g \in Seq(PieceType) /\ s \in Seq(PieceType)
              /\ u \in Seq(PieceType)
          BY <1>01, <3>4, <3>6
        <5> HIDE DEF g, s, u
        <5>2. (g \o s) \o u = g \o (s \o u)
          BY <5>1, ConcatAssociative
        <5> QED
          BY <5>2 DEF g, s, u
      <4> HIDE DEF A
      <4> QED
        BY <2>1, <3>5, <4>1, <4>2, AppendIsConcat
    <3>8. ReadFrom(n, cur) = Append(A, WithText(m, t))
      <4>1. ReadFrom(n, cur) =
              Grown(l, cur) \o (SubSeq(l, k + 1, N - 1) \o <<WithText(m, t)>>)
        BY <2>1, <3>1, <3>3, <3>4 DEF ReadFrom, k
      <4>2. A \o <<WithText(m, t)>> =
              Grown(l, cur) \o (SubSeq(l, k + 1, N - 1) \o <<WithText(m, t)>>)
        <5> DEFINE g == Grown(l, cur)
                   s == SubSeq(l, k + 1, N - 1)
                   u == <<WithText(m, t)>>
        <5>1. /\ g \in Seq(PieceType) /\ s \in Seq(PieceType)
              /\ u \in Seq(PieceType)
          BY <1>01, <3>4, <3>6
        <5> HIDE DEF g, s, u
        <5>2. (g \o s) \o u = g \o (s \o u)
          BY <5>1, ConcatAssociative
        <5> QED
          BY <5>2 DEF g, s, u
      <4> HIDE DEF A
      <4> QED
        BY <2>5, <3>5, <4>1, <4>2, AppendIsConcat
    <3> HIDE DEF A
    <3>9. /\ Flat(ReadFrom(l, cur)) = Flat(A) \o Pieces(m)
          /\ Flat(ReadFrom(n, cur)) =
               Flat(A) \o Pieces(WithText(m, t))
          /\ Flat(A) \in Seq(PieceType)
      BY <2>1, <2>5, <3>5, <3>7, <3>8, FlatOneMore
    <3>10. Pieces(WithText(m, t)) = Pieces(m) \o Pieces(d)
      <4>1. WithText(m, m.text) = m
        BY <2>1 DEF WithText, PieceType
      <4>2. Pieces(WithText(m, m.text \o e.text)) =
              Pieces(WithText(m, m.text)) \o Pieces(WithText(m, e.text))
        BY <2>1, <2>3, PiecesGrow DEF X
      <4> QED
        BY <4>1, <4>2 DEF t
    <3>11. /\ d \in PieceType /\ Alike(d, e)
      BY <2>1, <2>3, PieceFields DEF Alike, X
    <3>12. SameSource(l, e) => d = e
      <4>1. SameSource(l, e) => m.parent = e.parent /\ m.call = e.call /\ m.step = e.step
        BY DEF SameSource, m, N
      <4> QED
        BY <2>1, <4>1 DEF WithText, PieceType
    <3>13. Pieces(m) \in Seq(PieceType) /\ Pieces(d) \in Seq(PieceType)
      BY <2>1, <3>11, PiecesAreEvents
    <3> HIDE DEF d
    <3>14. Flat(ReadFrom(n, cur)) =
             Flat(ReadFrom(l, cur)) \o Pieces(d)
      <4> DEFINE f == Flat(A)
                 p == Pieces(m)
                 q == Pieces(d)
      <4> HIDE DEF f, p, q
      <4>1. (f \o p) \o q = f \o (p \o q)
        BY <3>9, <3>13, ConcatAssociative DEF f, p, q
      <4> QED
        BY <3>9, <3>10, <4>1 DEF f, p, q
    <3> QED
      BY <1>2, <2>6, <3>11, <3>12, <3>14 DEF n
  <2> QED
    BY <2>7, <2>8
<1> QED
  BY <1>1, <1>2

-----------------------------------------------------------------------------
(* The emitters.                                                           *)

LoopTypes ==
  /\ lpc \in [Loop -> {"idle", "asked", "between", "model", "tools", "over",
                              "failed", "reported", "returned"}]
  /\ steps \in [Loop -> 0 .. MaxSteps]
  /\ said \in [Loop -> StepType]
  /\ res \in ResultType
  /\ chunks \in 0 .. MaxChunks
  /\ retries \in 0 .. MaxRetries

\* A delta that is emitted has a single chunk.
OneChunk(e) == e.kind \in Delta => Len(e.text) = 1

\* An emitter has at most one event on its way to the log.
PendingOne ==
  /\ pending \in [Loop -> Seq(PieceType)]
  /\ \A w \in Loop :
        pending[w] # <<>> =>
          \E e \in PieceType : pending[w] = <<e>> /\ OneChunk(e)

\* While the turn's own loop is not waiting for tools, no tool call has a part in it.
Quiet ==
  /\ lpc[Main] \in {"between", "model", "tools", "over", "failed", "reported"}
  /\ lpc[Main] # "tools" =>
       \A c \in Call : ~ Busy(c) /\ pending[c] = <<>>

\* A turn that is over emits nothing more.
DoneIsQuiet ==
  done => /\ lpc[Main] \in {"over", "reported"}
          /\ \A w \in Loop : pending[w] = <<>>

\* The event a loop emits is one.
LEMMA LoopEventIsEvent ==
  ASSUME NEW w \in Loop, NEW kind \in Kind, NEW text \in Seq(0 .. MaxChunks),
         steps \in [Loop -> 0 .. MaxSteps], steps'[Main] \in 0 .. MaxSteps
  PROVE  /\ LoopEvent(w, kind, text) \in PieceType
         /\ LoopEvent(w, kind, text).kind = kind
         /\ LoopEvent(w, kind, text).text = text
<1>1. Main \in Loop /\ (w # Main => w \in Call) /\ steps[Main] \in 0 .. MaxSteps
  BY DEF Loop
<1> QED
  BY <1>1 DEF LoopEvent, Event, PieceType

\* A step that has said nothing is one.
LEMMA BlankType == Blank \in StepType /\ NoResult \in ResultType
<1>1. <<>> \in Seq(0 .. MaxChunks) /\ <<>> \in Seq(StepType)
  OBVIOUS
<1> QED
  BY <1>1 DEF Blank, StepType, NoResult, ResultType

\* The result of the turn's own loop keeps its type.
LEMMA ResultStep ==
  ASSUME LoopTypes, RunEmits \/ Report
  PROVE  res' \in ResultType
<1> DEFINE X == 0 .. MaxChunks
<1>0. res \in ResultType /\ res.plan \in Seq(StepType) /\ res.text \in Seq(X)
  BY DEF LoopTypes, ResultType
<1>1. <<0>> \in Seq(X)
  BY TurnStreamAssumption
<1>2. ASSUME NEW w \in Loop
      PROVE  /\ said[w] \in StepType /\ said[w]["text"] \in Seq(X)
             /\ Planned(w) \in Seq(StepType)
  <2>1. said[w] \in StepType
    BY DEF LoopTypes
  <2>2. said[w]["text"] \in Seq(X)
    BY <2>1 DEF StepType, Delta
  <2>3. Append(res.plan, said[w]) \in Seq(StepType)
    BY <1>0, <2>1, AppendProperties
  <2> QED
    BY <1>0, <2>1, <2>2, <2>3 DEF Planned
<1> HIDE DEF X
<1>3. \A text \in Seq(X), plan \in Seq(StepType), stop \in {"none", "budget", "guard"} :
        [text |-> text, plan |-> plan, stop |-> stop] \in ResultType
  BY DEF ResultType, X
<1>4. ASSUME NEW w \in Loop, StepStart(w) PROVE res' \in ResultType
  <2>1. res' = [res EXCEPT !.plan = Planned(w)]
    BY <1>4 DEF StepStart
  <2> QED
    BY <1>0, <1>2, <2>1 DEF ResultType
<1>5. ASSUME NEW w \in Loop, Answer(w) PROVE res' \in ResultType
  <2>1. \/ EndsWith(w, [text |-> said[w]["text"], plan |-> Planned(w), stop |-> "none"])
        \/ EndsWith(w, [text |-> <<0>>, plan |-> Planned(w), stop |-> "budget"])
        \/ EndsWith(w, [text |-> <<0>>, plan |-> res.plan, stop |-> "guard"])
    BY <1>5 DEF Answer
  <2>2. \E r \in ResultType : EndsWith(w, r)
    BY <1>0, <1>1, <1>2, <1>3, <2>1
  <2> QED
    BY <1>0, <2>2 DEF EndsWith
<1>6. ASSUME NEW w \in Loop, Fail(w) PROVE res' \in ResultType
  <2>1. EndsWith(w, NoResult)
    BY <1>6 DEF Fail
  <2> QED
    BY <1>0, <2>1, BlankType DEF EndsWith
<1>7. ASSUME NEW w \in Loop, Retry(w) \/ StepEnd(w) \/ \E kind \in Delta : Say(w, kind)
      PROVE  res' \in ResultType
  BY <1>0, <1>7 DEF Retry, StepEnd, Say
<1>8. ASSUME NEW c \in Call, CallStart(c) \/ CallEnd(c) PROVE res' \in ResultType
  BY <1>0, <1>8 DEF CallStart, CallEnd
<1>9. CASE Report
  BY <1>0, <1>9 DEF Report
<1> QED
  BY <1>4, <1>5, <1>6, <1>7, <1>8, <1>9 DEF RunEmits

\* Everything that is emitted is an event, with the loops keeping their types.
LEMMA EmitsAnEvent ==
  ASSUME LoopTypes, RunEmits \/ Report
  PROVE  /\ LoopTypes'
         /\ \E w \in Loop, e \in PieceType : Emit(w, e) /\ OneChunk(e)
<1> DEFINE Emitted ==
             \E w \in Loop, e \in PieceType : Emit(w, e) /\ OneChunk(e)
           X == 0 .. MaxChunks
<1>0. Main \in Loop /\ Call \subseteq Loop /\ <<>> \in Seq(X)
  BY DEF Loop
<1>r. res' \in ResultType
  BY ResultStep
<1>1. ASSUME NEW w \in Loop, NEW kind \in Kind, NEW text \in Seq(X),
             Emit(w, LoopEvent(w, kind, text)), LoopTypes',
             kind \in Delta => Len(text) = 1
      PROVE  Emitted
  <2> DEFINE e == LoopEvent(w, kind, text)
  <2>1. steps \in [Loop -> 0 .. MaxSteps] /\ steps'[Main] \in 0 .. MaxSteps
    BY <1>0, <1>1 DEF LoopTypes
  <2>2. e \in PieceType /\ e.kind = kind /\ e.text = text
    BY <2>1, LoopEventIsEvent
  <2> HIDE DEF e
  <2>3. Emit(w, e) /\ OneChunk(e)
    BY <1>1, <2>2 DEF e, OneChunk
  <2> QED
    BY <2>2, <2>3
<1>2. /\ {"step_start", "step_end", "step_retry", "tool_call", "tool_result", "done", "error"}
           \subseteq Kind
      /\ Delta \subseteq Kind
      /\ \A k \in {"step_start", "step_end", "step_retry", "tool_call", "tool_result", "done",
                   "error"} : k \notin Delta
  BY DEF Kind, Delta
<1>3. \A w \in Loop : said[w] \in StepType /\ said[w]["text"] \in Seq(X)
  BY DEF LoopTypes, StepType, Delta
<1> HIDE DEF Emitted
<1>4. ASSUME NEW w \in Loop, StepStart(w) PROVE LoopTypes' /\ Emitted
  <2>1. LoopTypes'
    <3>1. steps[w] + 1 \in 0 .. MaxSteps
      <4>1. steps[w] \in 0 .. MaxSteps /\ steps[w] < MaxSteps
        BY <1>4 DEF LoopTypes, StepStart
      <4> QED
        BY <4>1, TurnStreamAssumption
    <3> HIDE DEF X
    <3> QED
      BY <1>0, <1>r, <1>4, <3>1, BlankType DEF LoopTypes, StepStart, X
  <2>2. Emit(w, LoopEvent(w, "step_start", <<>>))
    BY <1>4 DEF StepStart
  <2> QED
    BY <1>0, <1>1, <1>2, <2>1, <2>2
<1>5. ASSUME NEW w \in Loop, NEW kind \in Delta, Say(w, kind)
      PROVE  LoopTypes' /\ Emitted
  <2>1. chunks' = chunks + 1 /\ chunks' \in X
    <3>1. chunks \in 0 .. MaxChunks /\ chunks < MaxChunks /\ chunks' = chunks + 1
      BY <1>5 DEF LoopTypes, Say
    <3> QED
      BY <3>1, TurnStreamAssumption
  <2> HIDE DEF X
  <2>2. LoopTypes'
    <3>1. said' \in [Loop -> StepType]
      <4>1. said \in [Loop -> StepType] /\ said[w] \in [Delta -> Seq(X)]
        BY DEF LoopTypes, StepType, X
      <4>2. Append(said[w][kind], chunks') \in Seq(X)
        BY <2>1, <4>1, AppendProperties
      <4>3. [said[w] EXCEPT ![kind] = Append(@, chunks')] \in StepType
        BY <4>1, <4>2 DEF StepType, X
      <4>4. said' = [said EXCEPT ![w] = [said[w] EXCEPT ![kind] = Append(@, chunks')]]
        BY <1>5 DEF Say
      <4> QED
        BY <4>1, <4>3, <4>4
    <3> QED
      BY <1>r, <1>5, <2>1, <3>1 DEF LoopTypes, Say, X
  <2>3. Emit(w, LoopEvent(w, kind, <<chunks'>>))
    BY <1>5 DEF Say
  <2>4. <<chunks'>> \in Seq(X) /\ Len(<<chunks'>>) = 1
    BY <2>1
  <2> QED
    BY <1>1, <1>2, <2>2, <2>3, <2>4
<1>6. ASSUME NEW w \in Loop, Retry(w) PROVE LoopTypes' /\ Emitted
  <2>1. LoopTypes'
    <3>1. retries + 1 \in 0 .. MaxRetries
      <4>1. retries \in 0 .. MaxRetries /\ retries < MaxRetries
        BY <1>6 DEF LoopTypes, Retry
      <4> QED
        BY <4>1, TurnStreamAssumption
    <3> HIDE DEF X
    <3> QED
      BY <1>0, <1>r, <1>6, <3>1, BlankType DEF LoopTypes, Retry, X
  <2>2. Emit(w, LoopEvent(w, "step_retry", <<>>))
    BY <1>6 DEF Retry
  <2> QED
    BY <1>0, <1>1, <1>2, <2>1, <2>2
<1>7. ASSUME NEW w \in Loop, StepEnd(w) PROVE LoopTypes' /\ Emitted
  <2>1. LoopTypes'
    <3>1. PICK asked : lpc' = [x \in Loop |-> IF x = w THEN "tools"
                                 ELSE IF x \in asked THEN "asked" ELSE lpc[x]]
      BY <1>7 DEF StepEnd
    <3> QED
      BY <1>r, <1>7, <3>1 DEF LoopTypes, StepEnd
  <2>2. Emit(w, LoopEvent(w, "step_end", said[w]["text"]))
    BY <1>7 DEF StepEnd
  <2> QED
    BY <1>1, <1>2, <1>3, <2>1, <2>2
<1>8. ASSUME NEW w \in Loop, Answer(w) PROVE LoopTypes' /\ Emitted
  <2>1. LoopTypes'
    BY <1>r, <1>8 DEF LoopTypes, Answer
  <2>2. \E text \in {said[w]["text"], <<0>>} : Emit(w, LoopEvent(w, "done", text))
    BY <1>8 DEF Answer
  <2>3. <<0>> \in Seq(X)
    BY TurnStreamAssumption
  <2> QED
    BY <1>1, <1>2, <1>3, <2>1, <2>2, <2>3
<1>9. ASSUME NEW w \in Loop, Fail(w) PROVE LoopTypes' /\ Emitted
  <2>1. LoopTypes'
    BY <1>r, <1>9 DEF LoopTypes, Fail
  <2>2. Emit(w, LoopEvent(w, "error", <<>>))
    BY <1>9 DEF Fail
  <2> QED
    BY <1>0, <1>1, <1>2, <2>1, <2>2
<1>10. ASSUME NEW w \in Loop, NEW kind \in Kind, NEW step \in 0 .. MaxSteps,
              NEW call \in Call \cup {NoCall}, kind \notin Delta,
              Emit(w, Event(kind, step, NoCall, call, <<>>))
       PROVE  Emitted
  <2> DEFINE e == Event(kind, step, NoCall, call, <<>>)
  <2>1. e \in PieceType /\ OneChunk(e)
    BY <1>0, <1>10 DEF Event, PieceType, OneChunk
  <2> HIDE DEF e
  <2>2. Emit(w, e)
    BY <1>10 DEF e
  <2> QED
    BY <2>1, <2>2 DEF Emitted
<1>11. steps[Main] \in 0 .. MaxSteps /\ 0 \in 0 .. MaxSteps
  BY <1>0, TurnStreamAssumption DEF LoopTypes
<1>12. ASSUME NEW c \in Call, CallStart(c) \/ CallEnd(c)
       PROVE  LoopTypes' /\ Emitted
  <2>1. LoopTypes'
    BY <1>r, <1>12 DEF LoopTypes, CallStart, CallEnd
  <2>2. \E kind \in {"tool_call", "tool_result"} :
          Emit(c, Event(kind, steps[Main], NoCall, c, <<>>))
    BY <1>12 DEF CallStart, CallEnd
  <2> QED
    BY <1>0, <1>2, <1>10, <1>11, <2>1, <2>2
<1>13. ASSUME Report PROVE LoopTypes' /\ Emitted
  <2>1. LoopTypes'
    BY <1>r, <1>13 DEF LoopTypes, Report
  <2>2. Emit(Main, Event("error", 0, NoCall, NoCall, <<>>))
    BY <1>13 DEF Report
  <2> QED
    BY <1>0, <1>2, <1>10, <1>11, <2>1, <2>2
<1> QED
  BY <1>4, <1>5, <1>6, <1>7, <1>8, <1>9, <1>12, <1>13 DEF RunEmits, Emitted

\* Only one event is emitted at a time.
LEMMA OneEmission ==
  ASSUME pending \in [Loop -> Seq(PieceType)],
         NEW w \in Loop, NEW e, NEW v \in Loop, NEW d,
         Emit(w, e), Emit(v, d)
  PROVE  w = v /\ e = d
<1>1. /\ pending[w] = <<>> /\ pending' = [pending EXCEPT ![w] = <<e>>]
      /\ pending[v] = <<>> /\ pending' = [pending EXCEPT ![v] = <<d>>]
  BY DEF Emit
<1>2. pending'[w] = <<e>> /\ pending'[v] = <<d>> /\ (w # v => pending'[w] = pending[w])
  BY <1>1
<1>3. <<e>> # <<>>
  OBVIOUS
<1> QED
  BY <1>1, <1>2, <1>3

\* A call's part in the turn is over.
Parted(c) == lpc'[c] \in {"idle", "returned"} /\ pending[c] = <<>>

\* The turn's own loop emits in the course of a step, and after the calls of the step
\* have all returned; calls emit only while it waits for them.
InTurn(w, e) ==
  \/ /\ w = Main /\ lpc[Main] \in {"between", "model", "tools"}
     /\ lpc'[Main] \in {"model", "tools", "over", "failed"}
     /\ lpc'[Main] = "over" => e.kind = "done" /\ e.text = res'.text
     /\ lpc'[Main] = "failed" => e.kind = "error"
     /\ lpc'[Main] # "tools" => \A c \in Call : Parted(c)
  \/ w \in Call /\ lpc[Main] = "tools" /\ lpc'[Main] = "tools"

\* Whatever a turn's loops and calls emit is emitted in turn.
LEMMA EmitsInTurn ==
  ASSUME LoopTypes, Quiet, PendingOne, RunEmits
  PROVE  \E w \in Loop, e \in PieceType :
           Emit(w, e) /\ OneChunk(e) /\ InTurn(w, e)
<1>0. /\ Main \in Loop /\ Call \subseteq Loop /\ Main \notin Call
      /\ \A w \in Loop : w = Main \/ w \in Call
  BY TurnStreamAssumption DEF Loop
<1>1. PICK w \in Loop, e \in PieceType : Emit(w, e) /\ OneChunk(e)
  BY EmitsAnEvent
<1>2. \A v \in Loop : \A d : Emit(v, d) => v = w /\ d = e
  BY <1>1, OneEmission DEF PendingOne
<1>3. ASSUME NEW v \in Loop, NEW kind, NEW text,
             Emit(v, LoopEvent(v, kind, text))
      PROVE  v = w /\ e.kind = kind /\ e.text = text
  BY <1>2, <1>3 DEF LoopEvent, Event
<1>4. /\ lpc[Main] # "tools" => \A c \in Call : lpc[c] \in {"idle", "returned"} /\ pending[c] = <<>>
      /\ Joined(Main) => \A c \in Call : lpc[c] \in {"idle", "returned"} /\ pending[c] = <<>>
  BY <1>0 DEF Quiet, Busy, Joined
<1>5. ASSUME NEW c \in Call, lpc[c] \in {"asked", "between", "model", "tools", "over"}
      PROVE  lpc[Main] = "tools"
  BY <1>4, <1>5
<1> USE <1>0 DEF InTurn, Parted
<1>6. ASSUME NEW v \in Loop, StepStart(v) PROVE InTurn(w, e)
  <2>1. v = w
    BY <1>3, <1>6 DEF StepStart
  <2>2. /\ lpc[v] \in {"between", "model", "tools"} /\ (lpc[v] = "tools" => Joined(v))
        /\ lpc' = [lpc EXCEPT ![v] = "model"]
    BY <1>6 DEF StepStart
  <2> QED
    BY <1>4, <1>5, <2>1, <2>2 DEF LoopTypes
<1>7. ASSUME NEW v \in Loop, NEW kind, Say(v, kind) PROVE InTurn(w, e)
  <2>1. v = w
    BY <1>3, <1>7 DEF Say
  <2>2. lpc[v] = "model" /\ lpc' = lpc
    BY <1>7 DEF Say
  <2> QED
    BY <1>4, <1>5, <2>1, <2>2 DEF LoopTypes
<1>8. ASSUME NEW v \in Loop, Retry(v) PROVE InTurn(w, e)
  <2>1. v = w
    BY <1>3, <1>8 DEF Retry
  <2>2. lpc[v] = "model" /\ lpc' = lpc
    BY <1>8 DEF Retry
  <2> QED
    BY <1>4, <1>5, <2>1, <2>2 DEF LoopTypes
<1>9. ASSUME NEW v \in Loop, StepEnd(v) PROVE InTurn(w, e)
  <2>1. v = w
    BY <1>3, <1>9 DEF StepEnd
  <2>2. PICK asked \in IF v = Main THEN SUBSET {c \in Call : lpc[c] = "idle"} ELSE {{}} :
          lpc' = [x \in Loop |-> IF x = v THEN "tools"
                                 ELSE IF x \in asked THEN "asked" ELSE lpc[x]]
    BY <1>9 DEF StepEnd
  <2>3. lpc[v] = "model"
    BY <1>9 DEF StepEnd
  <2>4. CASE v = Main
    BY <2>1, <2>2, <2>3, <2>4
  <2>5. CASE v # Main
    BY <1>5, <2>1, <2>2, <2>3, <2>5
  <2> QED
    BY <2>4, <2>5
<1>10. ASSUME NEW v \in Loop, Answer(v) PROVE InTurn(w, e)
  <2>1. v = w /\ e.kind = "done" /\ (v = Main => e.text = res'.text)
    BY <1>3, <1>10 DEF Answer, EndsWith
  <2>2. /\ lpc[v] \in {"between", "model", "tools"} /\ (lpc[v] # "model" => Joined(v))
        /\ lpc' = [lpc EXCEPT ![v] = "over"]
    BY <1>10 DEF Answer
  <2> QED
    BY <1>4, <1>5, <2>1, <2>2 DEF LoopTypes
<1>11. ASSUME NEW v \in Loop, Fail(v) PROVE InTurn(w, e)
  <2>1. v = w /\ e.kind = "error"
    BY <1>3, <1>11 DEF Fail
  <2>2. /\ lpc[v] \in {"between", "model", "tools"} /\ Joined(v)
        /\ lpc' = [lpc EXCEPT ![v] = IF v = Main THEN "failed" ELSE "over"]
    BY <1>11 DEF Fail
  <2> QED
    BY <1>4, <1>5, <2>1, <2>2 DEF LoopTypes
<1>12. ASSUME NEW c \in Call, CallStart(c) \/ CallEnd(c) PROVE InTurn(w, e)
  <2>1. c = w
    BY <1>2, <1>12 DEF CallStart, CallEnd
  <2>2. /\ lpc[c] \in {"asked", "over"} /\ lpc'[Main] = lpc[Main]
    BY <1>12 DEF CallStart, CallEnd, LoopTypes
  <2> QED
    BY <1>5, <2>1, <2>2
<1> HIDE DEF InTurn, Parted
<1>13. InTurn(w, e)
  BY <1>6, <1>7, <1>8, <1>9, <1>10, <1>11, <1>12 DEF RunEmits
<1> QED
  BY <1>1, <1>13

-----------------------------------------------------------------------------
(* The invariant of the stream.                                            *)

TurnTypes ==
  log \in Seq(PieceType) /\ written \in Seq(PieceType) /\ done \in BOOLEAN

ReaderTypes ==
  /\ rpc \in [Reader -> {"off", "writing", "waiting", "woken", "closing", "ended", "gone"}]
  /\ cursor \in [Reader -> [index : Nat, offset : Nat]]
  /\ bell \in [Reader -> BOOLEAN]
  /\ got \in [Reader -> Seq(PieceType)]

\* A reader that was handed g and is at cur is handed, if it reads on, the words of all
\* that was emitted.
Completes(g, cur) ==
  /\ Fits(log, cur)
  /\ Words(g \o Flat(ReadFrom(log, cur))) = Words(written)

HandedAll ==
  /\ Completes(<<>>, Start)
  /\ \A r \in Reader :
       /\ Completes(got[r], cursor[r])
       /\ rpc[r] \in {"off", "gone"} => got[r] = <<>> /\ cursor[r] = Start
       /\ rpc[r] \in {"closing", "ended"} =>
            done /\ ReadFrom(log, cursor[r]) = <<>>

\* The last event the turn's own loop emitted.
LastEvent == IF pending[Main] # <<>> THEN pending[Main][1] ELSE written[Len(written)]

\* The last word is the answer of the result, or the failure.
LastWord ==
  /\ lpc[Main] = "over" => LastEvent.kind = "done" /\ LastEvent.text = res.text
  /\ lpc[Main] \in {"failed", "reported"} => LastEvent.kind = "error"
  /\ lpc[Main] \in {"over", "failed", "reported"} => pending[Main] # <<>> \/ written # <<>>

EmitInv == LoopTypes /\ PendingOne /\ Quiet /\ DoneIsQuiet /\ TurnTypes /\ LastWord

StreamInv == EmitInv /\ ReaderTypes /\ HandedAll

\* The log of events is empty when the turn starts.
LEMMA StreamStarts == StreamInit => StreamInv
<1> SUFFICES ASSUME StreamInit PROVE StreamInv
  OBVIOUS
<1>0. Main \in Loop /\ Call \subseteq Loop /\ Main \notin Call
  BY TurnStreamAssumption DEF Loop
<1>1. LoopTypes
  BY TurnStreamAssumption, BlankType DEF StreamInit, LoopTypes
<1>2. PendingOne /\ Quiet /\ DoneIsQuiet /\ LastWord /\ TurnTypes
  <2>1. /\ pending = [w \in Loop |-> <<>>] /\ ~ done /\ log = <<>> /\ written = <<>>
        /\ lpc[Main] = "between" /\ \A c \in Call : lpc[c] = "idle" /\ pending[c] = <<>>
    BY <1>0 DEF StreamInit
  <2>2. PendingOne
    BY <2>1 DEF PendingOne
  <2>3. Quiet
    BY <2>1 DEF Quiet, Busy
  <2>4. DoneIsQuiet /\ LastWord
    BY <2>1 DEF DoneIsQuiet, LastWord
  <2>5. TurnTypes
    <3>1. <<>> \in Seq(PieceType)
      OBVIOUS
    <3>2. done \in BOOLEAN
      BY Zenon DEF StreamInit
    <3> QED
      BY <2>1, <3>1, <3>2 DEF TurnTypes
  <2> QED
    BY <2>2, <2>3, <2>4, <2>5
<1>3. ReaderTypes
  BY DEF StreamInit, ReaderTypes, Start
<1>4. /\ log = <<>> /\ written = <<>>
      /\ \A r \in Reader : rpc[r] = "off" /\ got[r] = <<>> /\ cursor[r] = Start
  BY DEF StreamInit
<1>5. Completes(<<>>, Start)
  <2>1. Fits(log, Start) /\ ReadFrom(log, Start) = <<>>
    <3>1. Start.index = 0 /\ Start \in [index : 0 .. 0, offset : Nat]
      BY DEF Start
    <3>2. Grown(log, Start) = <<>>
      BY <3>1 DEF Grown
    <3>3. SubSeq(log, Start.index + 1, Len(log)) = <<>>
      BY <1>4, <3>1, SubSeqEmpty
    <3> QED
      BY <1>4, <3>1, <3>2, <3>3 DEF Fits, ReadFrom
  <2>2. Flat(<<>>) = <<>>
    BY FlatOfOne
  <2> QED
    BY <1>4, <2>1, <2>2 DEF Completes
<1> QED
  BY <1>1, <1>2, <1>3, <1>4, <1>5 DEF StreamInv, EmitInv, HandedAll

\* The pieces of a list of events are events.
LEMMA FlatIsEvents ==
  ASSUME NEW s \in Seq(PieceType) PROVE Flat(s) \in Seq(PieceType)
<1>1. Event("done", 0, NoCall, NoCall, <<>>) \in PieceType
  BY TurnStreamAssumption DEF Event, PieceType, Kind
<1> QED
  BY <1>1, FlatOneMore

\* What a new event adds to what a reader is still to be handed.
LEMMA OneMoreToRead ==
  ASSUME TurnTypes, NEW g \in Seq(PieceType), NEW cur, Completes(g, cur),
         NEW e \in PieceType,
         log' = AppendEvent(log, e), written' = written \o Pieces(e)
  PROVE  Completes(g, cur)'
<1> DEFINE f == Flat(ReadFrom(log, cur))
           S == Seq(PieceType)
<1>1. /\ Fits(log', cur)
      /\ \E d \in PieceType :
           /\ Alike(d, e)
           /\ Flat(ReadFrom(log', cur)) = f \o Pieces(d)
  BY ReadsOneMore DEF TurnTypes, Completes
<1>2. PICK d \in PieceType :
        /\ Alike(d, e)
        /\ Flat(ReadFrom(log', cur)) = f \o Pieces(d)
  BY <1>1
<1>3. f \in S
  <2>1. ReadFrom(log, cur) \in S
    BY ReadsEvents DEF TurnTypes, Completes
  <2> QED
    BY <2>1, FlatIsEvents
<1> HIDE DEF f
<1>4. Pieces(d) \in S /\ Pieces(e) \in S /\ written \in S
  BY PiecesAreEvents DEF TurnTypes
<1>5. Words(g \o f) = Words(written)
  BY DEF Completes, f
<1>6. Words(g \o (f \o Pieces(d))) = Words(written \o Pieces(e))
  <2> DEFINE p == Pieces(d)
             q == Pieces(e)
  <2>1. p \in S /\ q \in S
    BY <1>4
  <2>2. Words(p) = Words(q)
    BY <1>2, AlikeInWords
  <2> HIDE DEF p, q
  <2>3. g \o (f \o p) = (g \o f) \o p /\ g \o f \in S
    <3>1. g \o (f \o p) = (g \o f) \o p
      BY <1>3, <2>1, ConcatAssociative
    <3>2. g \o f \in S
      BY <1>3, ConcatProperties
    <3> QED
      BY <3>1, <3>2
  <2>4. Words((g \o f) \o p) = Words(g \o f) \o Words(p)
    BY <2>1, <2>3, WordsJoin
  <2>5. Words(written \o q) = Words(written) \o Words(q)
    BY <1>4, <2>1, WordsJoin
  <2>6. Words(g \o (f \o p)) = Words(written \o q)
    BY <1>5, <2>2, <2>3, <2>4, <2>5
  <2> QED
    BY <2>6 DEF p, q
<1> QED
  BY <1>1, <1>2, <1>6 DEF Completes

\* A reader that has read all of the log has been handed all of it.
LEMMA ReadToTheEnd ==
  ASSUME TurnTypes, NEW g \in Seq(PieceType), NEW cur, Completes(g, cur)
  PROVE  LET all == g \o Flat(ReadFrom(log, cur))
             end == CursorAfter(log, cur)
         IN  /\ all \in Seq(PieceType) /\ Completes(all, end)
             /\ ReadFrom(log, end) = <<>>
             /\ end \in [index : Nat, offset : Nat]
             /\ Words(all) = Words(written)
<1> DEFINE f == Flat(ReadFrom(log, cur))
           all == g \o f
           end == CursorAfter(log, cur)
<1>1. Fits(log, cur) /\ Words(all) = Words(written)
  BY DEF Completes
<1>2. f \in Seq(PieceType)
  <2>1. ReadFrom(log, cur) \in Seq(PieceType)
    BY <1>1, ReadsEvents DEF TurnTypes
  <2> QED
    BY <2>1, FlatIsEvents
<1>3. Fits(log, end) /\ ReadFrom(log, end) = <<>>
  BY <1>1, CaughtUp DEF TurnTypes
<1> HIDE DEF f, end
<1>4. all \in Seq(PieceType)
  BY <1>2, ConcatProperties
<1> HIDE DEF all
<1>5. all \o Flat(ReadFrom(log, end)) = all
  <2>1. Flat(ReadFrom(log, end)) = <<>>
    BY <1>3, FlatOfOne
  <2> QED
    BY <1>4, <2>1, ConcatEmptySeq
<1>6. Completes(all, end)
  BY <1>1, <1>3, <1>5 DEF Completes
<1>7. end \in [index : Nat, offset : Nat]
  <2> DEFINE N == Len(log)
  <2>1. end \in [index : 0 .. N, offset : Nat] /\ N \in Nat
    BY <1>3 DEF Fits, TurnTypes
  <2> HIDE DEF N
  <2>2. 0 .. N \subseteq Nat
    BY <2>1
  <2> QED
    BY <2>1, <2>2
<1> QED
  BY <1>1, <1>3, <1>4, <1>6, <1>7 DEF all, f, end

\* One event reaches the log: emitted alone, with a single chunk, from a turn that is
\* not over.
LEMMA LogsOne ==
  ASSUME EmitInv, NEW w \in Loop, Log(w)
  PROVE  /\ ~ done
         /\ \E e \in PieceType :
              /\ pending[w] = <<e>> /\ Len(Pieces(e)) = 1
              /\ e.kind \notin Delta => Pieces(e) = <<e>>
              /\ log' = AppendEvent(log, e)
              /\ written' = written \o Pieces(e)
<1>1. PICK e \in PieceType : pending[w] = <<e>> /\ OneChunk(e)
  BY DEF EmitInv, PendingOne, Log
<1>2. pending[w][1] = e /\ pending[w] # <<>>
  BY <1>1
<1>3. Len(Pieces(e)) = 1 /\ (e.kind \notin Delta => Pieces(e) = <<e>>)
  BY <1>1, PiecesAreEvents DEF OneChunk
<1> QED
  BY <1>1, <1>2, <1>3 DEF Log, EmitInv, DoneIsQuiet

\* What the emitters keep.
LEMMA EmitStep ==
  ASSUME EmitInv, StreamNext
  PROVE  EmitInv'
<1>0. /\ LoopTypes /\ PendingOne /\ Quiet /\ DoneIsQuiet /\ TurnTypes /\ LastWord
      /\ Main \in Loop /\ Call \subseteq Loop /\ Main \notin Call
      /\ \A w \in Loop : w = Main \/ w \in Call
  BY TurnStreamAssumption DEF EmitInv, Loop
<1>1. CASE RunEmits
  <2>1. PICK w \in Loop, e \in PieceType :
          Emit(w, e) /\ OneChunk(e) /\ InTurn(w, e)
    BY <1>0, <1>1, EmitsInTurn
  <2>2. /\ pending[w] = <<>> /\ pending' = [pending EXCEPT ![w] = <<e>>]
        /\ UNCHANGED <<log, done, written>>
    BY <2>1 DEF Emit, turnVars
  <2>3. LoopTypes'
    BY <1>0, <1>1, EmitsAnEvent
  <2>4. PendingOne'
    BY <1>0, <2>1, <2>2 DEF PendingOne
  <2>5. lpc[Main] \in {"between", "model", "tools"} /\ ~ done
    BY <1>0, <2>1 DEF InTurn, DoneIsQuiet
  <2>6. TurnTypes' /\ DoneIsQuiet'
    BY <1>0, <2>2, <2>5 DEF TurnTypes, DoneIsQuiet
  <2>7. CASE w = Main
    <3>1. pending'[Main] = <<e>> /\ \A c \in Call : pending'[c] = pending[c]
      BY <1>0, <2>2, <2>7 DEF PendingOne
    <3>2. /\ lpc'[Main] \in {"model", "tools", "over", "failed"}
          /\ lpc'[Main] = "over" => e.kind = "done" /\ e.text = res'.text
          /\ lpc'[Main] = "failed" => e.kind = "error"
          /\ lpc'[Main] # "tools" => \A c \in Call : Parted(c)
      BY <1>0, <2>1, <2>7 DEF InTurn
    <3>3. Quiet'
      BY <3>1, <3>2 DEF Quiet, Parted, Busy
    <3>4. LastWord'
      BY <3>1, <3>2 DEF LastWord, LastEvent
    <3> QED
      BY <2>3, <2>4, <2>6, <3>3, <3>4 DEF EmitInv
  <2>8. CASE w \in Call
    <3>1. lpc'[Main] = "tools"
      BY <1>0, <2>1, <2>8 DEF InTurn
    <3>2. Quiet' /\ LastWord'
      BY <3>1 DEF Quiet, LastWord
    <3> QED
      BY <2>3, <2>4, <2>6, <3>2 DEF EmitInv
  <2> QED
    BY <1>0, <2>7, <2>8
<1>2. CASE Report
  <2> DEFINE e == Event("error", 0, NoCall, NoCall, <<>>)
  <2>1. /\ pending[Main] = <<>> /\ pending' = [pending EXCEPT ![Main] = <<e>>]
        /\ UNCHANGED <<log, done, written>> /\ ~ done
        /\ lpc[Main] \in {"over", "failed"} /\ lpc' = [lpc EXCEPT ![Main] = "reported"]
    BY <1>2 DEF Report, Emit, turnVars
  <2>2. e \in PieceType /\ OneChunk(e) /\ e.kind = "error"
    BY TurnStreamAssumption
       DEF Event, PieceType, Kind, Delta, OneChunk
  <2> HIDE DEF e
  <2>3. LoopTypes'
    BY <1>0, <1>2, EmitsAnEvent
  <2>4. PendingOne'
    BY <1>0, <2>1, <2>2 DEF PendingOne
  <2>5. TurnTypes' /\ DoneIsQuiet'
    BY <1>0, <2>1 DEF TurnTypes, DoneIsQuiet
  <2>6. /\ lpc'[Main] = "reported" /\ pending'[Main] = <<e>>
        /\ \A c \in Call : lpc'[c] = lpc[c] /\ pending'[c] = pending[c]
    BY <1>0, <2>1 DEF LoopTypes, PendingOne
  <2>7. Quiet' /\ LastWord'
    BY <1>0, <2>1, <2>2, <2>6 DEF Quiet, LastWord, LastEvent, Busy
  <2> QED
    BY <2>3, <2>4, <2>5, <2>7 DEF EmitInv
<1>3. CASE StreamFinish
  <2>1. /\ lpc[Main] \in {"over", "reported"} /\ \A w \in Loop : pending[w] = <<>>
        /\ done' = TRUE
        /\ UNCHANGED <<lpc, steps, said, res, chunks, retries, pending, log, written>>
    BY <1>3 DEF StreamFinish, loopVars
  <2> QED
    BY <1>0, <2>1 DEF EmitInv, LoopTypes, PendingOne, Quiet, DoneIsQuiet, TurnTypes, LastWord,
                      LastEvent, Busy
<1>4. ASSUME NEW w \in Loop, Log(w) PROVE EmitInv'
  <2>1. PICK e \in PieceType :
          /\ pending[w] = <<e>> /\ Len(Pieces(e)) = 1
          /\ e.kind \notin Delta => Pieces(e) = <<e>>
          /\ log' = AppendEvent(log, e)
          /\ written' = written \o Pieces(e)
    BY <1>4, LogsOne
  <2>2. /\ ~ done /\ pending' = [pending EXCEPT ![w] = <<>>]
        /\ UNCHANGED <<lpc, steps, said, res, chunks, retries, done>>
    BY <1>4, LogsOne DEF Log, loopVars
  <2>3. LoopTypes' /\ PendingOne' /\ Quiet' /\ DoneIsQuiet'
    BY <1>0, <2>2 DEF LoopTypes, PendingOne, Quiet, DoneIsQuiet, Busy
  <2>4. TurnTypes'
    <3>1. log' \in Seq(PieceType)
      BY <1>0, <2>1, AppendedLog DEF TurnTypes
    <3>2. written' \in Seq(PieceType)
      BY <1>0, <2>1, PiecesAreEvents, ConcatProperties DEF TurnTypes
    <3> QED
      BY <1>0, <2>2, <3>1, <3>2 DEF TurnTypes
  <2>5. LastWord'
    <3>1. CASE lpc[Main] \notin {"over", "failed", "reported"}
      BY <2>2, <3>1 DEF LastWord
    <3>2. CASE lpc[Main] \in {"over", "failed", "reported"}
      <4>1. w = Main
        <5>1. pending[w] # <<>>
          BY <2>1
        <5>2. \A c \in Call : pending[c] = <<>>
          BY <1>0, <3>2 DEF Quiet
        <5> QED
          BY <1>0, <5>1, <5>2
      <4>2. LastEvent = e /\ e.kind \in {"done", "error"}
        <5>1. pending[Main] # <<>> /\ pending[Main][1] = e
          <6>1. pending[Main] = <<e>>
            BY <2>1, <4>1
          <6> QED
            BY <6>1
        <5>2. LastEvent = e
          BY <5>1 DEF LastEvent
        <5>3. LastEvent.kind \in {"done", "error"}
          BY <1>0, <3>2 DEF LastWord
        <5> QED
          BY <5>2, <5>3
      <4>3. Pieces(e) = <<e>> /\ written \in Seq(PieceType)
        BY <1>0, <2>1, <4>2 DEF TurnTypes, Delta
      <4>4. written' = written \o <<e>>
        BY <2>1, <4>3
      <4>5. written' # <<>> /\ written'[Len(written')] = e
        BY <4>3, <4>4
      <4>6. pending'[Main] = <<>>
        BY <1>0, <2>2, <4>1 DEF PendingOne
      <4>7. LastEvent' = e
        BY <4>5, <4>6 DEF LastEvent
      <4> QED
        BY <1>0, <2>2, <4>2, <4>5, <4>7 DEF LastWord
    <3> QED
      BY <3>1, <3>2
  <2> QED
    BY <2>3, <2>4, <2>5 DEF EmitInv
<1>5. ASSUME NEW r \in Reader, Attach(r) \/ Reads(r) \/ Detach(r)
      PROVE  EmitInv'
  <2>1. UNCHANGED <<lpc, steps, said, res, chunks, retries, pending, log, done, written>>
    BY <1>5 DEF Attach, Reads, Detach, Wait, Wake,
                Heartbeat, Since, StreamEnd, loopVars, turnVars
  <2> QED
    BY <1>0, <2>1 DEF EmitInv, LoopTypes, PendingOne, Quiet, DoneIsQuiet, TurnTypes, LastWord,
                      LastEvent, Busy
<1> QED
  BY <1>1, <1>2, <1>3, <1>4, <1>5 DEF StreamNext

\* Handing a reader what it has not read leaves it with everything that was emitted.
LEMMA HandStep ==
  ASSUME StreamInv, NEW r \in Reader, NEW g \in Seq(PieceType), NEW cur,
         Completes(g, cur), Hand(r, cur, g),
         UNCHANGED <<log, done, written>>, bell' \in [Reader -> BOOLEAN]
  PROVE  /\ ReaderTypes' /\ HandedAll'
         /\ got' = [got EXCEPT ![r] = got'[r]]
         /\ Words(got'[r]) = Words(written)
<1> DEFINE all == g \o Flat(ReadFrom(log, cur))
           end == CursorAfter(log, cur)
           stage == IF done THEN "closing" ELSE "writing"
<1>0. TurnTypes /\ ReaderTypes /\ HandedAll
  BY DEF StreamInv, EmitInv
<1>1. /\ got' = [got EXCEPT ![r] = all] /\ cursor' = [cursor EXCEPT ![r] = end]
      /\ rpc' = [rpc EXCEPT ![r] = stage]
  BY DEF Hand
<1>2. /\ all \in Seq(PieceType) /\ Completes(all, end)
      /\ ReadFrom(log, end) = <<>> /\ end \in [index : Nat, offset : Nat]
      /\ Words(all) = Words(written)
  BY <1>0, ReadToTheEnd
<1> HIDE DEF all, end
<1>3. ReaderTypes'
  BY <1>0, <1>1, <1>2 DEF ReaderTypes
<1>4. /\ got'[r] = all /\ cursor'[r] = end /\ rpc'[r] = stage
      /\ \A q \in Reader : q # r => got'[q] = got[q] /\ cursor'[q] = cursor[q] /\ rpc'[q] = rpc[q]
  BY <1>0, <1>1 DEF ReaderTypes
<1>5. \A q \in Reader : Completes(got'[q], cursor'[q])
  BY <1>0, <1>2, <1>4 DEF HandedAll
<1>6. HandedAll'
  <2>1. Completes(<<>>, Start)' /\ \A q \in Reader : Completes(got[q], cursor[q])'
    BY <1>0, <1>5 DEF HandedAll, Completes
  <2>2. ASSUME NEW q \in Reader
        PROVE  /\ rpc'[q] \in {"off", "gone"} => got'[q] = <<>> /\ cursor'[q] = Start
               /\ rpc'[q] \in {"closing", "ended"} =>
                    done' /\ ReadFrom(log', cursor'[q]) = <<>>
    <3>1. CASE q = r
      <4>1. rpc'[q] \notin {"off", "gone", "ended"} /\ (rpc'[q] = "closing" => done)
        BY <1>4, <3>1
      <4> QED
        BY <1>2, <1>4, <3>1, <4>1
    <3>2. CASE q # r
      BY <1>0, <1>4, <3>2 DEF HandedAll
    <3> QED
      BY <3>1, <3>2
  <2> QED
    BY <2>1, <2>2 DEF HandedAll
<1> QED
  BY <1>1, <1>2, <1>3, <1>4, <1>6

\* Where the reader's own steps take it.
Onward(r) ==
  \/ rpc[r] = "writing" /\ rpc' = [rpc EXCEPT ![r] = "waiting"]
  \/ rpc[r] = "waiting" /\ rpc' = [rpc EXCEPT ![r] = "woken"]
  \/ rpc[r] = "closing" /\ rpc' = [rpc EXCEPT ![r] = "ended"]

\* What a reader has been handed, and what it is still to be.
LEMMA ReaderStep ==
  ASSUME StreamInv, StreamNext
  PROVE  ReaderTypes' /\ HandedAll'
<1>0. EmitInv /\ TurnTypes /\ ReaderTypes /\ HandedAll /\ LoopTypes
  BY DEF StreamInv, EmitInv
<1>1. CASE RunEmits \/ Report
  <2>1. UNCHANGED <<log, done, written, rpc, cursor, bell, got>>
    BY <1>0, <1>1, EmitsAnEvent DEF Emit, turnVars, readerVars
  <2> QED
    BY <1>0, <2>1 DEF ReaderTypes, HandedAll, Completes
<1>2. ASSUME RingAll PROVE bell' \in [Reader -> BOOLEAN]
  BY <1>2, <1>0, Zenon DEF RingAll, ReaderTypes
<1>3. CASE StreamFinish
  <2>1. UNCHANGED <<log, written, rpc, cursor, got>> /\ done' /\ bell' \in [Reader -> BOOLEAN]
    BY <1>2, <1>3 DEF StreamFinish
  <2> QED
    BY <1>0, <2>1 DEF ReaderTypes, HandedAll, Completes
<1>4. ASSUME NEW w \in Loop, Log(w) PROVE ReaderTypes' /\ HandedAll'
  <2>1. PICK e \in PieceType :
          log' = AppendEvent(log, e) /\ written' = written \o Pieces(e)
    BY <1>0, <1>4, LogsOne
  <2>2. ~ done
    BY <1>0, <1>4, LogsOne
  <2>3. UNCHANGED <<done, rpc, cursor, got>> /\ bell' \in [Reader -> BOOLEAN]
    BY <1>2, <1>4 DEF Log
  <2>4. \A g \in Seq(PieceType) : \A cur : Completes(g, cur) => Completes(g, cur)'
    BY <1>0, <2>1, OneMoreToRead
  <2>5. Completes(<<>>, Start)'
    <3>1. <<>> \in Seq(PieceType)
      OBVIOUS
    <3>2. \A cur : cur = Start => Completes(<<>>, cur)'
      BY <1>0, <2>4, <3>1 DEF HandedAll
    <3> QED
      BY <3>2 DEF Completes, Start
  <2>6. \A r \in Reader : Completes(got[r], cursor[r])'
    <3>1. ASSUME NEW r \in Reader PROVE Completes(got[r], cursor[r])'
      <4>1. got[r] \in Seq(PieceType) /\ Completes(got[r], cursor[r])
        BY <1>0 DEF ReaderTypes, HandedAll
      <4>2. \A g, cur : g = got[r] /\ cur = cursor[r] => Completes(g, cur)'
        BY <2>4, <4>1
      <4>3. got'[r] = got[r] /\ cursor'[r] = cursor[r]
        BY <2>3
      <4> QED
        BY <4>2, <4>3 DEF Completes
    <3> QED
      BY <3>1
  <2>7. ReaderTypes'
    BY <1>0, <2>3 DEF ReaderTypes
  <2> QED
    BY <1>0, <2>2, <2>3, <2>5, <2>6, <2>7 DEF HandedAll
<1>5. ASSUME NEW r \in Reader, Attach(r) PROVE ReaderTypes' /\ HandedAll'
  <2>1. /\ Hand(r, Start, <<>>) /\ bell' = [bell EXCEPT ![r] = FALSE]
        /\ UNCHANGED <<log, done, written>>
    BY <1>5 DEF Attach, turnVars
  <2>2. bell' \in [Reader -> BOOLEAN] /\ Completes(<<>>, Start)
    BY <1>0, <2>1 DEF ReaderTypes, HandedAll
  <2>3. <<>> \in Seq(PieceType)
    OBVIOUS
  <2> QED
    BY <2>1, <2>2, <2>3, HandStep
<1>6. ASSUME NEW r \in Reader, Since(r) PROVE ReaderTypes' /\ HandedAll'
  <2>1. /\ Hand(r, cursor[r], got[r]) /\ UNCHANGED <<log, done, written, bell>>
    BY <1>6 DEF Since, turnVars
  <2>2. /\ bell' \in [Reader -> BOOLEAN] /\ Completes(got[r], cursor[r])
        /\ got[r] \in Seq(PieceType)
    BY <1>0, <2>1 DEF ReaderTypes, HandedAll
  <2> QED
    BY <2>1, <2>2, HandStep
<1>7. ASSUME NEW r \in Reader,
             Wait(r) \/ Wake(r) \/ Heartbeat(r) \/ StreamEnd(r)
      PROVE  ReaderTypes' /\ HandedAll'
  <2>1. UNCHANGED <<log, done, written, cursor, got>> /\ Onward(r)
    BY <1>7 DEF Wait, Wake, Heartbeat, StreamEnd, turnVars,
                Onward
  <2>2. bell' = bell \/ bell' = [bell EXCEPT ![r] = FALSE]
    BY <1>7 DEF Wait, Wake, Heartbeat, StreamEnd
  <2>3. ReaderTypes'
    BY <1>0, <2>1, <2>2 DEF ReaderTypes, Onward
  <2>4. \A q \in Reader : /\ rpc'[q] \in {"off", "gone"} => rpc'[q] = rpc[q]
                          /\ rpc'[q] \in {"closing", "ended"} => rpc[q] \in {"closing", "ended"}
    BY <1>0, <2>1 DEF ReaderTypes, Onward
  <2>5. HandedAll'
    BY <1>0, <2>1, <2>4 DEF HandedAll, Completes
  <2> QED
    BY <2>3, <2>5
<1>8. ASSUME NEW r \in Reader, Detach(r) PROVE ReaderTypes' /\ HandedAll'
  <2>1. /\ rpc' = [rpc EXCEPT ![r] = "gone"] /\ got' = [got EXCEPT ![r] = <<>>]
        /\ cursor' = [cursor EXCEPT ![r] = Start] /\ bell' = [bell EXCEPT ![r] = FALSE]
        /\ UNCHANGED <<log, done, written>>
    BY <1>8 DEF Detach, turnVars
  <2>2. Start \in [index : Nat, offset : Nat] /\ <<>> \in Seq(PieceType)
    BY DEF Start
  <2>3. ReaderTypes'
    BY <1>0, <2>1, <2>2 DEF ReaderTypes
  <2>4. /\ got'[r] = <<>> /\ cursor'[r] = Start /\ rpc'[r] = "gone"
        /\ \A q \in Reader :
             q # r => got'[q] = got[q] /\ cursor'[q] = cursor[q] /\ rpc'[q] = rpc[q]
    BY <1>0, <2>1 DEF ReaderTypes
  <2>5. HandedAll'
    BY <1>0, <2>1, <2>4 DEF HandedAll, Completes
  <2> QED
    BY <2>3, <2>5
<1> QED
  BY <1>1, <1>3, <1>4, <1>5, <1>6, <1>7, <1>8 DEF StreamNext, Reads

\* Every variable of the stream's model has its type, the log's entries and the readers'
\* cursors fit each other, and a reader holds what it should: in every reachable state.
LEMMA StreamInvariance == StreamSpec => []StreamInv
<1>1. StreamInv /\ [StreamNext]_streamVars => StreamInv'
  <2> SUFFICES ASSUME StreamInv, [StreamNext]_streamVars PROVE StreamInv'
    OBVIOUS
  <2>1. CASE StreamNext
    BY <2>1, EmitStep, ReaderStep DEF StreamInv
  <2>2. CASE UNCHANGED streamVars
    <3>1. UNCHANGED <<lpc, steps, said, res, chunks, retries, pending, acc, log, done, written,
                      rpc, cursor, bell, got>>
      BY <2>2 DEF streamVars, loopVars, turnVars, readerVars
    <3> QED
      BY <3>1 DEF StreamInv, EmitInv, LoopTypes, PendingOne, Quiet, DoneIsQuiet, TurnTypes,
                  LastWord, LastEvent, ReaderTypes, HandedAll, Completes, Busy
  <2> QED
    BY <2>1, <2>2
<1> QED
  BY <1>1, StreamStarts, PTL DEF StreamSpec

\* Every variable of the stream has its type and no cursor points past the log, however
\* many emitters and readers there are and whatever they do.
THEOREM StreamTyped == StreamSpec => []StreamTypeOK
<1>1. StreamInv => StreamTypeOK
  <2> SUFFICES ASSUME StreamInv PROVE StreamTypeOK
    OBVIOUS
  <2>1. cursor \in [Reader -> [index : 0 .. Len(log), offset : Nat]]
    <3>1. \A r \in Reader : cursor[r] \in [index : 0 .. Len(log), offset : Nat]
      BY DEF StreamInv, HandedAll, Completes, Fits
    <3> QED
      BY <3>1 DEF StreamInv, ReaderTypes
  <2>2. ReaderTypes /\ LoopTypes /\ PendingOne /\ TurnTypes
    BY DEF StreamInv, EmitInv
  <2> QED
    BY <2>1, <2>2 DEF ReaderTypes, LoopTypes, PendingOne, TurnTypes, StreamTypeOK
<1> QED
  BY <1>1, StreamInvariance, PTL

-----------------------------------------------------------------------------
(* The refinement of module Broadcast.                                     *)

\* What the refinement sees of the readers.
Seen == [r \in Reader |-> Words(got[r])]
Told == {r \in Reader : rpc[r] = "ended"}

\* The stream as the refinement sees it, in every state.
LEMMA WordsAreASequence ==
  ASSUME StreamInv
  PROVE  /\ Words(written) \in Seq([kind : Kind, text : Seq(0 .. MaxChunks)])
         /\ \A r \in Reader :
              /\ Seen[r] = Words(got[r])
              /\ Len(Seen[r]) \in 0 .. Len(Words(written))
<1>0. TurnTypes /\ ReaderTypes /\ HandedAll
  BY DEF StreamInv, EmitInv
<1>1. written \in Seq(PieceType)
  BY <1>0 DEF TurnTypes
<1>2. ASSUME NEW r \in Reader PROVE Len(Words(got[r])) \in 0 .. Len(Words(written))
  <2> DEFINE g == got[r]
             f == Flat(ReadFrom(log, cursor[r]))
  <2>1. g \in Seq(PieceType)
    BY <1>0 DEF ReaderTypes
  <2>2. f \in Seq(PieceType)
    BY <1>0, ReadsEvents, FlatIsEvents DEF TurnTypes, HandedAll, Completes
  <2>3. Words(g \o f) = Words(written)
    BY <1>0 DEF HandedAll, Completes
  <2> HIDE DEF g, f
  <2>4. Len(g \o f) = Len(g) + Len(f) /\ Len(g) \in Nat /\ Len(f) \in Nat /\ g \o f \in Seq(PieceType)
    BY <2>1, <2>2, ConcatProperties
  <2>5. Len(Words(g)) = Len(g) /\ Len(Words(written)) = Len(g) + Len(f)
    <3>1. Len(Words(g)) = Len(g)
      BY <2>1, WordsJoin
    <3>2. Len(Words(g \o f)) = Len(g \o f)
      BY <2>4, WordsJoin
    <3> QED
      BY <2>3, <2>4, <3>1, <3>2
  <2>6. Len(Words(g)) \in 0 .. Len(Words(written))
    <3> DEFINE m == Len(g)
               n == Len(f)
    <3>1. m \in Nat /\ n \in Nat
      BY <2>4
    <3> HIDE DEF m, n
    <3>2. m \in 0 .. m + n
      BY <3>1
    <3> QED
      BY <2>5, <3>2 DEF m, n
  <2> QED
    BY <2>6 DEF g
<1>3. Words(written) \in Seq([kind : Kind, text : Seq(0 .. MaxChunks)])
  BY <1>1, WordsJoin
<1> QED
  BY <1>2, <1>3 DEF Seen

\* A reader that is handed everything is one that reads to the end of the stream.
LEMMA HandReads ==
  ASSUME StreamInv, NEW r \in Reader, rpc[r] # "ended",
         rpc' = [rpc EXCEPT ![r] = rpc'[r]], rpc'[r] # "ended",
         got' = [got EXCEPT ![r] = got'[r]],
         Words(got'[r]) = Words(written), UNCHANGED <<written, done>>
  PROVE  StreamPromise!Next
<1> DEFINE stream == Words(written)
           n == Len(stream)
           W == [kind : Kind, text : Seq(0 .. MaxChunks)]
<1>0. ReaderTypes
  BY DEF StreamInv
<1>1. stream \in Seq(W) /\ Seen[r] = Words(got[r]) /\ Len(Seen[r]) \in 0 .. n
  BY WordsAreASequence
<1>2. Told' = Told
  BY <1>0 DEF Told, ReaderTypes
<1>3. SubSeq(stream, 1, n) = stream
  <2> HIDE DEF stream
  <2> QED
    BY <1>1
<1>4. Seen' = [Seen EXCEPT ![r] = SubSeq(stream, 1, n)]
  <2>1. \A q \in Reader : q # r => got'[q] = got[q]
    BY <1>0 DEF ReaderTypes
  <2>2. \A q \in Reader : Seen'[q] = IF q = r THEN stream ELSE Seen[q]
    BY <2>1 DEF Seen
  <2> HIDE DEF stream
  <2> QED
    BY <1>3, <2>2 DEF Seen
<1>5. n \in Len(Seen[r]) .. n
  <2>1. n \in Nat
    <3> HIDE DEF stream, W
    <3> QED
      BY <1>1
  <2> HIDE DEF n
  <2> QED
    BY <1>1, <2>1
<1>6. stream' = stream /\ r \notin Told
  BY DEF Told
<1>7. StreamPromise!Read(r)
  BY <1>2, <1>4, <1>5, <1>6 DEF StreamPromise!Read, Seen, Told
<1> QED
  BY <1>7 DEF StreamPromise!Next

\* Every step of the stream is a step of Broadcast or leaves it alone.
LEMMA BroadcastStep ==
  StreamInv /\ [StreamNext]_streamVars => [StreamPromise!Next]_(StreamPromise!vars)
<1> SUFFICES ASSUME StreamInv, [StreamNext]_streamVars
             PROVE  StreamPromise!Next \/ UNCHANGED <<written, done, got, Told>>
  BY DEF StreamPromise!vars, Told
<1>0. /\ EmitInv /\ ReaderTypes /\ HandedAll /\ LoopTypes /\ TurnTypes
  BY DEF StreamInv, EmitInv
<1>1. CASE RunEmits \/ Report
  <2>1. UNCHANGED <<written, done, got, rpc>>
    BY <1>0, <1>1, EmitsAnEvent DEF Emit, turnVars, readerVars
  <2> QED
    BY <2>1 DEF Told
<1>2. CASE StreamFinish
  <2>1. UNCHANGED <<written, got, rpc>> /\ done' = TRUE
    BY <1>2 DEF StreamFinish
  <2>2. StreamPromise!Close
    BY <2>1 DEF StreamPromise!Close
  <2> QED
    BY <2>2 DEF StreamPromise!Next
<1>3. ASSUME NEW w \in Loop, Log(w) PROVE StreamPromise!Next
  <2>1. PICK e \in PieceType :
          Len(Pieces(e)) = 1 /\ written' = written \o Pieces(e)
    BY <1>0, <1>3, LogsOne
  <2>2. ~ done /\ UNCHANGED <<done, got, rpc>>
    BY <1>0, <1>3, LogsOne DEF Log
  <2> DEFINE old == Words(written)
             one == Words(Pieces(e))
             new == Words(written')
             W == [kind : Kind, text : Seq(0 .. MaxChunks)]
  <2>3. written \in Seq(PieceType) /\ Pieces(e) \in Seq(PieceType)
    BY <1>0, PiecesAreEvents DEF TurnTypes
  <2>4. /\ old \in Seq(W) /\ one \in Seq(W) /\ Len(one) = 1 /\ new = old \o one
    BY <2>1, <2>3, WordsJoin
  <2> HIDE DEF old, one, new, W
  <2>5. new # <<>> /\ StreamPromise!Front(new) = old
    <3>1. Len(new) = Len(old) + 1 /\ new \in Seq(W) /\ Len(old) \in Nat
      <4>1. old \o one \in Seq(W) /\ Len(old \o one) = Len(old) + Len(one)
        BY <2>4, ConcatProperties
      <4>2. Len(old) \in Nat
        BY <2>4
      <4> QED
        BY <2>4, <4>1, <4>2
    <3>2. \A i \in 1 .. Len(old) : new[i] = old[i]
      BY <2>4, ConcatProperties
    <3>3. SubSeq(new, 1, Len(new) - 1) = old
      <4> DEFINE n == Len(old)
      <4>1. n \in Nat /\ Len(new) - 1 = n /\ Len(new) = n + 1
        BY <3>1
      <4>2. SubSeq(new, 1, n) \in Seq(W) /\ Len(SubSeq(new, 1, n)) = n
        BY <3>1, <4>1
      <4>3. \A i \in 1 .. n : SubSeq(new, 1, n)[i] = new[i]
        BY <3>1, <4>1
      <4>4. \A i \in 1 .. n : SubSeq(new, 1, n)[i] = old[i]
        BY <3>2, <4>3
      <4>5. SubSeq(new, 1, n) = old
        BY <2>4, <4>2, <4>4, SeqEqual
      <4> QED
        BY <4>1, <4>5
    <3> QED
      BY <3>1, <3>3 DEF StreamPromise!Front
  <2>6. Told' = Told
    BY <2>2 DEF Told
  <2>7. StreamPromise!Publish
    BY <2>2, <2>5, <2>6 DEF StreamPromise!Publish, old, new, Told
  <2> QED
    BY <2>7 DEF StreamPromise!Next
<1>4. ASSUME NEW r \in Reader, Attach(r) PROVE StreamPromise!Next
  <2>1. /\ Hand(r, Start, <<>>) /\ bell' = [bell EXCEPT ![r] = FALSE]
        /\ UNCHANGED <<log, done, written>> /\ rpc[r] # "ended"
    BY <1>4 DEF Attach, turnVars
  <2>2. bell' \in [Reader -> BOOLEAN] /\ Completes(<<>>, Start)
    BY <1>0, <2>1 DEF ReaderTypes, HandedAll
  <2>3. <<>> \in Seq(PieceType)
    OBVIOUS
  <2>4. got' = [got EXCEPT ![r] = got'[r]] /\ Words(got'[r]) = Words(written)
    BY <2>1, <2>2, <2>3, HandStep
  <2>5. rpc' = [rpc EXCEPT ![r] = rpc'[r]] /\ rpc'[r] # "ended"
    BY <1>0, <2>1 DEF Hand, ReaderTypes
  <2> QED
    BY <2>1, <2>4, <2>5, HandReads
<1>5. ASSUME NEW r \in Reader, Since(r) PROVE StreamPromise!Next
  <2>1. /\ Hand(r, cursor[r], got[r]) /\ UNCHANGED <<log, done, written, bell>>
        /\ rpc[r] # "ended"
    BY <1>5 DEF Since, turnVars
  <2>2. /\ bell' \in [Reader -> BOOLEAN] /\ Completes(got[r], cursor[r])
        /\ got[r] \in Seq(PieceType)
    BY <1>0, <2>1 DEF ReaderTypes, HandedAll
  <2>3. got' = [got EXCEPT ![r] = got'[r]] /\ Words(got'[r]) = Words(written)
    BY <2>1, <2>2, HandStep
  <2>4. rpc' = [rpc EXCEPT ![r] = rpc'[r]] /\ rpc'[r] # "ended"
    BY <1>0, <2>1 DEF Hand, ReaderTypes
  <2> QED
    BY <2>1, <2>3, <2>4, HandReads
<1>6. ASSUME NEW r \in Reader, Wait(r) \/ Wake(r) \/ Heartbeat(r)
      PROVE  UNCHANGED <<written, done, got, Told>>
  <2>1. /\ UNCHANGED <<done, written, got>> /\ rpc[r] # "ended"
        /\ \E stage \in {"waiting", "woken"} : rpc' = [rpc EXCEPT ![r] = stage]
    BY <1>6 DEF Wait, Wake, Heartbeat, turnVars
  <2>2. Told' = Told
    BY <1>0, <2>1 DEF Told, ReaderTypes
  <2> QED
    BY <2>1, <2>2
<1>7. ASSUME NEW r \in Reader, StreamEnd(r) PROVE StreamPromise!Next
  <2>1. /\ UNCHANGED <<done, written, got>> /\ rpc[r] = "closing"
        /\ rpc' = [rpc EXCEPT ![r] = "ended"]
    BY <1>7 DEF StreamEnd, turnVars
  <2>2. done /\ ReadFrom(log, cursor[r]) = <<>>
    BY <1>0, <2>1 DEF HandedAll
  <2>3. Words(got[r]) = Words(written)
    <3>1. got[r] \in Seq(PieceType) /\ Flat(<<>>) = <<>>
      BY <1>0, FlatOfOne DEF ReaderTypes
    <3>2. got[r] \o <<>> = got[r]
      BY <3>1, ConcatEmptySeq
    <3> QED
      BY <1>0, <2>2, <3>1, <3>2 DEF HandedAll, Completes
  <2>4. Told' = Told \cup {r}
    BY <1>0, <2>1 DEF Told, ReaderTypes
  <2>5. Seen[r] = Words(written)
    BY <2>3 DEF Seen
  <2>6. StreamPromise!Tell(r)
    BY <2>1, <2>2, <2>4, <2>5 DEF StreamPromise!Tell, Seen, Told
  <2> QED
    BY <2>6 DEF StreamPromise!Next
<1>8. ASSUME NEW r \in Reader, Detach(r) PROVE StreamPromise!Next
  <2>1. /\ rpc' = [rpc EXCEPT ![r] = "gone"] /\ got' = [got EXCEPT ![r] = <<>>]
        /\ UNCHANGED <<done, written>>
    BY <1>8 DEF Detach, turnVars
  <2>2. Told' = Told \ {r}
    BY <1>0, <2>1 DEF Told, ReaderTypes
  <2>3. Words(<<>>) = <<>>
    BY DEF Words
  <2>4. \A q \in Reader : Seen'[q] = IF q = r THEN <<>> ELSE Seen[q]
    BY <1>0, <2>1, <2>3 DEF Seen, ReaderTypes
  <2>5. Seen' = [Seen EXCEPT ![r] = <<>>]
    BY <2>4 DEF Seen
  <2>6. StreamPromise!Leave(r)
    BY <2>1, <2>2, <2>5 DEF StreamPromise!Leave, Seen, Told
  <2> QED
    BY <2>6 DEF StreamPromise!Next
<1>9. CASE UNCHANGED streamVars
  <2>1. UNCHANGED <<written, done, got, rpc>>
    BY <1>9 DEF streamVars, turnVars, readerVars
  <2> QED
    BY <2>1 DEF Told
<1> QED
  BY <1>1, <1>2, <1>3, <1>4, <1>5, <1>6, <1>7, <1>8, <1>9 DEF StreamNext, Reads

\* Whatever is emitted and however the readers come, fall behind and go, every one of them
\* holds a prefix of one and the same stream, and is told it is over only when it holds
\* all of it: the log, the cursors and the doorbells implement module Broadcast.
THEOREM StreamKept == StreamSpec => StreamKeepsPromise
<1>1. StreamInit => StreamPromise!Init
  <2> SUFFICES ASSUME StreamInit PROVE StreamPromise!Init
    OBVIOUS
  <2>1. /\ written = <<>> /\ done = FALSE
        /\ got = [r \in Reader |-> <<>>] /\ rpc = [r \in Reader |-> "off"]
    BY Zenon DEF StreamInit
  <2>2. Words(<<>>) = <<>>
    BY DEF Words
  <2>3. Seen = [r \in Reader |-> <<>>] /\ Told = {}
    BY <2>1, <2>2 DEF Seen, Told
  <2> QED
    BY <2>1, <2>2, <2>3 DEF StreamPromise!Init, Seen, Told
<1> QED
  BY <1>1, BroadcastStep, StreamInvariance, PTL
     DEF StreamSpec, StreamKeepsPromise, StreamPromise!Spec

-----------------------------------------------------------------------------
(* What the browser makes of a list of events.                             *)

\* The step of the recursion in View, as a function of what came of the fewer.
Showing(events, f) ==
  [n \in 0 .. Len(events) |-> IF n = 0 THEN NewView ELSE Show(f[n - 1], events[n])]

Shown(events) == CHOOSE f : f = Showing(events, f)

\* There is such a function for every list of events.
LEMMA ShownIsDefined ==
  ASSUME NEW X, NEW s \in Seq(X)
  PROVE  /\ Shown(s)[0] = NewView
         /\ \A n \in 1 .. Len(s) : Shown(s)[n] = Show(Shown(s)[n - 1], s[n])
<1> DEFINE N == Len(s)
           Good(g, m) == \A n \in 0 .. m :
             g[n] = IF n = 0 THEN NewView ELSE Show(g[n - 1], s[n])
           S == {m \in 0 .. N : \E g : Good(g, m)}
<1>0. N \in Nat /\ Len(s) = N
  OBVIOUS
<1>1. 0 \in S
  <2>1. \A n \in 0 .. 0 : n = 0
    OBVIOUS
  <2> DEFINE g == [n \in {0} |-> NewView]
  <2>2. g[0] = NewView
    OBVIOUS
  <2>3. Good(g, 0)
    <3> HIDE DEF g
    <3> QED
      BY <2>1, <2>2
  <2>4. 0 \in 0 .. N
    BY <1>0
  <2> HIDE DEF g, Good, N
  <2> QED
    BY <2>3, <2>4
<1>2. ASSUME NEW n \in 1 .. N, n - 1 \in S PROVE n \in S
  <2> HIDE DEF N
  <2>1. PICK g : Good(g, n - 1)
    BY <1>2
  <2> DEFINE next == Show(g[n - 1], s[n])
             h == [k \in 0 .. n |-> IF k = n THEN next ELSE g[k]]
  <2>2. n \in Nat /\ n # 0 /\ n - 1 \in 0 .. n /\ n - 1 # n
    BY <1>0
  <2>3. h[n] = Show(h[n - 1], s[n])
    <3>1. h[n - 1] = g[n - 1] /\ h[n] = next
      <4> HIDE DEF next
      <4> QED
        BY <2>2
    <3> HIDE DEF h
    <3> QED
      BY <3>1
  <2>4. ASSUME NEW k \in 0 .. n, k # n
        PROVE  h[k] = IF k = 0 THEN NewView ELSE Show(h[k - 1], s[k])
    <3>1. k \in 0 .. n - 1 /\ h[k] = g[k]
      BY <2>2, <2>4
    <3>2. k # 0 => (k - 1 \in 0 .. n /\ k - 1 # n)
      BY <2>2, <2>4
    <3>3. k # 0 => h[k - 1] = g[k - 1]
      BY <3>2
    <3> HIDE DEF h
    <3> QED
      BY <2>1, <3>1, <3>3
  <2>5. Good(h, n)
    <3> HIDE DEF h
    <3> QED
      BY <2>2, <2>3, <2>4
  <2> HIDE DEF h, Good
  <2> QED
    BY <2>5, <1>0
<1>3. S = 0 .. N
  <2>1. S \in SUBSET (0 .. N)
    OBVIOUS
  <2> HIDE DEF S, N
  <2> QED
    BY <1>0, <1>1, <1>2, <2>1, AllUpTo
<1>4. PICK g : Good(g, N)
  <2>1. N \in S
    <3> HIDE DEF S, N
    <3> QED
      BY <1>3, <1>0
  <2> QED
    BY <2>1
<1> DEFINE f == [n \in 0 .. Len(s) |-> g[n]]
<1>5. f = Showing(s, f)
  <2>1. ASSUME NEW n \in 0 .. Len(s)
        PROVE  f[n] = IF n = 0 THEN NewView ELSE Show(f[n - 1], s[n])
    <3>1. n # 0 => n - 1 \in 0 .. Len(s)
      BY <1>0
    <3>2. f[n] = g[n] /\ (n # 0 => f[n - 1] = g[n - 1])
      BY <3>1
    <3> HIDE DEF f
    <3> QED
      BY <1>0, <1>4, <3>2
  <2>2. f = [n \in 0 .. Len(s) |-> f[n]]
    OBVIOUS
  <2> HIDE DEF f
  <2> QED
    BY <2>1, <2>2 DEF Showing
<1>6. Shown(s) = Showing(s, Shown(s))
  <2> HIDE DEF f
  <2> QED
    BY <1>5 DEF Shown
<1>7. \A n \in 0 .. Len(s) :
         Shown(s)[n] = IF n = 0 THEN NewView ELSE Show(Shown(s)[n - 1], s[n])
  <2> DEFINE J == Shown(s)
  <2>1. \A n \in 0 .. Len(s) :
           Showing(s, J)[n] = IF n = 0 THEN NewView ELSE Show(J[n - 1], s[n])
    BY DEF Showing
  <2> HIDE DEF J
  <2>2. J = Showing(s, J)
    BY <1>6 DEF J
  <2>3. \A n \in 0 .. Len(s) : J[n] = IF n = 0 THEN NewView ELSE Show(J[n - 1], s[n])
    BY <2>1, <2>2
  <2> QED
    BY <2>3 DEF J
<1>8. 0 \in 0 .. Len(s) /\ \A n \in 1 .. Len(s) : n \in 0 .. Len(s) /\ n # 0
  BY <1>0
<1> QED
  BY <1>7, <1>8

\* One more event is shown on what the others make.
LEMMA ViewOneMore ==
  ASSUME NEW X, NEW s \in Seq(X), NEW e \in X
  PROVE  /\ View(<<>>) = NewView
         /\ View(Append(s, e)) = Show(View(s), e)
<1> DEFINE N == Len(s)
           more == Append(s, e)
           J == Shown(s)
           M == Shown(more)
<1>0. /\ N \in Nat /\ more \in Seq(X) /\ Len(more) = N + 1
      /\ more[N + 1] = e /\ \A i \in 1 .. N : more[i] = s[i]
  BY AppendProperties
<1>1. \A q : View(q) = Shown(q)[Len(q)]
  BY DEF View, Shown, Showing
<1>2. View(<<>>) = NewView
  <2>1. <<>> \in Seq(X) /\ Len(<<>>) = 0
    OBVIOUS
  <2> QED
    BY <1>1, <2>1, ShownIsDefined
<1>3. J[0] = NewView /\ \A n \in 1 .. N : J[n] = Show(J[n - 1], s[n])
  BY ShownIsDefined
<1>4. M[0] = NewView /\ \A n \in 1 .. N + 1 : M[n] = Show(M[n - 1], more[n])
  BY <1>0, ShownIsDefined
<1> DEFINE S == {m \in 0 .. N : M[m] = J[m]}
<1> HIDE DEF M, J, N, more
<1>5. 0 \in S /\ S \in SUBSET (0 .. N)
  BY <1>0, <1>3, <1>4
<1>6. ASSUME NEW n \in 1 .. N, n - 1 \in S PROVE n \in S
  <2>1. n \in 0 .. N /\ n \in 1 .. N + 1 /\ M[n - 1] = J[n - 1]
    BY <1>0, <1>6
  <2> QED
    BY <1>0, <1>3, <1>4, <2>1
<1>7. S = 0 .. N
  <2> HIDE DEF S
  <2> QED
    BY <1>0, <1>5, <1>6, AllUpTo
<1>8. M[N] = J[N]
  BY <1>0, <1>7
<1>9. M[N + 1] = Show(M[N], e)
  <2>1. N + 1 \in 1 .. N + 1 /\ (N + 1) - 1 = N
    BY <1>0
  <2> QED
    BY <1>0, <1>4, <2>1
<1>10. View(more) = M[N + 1] /\ View(s) = J[N]
  BY <1>0, <1>1 DEF M, J, N
<1> QED
  BY <1>2, <1>8, <1>9, <1>10 DEF more

-----------------------------------------------------------------------------
(* What is stored and what is shown.                                       *)

\* No card has anything on it.
NoCards == [c \in Call |-> <<>>]

Views == [steps : Seq(StepType), answer : Seq(0 .. MaxChunks),
          calls : SUBSET (Call \cup {NoCall}), cards : {NoCards}]

\* The accumulator, in a turn without subagents.
AccShape(a) ==
  /\ a \in [steps : Seq(StepType), total : {a.total}, marks : {a.marks}, calls : {a.calls},
            cards : {NoCards}]
  /\ a.total = [k \in Delta |-> a.total[k]]

\* A reader is shown the steps that are on record, and no card is.
Agree(a, v) == AccShape(a) /\ v \in Views /\ v.steps = a.steps

\* What an event of the turn's own loop makes of the steps on record.
StepsAfter(s, e) ==
  CASE e.kind = "step_start" -> Append(s, Blank)
    [] e.kind = "step_retry" -> [s EXCEPT ![Len(s)] = Blank]
    [] e.kind \in Delta       -> [s EXCEPT ![Len(s)][e.kind] = @ \o e.text]
    [] OTHER                  -> s

\* An event that comes in the course of a step.
InStep(a, e) ==
  /\ e.kind = "step_start" => e.step = Len(a.steps) + 1
  /\ e.kind \in Delta \cup {"step_retry", "step_end"} => Len(a.steps) > 0
  /\ e.kind = "step_end" => e.text = a.steps[Len(a.steps)]["text"]

\* A step's text, changed.
LEMMA ChangedStep ==
  ASSUME NEW s \in Seq(StepType), Len(s) > 0, NEW t \in StepType
  PROVE  /\ [s EXCEPT ![Len(s)] = t] \in Seq(StepType)
         /\ Len([s EXCEPT ![Len(s)] = t]) = Len(s)
         /\ [s EXCEPT ![Len(s)] = t][Len(s)] = t
         /\ s[Len(s)] \in StepType
<1> DEFINE T == StepType
<1> HIDE DEF T
<1>1. s \in Seq(T) /\ t \in T
  BY DEF T
<1>2. Len(s) \in 1 .. Len(s)
  BY <1>1
<1>3. /\ [s EXCEPT ![Len(s)] = t] \in Seq(T)
      /\ Len([s EXCEPT ![Len(s)] = t]) = Len(s)
      /\ \A j \in 1 .. Len(s) : [s EXCEPT ![Len(s)] = t][j] = IF j = Len(s) THEN t ELSE s[j]
  BY <1>1, <1>2, ExceptSeq
<1>4. s[Len(s)] \in T
  BY <1>1, <1>2, ElementOfSeq
<1> QED
  BY <1>2, <1>3, <1>4 DEF T

\* Whatever the turn's own loop and its calls emit is shown as it is recorded.
LEMMA FoldAsShown ==
  ASSUME NEW a, NEW v, Agree(a, v), NEW e \in PieceType, e.parent = NoCall, InStep(a, e)
  PROVE  LET b == Fold(a, e)
             w == Show(v, e)
         IN  /\ Agree(b, w)
             /\ Len(b.steps) = IF e.kind = "step_start" THEN Len(a.steps) + 1 ELSE Len(a.steps)
             /\ b.steps = StepsAfter(a.steps, e)
             /\ e.kind = "done" /\ e.text # <<>> => w.answer = e.text
             /\ e.kind \in {"error", "tool_call", "tool_result"} =>
                  w.answer = v.answer /\ b.total = a.total /\ b.steps = a.steps
<1> DEFINE X == 0 .. MaxChunks
           n == Len(a.steps)
<1>0. /\ AccShape(a) /\ v \in Views /\ v.steps = a.steps /\ n \in Nat
      /\ a.steps \in Seq(StepType) /\ a.total = [k \in Delta |-> a.total[k]]
      /\ a \in [steps : Seq(StepType), total : {a.total}, marks : {a.marks}, calls : {a.calls},
                cards : {NoCards}]
      /\ v \in [steps : Seq(StepType), answer : Seq(X), calls : SUBSET (Call \cup {NoCall}),
                cards : {NoCards}]
      /\ v.answer \in Seq(X) /\ v.calls \in SUBSET (Call \cup {NoCall})
      /\ e.text \in Seq(X) /\ <<>> \in Seq(X) /\ e.kind \in Kind /\ e.call \in Call \cup {NoCall}
  BY DEF Agree, AccShape, Views, PieceType
<1>1. Blank \in StepType
  BY BlankType
<1>2. CASE e.kind = "step_start"
  <2> DEFINE s == Append(a.steps, Blank)
             m == Append(a.marks, [k \in Delta |-> Len(a.total[k])])
  <2>1. Fold(a, e) = [a EXCEPT !.steps = s, !.marks = m]
    BY <1>2 DEF Fold, Own, OpenStep, Delta
  <2>2. Show(v, e) = [v EXCEPT !.steps = s]
    <3>1. e.step > Len(v.steps)
      BY <1>0, <1>2 DEF InStep
    <3> QED
      BY <1>0, <1>2, <3>1 DEF Show, Own, Delta
  <2>3. s \in Seq(StepType) /\ Len(s) = n + 1 /\ s[n + 1] = Blank
    BY <1>0, <1>1, AppendProperties
  <2>a. StepsAfter(a.steps, e) = s
    BY <1>0, <1>2 DEF StepsAfter, Delta
  <2> HIDE DEF s, m
  <2>4. Fold(a, e) \in [steps : {s}, total : {a.total}, marks : {m}, calls : {a.calls},
                      cards : {NoCards}]
    BY <1>0, <2>1
  <2>5. Show(v, e) \in [steps : {s}, answer : {v.answer}, calls : {v.calls}, cards : {NoCards}]
    BY <1>0, <2>2
  <2> QED
    BY <1>0, <1>1, <1>2, <2>3, <2>4, <2>a, <2>5 DEF Agree, AccShape, Views
<1>3. CASE e.kind = "text"
  <2>0. "text" \in Delta
    BY DEF Delta
  <2> DEFINE t == [a.steps[n] EXCEPT !["text"] = @ \o e.text]
             s == [a.steps EXCEPT ![n] = t]
             u == [a.total EXCEPT !["text"] = @ \o e.text]
  <2>1. Fold(a, e) = [a EXCEPT !.steps = s, !.total = u]
    BY <1>0, <1>3, <2>0 DEF Fold, Own, AddDelta
  <2>2. Show(v, e) = [v EXCEPT !.steps = s, !.answer = v.answer \o e.text]
    BY <1>0, <1>3 DEF Show, Own
  <2>3. a.steps[n] \in StepType /\ n > 0
    BY <1>0, <1>3, <2>0, ElementOfSeq DEF InStep
  <2>4. t \in StepType /\ t["text"] = a.steps[n]["text"] \o e.text
    <3>1. a.steps[n]["text"] \o e.text \in Seq(X)
      <4>1. a.steps[n]["text"] \in Seq(X)
        BY <2>0, <2>3 DEF StepType
      <4> HIDE DEF X
      <4> QED
        BY <1>0, <4>1, ConcatProperties
    <3> QED
      BY <2>0, <2>3, <3>1 DEF StepType
  <2>5. v.answer \o e.text \in Seq(X)
    <3> HIDE DEF X
    <3> QED
      BY <1>0, ConcatProperties
  <2>6. u = [k \in Delta |-> u[k]]
    BY <1>0
  <2>a. StepsAfter(a.steps, e) = s
    BY <1>0, <1>3 DEF StepsAfter, Delta
  <2> HIDE DEF t, u
  <2>7. s \in Seq(StepType) /\ Len(s) = n /\ s[n] = t
    BY <1>0, <2>3, <2>4, ChangedStep
  <2> HIDE DEF s
  <2>8. Fold(a, e) \in [steps : {s}, total : {u}, marks : {a.marks}, calls : {a.calls},
                      cards : {NoCards}]
    BY <1>0, <2>1
  <2>9. Show(v, e) \in [steps : {s}, answer : {v.answer \o e.text}, calls : {v.calls}, cards : {NoCards}]
    BY <1>0, <2>2
  <2> QED
    BY <1>0, <1>3, <2>4, <2>a, <2>5, <2>6, <2>7, <2>8, <2>9 DEF Agree, AccShape, Views
<1>4. CASE e.kind = "reasoning"
  <2>0. "reasoning" \in Delta /\ "text" \in Delta
    BY DEF Delta
  <2> DEFINE t == [a.steps[n] EXCEPT !["reasoning"] = @ \o e.text]
             s == [a.steps EXCEPT ![n] = t]
             u == [a.total EXCEPT !["reasoning"] = @ \o e.text]
  <2>1. Fold(a, e) = [a EXCEPT !.steps = s, !.total = u]
    BY <1>0, <1>4, <2>0 DEF Fold, Own, AddDelta
  <2>2. Show(v, e) = [v EXCEPT !.steps = s]
    BY <1>0, <1>4 DEF Show, Own
  <2>3. a.steps[n] \in StepType /\ n > 0
    BY <1>0, <1>4, <2>0, ElementOfSeq DEF InStep
  <2>4. t \in StepType /\ t["text"] = a.steps[n]["text"]
    <3>1. a.steps[n]["reasoning"] \o e.text \in Seq(X)
      <4>1. a.steps[n]["reasoning"] \in Seq(X)
        BY <2>0, <2>3 DEF StepType
      <4> HIDE DEF X
      <4> QED
        BY <1>0, <4>1, ConcatProperties
    <3> QED
      BY <2>0, <2>3, <3>1 DEF StepType
  <2>6. u = [k \in Delta |-> u[k]]
    BY <1>0
  <2>a. StepsAfter(a.steps, e) = s
    BY <1>0, <1>4 DEF StepsAfter, Delta
  <2> HIDE DEF t, u
  <2>7. s \in Seq(StepType) /\ Len(s) = n /\ s[n] = t
    BY <1>0, <2>3, <2>4, ChangedStep
  <2> HIDE DEF s
  <2>8. Fold(a, e) \in [steps : {s}, total : {u}, marks : {a.marks}, calls : {a.calls},
                      cards : {NoCards}]
    BY <1>0, <2>1
  <2>9. Show(v, e) \in [steps : {s}, answer : {v.answer}, calls : {v.calls}, cards : {NoCards}]
    BY <1>0, <2>2
  <2> QED
    BY <1>0, <1>4, <2>4, <2>a, <2>6, <2>7, <2>8, <2>9 DEF Agree, AccShape, Views
<1>5. CASE e.kind = "step_retry"
  <2> DEFINE s == [a.steps EXCEPT ![n] = Blank]
             u == [k \in Delta |-> SubSeq(a.total[k], 1, a.marks[n][k])]
  <2>1. Fold(a, e) = [a EXCEPT !.steps = s, !.total = u]
    BY <1>0, <1>5 DEF Fold, Own, RetryStep, Delta
  <2>2. Show(v, e) = [v EXCEPT !.steps = s, !.answer = <<>>]
    BY <1>0, <1>5 DEF Show, Own, Delta
  <2>3. n > 0
    BY <1>5 DEF InStep
  <2>4. s \in Seq(StepType) /\ Len(s) = n /\ s[n] = Blank
    BY <1>0, <1>1, <2>3, ChangedStep
  <2>5. u = [k \in Delta |-> u[k]]
    OBVIOUS
  <2>a. StepsAfter(a.steps, e) = s
    BY <1>0, <1>5 DEF StepsAfter, Delta
  <2> HIDE DEF s, u
  <2>6. Fold(a, e) \in [steps : {s}, total : {u}, marks : {a.marks}, calls : {a.calls},
                      cards : {NoCards}]
    BY <1>0, <2>1
  <2>7. Show(v, e) \in [steps : {s}, answer : {<<>>}, calls : {v.calls}, cards : {NoCards}]
    BY <1>0, <2>2
  <2> QED
    BY <1>0, <1>1, <1>5, <2>4, <2>a, <2>5, <2>6, <2>7 DEF Agree, AccShape, Views
<1>6. CASE e.kind = "step_end"
  <2>1. Fold(a, e) = a
    BY <1>6 DEF Fold, Own, Delta
  <2> DEFINE t == [a.steps[n] EXCEPT !["text"] = e.text]
  <2>2. Show(v, e) = [v EXCEPT !.steps = [a.steps EXCEPT ![n] = t], !.answer = <<>>]
    BY <1>0, <1>6 DEF Show, Own, Delta
  <2>3. n > 0 /\ e.text = a.steps[n]["text"]
    BY <1>6 DEF InStep
  <2>4. a.steps[n] \in StepType /\ n \in 1 .. n
    BY <1>0, <2>3, ChangedStep, <1>1
  <2>5. t = a.steps[n]
    BY <2>3, <2>4 DEF StepType
  <2> HIDE DEF t
  <2>6. [a.steps EXCEPT ![n] = t] = a.steps
    BY <1>0, <2>4, <2>5
  <2>7. Show(v, e) \in [steps : {a.steps}, answer : {<<>>}, calls : {v.calls}, cards : {NoCards}]
    BY <1>0, <2>2, <2>6
  <2> QED
    BY <1>0, <1>6, <2>1, <2>7 DEF Agree, AccShape, Views, StepsAfter, Delta
<1>7. CASE e.kind = "tool_call"
  <2>1. Fold(a, e) = [a EXCEPT !.calls = @ \cup {e.call}]
    BY <1>7 DEF Fold, Own, Delta
  <2>2. Show(v, e) = [v EXCEPT !.calls = @ \cup {e.call}]
    BY <1>7 DEF Show, Own, Delta
  <2> DEFINE p == a.calls \cup {e.call}
             q == v.calls \cup {e.call}
  <2>3. q \in SUBSET (Call \cup {NoCall})
    BY <1>0
  <2> HIDE DEF p, q
  <2>4. Fold(a, e) \in [steps : {a.steps}, total : {a.total}, marks : {a.marks}, calls : {p},
                      cards : {NoCards}]
    BY <1>0, <2>1 DEF p
  <2>5. Show(v, e) \in [steps : {a.steps}, answer : {v.answer}, calls : {q}, cards : {NoCards}]
    BY <1>0, <2>2 DEF q
  <2> QED
    BY <1>0, <1>7, <2>3, <2>4, <2>5 DEF Agree, AccShape, Views, StepsAfter, Delta
<1>8. CASE e.kind \in {"tool_result", "error"} \/ (e.kind = "done" /\ e.text = <<>>)
  <2>1. Fold(a, e) = a
    BY <1>8 DEF Fold, Own, Delta, SettleAnswer
  <2>2. Show(v, e) = v
    BY <1>8 DEF Show, Own, Delta
  <2> QED
    BY <1>0, <1>8, <2>1, <2>2 DEF Agree, StepsAfter, Delta
<1>9. CASE e.kind = "done" /\ e.text # <<>>
  <2>0. "text" \in Delta
    BY DEF Delta
  <2> DEFINE u == [a.total EXCEPT !["text"] = e.text]
  <2>1. Fold(a, e) = [a EXCEPT !.total = u]
    BY <1>0, <1>9 DEF Fold, Own, Delta, SettleAnswer
  <2>2. Show(v, e) = [v EXCEPT !.answer = e.text]
    BY <1>0, <1>9 DEF Show, Own, Delta
  <2>3. u = [k \in Delta |-> u[k]] /\ u["text"] = e.text
    BY <1>0, <2>0
  <2> HIDE DEF u
  <2>4. Fold(a, e) \in [steps : {a.steps}, total : {u}, marks : {a.marks}, calls : {a.calls},
                      cards : {NoCards}]
    BY <1>0, <2>1
  <2>5. Show(v, e) \in [steps : {a.steps}, answer : {e.text}, calls : {v.calls}, cards : {NoCards}]
    BY <1>0, <2>2
  <2> QED
    BY <1>0, <1>9, <2>3, <2>4, <2>5 DEF Agree, AccShape, Views, StepsAfter, Delta
<1> QED
  <2>1. e.kind \in {"text", "reasoning", "step_start", "step_end", "step_retry", "tool_call",
                    "tool_result", "done", "error"}
    BY <1>0 DEF Kind, Delta
  <2> QED
    BY <1>2, <1>3, <1>4, <1>5, <1>6, <1>7, <1>8, <1>9, <2>1

-----------------------------------------------------------------------------
(* A turn without subagents: its reader is shown what will be stored.      *)

Tools == {"tool_call", "tool_result"}

\* Its calls say only that they begin and end.
CallsAreTools ==
  \A c \in Call :
    /\ lpc[c] \in {"idle", "asked", "over", "returned"}
    /\ pending[c] # <<>> => pending[c][1].kind \in Tools /\ pending[c][1].parent = NoCall

\* An event of its own loop is alone on its way to the log.
MainAlone ==
  pending[Main] # <<>> =>
    /\ pending[Main][1].parent = NoCall /\ pending[Main][1].call = NoCall
    /\ pending[Main][1].kind \notin Tools
    /\ pending[Main][1].kind \in Delta => pending[Main][1].step = steps[Main]
    /\ \A c \in Call : pending[c] = <<>> /\ lpc[c] \in {"idle", "asked", "returned"}

\* A delta at the end of the log is of the step the loop is in, or something else is about
\* to be logged behind it.
LastDelta ==
  log # <<>> /\ log[Len(log)].kind \in Delta =>
    /\ log[Len(log)].parent = NoCall /\ log[Len(log)].call = NoCall
    /\ \/ log[Len(log)].step = steps[Main]
       \/ pending[Main] # <<>> /\ pending[Main][1].kind \notin Delta

\* The steps on record beside the run's own plan: those that have joined the plan and the
\* one the loop is in; when the loop is over, those of the plan, unless it failed, and the
\* one more that the loop guard looked at.
OnRecord(stage, result, last, s) ==
  /\ stage = "between" => s = <<>> /\ result.plan = <<>>
  /\ stage \in {"model", "tools"} => s = Append(result.plan, last)
  /\ stage \in {"over", "failed", "reported"} =>
       IF result.stop = "guard" THEN s = Append(result.plan, last)
                                ELSE result.plan \in {<<>>, s}

\* The steps on record are those the loop has started.
StepTold ==
  /\ Len(acc.steps) = steps[Main]
  /\ lpc[Main] = "model" => steps[Main] > 0
  /\ OnRecord(lpc[Main], res, said[Main], acc.steps)

\* What is shown of all that the turn's own loop has emitted.
Ahead ==
  IF pending[Main] = <<>> THEN View(written) ELSE Show(View(written), pending[Main][1])

\* An answer of some length.
Settles(e) == Own(e, {"done"}) /\ e.text # <<>>

Given == Answered \/ (pending[Main] # <<>> /\ Settles(pending[Main][1]))

\* The answer that was given is the run's, and is shown.
AnswerSays ==
  Given => /\ lpc[Main] \in {"over", "reported"}
           /\ Ahead.answer = res.text /\ res.text # <<>>

\* A reader that was handed g and is at cur is handed, if it reads on, all that was emitted.
Whole(g, cur) == g \o Flat(ReadFrom(log, cur)) = written

HandedWhole == Whole(<<>>, Start) /\ \A r \in Reader : Whole(got[r], cursor[r])

ShownInv ==
  /\ CallsAreTools /\ MainAlone /\ LastDelta /\ StepTold
  /\ Agree(acc, Ahead) /\ AnswerSays /\ HandedWhole

\* The turn's own loop emits e.
OwnStep(e) ==
  /\ Emit(Main, e)
  /\ e.parent = NoCall /\ e.call = NoCall /\ e.kind \notin Tools
  /\ InStep(acc, e)
  /\ lpc[Main] \in {"between", "model", "tools"}
  /\ \A c \in Call : pending[c] = <<>> /\ lpc'[c] \in {"idle", "asked", "returned"}
  /\ steps'[Main] = IF e.kind = "step_start" THEN steps[Main] + 1 ELSE steps[Main]
  /\ e.kind \in Delta => e.step = steps'[Main]
  /\ e.kind = "done" => lpc'[Main] = "over" /\ e.text = res'.text
  /\ lpc'[Main] = "model" => steps'[Main] > 0
  /\ OnRecord(lpc'[Main], res', said'[Main], StepsAfter(acc.steps, e))

\* A call emits e.
CallStep(c, e) ==
  /\ Emit(c, e)
  /\ e.kind \in Tools /\ e.parent = NoCall
  /\ lpc[Main] = "tools" /\ pending[Main] = <<>>
  /\ lpc'[Main] = lpc[Main] /\ steps' = steps /\ said' = said /\ res' = res
  /\ \A d \in Call : lpc'[d] \in {"idle", "asked", "over", "returned"}

\* The last of a list, changed.
LEMMA ChangedLast ==
  ASSUME NEW p \in Seq(StepType), NEW x \in StepType
  PROVE  /\ Append(p, x) \in Seq(StepType)
         /\ Len(Append(p, x)) = Len(p) + 1 /\ Len(p) \in Nat
         /\ Append(p, x)[Len(p) + 1] = x
         /\ \A y \in StepType : [Append(p, x) EXCEPT ![Len(p) + 1] = y] = Append(p, y)
<1> DEFINE T == StepType
<1> HIDE DEF T
<1>1. p \in Seq(T) /\ x \in T
  BY DEF T
<1>2. Append(p, x) \in Seq(T) /\ Len(Append(p, x)) = Len(p) + 1 /\ Len(p) \in Nat
  BY <1>1
<1>3. Append(p, x)[Len(p) + 1] = x
  BY <1>1
<1>4. ASSUME NEW y \in T PROVE [Append(p, x) EXCEPT ![Len(p) + 1] = y] = Append(p, y)
  <2> DEFINE a == Append(p, x)
             n == Len(p) + 1
             s == [a EXCEPT ![n] = y]
             q == Append(p, y)
  <2>0. a \in Seq(T) /\ n \in 1 .. Len(a) /\ Len(a) = n
    BY <1>2
  <2>1. /\ s \in Seq(T) /\ Len(s) = n
        /\ \A j \in 1 .. n : s[j] = IF j = n THEN y ELSE a[j]
    <3> HIDE DEF a, n
    <3> QED
      BY <2>0, ExceptSeq
  <2>2. /\ q \in Seq(T) /\ Len(q) = Len(p) + 1 /\ q[Len(p) + 1] = y
        /\ \A j \in 1 .. Len(p) : q[j] = p[j]
    BY <1>1, AppendProperties
  <2>3. \A j \in 1 .. Len(p) : Append(p, x)[j] = p[j]
    BY <1>1, AppendProperties
  <2> HIDE DEF s, q
  <2>4. \A j \in 1 .. Len(p) + 1 : s[j] = q[j]
    BY <1>2, <2>1, <2>2, <2>3
  <2>5. s = q
    BY <2>1, <2>2, <2>4, SeqEqual
  <2> QED
    BY <2>5 DEF s, q
<1> QED
  BY <1>2, <1>3, <1>4 DEF T

\* Without subagents nobody else emits.
LEMMA EmitsPlainly ==
  ASSUME Spawning = {}, EmitInv, CallsAreTools, MainAlone, StepTold, RunEmits
  PROVE  \/ \E e \in PieceType : OwnStep(e) /\ OneChunk(e)
         \/ \E c \in Call, e \in PieceType : CallStep(c, e)
<1> DEFINE X == 0 .. MaxChunks
           Goal == \/ \E e \in PieceType : OwnStep(e) /\ OneChunk(e)
                   \/ \E c \in Call, e \in PieceType : CallStep(c, e)
<1>0. /\ Main \in Loop /\ Call \subseteq Loop /\ Main \notin Call
      /\ \A w \in Loop : w = Main \/ w \in Call
      /\ LoopTypes /\ Quiet /\ PendingOne /\ said[Main] \in StepType
      /\ steps[Main] \in Nat /\ res \in ResultType /\ res.plan \in Seq(StepType)
  <2>1. /\ Main \in Loop /\ Call \subseteq Loop /\ Main \notin Call
        /\ \A w \in Loop : w = Main \/ w \in Call
        /\ LoopTypes /\ Quiet /\ PendingOne
    BY TurnStreamAssumption DEF Loop, EmitInv
  <2>2. /\ said[Main] \in StepType /\ steps[Main] \in 0 .. MaxSteps
        /\ res \in ResultType /\ res.plan \in Seq(StepType)
    BY <2>1 DEF LoopTypes, ResultType
  <2> QED
    BY <2>1, <2>2, TurnStreamAssumption
<1>1. PICK w \in Loop, e \in PieceType : Emit(w, e) /\ OneChunk(e)
  BY <1>0, EmitsAnEvent
<1>2. \A v \in Loop : \A d : Emit(v, d) => v = w /\ d = e
  BY <1>0, <1>1, OneEmission DEF PendingOne
<1>3. ASSUME NEW kind, NEW text, Emit(Main, LoopEvent(Main, kind, text))
      PROVE  /\ Emit(Main, e) /\ e.kind = kind /\ e.text = text
             /\ e.parent = NoCall /\ e.call = NoCall /\ e.step = steps'[Main]
  BY <1>0, <1>2, <1>3 DEF LoopEvent, Event
<1>4. /\ lpc[Main] # "tools" => \A c \in Call : lpc[c] \in {"idle", "returned"} /\ pending[c] = <<>>
      /\ Joined(Main) => \A c \in Call : lpc[c] \in {"idle", "returned"} /\ pending[c] = <<>>
  BY <1>0 DEF Quiet, Busy, Joined
<1>5. \A c \in Call : lpc[c] \in {"idle", "asked", "over", "returned"}
  BY DEF CallsAreTools
<1>6. ASSUME OwnStep(e) PROVE Goal
  BY <1>1, <1>6
<1>7. steps[Main] = Len(acc.steps)
  BY DEF StepTold
<1>r. /\ lpc[Main] = "between" => acc.steps = <<>> /\ res.plan = <<>>
      /\ lpc[Main] \in {"model", "tools"} => acc.steps = Append(res.plan, said[Main])
      /\ lpc[Main] \in {"between", "model", "tools"} => Planned(Main) = acc.steps
  BY DEF StepTold, OnRecord, Planned
<1>s. /\ Append(res.plan, said[Main]) \in Seq(StepType)
      /\ Len(Append(res.plan, said[Main])) = Len(res.plan) + 1
      /\ Append(res.plan, said[Main])[Len(res.plan) + 1] = said[Main]
      /\ \A y \in StepType : [Append(res.plan, said[Main]) EXCEPT ![Len(res.plan) + 1] = y]
                              = Append(res.plan, y)
  BY <1>0, ChangedLast
<1>8. /\ \A k \in {"step_start", "step_end", "step_retry", "done", "error"} :
           k \notin Delta \cup Tools
      /\ \A k \in Delta : k \notin Tools \cup {"step_start", "step_end", "step_retry", "done"}
  BY DEF Delta, Tools
<1> HIDE DEF Goal
<1>9. ASSUME StepStart(Main) PROVE Goal
  <2>1. /\ Emit(Main, e) /\ e.kind = "step_start" /\ e.parent = NoCall /\ e.call = NoCall
        /\ e.step = steps'[Main]
    BY <1>3, <1>9 DEF StepStart
  <2>2. /\ lpc[Main] \in {"between", "model", "tools"} /\ (lpc[Main] = "tools" => Joined(Main))
        /\ lpc' = [lpc EXCEPT ![Main] = "model"]
        /\ said' = [said EXCEPT ![Main] = Blank]
        /\ res' = [res EXCEPT !.plan = Planned(Main)]
        /\ steps' = [steps EXCEPT ![Main] = steps[Main] + 1]
    BY <1>9 DEF StepStart
  <2>3. /\ steps'[Main] = steps[Main] + 1 /\ said'[Main] = Blank /\ lpc'[Main] = "model"
        /\ res'.plan = acc.steps
    BY <1>0, <1>r, <2>2 DEF LoopTypes, ResultType
  <2>4. InStep(acc, e)
    BY <1>7, <1>8, <2>1, <2>3 DEF InStep
  <2>5. \A c \in Call : pending[c] = <<>> /\ lpc'[c] \in {"idle", "asked", "returned"}
    BY <1>0, <1>4, <2>2 DEF LoopTypes
  <2>6. steps'[Main] > 0
    BY <1>0, <2>3
  <2>7. OnRecord(lpc'[Main], res', said'[Main], StepsAfter(acc.steps, e))
    <3>1. StepsAfter(acc.steps, e) = Append(acc.steps, Blank)
      BY <2>1 DEF StepsAfter, Delta
    <3> QED
      BY <2>3, <3>1 DEF OnRecord
  <2> QED
    BY <1>6, <1>8, <2>1, <2>2, <2>3, <2>4, <2>5, <2>6, <2>7 DEF OwnStep
<1>10. ASSUME NEW kind \in Delta, Say(Main, kind) PROVE Goal
  <2>1. /\ Emit(Main, e) /\ e.kind = kind /\ e.parent = NoCall /\ e.call = NoCall
        /\ e.step = steps'[Main] /\ e.text = <<chunks'>>
    BY <1>3, <1>10 DEF Say
  <2>2. /\ lpc[Main] = "model" /\ lpc' = lpc /\ steps' = steps /\ res' = res
        /\ said' = [said EXCEPT ![Main][kind] = Append(@, chunks')]
    BY <1>10 DEF Say
  <2> DEFINE t == [said[Main] EXCEPT ![kind] = @ \o e.text]
  <2>3. said'[Main] = t
    <3>1. said'[Main] = [said[Main] EXCEPT ![kind] = Append(said[Main][kind], chunks')]
      BY <1>0, <2>2 DEF LoopTypes
    <3>2. chunks' \in X /\ said[Main][kind] \in Seq(X)
      <4>1. LoopTypes'
        BY <1>0, EmitsAnEvent
      <4> QED
        BY <1>0, <4>1 DEF LoopTypes, StepType
    <3>3. Append(said[Main][kind], chunks') = said[Main][kind] \o <<chunks'>>
      <4> HIDE DEF X
      <4> QED
        BY <3>2, AppendIsConcat
    <3> QED
      BY <2>1, <3>1, <3>3
  <2>7. OnRecord(lpc'[Main], res', said'[Main], StepsAfter(acc.steps, e))
    <3>1. acc.steps = Append(res.plan, said[Main]) /\ Len(acc.steps) = Len(res.plan) + 1
          /\ acc.steps[Len(acc.steps)] = said[Main]
      BY <1>r, <1>s, <2>2
    <3>2. StepsAfter(acc.steps, e) = [acc.steps EXCEPT ![Len(acc.steps)][kind] = @ \o e.text]
      BY <1>8, <2>1 DEF StepsAfter
    <3>3. StepsAfter(acc.steps, e) = [acc.steps EXCEPT ![Len(acc.steps)] = t]
      BY <3>1, <3>2
    <3> HIDE DEF t
    <3>4. StepsAfter(acc.steps, e) = Append(res.plan, t)
      BY <1>s, <3>1, <3>3
    <3> QED
      BY <2>2, <2>3, <3>4 DEF OnRecord
  <2> HIDE DEF t
  <2>4. steps[Main] > 0
    BY <2>2 DEF StepTold
  <2>5. InStep(acc, e)
    BY <1>7, <1>8, <2>1, <2>4 DEF InStep
  <2>6. \A c \in Call : pending[c] = <<>> /\ lpc'[c] \in {"idle", "asked", "returned"}
    BY <1>4, <2>2
  <2> QED
    BY <1>6, <1>8, <2>1, <2>2, <2>4, <2>5, <2>6, <2>7 DEF OwnStep
<1>11. ASSUME Retry(Main) PROVE Goal
  <2>1. /\ Emit(Main, e) /\ e.kind = "step_retry" /\ e.parent = NoCall /\ e.call = NoCall
    BY <1>3, <1>11 DEF Retry
  <2>2. /\ lpc[Main] = "model" /\ lpc' = lpc /\ steps' = steps /\ res' = res
        /\ said' = [said EXCEPT ![Main] = Blank]
    BY <1>11 DEF Retry
  <2>3. OnRecord(lpc'[Main], res', said'[Main], StepsAfter(acc.steps, e))
    <3>1. said'[Main] = Blank
      BY <1>0, <2>2 DEF LoopTypes
    <3>2. StepsAfter(acc.steps, e) = [acc.steps EXCEPT ![Len(acc.steps)] = Blank]
      BY <2>1 DEF StepsAfter, Delta
    <3>3. StepsAfter(acc.steps, e) = Append(res.plan, Blank)
      BY <1>r, <1>s, <2>2, <3>2, BlankType
    <3> QED
      BY <2>2, <3>1, <3>3 DEF OnRecord
  <2>4. steps[Main] > 0
    BY <2>2 DEF StepTold
  <2>5. InStep(acc, e)
    BY <1>7, <1>8, <2>1, <2>4 DEF InStep
  <2>6. \A c \in Call : pending[c] = <<>> /\ lpc'[c] \in {"idle", "asked", "returned"}
    BY <1>4, <2>2
  <2> QED
    BY <1>6, <1>8, <2>1, <2>2, <2>3, <2>4, <2>5, <2>6 DEF OwnStep
<1>12. ASSUME StepEnd(Main) PROVE Goal
  <2>1. /\ Emit(Main, e) /\ e.kind = "step_end" /\ e.parent = NoCall /\ e.call = NoCall
        /\ e.text = said[Main]["text"]
    BY <1>3, <1>12 DEF StepEnd
  <2>2. PICK asked \in SUBSET {c \in Call : lpc[c] = "idle"} :
          lpc' = [x \in Loop |-> IF x = Main THEN "tools"
                                 ELSE IF x \in asked THEN "asked" ELSE lpc[x]]
    BY <1>12 DEF StepEnd
  <2>3. lpc[Main] = "model" /\ steps' = steps /\ said' = said /\ res' = res
    BY <1>12 DEF StepEnd
  <2>4. lpc'[Main] = "tools"
    BY <1>0, <2>2
  <2>5. InStep(acc, e)
    BY <1>7, <1>8, <1>r, <1>s, <2>1, <2>3 DEF InStep, StepTold
  <2>7. OnRecord(lpc'[Main], res', said'[Main], StepsAfter(acc.steps, e))
    BY <1>8, <1>r, <2>1, <2>3, <2>4 DEF OnRecord, StepsAfter
  <2>6. \A c \in Call : pending[c] = <<>> /\ lpc'[c] \in {"idle", "asked", "returned"}
    BY <1>0, <1>4, <2>2, <2>3
  <2> QED
    BY <1>6, <1>8, <2>1, <2>3, <2>4, <2>5, <2>6, <2>7 DEF OwnStep
<1>13. ASSUME Answer(Main) PROVE Goal
  <2>1. /\ Emit(Main, e) /\ e.kind = "done" /\ e.parent = NoCall /\ e.call = NoCall
    BY <1>3, <1>13 DEF Answer
  <2>2. /\ lpc[Main] \in {"between", "model", "tools"} /\ (lpc[Main] # "model" => Joined(Main))
        /\ lpc' = [lpc EXCEPT ![Main] = "over"] /\ steps' = steps /\ said' = said
    BY <1>13 DEF Answer
  <2>3. lpc'[Main] = "over"
    BY <1>0, <2>2 DEF LoopTypes
  <2>4. InStep(acc, e)
    BY <1>8, <2>1 DEF InStep
  <2>5. \A c \in Call : pending[c] = <<>> /\ lpc'[c] \in {"idle", "asked", "returned"}
    BY <1>0, <1>4, <2>2 DEF LoopTypes
  <2>6. /\ e.text = res'.text
        /\ OnRecord("over", res', said[Main], acc.steps)
    <3>1. CASE /\ lpc[Main] = "model" /\ Emit(Main, LoopEvent(Main, "done", said[Main]["text"]))
               /\ EndsWith(Main, [text |-> said[Main]["text"], plan |-> Planned(Main),
                                  stop |-> "none"])
      BY <1>3, <1>r, <3>1 DEF EndsWith, OnRecord
    <3>2. CASE /\ lpc[Main] \in {"between", "tools"} /\ Emit(Main, LoopEvent(Main, "done", <<0>>))
               /\ EndsWith(Main, [text |-> <<0>>, plan |-> Planned(Main), stop |-> "budget"])
      BY <1>3, <1>r, <3>2 DEF EndsWith, OnRecord
    <3>3. CASE /\ lpc[Main] = "tools" /\ Emit(Main, LoopEvent(Main, "done", <<0>>))
               /\ EndsWith(Main, [text |-> <<0>>, plan |-> res.plan, stop |-> "guard"])
      BY <1>3, <1>r, <3>3 DEF EndsWith, OnRecord
    <3> QED
      BY <1>13, <3>1, <3>2, <3>3 DEF Answer
  <2>7. OnRecord(lpc'[Main], res', said'[Main], StepsAfter(acc.steps, e))
    <3>1. StepsAfter(acc.steps, e) = acc.steps
      BY <1>8, <2>1 DEF StepsAfter
    <3> QED
      BY <2>2, <2>3, <2>6, <3>1
  <2> QED
    BY <1>6, <1>8, <2>1, <2>2, <2>3, <2>4, <2>5, <2>6, <2>7 DEF OwnStep
<1>14. ASSUME Fail(Main) PROVE Goal
  <2>1. /\ Emit(Main, e) /\ e.kind = "error" /\ e.parent = NoCall /\ e.call = NoCall
    BY <1>3, <1>14 DEF Fail
  <2>2. /\ lpc[Main] \in {"between", "model", "tools"} /\ Joined(Main)
        /\ lpc' = [lpc EXCEPT ![Main] = "failed"] /\ steps' = steps /\ res' = NoResult
    BY <1>14 DEF Fail, EndsWith
  <2>3. lpc'[Main] = "failed"
    BY <1>0, <2>2 DEF LoopTypes
  <2>4. InStep(acc, e)
    BY <1>8, <2>1 DEF InStep
  <2>5. \A c \in Call : pending[c] = <<>> /\ lpc'[c] \in {"idle", "asked", "returned"}
    BY <1>0, <1>4, <2>2 DEF LoopTypes
  <2>6. OnRecord(lpc'[Main], res', said'[Main], StepsAfter(acc.steps, e))
    BY <2>2, <2>3 DEF OnRecord, NoResult
  <2> QED
    BY <1>6, <1>8, <2>1, <2>2, <2>3, <2>4, <2>5, <2>6 DEF OwnStep
<1>15. ASSUME NEW c \in Call, CallStart(c) \/ CallEnd(c) PROVE Goal
  <2>1. /\ lpc[c] \in {"asked", "over"} /\ steps' = steps /\ said' = said /\ res' = res
        /\ lpc' = [lpc EXCEPT ![c] = IF lpc[c] = "asked" THEN "over" ELSE "returned"]
    BY <1>15 DEF CallStart, CallEnd
  <2>2. pending[Main] = <<>>
    BY <1>15 DEF CallStart, CallEnd, MainAlone
  <2>3. PICK kind \in Tools : Emit(c, Event(kind, steps[Main], NoCall, c, <<>>))
    BY <1>15 DEF CallStart, CallEnd, Tools
  <2>4. Emit(c, e) /\ e.kind \in Tools /\ e.parent = NoCall
    BY <1>0, <1>2, <2>3 DEF Event
  <2>5. lpc[Main] = "tools" /\ lpc'[Main] = lpc[Main]
    BY <1>0, <1>4, <2>1 DEF LoopTypes
  <2>6. \A d \in Call : lpc'[d] \in {"idle", "asked", "over", "returned"}
    BY <1>0, <1>5, <2>1 DEF LoopTypes
  <2>7. CallStep(c, e)
    BY <2>1, <2>2, <2>4, <2>5, <2>6 DEF CallStep
  <2> QED
    BY <1>1, <2>7 DEF Goal
<1>16. ASSUME NEW c \in Call, NEW kind,
              StepStart(c) \/ Say(c, kind) \/ Retry(c) \/ StepEnd(c) \/ Answer(c) \/ Fail(c)
       PROVE  Goal
  <2>1. lpc[c] \in {"between", "model", "tools"}
    BY <1>16 DEF StepStart, Say, Retry, StepEnd, Answer, Fail
  <2> QED
    BY <1>5, <2>1
<1> QED
  <2>1. PICK v \in Loop :
          \/ StepStart(v) \/ Retry(v) \/ StepEnd(v) \/ Answer(v) \/ Fail(v)
          \/ \E kind \in Delta : Say(v, kind)
          \/ v \in Call /\ (CallStart(v) \/ CallEnd(v))
    BY <1>0 DEF RunEmits
  <2>2. CASE v = Main
    BY <1>0, <1>9, <1>10, <1>11, <1>12, <1>13, <1>14, <2>1, <2>2 DEF Goal
  <2>3. CASE v \in Call
    BY <1>15, <1>16, <2>1, <2>3 DEF Goal
  <2> QED
    BY <1>0, <2>2, <2>3 DEF Goal

\* A tool's event changes no step and no answer, in the accumulator or in the browser.
LEMMA ToolShown ==
  ASSUME NEW a, NEW v, Agree(a, v), NEW e \in PieceType, e.parent = NoCall,
         e.kind \in Tools \cup {"error"}
  PROVE  /\ Agree(Fold(a, e), v) /\ Agree(a, Show(v, e))
         /\ Fold(a, e).steps = a.steps /\ Fold(a, e).total = a.total
         /\ Show(v, e).answer = v.answer
<1>1. InStep(a, e) /\ e.kind \in {"error", "tool_call", "tool_result"}
  BY DEF InStep, Tools, Delta
<1>2. /\ Agree(Fold(a, e), Show(v, e)) /\ Fold(a, e).steps = a.steps
      /\ Fold(a, e).total = a.total /\ Show(v, e).answer = v.answer
  BY <1>1, FoldAsShown
<1> QED
  BY <1>2 DEF Agree

\* An event that amounts to one piece is that piece.
LEMMA OnePiece ==
  ASSUME NEW e \in PieceType, Len(Pieces(e)) = 1
  PROVE  Pieces(e) = <<e>>
<1>1. CASE e.kind \notin Delta
  BY <1>1, PiecesAreEvents
<1>2. CASE e.kind \in Delta
  <2> DEFINE X == 0 .. MaxChunks
             t == e.text
             p == Pieces(e)
  <2>1. t \in Seq(X) /\ Len(t) = 1 /\ p \in Seq(PieceType) /\ Len(p) = 1
    BY <1>2, PieceFields, PiecesAreEvents
  <2>2. p[1] = WithText(e, <<t[1]>>)
    BY <1>2, <2>1, PiecesAreEvents
  <2>3. <<t[1]>> = t
    <3> HIDE DEF X, t
    <3> QED
      BY <2>1
  <2>4. WithText(e, t) = e
    <3>1. e = [e EXCEPT !.text = e.text]
      BY DEF PieceType
    <3> QED
      BY <3>1 DEF WithText
  <2>5. p[1] = e
    BY <2>2, <2>3, <2>4
  <2> HIDE DEF p
  <2>6. p = <<p[1]>>
    BY <2>1
  <2> QED
    BY <2>5, <2>6 DEF p
<1> QED
  BY <1>1, <1>2

\* The turn's own loop goes on.
LEMMA OwnStepShown ==
  ASSUME StreamInv, ShownInv, NEW e \in PieceType, OwnStep(e)
  PROVE  ShownInv'
<1>0. /\ CallsAreTools /\ MainAlone /\ LastDelta /\ StepTold /\ Agree(acc, Ahead)
      /\ AnswerSays /\ HandedWhole /\ Main \in Loop /\ Call \subseteq Loop /\ Main \notin Call
      /\ pending \in [Loop -> Seq(PieceType)]
  BY TurnStreamAssumption DEF ShownInv, StreamInv, EmitInv, PendingOne, Loop
<1>1. /\ pending[Main] = <<>> /\ pending' = [pending EXCEPT ![Main] = <<e>>]
      /\ acc' = Fold(acc, e) /\ UNCHANGED <<log, done, written, rpc, cursor, bell, got>>
  BY DEF OwnStep, Emit, turnVars, readerVars
<1>2. /\ pending'[Main] = <<e>> /\ pending'[Main] # <<>> /\ pending'[Main][1] = e
      /\ \A c \in Call : pending'[c] = <<>>
  BY <1>0, <1>1 DEF OwnStep
<1>3. ~ Given
  BY <1>0 DEF AnswerSays, OwnStep
<1>4. Ahead = View(written) /\ Ahead' = Show(View(written), e)
  BY <1>1, <1>2 DEF Ahead
<1>5. /\ Agree(acc', Ahead')
      /\ Len(acc'.steps) = IF e.kind = "step_start" THEN Len(acc.steps) + 1 ELSE Len(acc.steps)
      /\ acc'.steps = StepsAfter(acc.steps, e)
      /\ e.kind = "done" /\ e.text # <<>> => Ahead'.answer = e.text
  BY <1>0, <1>1, <1>4, FoldAsShown DEF OwnStep
<1>6. CallsAreTools' /\ MainAlone'
  BY <1>2 DEF CallsAreTools, MainAlone, OwnStep
<1>7. LastDelta'
  <2>1. e.kind \in Delta => steps'[Main] = steps[Main]
    BY DEF OwnStep, Delta
  <2> QED
    BY <1>0, <1>1, <1>2, <2>1 DEF LastDelta
<1>8. StepTold'
  BY <1>0, <1>5 DEF StepTold, OwnStep
<1>9. AnswerSays'
  <2>1. Given' => Settles(e)
    BY <1>1, <1>2, <1>3 DEF Given, Answered
  <2>2. Settles(e) => e.kind = "done" /\ e.text # <<>>
    BY DEF Settles, Own
  <2> QED
    BY <1>5, <2>1, <2>2 DEF AnswerSays, OwnStep
<1>10. HandedWhole'
  BY <1>0, <1>1 DEF HandedWhole, Whole
<1> QED
  BY <1>5, <1>6, <1>7, <1>8, <1>9, <1>10 DEF ShownInv

\* A call begins or ends.
LEMMA CallStepShown ==
  ASSUME StreamInv, ShownInv, NEW c \in Call, NEW e \in PieceType, CallStep(c, e)
  PROVE  ShownInv'
<1>0. /\ CallsAreTools /\ MainAlone /\ LastDelta /\ StepTold /\ Agree(acc, Ahead)
      /\ AnswerSays /\ HandedWhole /\ Main \in Loop /\ Call \subseteq Loop /\ Main \notin Call
      /\ pending \in [Loop -> Seq(PieceType)]
  BY TurnStreamAssumption DEF ShownInv, StreamInv, EmitInv, PendingOne, Loop
<1>1. /\ pending' = [pending EXCEPT ![c] = <<e>>]
      /\ acc' = Fold(acc, e) /\ UNCHANGED <<log, done, written, rpc, cursor, bell, got, steps, said, res>>
  BY DEF CallStep, Emit, turnVars, readerVars
<1>2. /\ pending[Main] = <<>> /\ pending'[Main] = <<>> /\ pending'[c][1] = e
      /\ \A d \in Call : d # c => pending'[d] = pending[d]
  BY <1>0, <1>1 DEF CallStep
<1>3. ~ Given
  BY <1>0 DEF AnswerSays, CallStep
<1>4. Ahead = View(written) /\ Ahead' = Ahead
  BY <1>1, <1>2 DEF Ahead
<1>5. Agree(acc', Ahead') /\ acc'.steps = acc.steps
  BY <1>0, <1>1, <1>4, ToolShown DEF CallStep
<1>6. CallsAreTools'
  BY <1>0, <1>2 DEF CallsAreTools, CallStep
<1>7. MainAlone'
  BY <1>2 DEF MainAlone
<1>8. LastDelta'
  BY <1>0, <1>1, <1>2 DEF LastDelta
<1>9. StepTold'
  BY <1>0, <1>1, <1>5 DEF StepTold, CallStep
<1>10. AnswerSays'
  BY <1>1, <1>2, <1>3 DEF AnswerSays, Given, Answered
<1>11. HandedWhole'
  BY <1>0, <1>1 DEF HandedWhole, Whole
<1> QED
  BY <1>5, <1>6, <1>7, <1>8, <1>9, <1>10, <1>11 DEF ShownInv

\* A failure is reported.
LEMMA ReportShown ==
  ASSUME StreamInv, ShownInv, Report
  PROVE  ShownInv'
<1> DEFINE e == Event("error", 0, NoCall, NoCall, <<>>)
<1>0. /\ CallsAreTools /\ MainAlone /\ LastDelta /\ StepTold /\ Agree(acc, Ahead)
      /\ AnswerSays /\ HandedWhole /\ Main \in Loop /\ Call \subseteq Loop /\ Main \notin Call
      /\ pending \in [Loop -> Seq(PieceType)] /\ LoopTypes /\ Quiet
  BY TurnStreamAssumption DEF ShownInv, StreamInv, EmitInv, PendingOne, Loop
<1>1. /\ pending[Main] = <<>> /\ pending' = [pending EXCEPT ![Main] = <<e>>]
      /\ acc' = Fold(acc, e) /\ UNCHANGED <<log, done, written, rpc, cursor, bell, got, steps, said, res>>
      /\ lpc[Main] \in {"over", "failed"} /\ lpc' = [lpc EXCEPT ![Main] = "reported"]
  BY DEF Report, Emit, turnVars, readerVars
<1>2. /\ e \in PieceType /\ e.kind = "error" /\ e.parent = NoCall /\ e.call = NoCall
      /\ e.kind \notin Delta /\ e.kind \notin Tools
  BY TurnStreamAssumption DEF Event, PieceType, Kind, Delta, Tools
<1> HIDE DEF e
<1>3. /\ pending'[Main] = <<e>> /\ pending'[Main] # <<>> /\ pending'[Main][1] = e
      /\ \A c \in Call : pending'[c] = pending[c] /\ lpc'[c] = lpc[c]
      /\ lpc'[Main] = "reported"
  BY <1>0, <1>1 DEF LoopTypes
<1>4. \A c \in Call : pending'[c] = <<>> /\ lpc'[c] \in {"idle", "asked", "returned"}
  BY <1>0, <1>1, <1>3 DEF Quiet, Busy
<1>5. Ahead = View(written) /\ Ahead' = Show(View(written), e)
  BY <1>1, <1>3 DEF Ahead
<1>6. /\ Agree(acc', Ahead') /\ acc'.steps = acc.steps /\ acc'.total = acc.total
      /\ Ahead'.answer = Ahead.answer
  <2>1. /\ Agree(Fold(acc, e), Ahead) /\ Fold(acc, e).steps = acc.steps
        /\ Agree(acc, Show(Ahead, e)) /\ Fold(acc, e).total = acc.total
        /\ Show(Ahead, e).answer = Ahead.answer
    BY <1>0, <1>2, ToolShown
  <2> QED
    BY <1>1, <1>5, <2>1 DEF Agree
<1>7. CallsAreTools' /\ MainAlone' /\ LastDelta'
  BY <1>0, <1>1, <1>2, <1>3, <1>4 DEF CallsAreTools, MainAlone, LastDelta
<1>8. StepTold'
  BY <1>0, <1>1, <1>3, <1>6 DEF StepTold, OnRecord
<1>9. AnswerSays'
  <2>1. ~ Settles(e)
    BY <1>2 DEF Settles, Own
  <2>2. Given' => Given
    BY <1>1, <1>3, <2>1 DEF Given, Answered
  <2> QED
    BY <1>0, <1>1, <1>3, <1>6, <2>2 DEF AnswerSays
<1>10. HandedWhole'
  BY <1>0, <1>1 DEF HandedWhole, Whole
<1> QED
  BY <1>6, <1>7, <1>8, <1>9, <1>10 DEF ShownInv

\* An answer in the log was there, or has just come.
LEMMA AnsweredGrows ==
  ASSUME TurnTypes, NEW e \in PieceType, log' = AppendEvent(log, e), Answered'
  PROVE  Answered \/ Settles(e)
<1>0. log \in Seq(PieceType) /\ log' \in Seq(PieceType)
  BY AppendedLog DEF TurnTypes
<1>1. PICK i \in DOMAIN log' : Own(log'[i], {"done"}) /\ log'[i].text # <<>>
  BY DEF Answered
<1>2. CASE ~ Merges(log, e)
  <2>1. log' = log \o <<e>>
    BY <1>0, <1>2, AppendedLog
  <2>2. CASE i = Len(log) + 1
    <3>1. log'[i] = e
      BY <1>0, <2>1, <2>2
    <3> QED
      BY <1>1, <3>1 DEF Settles
  <2>3. CASE i # Len(log) + 1
    <3>1. i \in DOMAIN log /\ log'[i] = log[i]
      BY <1>0, <1>1, <2>1, <2>3
    <3> QED
      BY <1>1, <3>1 DEF Answered
  <2> QED
    BY <2>2, <2>3
<1>3. CASE Merges(log, e)
  <2> DEFINE m == log[Len(log)]
  <2>1. /\ m \in PieceType /\ m.kind = e.kind /\ e.kind \in Delta /\ Len(log') = Len(log)
        /\ log'[Len(log)] = WithText(m, m.text \o e.text)
        /\ \A j \in 1 .. Len(log) : j # Len(log) => log'[j] = log[j]
    BY <1>0, <1>3, AppendedLog DEF Merges
  <2>2. WithText(m, m.text \o e.text).kind = m.kind
    BY <2>1 DEF WithText, PieceType
  <2>3. i # Len(log)
    BY <1>1, <2>1, <2>2 DEF Own, Delta
  <2>4. i \in DOMAIN log /\ log'[i] = log[i]
    <3>1. i \in 1 .. Len(log)
      BY <1>0, <1>1, <2>1
    <3> QED
      BY <1>0, <2>1, <2>3, <3>1
  <2> QED
    BY <1>1, <2>4 DEF Answered
<1> QED
  BY <1>2, <1>3

\* A reader is handed what is new as well, when nothing is lost by merging.
LEMMA WholeGrows ==
  ASSUME TurnTypes, NEW g \in Seq(PieceType), NEW cur, Fits(log, cur), Whole(g, cur),
         NEW e \in PieceType, Merges(log, e) => SameSource(log, e),
         log' = AppendEvent(log, e), written' = written \o Pieces(e)
  PROVE  Whole(g, cur)'
<1> DEFINE f == Flat(ReadFrom(log, cur))
           p == Pieces(e)
           S == Seq(PieceType)
<1>1. Flat(ReadFrom(log', cur)) = f \o p
  BY ReadsOneMore DEF TurnTypes
<1>2. f \in S /\ p \in S
  BY ReadsEvents, FlatIsEvents, PiecesAreEvents DEF TurnTypes
<1>3. written' = (g \o f) \o p
  BY DEF Whole
<1> HIDE DEF f, p
<1>4. (g \o f) \o p = g \o (f \o p)
  BY <1>2, ConcatAssociative
<1> QED
  BY <1>1, <1>3, <1>4 DEF Whole

\* An event reaches the log, and the readers with it.
LEMMA LogShown ==
  ASSUME StreamInv, ShownInv, NEW w \in Loop, Log(w)
  PROVE  ShownInv'
<1>0. /\ CallsAreTools /\ MainAlone /\ LastDelta /\ StepTold /\ Agree(acc, Ahead)
      /\ AnswerSays /\ HandedWhole /\ Main \in Loop /\ Call \subseteq Loop /\ Main \notin Call
      /\ (w = Main \/ w \in Call)
      /\ pending \in [Loop -> Seq(PieceType)] /\ EmitInv /\ TurnTypes /\ ReaderTypes /\ HandedAll
      /\ log \in Seq(PieceType) /\ written \in Seq(PieceType)
  BY TurnStreamAssumption DEF ShownInv, StreamInv, EmitInv, PendingOne, Loop, TurnTypes
<1>1. PICK e \in PieceType :
        /\ pending[w] = <<e>> /\ Len(Pieces(e)) = 1
        /\ log' = AppendEvent(log, e) /\ written' = written \o Pieces(e)
  BY <1>0, LogsOne
<1>2. /\ pending' = [pending EXCEPT ![w] = <<>>]
      /\ UNCHANGED <<lpc, steps, said, res, acc, done, rpc, cursor, got>>
  BY DEF Log, loopVars
<1>3. pending[w] # <<>> /\ pending[w][1] = e
  BY <1>1
<1>4. /\ pending'[w] = <<>>
      /\ \A v \in Loop : v # w => pending'[v] = pending[v]
  BY <1>0, <1>2
<1>5. View(written') = Show(View(written), e)
  <2>1. written' = Append(written, e)
    <3>1. written' = written \o <<e>>
      BY <1>1, OnePiece
    <3> HIDE DEF PieceType
    <3> QED
      BY <1>0, <3>1, AppendIsConcat
  <2> QED
    BY <1>0, <2>1, ViewOneMore
<1>6. /\ w \in Call => e.kind \in Tools /\ e.parent = NoCall /\ pending[Main] = <<>>
      /\ w = Main => /\ e.parent = NoCall /\ e.call = NoCall /\ e.kind \notin Tools
                     /\ e.kind \in Delta => e.step = steps[Main]
  <2>1. ASSUME w \in Call PROVE e.kind \in Tools /\ e.parent = NoCall /\ pending[Main] = <<>>
    BY <1>0, <1>3, <2>1 DEF CallsAreTools, MainAlone
  <2>2. ASSUME w = Main PROVE /\ e.parent = NoCall /\ e.call = NoCall /\ e.kind \notin Tools
                              /\ e.kind \in Delta => e.step = steps[Main]
    BY <1>0, <1>3, <2>2 DEF MainAlone
  <2> QED
    BY <2>1, <2>2
<1>7. Agree(acc', Ahead') /\ Ahead'.answer = Ahead.answer
  <2>1. CASE w = Main
    <3>1. Ahead' = Ahead
      BY <1>0, <1>3, <1>4, <1>5, <2>1 DEF Ahead
    <3> QED
      BY <1>0, <1>2, <3>1
  <2>2. CASE w \in Call
    <3>1. pending[Main] = <<>> /\ pending'[Main] = <<>>
      BY <1>0, <1>4, <1>6, <2>2
    <3>2. Ahead' = Show(Ahead, e)
      BY <1>5, <3>1 DEF Ahead
    <3>3. Agree(acc, Show(Ahead, e)) /\ Show(Ahead, e).answer = Ahead.answer
      BY <1>0, <1>6, <2>2, ToolShown
    <3> QED
      BY <1>2, <3>2, <3>3
  <2> QED
    BY <1>0, <2>1, <2>2
<1>8. CallsAreTools' /\ MainAlone' /\ StepTold'
  <2>1. \A v \in Loop : pending'[v] # <<>> => pending'[v] = pending[v]
    BY <1>4
  <2>2. CallsAreTools'
    BY <1>0, <1>2, <2>1 DEF CallsAreTools
  <2>3. MainAlone'
    <3>1. ASSUME pending'[Main] # <<>> PROVE pending'[Main] = pending[Main] /\ w \notin Call
      BY <1>0, <1>4, <1>6, <2>1, <3>1
    <3>2. ASSUME pending'[Main] # <<>> PROVE FALSE
      BY <1>0, <1>4, <3>1, <3>2
    <3> QED
      BY <3>2 DEF MainAlone
  <2> QED
    BY <1>0, <1>2, <2>2, <2>3 DEF StepTold
<1>9. Merges(log, e) => SameSource(log, e)
  <2>1. SUFFICES ASSUME Merges(log, e) PROVE SameSource(log, e)
    OBVIOUS
  <2>2. e.kind \in Delta /\ log # <<>> /\ log[Len(log)].kind \in Delta
    BY <2>1 DEF Merges
  <2>3. w = Main
    BY <1>0, <1>6, <2>2 DEF Delta, Tools
  <2>4. /\ log[Len(log)].parent = NoCall /\ log[Len(log)].call = NoCall
        /\ log[Len(log)].step = steps[Main]
    BY <1>0, <1>3, <2>2, <2>3 DEF LastDelta
  <2> QED
    BY <1>6, <2>2, <2>3, <2>4 DEF SameSource
<1>10. LastDelta'
  <2> DEFINE last == log'[Len(log')]
  <2>1. e.kind \in Delta => /\ e.parent = NoCall /\ e.call = NoCall /\ e.step = steps[Main]
    BY <1>0, <1>6 DEF Delta, Tools
  <2>2. CASE ~ Merges(log, e)
    <3>1. log' = log \o <<e>>
      BY <1>0, <1>1, <2>2, AppendedLog
    <3>2. last = e
      BY <1>0, <3>1
    <3> QED
      BY <1>2, <2>1, <3>2 DEF LastDelta
  <2>3. CASE Merges(log, e)
    <3> DEFINE m == log[Len(log)]
    <3>1. /\ m \in PieceType /\ e.kind \in Delta /\ Len(log') = Len(log)
          /\ log'[Len(log)] = WithText(m, m.text \o e.text)
      BY <1>0, <1>1, <2>3, AppendedLog DEF Merges
    <3>2. m.parent = NoCall /\ m.call = NoCall /\ m.step = e.step
      BY <1>9, <2>3 DEF SameSource
    <3>3. last.parent = m.parent /\ last.call = m.call /\ last.step = m.step
      BY <3>1 DEF WithText, PieceType
    <3> QED
      BY <1>2, <2>1, <3>1, <3>2, <3>3 DEF LastDelta
  <2> QED
    BY <2>2, <2>3
<1>11. AnswerSays'
  <2>1. Answered' => Answered \/ Settles(e)
    BY <1>0, <1>1, AnsweredGrows
  <2>2. Settles(e) => Given
    <3>1. Settles(e) => w = Main
      BY <1>0, <1>6 DEF Settles, Own, Tools
    <3> QED
      BY <1>3, <3>1 DEF Given
  <2>3. pending'[Main] # <<>> => pending'[Main] = pending[Main]
    BY <1>0, <1>4
  <2>4. Given' => Given
    BY <2>1, <2>2, <2>3 DEF Given, Settles, Own
  <2> QED
    BY <1>0, <1>2, <1>7, <2>4 DEF AnswerSays
<1>12. HandedWhole'
  <2>1. \A g \in Seq(PieceType) : \A cur :
          Fits(log, cur) /\ Whole(g, cur) => Whole(g, cur)'
    BY <1>0, <1>1, <1>9, WholeGrows
  <2>2. Whole(<<>>, Start)'
    <3>1. <<>> \in Seq(PieceType)
      OBVIOUS
    <3>2. \A cur : cur = Start => Whole(<<>>, cur)'
      BY <1>0, <2>1, <3>1 DEF HandedWhole, HandedAll, Completes
    <3> QED
      BY <3>2 DEF Whole, Start
  <2>3. ASSUME NEW r \in Reader PROVE Whole(got[r], cursor[r])'
    <3>1. got[r] \in Seq(PieceType) /\ Fits(log, cursor[r]) /\ Whole(got[r], cursor[r])
      BY <1>0 DEF ReaderTypes, HandedAll, HandedWhole, Completes
    <3>2. \A g, cur : g = got[r] /\ cur = cursor[r] => Whole(g, cur)'
      BY <2>1, <3>1
    <3>3. got'[r] = got[r] /\ cursor'[r] = cursor[r]
      BY <1>2
    <3> QED
      BY <3>2, <3>3 DEF Whole
  <2> QED
    BY <2>2, <2>3 DEF HandedWhole
<1> QED
  BY <1>7, <1>8, <1>10, <1>11, <1>12 DEF ShownInv

\* What a reader is handed, it has; nothing is emitted by reading.
LEMMA ReaderShown ==
  ASSUME StreamInv, ShownInv, NEW r \in Reader, Attach(r) \/ Reads(r) \/ Detach(r)
  PROVE  ShownInv'
<1>0. /\ HandedWhole /\ ReaderTypes /\ HandedAll /\ TurnTypes /\ written \in Seq(PieceType)
  BY DEF ShownInv, StreamInv, EmitInv, TurnTypes
<1>1. UNCHANGED <<lpc, steps, said, res, pending, acc, log, written, done>>
  BY DEF Attach, Reads, Detach, Wait, Wake, Heartbeat, Since, StreamEnd, loopVars, turnVars
<1>2. ASSUME NEW g \in Seq(PieceType), NEW cur, Completes(g, cur), Whole(g, cur), Hand(r, cur, g)
      PROVE  HandedWhole'
  <2>1. got' = [got EXCEPT ![r] = written] /\ cursor' = [cursor EXCEPT ![r] = CursorAfter(log, cur)]
    BY <1>2 DEF Hand, Whole
  <2>2. ReadFrom(log, CursorAfter(log, cur)) = <<>>
    BY <1>0, <1>2, ReadToTheEnd
  <2>3. Whole(written, CursorAfter(log, cur))
    BY <1>0, <2>2, FlatOfOne, ConcatEmptySeq DEF Whole
  <2>4. ASSUME NEW q \in Reader PROVE Whole(got[q], cursor[q])'
    <3>1. \/ q = r /\ got'[q] = written /\ cursor'[q] = CursorAfter(log, cur)
          \/ got'[q] = got[q] /\ cursor'[q] = cursor[q]
      BY <1>0, <2>1 DEF ReaderTypes
    <3> QED
      BY <1>0, <1>1, <2>3, <3>1 DEF HandedWhole, Whole
  <2> QED
    BY <1>0, <1>1, <2>4 DEF HandedWhole, Whole
<1>3. HandedWhole'
  <2>1. CASE Attach(r)
    <3>1. Hand(r, Start, <<>>) /\ <<>> \in Seq(PieceType)
      BY <2>1 DEF Attach
    <3>2. Completes(<<>>, Start) /\ Whole(<<>>, Start)
      BY <1>0 DEF HandedAll, HandedWhole
    <3> QED
      BY <1>2, <3>1, <3>2
  <2>2. CASE Since(r)
    <3>1. Hand(r, cursor[r], got[r]) /\ got[r] \in Seq(PieceType)
      BY <1>0, <2>2 DEF Since, ReaderTypes
    <3>2. Completes(got[r], cursor[r]) /\ Whole(got[r], cursor[r])
      BY <1>0 DEF HandedAll, HandedWhole
    <3> QED
      BY <1>2, <3>1, <3>2
  <2>3. CASE Wait(r) \/ Wake(r) \/ Heartbeat(r) \/ StreamEnd(r)
    <3>1. UNCHANGED <<got, cursor>>
      BY <2>3 DEF Wait, Wake, Heartbeat, StreamEnd
    <3> QED
      BY <1>0, <1>1, <3>1 DEF HandedWhole, Whole
  <2>4. CASE Detach(r)
    <3>1. got' = [got EXCEPT ![r] = <<>>] /\ cursor' = [cursor EXCEPT ![r] = Start]
      BY <2>4 DEF Detach
    <3>2. ASSUME NEW q \in Reader PROVE Whole(got[q], cursor[q])'
      <4>1. \/ got'[q] = <<>> /\ cursor'[q] = Start
            \/ got'[q] = got[q] /\ cursor'[q] = cursor[q]
        BY <1>0, <3>1 DEF ReaderTypes
      <4> QED
        BY <1>0, <1>1, <4>1 DEF HandedWhole, Whole
    <3> QED
      BY <1>0, <1>1, <3>2 DEF HandedWhole, Whole
  <2> QED
    BY <2>1, <2>2, <2>3, <2>4 DEF Reads
<1> QED
  BY <1>1, <1>3 DEF ShownInv, CallsAreTools, MainAlone, LastDelta, StepTold, Ahead, AnswerSays,
                    Given, Answered

\* Before anything is emitted.
LEMMA ShownStarts == StreamInit => ShownInv
<1> SUFFICES ASSUME StreamInit PROVE ShownInv
  OBVIOUS
<1>0. /\ Main \in Loop /\ Call \subseteq Loop /\ Main \notin Call
  BY TurnStreamAssumption DEF Loop
<1>1. /\ lpc[Main] = "between" /\ \A c \in Call : lpc[c] = "idle"
      /\ \A w \in Loop : pending[w] = <<>>
      /\ steps[Main] = 0 /\ res = NoResult /\ acc = NewAcc /\ log = <<>> /\ written = <<>>
      /\ \A r \in Reader : got[r] = <<>> /\ cursor[r] = Start
  BY <1>0 DEF StreamInit
<1>2. CallsAreTools /\ MainAlone /\ LastDelta
  BY <1>0, <1>1 DEF CallsAreTools, MainAlone, LastDelta
<1>3. StepTold
  BY <1>1 DEF StepTold, OnRecord, NoResult, NewAcc
<1>4. Ahead = NewView
  <2>1. pending[Main] = <<>> /\ written = <<>>
    BY <1>0, <1>1
  <2>2. View(<<>>) = NewView
    <3>1. <<>> \in Seq(PieceType) /\ 1 \in {1} /\ <<>> \in Seq({1})
      OBVIOUS
    <3> QED
      BY <3>1, ViewOneMore
  <2> QED
    BY <2>1, <2>2 DEF Ahead
<1>5. Agree(NewAcc, NewView)
  <2>1. NewAcc.total = Blank /\ Blank = [k \in Delta |-> Blank[k]] /\ NewAcc.steps = NewView.steps
    BY DEF NewAcc, NewView, Blank
  <2>2. AccShape(NewAcc)
    BY <2>1 DEF NewAcc, AccShape, NoCards
  <2>3. NewView \in Views
    BY DEF NewView, Views, NoCards
  <2> QED
    BY <2>1, <2>2, <2>3 DEF Agree
<1>6. AnswerSays
  BY <1>0, <1>1 DEF AnswerSays, Given, Answered
<1>7. HandedWhole
  <2>1. ReadFrom(<<>>, Start) = <<>>
    BY DEF ReadFrom, Grown, Start
  <2>2. Whole(<<>>, Start)
    BY <1>1, <2>1, FlatOfOne DEF Whole
  <2> QED
    BY <1>1, <2>2 DEF HandedWhole, Whole
<1> QED
  BY <1>1, <1>2, <1>3, <1>4, <1>5, <1>6, <1>7 DEF ShownInv

\* When a turn makes use of no subagent, what the reader of its stream has been shown when
\* the stream ends is what summary hands to be stored: the steps with their text and their
\* reasoning, but for the one the loop guard stopped the turn at, and the answer, whatever
\* was retried, in however many pieces it came and wherever the reader's cursor fell.
THEOREM ShownStored == Spawning = {} /\ StreamSpec => []ShownIsStored
<1>1. ASSUME Spawning = {}, StreamInv, ShownInv, [StreamNext]_streamVars PROVE ShownInv'
  <2>0. /\ CallsAreTools /\ MainAlone /\ StepTold /\ EmitInv
    BY <1>1 DEF ShownInv, StreamInv
  <2>1. CASE RunEmits
    <3>1. \/ \E e \in PieceType : OwnStep(e) /\ OneChunk(e)
          \/ \E c \in Call, e \in PieceType : CallStep(c, e)
      BY <1>1, <2>0, <2>1, EmitsPlainly
    <3> QED
      BY <1>1, <3>1, OwnStepShown, CallStepShown
  <2>2. CASE Report
    BY <1>1, <2>2, ReportShown
  <2>3. CASE \E w \in Loop : Log(w)
    BY <1>1, <2>3, LogShown
  <2>4. CASE \E r \in Reader : Attach(r) \/ Reads(r) \/ Detach(r)
    BY <1>1, <2>4, ReaderShown
  <2>5. CASE StreamFinish \/ UNCHANGED streamVars
    <3>1. UNCHANGED <<lpc, steps, said, res, pending, acc, log, written, cursor, got>>
      BY <2>5 DEF StreamFinish, streamVars, loopVars, turnVars, readerVars
    <3> QED
      BY <1>1, <3>1 DEF ShownInv, CallsAreTools, MainAlone, LastDelta, StepTold, Ahead,
                        AnswerSays, Given, Answered, HandedWhole, Whole
  <2> QED
    BY <1>1, <2>1, <2>2, <2>3, <2>4, <2>5 DEF StreamNext
<1>2. ASSUME StreamInv, ShownInv PROVE ShownIsStored
  <2> SUFFICES ASSUME NEW r \in Reader, rpc[r] = "ended"
               PROVE  LET shown == View(got[r]) IN
                      /\ Summary.steps = IF res.stop = "guard" /\ Len(shown.steps) > 1
                                           THEN Front(shown.steps) ELSE shown.steps
                      /\ Answered => Summary.answer = shown.answer
    BY DEF ShownIsStored
  <2>1. /\ HandedWhole /\ ReaderTypes /\ HandedAll /\ DoneIsQuiet /\ Agree(acc, Ahead) /\ AnswerSays
        /\ StepTold /\ LoopTypes /\ Main \in Loop
    BY <1>2 DEF ShownInv, StreamInv, EmitInv, Loop
  <2>2. done /\ ReadFrom(log, cursor[r]) = <<>>
    BY <2>1 DEF HandedAll
  <2>3. got[r] = written
    <3>1. got[r] \in Seq(PieceType)
      BY <2>1 DEF ReaderTypes
    <3>2. got[r] \o Flat(ReadFrom(log, cursor[r])) = written
      BY <2>1 DEF HandedWhole, Whole
    <3>3. got[r] \o Flat(<<>>) = written
      BY <2>2, <3>2
    <3> QED
      BY <3>1, <3>3, FlatOfOne, ConcatEmptySeq
  <2>4. Ahead = View(got[r])
    BY <2>1, <2>2, <2>3 DEF DoneIsQuiet, Ahead
  <2>5. Ahead.steps = acc.steps
    BY <2>1 DEF Agree
  <2>6. Answered => Ahead.answer = res.text /\ res.text # <<>>
    BY <2>1 DEF AnswerSays, Given
  <2>7. Summary.steps = IF res.stop = "guard" /\ Len(acc.steps) > 1
                          THEN Front(acc.steps) ELSE acc.steps
    <3>1. /\ res.stop = "guard" => acc.steps = Append(res.plan, said[Main])
          /\ res.stop # "guard" => res.plan \in {<<>>, acc.steps}
      BY <2>1, <2>2 DEF DoneIsQuiet, StepTold, OnRecord
    <3>2. Summary.steps = IF res.plan = <<>> THEN acc.steps ELSE res.plan
      BY DEF Summary
    <3>3. CASE res.stop # "guard"
      BY <3>1, <3>2, <3>3
    <3>4. CASE res.stop = "guard"
      <4> DEFINE T == StepType
                 plan == res.plan
                 x == said[Main]
      <4>1. plan \in Seq(T) /\ x \in T
        BY <2>1 DEF LoopTypes, ResultType
      <4>2. acc.steps = Append(plan, x)
        BY <3>1, <3>4
      <4>3. Summary.steps = IF plan = <<>> THEN acc.steps ELSE plan
        BY <3>2
      <4> HIDE DEF T, plan, x
      <4>4. Len(acc.steps) = Len(plan) + 1 /\ Len(plan) \in Nat /\ (Len(plan) = 0 <=> plan = <<>>)
        BY <4>1, <4>2
      <4>5. Front(acc.steps) = plan
        BY <4>1, <4>2 DEF Front
      <4> QED
        BY <3>4, <4>3, <4>4, <4>5
    <3> QED
      BY <3>3, <3>4
  <2>8. Answered => Summary.answer = Ahead.answer
    BY <2>6 DEF Summary
  <2> QED
    BY <2>4, <2>5, <2>7, <2>8
<1>3. StreamInit => ShownInv
  BY ShownStarts
<1>4. (Spawning = {}) => [](Spawning = {})
  <2>1. (Spawning = {}) => (Spawning = {})'
    OBVIOUS
  <2> QED
    BY <2>1, PTL
<1> QED
  BY <1>1, <1>2, <1>3, <1>4, StreamInvariance, PTL DEF StreamSpec

-----------------------------------------------------------------------------
(* The turn and its stream together.                                       *)

\* The composition adds nothing to what the hub does.
THEOREM LiveIsHub == LiveSpec => Spec
<1>1. LiveInit => Init
  BY DEF LiveInit
<1>2. [LiveNext]_liveVars => [Next]_vars
  <2> SUFFICES ASSUME [LiveNext]_liveVars PROVE [Next]_vars
    OBVIOUS
  <2>1. CASE Elsewhere
    BY <2>1 DEF Elsewhere, Next
  <2>2. ASSUME RunReturns(Watched) \/ Persist(Watched) \/ Finish(Watched) PROVE Next
    BY <2>2, LiveTurnAssumption DEF Next, Works, TurnStep
  <2>3. CASE Returns \/ Stores \/ Ends
    BY <2>2, <2>3 DEF Returns, Stores, Ends
  <2>4. CASE Restarts
    BY <2>4 DEF Restarts, Next
  <2>5. CASE \/ Runs \/ Reports \/ Logs
             \/ \E r \in Reader : Attaches(r) \/ ReadsOn(r) \/ Detaches(r)
             \/ UNCHANGED liveVars
    BY <2>5 DEF Runs, Reports, Logs, Attaches, ReadsOn, Detaches, liveVars
  <2> QED
    BY <2>1, <2>3, <2>4, <2>5 DEF LiveNext
<1> QED
  BY <1>1, <1>2, PTL DEF LiveSpec, Spec

\* Nor to what the stream does.
THEOREM LiveIsStream == LiveSpec => StreamSpec
<1>1. LiveInit => StreamInit
  BY DEF LiveInit
<1>2. [LiveNext]_liveVars => [StreamNext]_streamVars
  <2> SUFFICES ASSUME [LiveNext]_liveVars PROVE [StreamNext]_streamVars
    OBVIOUS
  <2>1. CASE Elsewhere \/ Returns \/ Stores \/ Restarts \/ UNCHANGED liveVars
    <3>1. UNCHANGED streamVars
      BY <2>1 DEF Elsewhere, Returns, Stores, Restarts, liveVars
    <3> QED
      BY <3>1
  <2>2. CASE Runs \/ Reports \/ Logs \/ Ends
    BY <2>2 DEF Runs, Reports, Logs, Ends, StreamNext
  <2>3. CASE \E r \in Reader : Attaches(r) \/ ReadsOn(r) \/ Detaches(r)
    BY <2>3 DEF Attaches, ReadsOn, Detaches, StreamNext
  <2> QED
    BY <2>1, <2>2, <2>3 DEF LiveNext
<1> QED
  BY <1>1, <1>2, PTL DEF LiveSpec, StreamSpec

\* How the turn's loop and the failure it leaves go together once everything there was to
\* emit has been emitted.
Settled ==
  /\ Logged
  /\ Reported => lpc[Main] = "reported"
  /\ ~ Reported => lpc[Main] = "over"

Over == {"done", "left", "retired"}

\* A turn that came to nothing has no words.
ComesToNothing == outcome[Watched] \in {"silent", "empty"} => res.text = <<>>

\* Where the turn and its stream meet, until the process dies: the loop is over when the
\* run has returned, with no words if it came to nothing; a failure is reported before the answer is stored, and nothing else
\* is; the stream is over when the turn is, and by then the answer has been stored.
Met ==
  ~ severed =>
    /\ done <=> pc[Watched] \in Over
    /\ lpc[Main] = "reported" => Reported /\ pc[Watched] \in {"settled", "stored"} \cup Over
    /\ pc[Watched] = "returned" =>
         /\ Logged /\ lpc[Main] \in {"over", "failed"}
         /\ outcome[Watched] = "error" <=> lpc[Main] = "failed"
         /\ ComesToNothing
    /\ pc[Watched] = "settled" =>
         /\ lpc[Main] \in {"over", "failed", "reported"}
         /\ lpc[Main] = "failed" => Reported
         /\ ~ Reported => Logged
         /\ ComesToNothing
    /\ pc[Watched] \in {"stored"} \cup Over =>
         Settled /\ ComesToNothing /\ (Kept(Watched) \/ ~StoreOpen)

\* What a step of the server's process does to the watched turn.
LEMMA WorksOnWatched ==
  ASSUME TypeOK, Works
  PROVE  LET p == pc[Watched]
             q == pc'[Watched]
             same == outcome'[Watched] = outcome[Watched]
         IN  \/ q = p /\ same
             \/ /\ p \notin {"running", "returned", "settled", "stored"} \cup Over
                /\ q \notin {"returned", "settled", "stored"} \cup Over
                /\ same
             \/ RunReturns(Watched) /\ p = "running" /\ q = "returned"
             \/ Persist(Watched) /\ p = "settled" /\ q = "stored"
             \/ p = "stored" /\ q = "done" /\ same
             \/ p \in {"done", "left"} /\ q \in {"left", "retired"} /\ same
             \/ p = "returned" /\ q = "settled" /\ outcome'[Watched] \in {outcome[Watched], "stopped"}
<1> DEFINE p == pc[Watched]
           q == pc'[Watched]
           same == outcome'[Watched] = outcome[Watched]
<1>0. Watched \in Request /\ TypeReq /\ TypeRun
  BY LiveTurnAssumption DEF TypeOK
<1>1. CASE Aside
  <2>1. UNCHANGED <<pc, outcome>>
    BY <1>1, AsideMovesNothing DEF Aside, StopFind, StopMark, StopCancel, Clear, Delete,
       ShutdownSnapshot, ShutdownCancel, ShutdownWait, ShutdownWaited, CloseStore, vars, runVars
  <2> QED
    BY <2>1
<1>2. ASSUME NEW r \in Request, NEW stage, Goto(r, stage), UNCHANGED outcome,
             pc[r] \notin {"running", "returned", "settled", "stored"} \cup Over,
             stage \notin {"returned", "settled", "stored"} \cup Over
      PROVE  \/ q = p /\ same
             \/ /\ p \notin {"running", "returned", "settled", "stored"} \cup Over
                /\ q \notin {"returned", "settled", "stored"} \cup Over
                /\ same
  BY <1>0, <1>2 DEF Goto, TypeReq
<1>3. ASSUME NEW r \in Request, Unadmitted(r)
      PROVE  \/ q = p /\ same
             \/ /\ p \notin {"running", "returned", "settled", "stored"} \cup Over
                /\ q \notin {"returned", "settled", "stored"} \cup Over
                /\ same
  <2>1. /\ pc[r] \in {"idle", "read", "checked"} /\ UNCHANGED outcome
        /\ \E stage \in {"read", "checked", "posted"} \cup Refused : Goto(r, stage)
    BY <1>3, UnadmittedStays DEF runVars
  <2> QED
    BY <1>2, <2>1 DEF Refused, Over
<1>4. ASSUME NEW r \in Request, Begin(r) \/ Launch(r)
      PROVE  \/ q = p /\ same
             \/ /\ p \notin {"running", "returned", "settled", "stored"} \cup Over
                /\ q \notin {"returned", "settled", "stored"} \cup Over
                /\ same
  <2>1. /\ pc[r] \in {"posted", "begun"} /\ UNCHANGED outcome
        /\ \E stage \in {"conflict", "begun", "running"} : Goto(r, stage)
    BY <1>4 DEF Begin, Launch, runVars
  <2> QED
    BY <1>2, <2>1 DEF Over
<1>5. ASSUME NEW r \in Request, TurnStep(r), r # Watched PROVE q = p /\ same
  <2>1. \E stage : Goto(r, stage)
    BY <1>5 DEF TurnStep, RunReturns, Settle, Persist, Finish, Leave, Retire
  <2>2. outcome' = outcome \/ \E o : outcome' = [outcome EXCEPT ![r] = o]
    BY <1>5 DEF TurnStep, RunReturns, Settle, Persist, Finish, Leave, Retire, runVars
  <2> QED
    BY <1>0, <1>5, <2>1, <2>2 DEF Goto, TypeReq, TypeRun
<1>6. CASE RunReturns(Watched)
  BY <1>0, <1>6 DEF RunReturns, Goto, TypeReq
<1>7. CASE Persist(Watched)
  BY <1>0, <1>7 DEF Persist, Goto, TypeReq
<1>8. CASE Settle(Watched)
  BY <1>0, <1>8 DEF Settle, Goto, TypeReq, TypeRun
<1>9. CASE Finish(Watched)
  BY <1>0, <1>9 DEF Finish, Goto, TypeReq, runVars
<1>10. CASE Leave(Watched) \/ Retire(Watched)
  BY <1>0, <1>10 DEF Leave, Retire, Goto, TypeReq, runVars
<1>11. \/ Aside \/ \E r \in Request : Unadmitted(r) \/ Begin(r) \/ Launch(r) \/ TurnStep(r)
  BY DEF Works, Aside, Unadmitted
<1> QED
  <2>1. CASE \E r \in Request : Unadmitted(r) \/ Begin(r) \/ Launch(r)
    BY <1>3, <1>4, <2>1
  <2>2. CASE \E r \in Request : TurnStep(r)
    <3>1. \/ \E r \in Request : TurnStep(r) /\ r # Watched
          \/ TurnStep(Watched)
      BY <2>2
    <3>2. CASE TurnStep(Watched)
      BY <1>6, <1>7, <1>8, <1>9, <1>10, <3>2 DEF TurnStep
    <3>3. CASE \E r \in Request : TurnStep(r) /\ r # Watched
      BY <1>5, <3>3
    <3> QED
      BY <3>1, <3>2, <3>3
  <2> QED
    BY <1>1, <1>11, <2>1, <2>2

\* The stream's part in a state that is not the turn's last is untouched by what leaves the
\* loop, the events on their way and the end of the stream alone.
LEMMA MetStays ==
  ASSUME Met, UNCHANGED <<lpc, res, pending, done, severed>>,
         pc'[Watched] = pc[Watched], outcome'[Watched] = outcome[Watched],
         Kept(Watched) => Kept(Watched)', ~ StoreOpen => ~ StoreOpen'
  PROVE  Met'
<1>1. Reported' = Reported /\ Logged' = Logged
  BY DEF Reported, Logged
<1>2. Settled' = Settled /\ ComesToNothing' = ComesToNothing
  BY <1>1 DEF Settled, ComesToNothing
<1> QED
  BY <1>1, <1>2 DEF Met

\* What the process of the server keeps: rows, and a store that is closed.
LEMMA WorksKeeps ==
  ASSUME TypeOK, Works
  PROVE  /\ UNCHANGED conv
         /\ Kept(Watched) => Kept(Watched)'
         /\ ~ StoreOpen => ~ StoreOpen'
<1>1. /\ UNCHANGED conv /\ saved \subseteq saved' /\ exists' \subseteq exists
      /\ dropped \subseteq dropped'
  BY DEF Insert, Works, TurnStep, Send, Resume, ResumeRefused, Check, Post, Begin, Launch,
         RunReturns, Settle, Persist, Finish, Leave, Retire, StopFind, StopMark, StopCancel,
         Clear, Delete, ShutdownSnapshot, ShutdownCancel, ShutdownWait, ShutdownWaited,
         CloseStore, reqVars, runVars, dbVars
<1>2. server = "closed" => server' = "closed"
  BY DEF Works, TurnStep, Send, Resume, ResumeRefused, Check, Post, Begin, Launch,
         RunReturns, Settle, Persist, Finish, Leave, Retire, StopFind, StopMark, StopCancel,
         Clear, Delete, ShutdownSnapshot, ShutdownCancel, ShutdownWait, ShutdownWaited,
         CloseStore, procVars
<1> QED
  BY <1>1, <1>2 DEF Kept, StoreOpen

\* The two meet in every step.
LEMMA MetStep == IInv /\ StreamInv /\ Met /\ [LiveNext]_liveVars => Met'
<1> SUFFICES ASSUME IInv, StreamInv, Met, [LiveNext]_liveVars PROVE Met'
  OBVIOUS
<1>0. /\ TypeOK /\ TypeReq /\ TypeRun /\ EmitInv /\ LoopTypes /\ Watched \in Request
      /\ Main \in Loop
  BY LiveTurnAssumption DEF IInv, TypeOK, StreamInv, EmitInv, Loop
<1>1. CASE UNCHANGED liveVars
  BY <1>1, MetStays DEF liveVars, vars, reqVars, runVars, dbVars, procVars,
                                  streamVars, loopVars, turnVars, readerVars, Kept,
                        StoreOpen
<1>2. ASSUME UNCHANGED vars, UNCHANGED <<lpc, res, pending, done, severed>> PROVE Met'
  BY <1>2, MetStays DEF vars, reqVars, runVars, dbVars, procVars, Kept, StoreOpen
<1>3. CASE Elsewhere
  <2> USE DEF Over
  <2>1. /\ Works /\ UNCHANGED <<lpc, res, pending, done, severed>>
        /\ pc[Watched] \in {"running", "settled", "stored"} => pc'[Watched] = pc[Watched]
    BY <1>3 DEF Elsewhere, streamVars, loopVars, turnVars, readerVars
  <2>2. (Kept(Watched) => Kept(Watched)') /\ (~ StoreOpen => ~ StoreOpen')
    BY <1>0, <2>1, WorksKeeps
  <2>3. Logged' = Logged
    BY <2>1 DEF Logged
  <2>4. CASE pc'[Watched] = pc[Watched] /\ outcome'[Watched] = outcome[Watched]
    BY <2>1, <2>2, <2>4, MetStays
  <2>5. CASE /\ pc[Watched] \notin {"running", "returned", "settled", "stored"} \cup Over
             /\ pc'[Watched] \notin {"returned", "settled", "stored"} \cup Over
    <3>1. ~ severed => ~ done /\ lpc[Main] # "reported"
      BY <2>5 DEF Met
    <3> QED
      BY <2>1, <2>5, <3>1 DEF Met
  <2>6. CASE /\ pc[Watched] \in {"done", "left"} /\ pc'[Watched] \in {"left", "retired"}
             /\ outcome'[Watched] = outcome[Watched]
    <3>1. Reported' = Reported /\ ComesToNothing' = ComesToNothing
      BY <2>1, <2>6 DEF Reported, ComesToNothing
    <3>2. Settled' = Settled
      BY <2>1, <2>3, <3>1 DEF Settled
    <3> QED
      BY <2>1, <2>2, <2>6, <3>1, <3>2 DEF Met
  <2>7. CASE /\ pc[Watched] = "returned" /\ pc'[Watched] = "settled"
             /\ outcome'[Watched] \in {outcome[Watched], "stopped"}
    <3>1. ~ severed => /\ Logged /\ ~ done /\ lpc[Main] \in {"over", "failed"}
                       /\ lpc[Main] = "failed" => outcome[Watched] = "error"
                       /\ ComesToNothing
      BY <2>7 DEF Met
    <3>2. /\ outcome[Watched] = "error" => Reported'
          /\ ComesToNothing => ComesToNothing'
      BY <2>1, <2>7 DEF Reported, ComesToNothing
    <3> QED
      BY <2>1, <2>3, <2>7, <3>1, <3>2 DEF Met
  <2> QED
    <3>1. pc'[Watched] = pc[Watched] \/ pc[Watched] \notin {"running", "settled", "stored"}
      BY <2>1
    <3> QED
      BY <1>0, <2>1, <2>4, <2>5, <2>6, <2>7, <3>1, WorksOnWatched
<1>4. CASE Returns
  <2>1. /\ lpc[Main] \in {"over", "failed"} /\ Logged /\ UNCHANGED <<lpc, res, pending, done, severed>>
        /\ pc[Watched] = "running" /\ pc'[Watched] = "returned"
        /\ outcome'[Watched] = OutcomeOfRun
    BY <1>0, <1>4 DEF Returns, streamVars, loopVars, turnVars, readerVars, RunReturns, Goto,
                      TypeReq
  <2>5. OutcomeOfRun = "error" <=> lpc[Main] = "failed"
    BY DEF OutcomeOfRun
  <2>2. Logged'
    BY <2>1 DEF Logged
  <2>4. ComesToNothing'
    <3>1. OutcomeOfRun \in {"silent", "empty"} => Summary.answer = <<>>
      BY DEF OutcomeOfRun
    <3>2. Summary.answer = <<>> => res.text = <<>>
      BY DEF Summary
    <3> QED
      BY <2>1, <3>1, <3>2 DEF ComesToNothing
  <2>3. ~ severed => ~ done
    BY <2>1 DEF Met, Over
  <2> QED
    BY <2>1, <2>2, <2>3, <2>4, <2>5 DEF Met, Over
<1>5. CASE Stores
  <2>1. /\ Reported => lpc[Main] = "reported" /\ Logged
        /\ UNCHANGED <<lpc, res, pending, done, severed>>
        /\ pc[Watched] = "settled" /\ pc'[Watched] = "stored"
    BY <1>0, <1>5 DEF Stores, streamVars, loopVars, turnVars, readerVars, Persist, Goto, TypeReq
  <2>2. outcome'[Watched] = IF outcome[Watched] = "silent" THEN "empty" ELSE outcome[Watched]
    BY <1>0, <1>5 DEF Stores, Persist, TypeRun
  <2>3. Kept(Watched)' \/ ~ StoreOpen'
    BY <1>5 DEF Stores, Persist, Insert, Storable, Kept, StoreOpen, procVars
  <2>4. /\ Reported' = Reported /\ Logged' = Logged
        /\ ComesToNothing => ComesToNothing'
    BY <2>1, <2>2 DEF Reported, Logged, ComesToNothing
  <2>5. ~ severed => /\ ~ done /\ ComesToNothing /\ lpc[Main] \in {"over", "failed", "reported"}
                     /\ lpc[Main] \in {"failed", "reported"} => Reported
                     /\ ~ Reported => Logged
    BY <2>1 DEF Met, Over
  <2>6. ~ severed => Settled'
    BY <2>1, <2>4, <2>5 DEF Settled
  <2> QED
    BY <2>1, <2>3, <2>4, <2>5, <2>6 DEF Met, Over
<1>6. CASE Restarts
  <2>1. /\ severed' = (severed \/ pc[Watched] \in Active \cup Finished)
        /\ UNCHANGED <<lpc, pending, done>>
        /\ pc'[Watched] = IF pc[Watched] \in {"idle"} \cup Refused THEN pc[Watched]
                          ELSE IF IsDone(Watched) THEN "retired" ELSE "lost"
    BY <1>0, <1>6 DEF Restarts, Restart, streamVars, loopVars, turnVars, readerVars
  <2>2. ASSUME ~ severed' PROVE Met'
    <3>1. ~ severed /\ pc[Watched] \notin Active \cup Finished
      BY <2>1, <2>2
    <3>2. ~ done /\ lpc[Main] # "reported"
      BY <3>1 DEF Met, Over, Active, Finished
    <3>3. pc'[Watched] \notin {"returned", "settled", "stored"} \cup Over
      BY <2>1, <3>1 DEF IsDone, Over, Active, Finished, Refused
    <3> QED
      BY <2>1, <3>2, <3>3 DEF Met
  <2> QED
    BY <2>2 DEF Met
<1>7. CASE Runs
  <2>1. pc[Watched] = "running" /\ RunEmits /\ UNCHANGED <<vars, severed>>
    BY <1>7 DEF Runs
  <2>2. UNCHANGED done /\ lpc'[Main] # "reported"
    BY <1>0, <2>1, EmitsInTurn DEF EmitInv, InTurn, Emit, turnVars
  <2>3. pc' = pc
    BY <2>1 DEF vars, reqVars
  <2> QED
    BY <2>1, <2>2, <2>3 DEF Met, Over
<1>8. CASE Reports
  <2>1. /\ pc[Watched] = "settled" /\ Reported /\ UNCHANGED <<vars, severed, done, res>>
        /\ lpc'[Main] = "reported"
    BY <1>0, <1>8 DEF Reports, Report, Emit, turnVars, LoopTypes
  <2>2. pc' = pc /\ Reported' /\ ComesToNothing' = ComesToNothing
    BY <2>1 DEF vars, reqVars, runVars, Reported, ComesToNothing
  <2> QED
    BY <2>1, <2>2 DEF Met, Over
<1>9. CASE Logs
  <2>1. /\ pc[Watched] \in {"running", "settled"} /\ UNCHANGED <<vars, severed, done, lpc, res>>
        /\ ~ Logged
    BY <1>9 DEF Logs, Log, loopVars, Logged
  <2>2. pc' = pc /\ Reported' = Reported /\ ComesToNothing' = ComesToNothing
    BY <2>1 DEF vars, reqVars, runVars, Reported, ComesToNothing
  <2> QED
    BY <2>1, <2>2 DEF Met, Over
<1>10. CASE Ends
  <2>1. /\ pc[Watched] = "stored" /\ pc'[Watched] = "done" /\ done' = TRUE
        /\ UNCHANGED <<outcome, saved, conv, exists, dropped, server, severed, lpc, res, pending>>
    BY <1>0, <1>10 DEF Ends, Finish, Goto, TypeReq, runVars, dbVars, procVars, StreamFinish,
                       loopVars
  <2>2. Reported' = Reported /\ Settled' = Settled /\ ComesToNothing' = ComesToNothing
    BY <2>1 DEF Reported, Settled, Logged, ComesToNothing
  <2>3. Kept(Watched)' = Kept(Watched) /\ StoreOpen' = StoreOpen
    BY <2>1 DEF Kept, StoreOpen
  <2> QED
    BY <2>1, <2>2, <2>3 DEF Met, Over
<1>11. ASSUME NEW r \in Reader, Attaches(r) \/ ReadsOn(r) \/ Detaches(r) PROVE Met'
  <2>1. UNCHANGED vars /\ UNCHANGED <<lpc, res, pending, done, severed>>
    BY <1>11 DEF Attaches, ReadsOn, Detaches, Attach, Reads, Detach,
                 Wait, Wake, Heartbeat, Since, StreamEnd,
                 loopVars, turnVars
  <2> QED
    BY <1>2, <2>1
<1> QED
  BY <1>1, <1>3, <1>4, <1>5, <1>6, <1>7, <1>8, <1>9, <1>10, <1>11 DEF LiveNext

\* The turn and its stream meet at the start.
LEMMA MetInit == LiveInit => Met
<1> SUFFICES ASSUME LiveInit PROVE Met
  OBVIOUS
<1>1. Watched \in Request /\ Main \in Loop
  BY LiveTurnAssumption DEF Loop
<1>2. pc[Watched] = "idle" /\ ~ done /\ lpc[Main] = "between"
  BY <1>1 DEF LiveInit, Init, StreamInit
<1> QED
  BY <1>2 DEF Met, Over

\* In a stream that has ended with everything logged, the last thing a reader holds is what
\* the turn's loop said last.
LEMMA LastHeld ==
  ASSUME StreamInv, NEW r \in Reader, rpc[r] = "closing", Logged,
         lpc[Main] \in {"over", "reported"}
  PROVE  /\ Last(got[r]).kind = LastEvent.kind
         /\ Last(got[r]).text = LastEvent.text
<1>0. TurnTypes /\ ReaderTypes /\ HandedAll /\ LastWord /\ Main \in Loop
  BY DEF StreamInv, EmitInv, Loop
<1>1. pending[Main] = <<>>
  BY <1>0 DEF Logged
<1>2. LastEvent = written[Len(written)] /\ written # <<>>
  BY <1>0, <1>1 DEF LastWord, LastEvent
<1> DEFINE g == got[r]
<1>3. g \in Seq(PieceType) /\ written \in Seq(PieceType)
  BY <1>0 DEF ReaderTypes, TurnTypes
<1>4. Words(g) = Words(written)
  <2>1. ReadFrom(log, cursor[r]) = <<>>
    BY <1>0 DEF HandedAll
  <2>2. Words(g \o Flat(<<>>)) = Words(written)
    BY <1>0, <2>1 DEF HandedAll, Completes
  <2>3. Flat(<<>>) = <<>>
    BY FlatOfOne
  <2>4. g \o <<>> = g
    BY <1>3, ConcatEmptySeq
  <2> QED
    BY <2>2, <2>3, <2>4
<1> HIDE DEF g
<1>5. Len(g) = Len(written)
  <2>1. Len(Words(g)) = Len(g) /\ Len(Words(written)) = Len(written)
    BY <1>3, WordsJoin
  <2> QED
    BY <1>4, <2>1
<1>6. Len(written) \in 1 .. Len(written) /\ Len(written) \in 1 .. Len(g)
  BY <1>2, <1>3, <1>5
<1>7. /\ Words(g)[Len(written)] = [kind |-> g[Len(written)].kind, text |-> g[Len(written)].text]
      /\ Words(written)[Len(written)] =
           [kind |-> written[Len(written)].kind, text |-> written[Len(written)].text]
  BY <1>3, <1>6, WordsJoin
<1>8. /\ g[Len(g)].kind = written[Len(written)].kind
      /\ g[Len(g)].text = written[Len(written)].text
  BY <1>4, <1>5, <1>7
<1> QED
  BY <1>2, <1>8 DEF g, Last

\* When a reader's stream ends, in whatever state the turn, the database and the server are
\* by then, the answer can be read back, unless its conversation was deleted, the store
\* closed or its insert failed; what it was last told is an error exactly when the run
\* failed or was stopped; and if the failure of a turn that came to nothing is stored, an
\* answer of no words.
THEOREM ToldIsStored == LiveSpec => ToldWhatIsStored
<1> DEFINE Both == IInv /\ StreamInv /\ Met
           Ended == \A r \in Reader : rpc[r] # "ended" /\ rpc'[r] = "ended" => ToldRightly(r)
<1>1. Both /\ [LiveNext]_liveVars => Ended
  <2> SUFFICES ASSUME Both, [LiveNext]_liveVars, NEW r \in Reader,
                      rpc[r] # "ended", rpc'[r] = "ended"
               PROVE  ToldRightly(r)
    OBVIOUS
  <2>0. ReaderTypes /\ HandedAll /\ EmitInv
    BY DEF StreamInv
  <2>1. ASSUME UNCHANGED rpc PROVE FALSE
    BY <2>1
  <2>2. ASSUME NEW q \in Reader, NEW stage, stage # "ended", rpc' = [rpc EXCEPT ![q] = stage]
        PROVE  FALSE
    BY <2>0, <2>2 DEF ReaderTypes
  <2>3. ASSUME \/ Elsewhere \/ Returns \/ Stores \/ Restarts \/ UNCHANGED liveVars
               \/ Runs \/ Reports \/ Logs \/ Ends
        PROVE  FALSE
    <3>1. UNCHANGED rpc
      <4>1. CASE Elsewhere \/ Returns \/ Stores \/ Restarts \/ UNCHANGED liveVars
        BY <4>1 DEF Elsewhere, Returns, Stores, Restarts, liveVars, streamVars, loopVars, turnVars, readerVars
      <4>2. CASE Runs \/ Reports
        BY <2>0, <4>2, EmitsAnEvent
           DEF Runs, Reports, EmitInv, Emit, readerVars
      <4>3. CASE Logs \/ Ends
        BY <4>3 DEF Logs, Ends, Log, StreamFinish
      <4> QED
        BY <2>3, <4>1, <4>2, <4>3
    <3> QED
      BY <2>1, <3>1
  <2>4. ASSUME NEW q \in Reader, Attaches(q) \/ Detaches(q) PROVE FALSE
    <3>1. \E stage : stage # "ended" /\ rpc' = [rpc EXCEPT ![q] = stage]
      BY <2>4 DEF Attaches, Detaches, Attach, Detach, Hand
    <3> QED
      BY <2>2, <3>1
  <2>5. ASSUME NEW q \in Reader, ReadsOn(q)
        PROVE  ~ severed /\ rpc[r] = "closing"
    <3>1. CASE StreamEnd(q)
      <4>1. rpc[q] = "closing" /\ rpc' = [rpc EXCEPT ![q] = "ended"] /\ ~ severed
        BY <2>5, <3>1 DEF ReadsOn, StreamEnd
      <4> QED
        BY <2>0, <4>1 DEF ReaderTypes
    <3>2. CASE Wait(q) \/ Wake(q) \/ Heartbeat(q) \/ Since(q)
      <4>1. \E stage : stage # "ended" /\ rpc' = [rpc EXCEPT ![q] = stage]
        BY <3>2 DEF Wait, Wake, Heartbeat, Since, Hand
      <4> QED
        BY <2>2, <4>1
    <3> QED
      BY <2>5, <3>1, <3>2 DEF ReadsOn, Reads
  <2>6. ~ severed /\ rpc[r] = "closing"
    BY <2>3, <2>4, <2>5 DEF LiveNext
  <2>7. done
    BY <2>0, <2>6 DEF HandedAll
  <2>8. Settled /\ ComesToNothing /\ (Kept(Watched) \/ ~StoreOpen)
    BY <2>6, <2>7 DEF Met
  <2>9. Last(got[r]).kind = LastEvent.kind /\ Last(got[r]).text = LastEvent.text
    BY <2>6, <2>8, LastHeld DEF Settled
  <2>10. Reported <=> LastEvent.kind = "error"
    BY <2>0, <2>8 DEF Settled, EmitInv, LastWord
  <2>11. outcome[Watched] = "empty" => LastEvent.kind = "done" /\ LastEvent.text = <<>>
    BY <2>0, <2>8 DEF Settled, Reported, ComesToNothing, EmitInv, LastWord
  <2> QED
    BY <2>8, <2>9, <2>10, <2>11 DEF Kept, ToldRightly
<1>2. Both /\ [LiveNext]_liveVars => Met'
  BY MetStep
<1>3. LiveSpec => []IInv /\ []StreamInv
  BY LiveIsHub, LiveIsStream, Invariance, StreamInvariance, PTL
<1>4. LiveSpec => []Both
  BY <1>2, <1>3, MetInit, PTL DEF LiveSpec
<1> QED
  BY <1>1, <1>4, PTL DEF LiveSpec, ToldWhatIsStored

===============================================================================
