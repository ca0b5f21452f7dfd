------------------------------ MODULE LiveTurn ------------------------------
(***************************************************************************)
(* One turn of the hub together with its event stream: the goroutine that   *)
(* startTurn runs takes the turn through the hub (module TurnHub) and emits  *)
(* the events its readers follow (module TurnStream).  The two meet where    *)
(* the run returns, where its failure is told, where its answer is stored,   *)
(* where the turn is over, where a reader looks the turn up in the hub, and  *)
(* where the process dies and takes the stream with it.                      *)
(***************************************************************************)
EXTENDS TurnHub, TurnStream

CONSTANT Watched      \* the turn whose stream is followed

ASSUME LiveTurnAssumption == Watched \in Request

VARIABLE severed      \* whether the process that had the watched turn has died

liveVars == <<vars, streamVars, severed>>

-----------------------------------------------------------------------------
LiveInit == Init /\ StreamInit /\ severed = FALSE

\* The turn failed or was stopped, which is an event of its own.  A turn that only came
\* to nothing ("empty") is stored as a failure too, but by persistTurn, which emits none.
Reported == outcome[Watched] \in {"error", "stopped"}

\* What the run came to, from the result and the events it leaves to summary.
OutcomeOfRun ==
  IF lpc[Main] = "failed"       THEN "error"
  ELSE IF res.stop # "none"     THEN "budget"
  ELSE IF Summary.answer = <<>> THEN "silent"
                                ELSE "answer"

\* Everything emitted has reached the log.
Logged == \A w \in Loop : pending[w] = <<>>

-----------------------------------------------------------------------------
(* Where the goroutine of startTurn leaves the stream alone.               *)

\* Any step of the server that does not take the watched turn past a point where
\* it meets its stream.
Elsewhere ==
  /\ Works
  /\ pc[Watched] \in {"running", "settled", "stored"} => pc'[Watched] = pc[Watched]
  /\ UNCHANGED <<streamVars, severed>>

\* Runner.Run returns once its loop has ended.
Returns ==
  /\ lpc[Main] \in {"over", "failed"} /\ Logged
  /\ RunReturns(Watched)
  /\ outcome'[Watched] = OutcomeOfRun
  /\ UNCHANGED <<streamVars, severed>>

\* The answer is stored when what there is to tell has been told.
Stores ==
  /\ Reported => lpc[Main] = "reported" /\ Logged
  /\ Persist(Watched)
  /\ UNCHANGED <<streamVars, severed>>

Restarts ==
  /\ Restart
  /\ severed' = (severed \/ pc[Watched] \in Active \cup Finished)
  /\ UNCHANGED streamVars

-----------------------------------------------------------------------------
(* Where it emits.                                                         *)

Runs ==
  /\ pc[Watched] = "running"
  /\ RunEmits
  /\ UNCHANGED <<vars, severed>>

\* A failure, the reader's stop among them, is an event of its own.
Reports ==
  /\ pc[Watched] = "settled" /\ Reported
  /\ Report
  /\ UNCHANGED <<vars, severed>>

Logs ==
  /\ pc[Watched] \in {"running", "settled"}
  /\ \E w \in Loop : Log(w)
  /\ UNCHANGED <<vars, severed>>

\* Mutant of Ends: the readers are told the turn is over before it is stored.
EndsUnstored ==
  /\ pc[Watched] = "settled"
  /\ Reported => lpc[Main] = "reported"
  /\ StreamFinish
  /\ UNCHANGED <<vars, severed>>

\* liveTurn.finish: isDone, for the hub, and the end of the stream, for the readers.
Ends ==
  /\ Finish(Watched)
  /\ StreamFinish
  /\ UNCHANGED severed

-----------------------------------------------------------------------------
(* Its readers.                                                            *)

\* handleAttachTurn finds the turn running, or over and not yet forgotten.
Attaches(r) ==
  /\ Accepting
  /\ turns[conv[Watched]] = Watched
  /\ Attach(r)
  /\ UNCHANGED <<vars, severed>>

\* The reader's goroutine dies with the process; the turn being forgotten by the
\* hub is nothing to it.
ReadsOn(r) ==
  /\ ~severed
  /\ Reads(r)
  /\ UNCHANGED <<vars, severed>>

Detaches(r) ==
  /\ Detach(r)
  /\ UNCHANGED <<vars, severed>>

-----------------------------------------------------------------------------
LiveNext ==
  \/ Elsewhere \/ Returns \/ Stores \/ Restarts
  \/ Runs \/ Reports \/ Logs \/ Ends
  \/ \E r \in Reader : Attaches(r) \/ ReadsOn(r) \/ Detaches(r)

LiveSpec == LiveInit /\ [][LiveNext]_liveVars

-----------------------------------------------------------------------------
\* What the reader was last told agrees with what is stored: an error exactly when the
\* run failed or a reader stopped it, and an answer of no words when what is stored is
\* the failure of a turn that came to nothing, of which no event tells.
ToldRightly(r) ==
  /\ Watched \in saved \cup dropped \/ conv[Watched] \notin exists \/ ~StoreOpen
  /\ Reported <=> Last(got[r]).kind = "error"
  /\ outcome[Watched] = "empty" => Last(got[r]).kind = "done" /\ Last(got[r]).text = <<>>

\* A reader whose stream ends can read the answer back there and then (it is in the
\* database, unless the conversation was deleted, the store closed or its insert failed),
\* and was told rightly what it is.
ToldWhatIsStored ==
  [][\A r \in Reader :
        rpc[r] # "ended" /\ rpc'[r] = "ended" => ToldRightly(r)]_liveVars
=============================================================================
