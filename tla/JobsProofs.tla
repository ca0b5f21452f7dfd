----------------------------- MODULE JobsProofs -----------------------------
(***************************************************************************)
(* Proofs about Jobs, for any number of jobs, readers and stops, whatever   *)
(* the limits and whatever a shell forks.                                   *)
(***************************************************************************)
EXTENDS Jobs, FiniteSetTheorems, SequenceTheorems, WellFoundedInduction, TLAPS

-----------------------------------------------------------------------------
(* The inductive invariant.                                                *)

\* The types of the variables the proofs are about.
TypeCore ==
  /\ proc \in [Job -> [Proc -> {"unborn", "live", "doomed", "dead"}]]
  /\ status \in [Job -> {"unborn", "running", "exited", "stopped"}]
  /\ supervisor \in [Job -> {"off", "waiting", "polling", "marked", "over"}]
  /\ closer \in [Job -> {"none", "found", "marked", "termed", "killed", "waited", "finished"}]
  /\ manager \in {"open", "closing", "closed"}
  /\ jobs \subseteq Job /\ groupGone \subseteq Job /\ forced \subseteq Job
  /\ hit \subseteq Job /\ stopAsked \subseteq Job
  /\ spc \in [Stopper -> {"idle", "conflict", "found", "marked", "termed", "killed", "returned"}]
  /\ target \in [Stopper -> Job \cup {None}]

\* A job that was never started has no process, and nobody looks after it.
UnbornIsBare ==
  \A j \in Job :
     status[j] = "unborn" =>
        /\ j \notin groupGone /\ supervisor[j] = "off" /\ closer[j] = "none" /\ j \notin jobs
        /\ \A p \in Proc : proc[j][p] = "unborn"

\* The flag of an empty group is true, except where Close set it, and a job that is
\* over has it.
GoneIsGone ==
  \A j \in Job :
     /\ j \in groupGone => GroupIsGone(j) \/ j \in forced
     /\ Over(j) => j \in groupGone

\* Close gives up only on jobs it has asked to stop.
ForcedIsStopped ==
  \A j \in forced : status[j] = "stopped" /\ closer[j] = "finished"

\* A signal is sent after the intent is recorded, so a job it reached alive ends as
\* stopped.
HitIsAsked ==
  \A j \in Job : /\ j \in hit => j \in stopAsked
                 /\ j \in hit /\ Over(j) => status[j] = "stopped"

\* An intent is somebody's.
AskedBySomebody ==
  \A j \in Job : /\ status[j] = "stopped" => j \in stopAsked
                 /\ j \in stopAsked => \/ \E x \in Stopper : target[x] = j
                                       \/ closer[j] # "none"

\* A stop in progress has a job, and has recorded its intent before it signals.
StopsAreMarked ==
  \A x \in Stopper :
     /\ spc[x] = "idle" => target[x] = None
     /\ spc[x] # "idle" => target[x] \in Job
     /\ spc[x] \in {"marked", "termed", "killed", "returned"} => target[x] \in stopAsked

\* What is left in a job's group has been sent SIGKILL.
Doomed(j) == \A p \in Group : Live(j, p) => proc[j][p] = "doomed"

\* Close finds every job that is running, and leaves none of them with a process
\* that was not sent SIGKILL.
CloseIsThorough ==
  \A j \in Job :
     /\ status[j] = "running" => j \in jobs
     /\ closer[j] \notin {"none", "found"} => j \in stopAsked
     /\ closer[j] \in {"killed", "waited", "finished"} => Doomed(j)
     /\ manager = "open" => closer[j] = "none"
     /\ manager # "open" /\ closer[j] = "none" => status[j] # "running"
     /\ manager = "closed" => closer[j] \in {"none", "finished"}

IInv ==
  /\ TypeCore
  /\ UnbornIsBare
  /\ GoneIsGone
  /\ ForcedIsStopped
  /\ HitIsAsked
  /\ AskedBySomebody
  /\ StopsAreMarked
  /\ CloseIsThorough

-----------------------------------------------------------------------------
(* The kinds of steps.                                                     *)

core == <<proc, status, closer, manager, jobs, groupGone, forced, hit, stopAsked, spc, target>>

\* Steps that move only output, readers and the stages of a goroutine that is there.
Quiet ==
  \/ \E j \in Job : \/ Write(j) \/ Capture(j) \/ Poke(j) \/ FinishReading(j) \/ Reap(j)
                    \/ StopPolling(j) \/ TimerLook(j) \/ TimerOpen(j)
  \/ \E r \in Reader : ReadStep(r) \/ \E j \in Job : Output(r, j)

\* Steps that end in tryFinalize.
Finalize(j) == DrainFinalize(j) \/ SupervisorFinalize(j) \/ TimerFinalize(j)

\* Every step is of one of the kinds the proofs below distinguish.
LEMMA NextCases ==
  ASSUME Next
  PROVE  \/ Quiet
         \/ \E j \in Job : \/ \E p \in Proc : Fork(j, p) \/ Exit(j, p)
                           \/ Start(j) \/ Forget(j) \/ Finalize(j) \/ MarkGroupGone(j)
                           \/ CloseStep(j)
         \/ \E x \in Stopper : StopStep(x) \/ \E j \in Job : StopFind(x, j)
         \/ Close \/ Closed
<1>1. ASSUME NEW j \in Job, JobStep(j) PROVE Quiet \/ Finalize(j) \/ MarkGroupGone(j)
  BY <1>1 DEF JobStep, Quiet, Finalize
<1>2. ASSUME NEW j \in Job, World(j)
      PROVE  Quiet \/ \E p \in Proc : Fork(j, p) \/ Exit(j, p)
  BY <1>2 DEF World, Quiet
<1>3. ASSUME NEW r \in Reader, ReadStep(r) \/ \E j \in Job : Output(r, j) PROVE Quiet
  BY <1>3 DEF Quiet
<1> QED
  BY <1>1, <1>2, <1>3 DEF Next

\* A quiet step leaves alone what the invariant is about, and starts no supervisor.
LEMMA QuietIsQuiet ==
  ASSUME TypeCore, Quiet
  PROVE  /\ UNCHANGED core
         /\ supervisor' \in [Job -> {"off", "waiting", "polling", "marked", "over"}]
         /\ \A j \in Job : supervisor[j] = "off" => supervisor'[j] = "off"
<1>1. CASE \E j \in Job : Write(j) \/ Capture(j) \/ Poke(j) \/ FinishReading(j)
  BY <1>1 DEF TypeCore, core, Write, Capture, Poke, FinishReading, worldVars, flagVars,
     pollVars, outVars, mgrVars, readVars, stopVars
<1>2. CASE \E j \in Job : Reap(j) \/ StopPolling(j) \/ TimerLook(j) \/ TimerOpen(j)
  BY <1>2 DEF TypeCore, core, Reap, StopPolling, TimerLook, TimerOpen, worldVars, flagVars,
     pollVars, outVars, mgrVars, readVars, stopVars
<1>3. CASE \E r \in Reader : ReadStep(r) \/ \E j \in Job : Output(r, j)
  BY <1>3 DEF TypeCore, core, ReadStep, Output, Look, Decide, WakePoked, WakeDone, Expire,
     OutputReturns, worldVars, flagVars, pollVars, outVars, mgrVars, stopVars
<1> QED
  BY <1>1, <1>2, <1>3 DEF Quiet

-----------------------------------------------------------------------------
(* Every step keeps the invariant.                                        *)

\* A process is forked by one that is alive and not doomed, so its group was not
\* empty and was not killed.
LEMMA ForkKeeps ==
  ASSUME IInv, NEW j \in Job, NEW p \in Proc, Fork(j, p)
  PROVE  IInv'
<1>1. TypeCore'
  BY DEF IInv, TypeCore, Fork, flagVars, pollVars, outVars, mgrVars, readVars, stopVars
<1>2. UnbornIsBare'
  BY DEF IInv, UnbornIsBare, TypeCore, Group, Proc, Live, GroupIsGone, Over, Fork, flagVars,
     pollVars, outVars, mgrVars, readVars, stopVars
<1>3. GoneIsGone'
  BY DEF IInv, GoneIsGone, GroupIsGone, Live, Over, TypeCore, Fork, flagVars, pollVars,
     outVars, mgrVars, readVars, stopVars
<1>4. ForcedIsStopped'
  BY DEF IInv, ForcedIsStopped, TypeCore, Fork, flagVars, pollVars, outVars, mgrVars,
     readVars, stopVars
<1>5. HitIsAsked'
  BY DEF IInv, HitIsAsked, Over, TypeCore, Fork, flagVars, pollVars, outVars, mgrVars,
     readVars, stopVars
<1>6. AskedBySomebody'
  BY DEF IInv, AskedBySomebody, TypeCore, Fork, flagVars, pollVars, outVars, mgrVars,
     readVars, stopVars
<1>7. StopsAreMarked'
  BY DEF IInv, StopsAreMarked, TypeCore, Fork, flagVars, pollVars, outVars, mgrVars,
     readVars, stopVars
<1>8. CloseIsThorough'
  BY DEF IInv, CloseIsThorough, Doomed, Live, TypeCore, Fork, flagVars, pollVars, outVars,
     mgrVars, readVars, stopVars
<1> QED
  BY <1>1, <1>2, <1>3, <1>4, <1>5, <1>6, <1>7, <1>8 DEF IInv

\* A process that dies leaves its group no fuller and no less doomed.
LEMMA ExitKeeps ==
  ASSUME IInv, NEW j \in Job, NEW p \in Proc, Exit(j, p)
  PROVE  IInv'
<1>1. TypeCore'
  BY DEF IInv, TypeCore, Exit, Live, flagVars, pollVars, outVars, mgrVars, readVars,
     stopVars
<1>2. UnbornIsBare'
  BY DEF IInv, UnbornIsBare, TypeCore, Exit, Live, flagVars, pollVars, outVars, mgrVars,
     readVars, stopVars
<1>3. GoneIsGone'
  BY DEF IInv, GoneIsGone, GroupIsGone, Live, Over, TypeCore, Exit, flagVars, pollVars,
     outVars, mgrVars, readVars, stopVars
<1>4. ForcedIsStopped'
  BY DEF IInv, ForcedIsStopped, TypeCore, Exit, Live, flagVars, pollVars, outVars, mgrVars,
     readVars, stopVars
<1>5. HitIsAsked'
  BY DEF IInv, HitIsAsked, Over, TypeCore, Exit, Live, flagVars, pollVars, outVars, mgrVars,
     readVars, stopVars
<1>6. AskedBySomebody'
  BY DEF IInv, AskedBySomebody, TypeCore, Exit, Live, flagVars, pollVars, outVars, mgrVars,
     readVars, stopVars
<1>7. StopsAreMarked'
  BY DEF IInv, StopsAreMarked, TypeCore, Exit, Live, flagVars, pollVars, outVars, mgrVars,
     readVars, stopVars
<1>8. CloseIsThorough'
  BY DEF IInv, CloseIsThorough, Doomed, Live, TypeCore, Exit, flagVars, pollVars, outVars,
     mgrVars, readVars, stopVars
<1> QED
  BY <1>1, <1>2, <1>3, <1>4, <1>5, <1>6, <1>7, <1>8 DEF IInv

\* A job that starts was unborn, and the manager has it while it runs.
LEMMA StartKeeps ==
  ASSUME IInv, NEW j \in Job, Start(j)
  PROVE  IInv'
<1>1. TypeCore'
  BY DEF IInv, TypeCore, Start, Pruned, Over, outVars, readVars, stopVars
<1>2. UnbornIsBare'
  BY DEF IInv, UnbornIsBare, TypeCore, Start, Pruned, Over, outVars, readVars, stopVars
<1>3. GoneIsGone'
  BY DEF IInv, TypeCore, GoneIsGone, UnbornIsBare, Group, Proc, Live, GroupIsGone, Over,
     Start, Pruned, outVars, readVars, stopVars
<1>4. ForcedIsStopped'
  BY DEF IInv, ForcedIsStopped, TypeCore, Start, Pruned, Over, outVars, readVars, stopVars
<1>5. HitIsAsked'
  BY DEF IInv, HitIsAsked, Over, TypeCore, Start, Pruned, outVars, readVars, stopVars
<1>6. AskedBySomebody'
  BY DEF IInv, AskedBySomebody, TypeCore, Start, Pruned, Over, outVars, readVars, stopVars
<1>7. StopsAreMarked'
  BY DEF IInv, StopsAreMarked, TypeCore, Start, Pruned, Over, outVars, readVars, stopVars
<1>8. CloseIsThorough'
  BY DEF IInv, CloseIsThorough, Doomed, Live, TypeCore, Start, Pruned, Over, outVars,
     readVars, stopVars
<1> QED
  BY <1>1, <1>2, <1>3, <1>4, <1>5, <1>6, <1>7, <1>8 DEF IInv

\* What is forgotten was over.
LEMMA ForgetKeeps ==
  ASSUME IInv, NEW j \in Job, Forget(j)
  PROVE  IInv'
<1>1. TypeCore'
  BY DEF IInv, TypeCore, Forget, Over, worldVars, flagVars, pollVars, outVars, readVars,
     stopVars
<1>2. UnbornIsBare'
  BY DEF IInv, UnbornIsBare, TypeCore, Forget, Over, worldVars, flagVars, pollVars, outVars,
     readVars, stopVars
<1>3. GoneIsGone'
  BY DEF IInv, GoneIsGone, GroupIsGone, Live, Over, TypeCore, Forget, worldVars, flagVars,
     pollVars, outVars, readVars, stopVars
<1>4. ForcedIsStopped'
  BY DEF IInv, ForcedIsStopped, TypeCore, Forget, Over, worldVars, flagVars, pollVars,
     outVars, readVars, stopVars
<1>5. HitIsAsked'
  BY DEF IInv, HitIsAsked, Over, TypeCore, Forget, worldVars, flagVars, pollVars, outVars,
     readVars, stopVars
<1>6. AskedBySomebody'
  BY DEF IInv, AskedBySomebody, TypeCore, Forget, Over, worldVars, flagVars, pollVars,
     outVars, readVars, stopVars
<1>7. StopsAreMarked'
  BY DEF IInv, StopsAreMarked, TypeCore, Forget, Over, worldVars, flagVars, pollVars,
     outVars, readVars, stopVars
<1>8. CloseIsThorough'
  BY DEF IInv, CloseIsThorough, Doomed, Live, TypeCore, Forget, Over, worldVars, flagVars,
     pollVars, outVars, readVars, stopVars
<1> QED
  BY <1>1, <1>2, <1>3, <1>4, <1>5, <1>6, <1>7, <1>8 DEF IInv

\* A job ends with its group flagged as gone, and as stopped exactly when somebody
\* had asked for it.
LEMMA FinalizeKeeps ==
  ASSUME IInv, NEW j \in Job, Finalize(j)
  PROVE  IInv'
<1>1. TypeCore'
  BY DEF IInv, TypeCore, Finalize, DrainFinalize, SupervisorFinalize, TimerFinalize,
     TryFinalize, Ended, Over, worldVars, outVars, mgrVars, readVars, stopVars
<1>2. UnbornIsBare'
  BY DEF IInv, UnbornIsBare, TypeCore, Finalize, DrainFinalize, SupervisorFinalize,
     TimerFinalize, TryFinalize, Ended, Over, worldVars, outVars, mgrVars, readVars,
     stopVars
<1>3. GoneIsGone'
  BY DEF IInv, GoneIsGone, GroupIsGone, Live, Over, TypeCore, Finalize, DrainFinalize,
     SupervisorFinalize, TimerFinalize, TryFinalize, Ended, worldVars, outVars, mgrVars,
     readVars, stopVars
<1>4. ForcedIsStopped'
  BY DEF IInv, ForcedIsStopped, TypeCore, Finalize, DrainFinalize, SupervisorFinalize,
     TimerFinalize, TryFinalize, Ended, Over, worldVars, outVars, mgrVars, readVars,
     stopVars
<1>5. HitIsAsked'
  BY DEF IInv, HitIsAsked, Over, TypeCore, Finalize, DrainFinalize, SupervisorFinalize,
     TimerFinalize, TryFinalize, Ended, worldVars, outVars, mgrVars, readVars, stopVars
<1>6. AskedBySomebody'
  BY DEF IInv, AskedBySomebody, TypeCore, Finalize, DrainFinalize, SupervisorFinalize,
     TimerFinalize, TryFinalize, Ended, Over, worldVars, outVars, mgrVars, readVars,
     stopVars
<1>7. StopsAreMarked'
  BY DEF IInv, StopsAreMarked, TypeCore, Finalize, DrainFinalize, SupervisorFinalize,
     TimerFinalize, TryFinalize, Ended, Over, worldVars, outVars, mgrVars, readVars,
     stopVars
<1>8. CloseIsThorough'
  BY DEF IInv, CloseIsThorough, Doomed, Live, TypeCore, Finalize, DrainFinalize,
     SupervisorFinalize, TimerFinalize, TryFinalize, Ended, Over, worldVars, outVars,
     mgrVars, readVars, stopVars
<1> QED
  BY <1>1, <1>2, <1>3, <1>4, <1>5, <1>6, <1>7, <1>8 DEF IInv

\* The flag is set on a group that is empty.
LEMMA MarkGroupGoneKeeps ==
  ASSUME IInv, NEW j \in Job, MarkGroupGone(j)
  PROVE  IInv'
<1>1. TypeCore'
  BY DEF IInv, TypeCore, MarkGroupGone, worldVars, outVars, mgrVars, readVars, stopVars
<1>2. UnbornIsBare'
  BY DEF IInv, UnbornIsBare, TypeCore, MarkGroupGone, worldVars, outVars, mgrVars, readVars,
     stopVars
<1>3. GoneIsGone'
  BY DEF IInv, GoneIsGone, GroupIsGone, Live, Over, TypeCore, MarkGroupGone, worldVars,
     outVars, mgrVars, readVars, stopVars
<1>4. ForcedIsStopped'
  BY DEF IInv, ForcedIsStopped, TypeCore, MarkGroupGone, worldVars, outVars, mgrVars,
     readVars, stopVars
<1>5. HitIsAsked'
  BY DEF IInv, HitIsAsked, Over, TypeCore, MarkGroupGone, worldVars, outVars, mgrVars,
     readVars, stopVars
<1>6. AskedBySomebody'
  BY DEF IInv, AskedBySomebody, TypeCore, MarkGroupGone, worldVars, outVars, mgrVars,
     readVars, stopVars
<1>7. StopsAreMarked'
  BY DEF IInv, StopsAreMarked, TypeCore, MarkGroupGone, worldVars, outVars, mgrVars,
     readVars, stopVars
<1>8. CloseIsThorough'
  BY DEF IInv, CloseIsThorough, Doomed, Live, TypeCore, MarkGroupGone, worldVars, outVars,
     mgrVars, readVars, stopVars
<1> QED
  BY <1>1, <1>2, <1>3, <1>4, <1>5, <1>6, <1>7, <1>8 DEF IInv

\* Close records its intent before it signals.
LEMMA CloseMarkKeeps ==
  ASSUME IInv, NEW j \in Job, CloseMark(j)
  PROVE  IInv'
<1>1. TypeCore'
  BY DEF IInv, TypeCore, CloseMark, worldVars, pollVars, outVars, readVars, stopVars
<1>2. UnbornIsBare'
  BY DEF IInv, UnbornIsBare, TypeCore, CloseMark, worldVars, pollVars, outVars, readVars,
     stopVars
<1>3. GoneIsGone'
  BY DEF IInv, GoneIsGone, GroupIsGone, Live, Over, TypeCore, CloseMark, worldVars,
     pollVars, outVars, readVars, stopVars
<1>4. ForcedIsStopped'
  BY DEF IInv, ForcedIsStopped, TypeCore, CloseMark, worldVars, pollVars, outVars, readVars,
     stopVars
<1>5. HitIsAsked'
  BY DEF IInv, HitIsAsked, Over, TypeCore, CloseMark, worldVars, pollVars, outVars,
     readVars, stopVars
<1>6. AskedBySomebody'
  BY DEF IInv, AskedBySomebody, TypeCore, CloseMark, worldVars, pollVars, outVars, readVars,
     stopVars
<1>7. StopsAreMarked'
  BY DEF IInv, StopsAreMarked, TypeCore, CloseMark, worldVars, pollVars, outVars, readVars,
     stopVars
<1>8. CloseIsThorough'
  BY DEF IInv, CloseIsThorough, Doomed, Live, TypeCore, CloseMark, worldVars, pollVars,
     outVars, readVars, stopVars
<1> QED
  BY <1>1, <1>2, <1>3, <1>4, <1>5, <1>6, <1>7, <1>8 DEF IInv

\* The jobs Close signals have its intent recorded.
LEMMA CloseTermKeeps ==
  ASSUME IInv, NEW j \in Job, CloseTerm(j)
  PROVE  IInv'
<1>1. TypeCore'
  BY DEF IInv, TypeCore, CloseTerm, Hit, worldVars, flagVars, pollVars, outVars, readVars,
     stopVars
<1>2. UnbornIsBare'
  BY DEF IInv, UnbornIsBare, TypeCore, CloseTerm, Hit, worldVars, flagVars, pollVars,
     outVars, readVars, stopVars
<1>3. GoneIsGone'
  BY DEF IInv, GoneIsGone, GroupIsGone, Live, Over, TypeCore, CloseTerm, Hit, worldVars,
     flagVars, pollVars, outVars, readVars, stopVars
<1>4. ForcedIsStopped'
  BY DEF IInv, ForcedIsStopped, TypeCore, CloseTerm, Hit, worldVars, flagVars, pollVars,
     outVars, readVars, stopVars
<1>5. HitIsAsked'
  BY DEF IInv, TypeCore, HitIsAsked, CloseIsThorough, GoneIsGone, ForcedIsStopped, Over,
     Group, Proc, Live, GroupIsGone, CloseTerm, Hit, worldVars, flagVars, pollVars, outVars,
     readVars, stopVars
<1>6. AskedBySomebody'
  BY DEF IInv, AskedBySomebody, TypeCore, CloseTerm, Hit, worldVars, flagVars, pollVars,
     outVars, readVars, stopVars
<1>7. StopsAreMarked'
  BY DEF IInv, StopsAreMarked, TypeCore, CloseTerm, Hit, worldVars, flagVars, pollVars,
     outVars, readVars, stopVars
<1>8. CloseIsThorough'
  BY DEF IInv, CloseIsThorough, Doomed, Live, TypeCore, CloseTerm, Hit, worldVars, flagVars,
     pollVars, outVars, readVars, stopVars
<1> QED
  BY <1>1, <1>2, <1>3, <1>4, <1>5, <1>6, <1>7, <1>8 DEF IInv

\* SIGKILL dooms whatever is left in the group.
LEMMA CloseKillKeeps ==
  ASSUME IInv, NEW j \in Job, CloseKill(j)
  PROVE  IInv'
<1>1. TypeCore'
  BY DEF IInv, TypeCore, CloseKill, Hit, Killed, flagVars, pollVars, outVars, readVars,
     stopVars
<1>2. UnbornIsBare'
  BY DEF IInv, UnbornIsBare, TypeCore, CloseKill, Hit, Killed, flagVars, pollVars, outVars,
     readVars, stopVars
<1>3. GoneIsGone'
  BY DEF IInv, GoneIsGone, GroupIsGone, Live, Over, TypeCore, CloseKill, Hit, Killed,
     flagVars, pollVars, outVars, readVars, stopVars
<1>4. ForcedIsStopped'
  BY DEF IInv, ForcedIsStopped, TypeCore, CloseKill, Hit, Killed, flagVars, pollVars,
     outVars, readVars, stopVars
<1>5. HitIsAsked'
  BY DEF IInv, TypeCore, HitIsAsked, CloseIsThorough, GoneIsGone, ForcedIsStopped, Over,
     Group, Proc, Live, GroupIsGone, CloseKill, Hit, Killed, flagVars, pollVars, outVars,
     readVars, stopVars
<1>6. AskedBySomebody'
  BY DEF IInv, AskedBySomebody, TypeCore, CloseKill, Hit, Killed, flagVars, pollVars,
     outVars, readVars, stopVars
<1>7. StopsAreMarked'
  BY DEF IInv, StopsAreMarked, TypeCore, CloseKill, Hit, Killed, flagVars, pollVars,
     outVars, readVars, stopVars
<1>8. CloseIsThorough'
  BY DEF IInv, CloseIsThorough, Doomed, Live, TypeCore, Group, Proc, GroupIsGone, Over,
     CloseKill, Hit, Killed, flagVars, pollVars, outVars, readVars, stopVars
<1> QED
  BY <1>1, <1>2, <1>3, <1>4, <1>5, <1>6, <1>7, <1>8 DEF IInv

\* A job that ended while Close waited has an empty group.
LEMMA CloseWaitedKeeps ==
  ASSUME IInv, NEW j \in Job, CloseWaited(j)
  PROVE  IInv'
<1>1. TypeCore'
  BY DEF IInv, TypeCore, CloseWaited, worldVars, flagVars, pollVars, outVars, readVars,
     stopVars
<1>2. UnbornIsBare'
  BY DEF IInv, UnbornIsBare, TypeCore, CloseWaited, worldVars, flagVars, pollVars, outVars,
     readVars, stopVars
<1>3. GoneIsGone'
  BY DEF IInv, GoneIsGone, GroupIsGone, Live, Over, TypeCore, CloseWaited, worldVars,
     flagVars, pollVars, outVars, readVars, stopVars
<1>4. ForcedIsStopped'
  BY DEF IInv, ForcedIsStopped, TypeCore, CloseWaited, worldVars, flagVars, pollVars,
     outVars, readVars, stopVars
<1>5. HitIsAsked'
  BY DEF IInv, HitIsAsked, Over, TypeCore, CloseWaited, worldVars, flagVars, pollVars,
     outVars, readVars, stopVars
<1>6. AskedBySomebody'
  BY DEF IInv, AskedBySomebody, TypeCore, CloseWaited, worldVars, flagVars, pollVars,
     outVars, readVars, stopVars
<1>7. StopsAreMarked'
  BY DEF IInv, StopsAreMarked, TypeCore, CloseWaited, worldVars, flagVars, pollVars,
     outVars, readVars, stopVars
<1>8. CloseIsThorough'
  BY DEF IInv, TypeCore, CloseIsThorough, GoneIsGone, ForcedIsStopped, Doomed, Live,
     GroupIsGone, Over, CloseWaited, worldVars, flagVars, pollVars, outVars, readVars,
     stopVars
<1> QED
  BY <1>1, <1>2, <1>3, <1>4, <1>5, <1>6, <1>7, <1>8 DEF IInv

\* Close gives up on a job whose processes it has doomed, and calls it stopped.
LEMMA ForceFinishKeeps ==
  ASSUME IInv, NEW j \in Job, ForceFinish(j)
  PROVE  IInv'
<1>1. TypeCore'
  <2>1. CASE Over(j)
    BY <2>1 DEF IInv, TypeCore, ForceFinish, worldVars, pollVars, outVars, readVars, stopVars
  <2>2. CASE ~Over(j)
    BY <2>2 DEF IInv, TypeCore, ForceFinish, Ended, worldVars, pollVars, outVars, readVars,
     stopVars
  <2> QED
    BY <2>1, <2>2
<1>2. UnbornIsBare'
  BY DEF IInv, UnbornIsBare, TypeCore, ForceFinish, Ended, Over, worldVars, pollVars,
     outVars, readVars, stopVars
<1>3. GoneIsGone'
  BY DEF IInv, GoneIsGone, GroupIsGone, Live, Over, TypeCore, ForceFinish, Ended, worldVars,
     pollVars, outVars, readVars, stopVars
<1>4. ForcedIsStopped'
  BY DEF IInv, TypeCore, ForcedIsStopped, CloseIsThorough, UnbornIsBare, ForceFinish, Ended,
     Over, worldVars, pollVars, outVars, readVars, stopVars
<1>5. HitIsAsked'
  BY DEF IInv, HitIsAsked, Over, TypeCore, ForceFinish, Ended, worldVars, pollVars, outVars,
     readVars, stopVars
<1>6. AskedBySomebody'
  BY DEF IInv, AskedBySomebody, TypeCore, ForceFinish, Ended, Over, worldVars, pollVars,
     outVars, readVars, stopVars
<1>7. StopsAreMarked'
  BY DEF IInv, StopsAreMarked, TypeCore, ForceFinish, Ended, Over, worldVars, pollVars,
     outVars, readVars, stopVars
<1>8. CloseIsThorough'
  BY DEF IInv, CloseIsThorough, Doomed, Live, TypeCore, ForceFinish, Ended, Over, worldVars,
     pollVars, outVars, readVars, stopVars
<1> QED
  BY <1>1, <1>2, <1>3, <1>4, <1>5, <1>6, <1>7, <1>8 DEF IInv

\* A call of Stop picks its job.
LEMMA StopFindKeeps ==
  ASSUME IInv, NEW x \in Stopper, NEW j \in Job, StopFind(x, j)
  PROVE  IInv'
<1>1. TypeCore'
  BY DEF IInv, TypeCore, StopFind, worldVars, flagVars, pollVars, outVars, mgrVars, readVars
<1>2. UnbornIsBare'
  BY DEF IInv, UnbornIsBare, TypeCore, StopFind, worldVars, flagVars, pollVars, outVars,
     mgrVars, readVars
<1>3. GoneIsGone'
  BY DEF IInv, GoneIsGone, GroupIsGone, Live, Over, TypeCore, StopFind, worldVars, flagVars,
     pollVars, outVars, mgrVars, readVars
<1>4. ForcedIsStopped'
  BY DEF IInv, ForcedIsStopped, TypeCore, StopFind, worldVars, flagVars, pollVars, outVars,
     mgrVars, readVars
<1>5. HitIsAsked'
  BY DEF IInv, HitIsAsked, Over, TypeCore, StopFind, worldVars, flagVars, pollVars, outVars,
     mgrVars, readVars
<1>6. AskedBySomebody'
  BY JobsAssumption DEF IInv, TypeCore, AskedBySomebody, StopsAreMarked, StopFind,
     worldVars, flagVars, pollVars, outVars, mgrVars, readVars
<1>7. StopsAreMarked'
  BY JobsAssumption DEF IInv, StopsAreMarked, TypeCore, StopFind, worldVars, flagVars,
     pollVars, outVars, mgrVars, readVars
<1>8. CloseIsThorough'
  BY DEF IInv, CloseIsThorough, Doomed, Live, TypeCore, StopFind, worldVars, flagVars,
     pollVars, outVars, mgrVars, readVars
<1> QED
  BY <1>1, <1>2, <1>3, <1>4, <1>5, <1>6, <1>7, <1>8 DEF IInv

\* Stop records its intent before it signals.
LEMMA StopMarkKeeps ==
  ASSUME IInv, NEW x \in Stopper, StopMark(x)
  PROVE  IInv'
<1>1. TypeCore'
  BY DEF IInv, TypeCore, StopsAreMarked, StopMark, worldVars, pollVars, outVars, mgrVars,
     readVars
<1>2. UnbornIsBare'
  BY DEF IInv, UnbornIsBare, TypeCore, StopMark, worldVars, pollVars, outVars, mgrVars,
     readVars
<1>3. GoneIsGone'
  BY DEF IInv, GoneIsGone, GroupIsGone, Live, Over, TypeCore, StopMark, worldVars, pollVars,
     outVars, mgrVars, readVars
<1>4. ForcedIsStopped'
  BY DEF IInv, ForcedIsStopped, TypeCore, StopMark, worldVars, pollVars, outVars, mgrVars,
     readVars
<1>5. HitIsAsked'
  BY DEF IInv, HitIsAsked, Over, TypeCore, StopMark, worldVars, pollVars, outVars, mgrVars,
     readVars
<1>6. AskedBySomebody'
  BY DEF IInv, AskedBySomebody, TypeCore, StopMark, worldVars, pollVars, outVars, mgrVars,
     readVars
<1>7. StopsAreMarked'
  BY DEF IInv, StopsAreMarked, TypeCore, StopMark, worldVars, pollVars, outVars, mgrVars,
     readVars
<1>8. CloseIsThorough'
  BY DEF IInv, CloseIsThorough, Doomed, Live, TypeCore, StopMark, worldVars, pollVars,
     outVars, mgrVars, readVars
<1> QED
  BY <1>1, <1>2, <1>3, <1>4, <1>5, <1>6, <1>7, <1>8 DEF IInv

\* The job Stop signals has its intent recorded.
LEMMA StopSignalKeeps ==
  ASSUME IInv, NEW x \in Stopper, StopSignal(x)
  PROVE  IInv'
<1>1. TypeCore'
  <2>1. CASE UNCHANGED proc
    BY <2>1 DEF IInv, TypeCore, StopsAreMarked, StopSignal, Hit, flagVars, pollVars, outVars,
     mgrVars, readVars
  <2>2. CASE proc' = Killed(target[x])
    BY <2>2 DEF IInv, TypeCore, StopsAreMarked, StopSignal, Hit, Killed, Group, Proc, Live,
     flagVars, pollVars, outVars, mgrVars, readVars
  <2> QED
    BY <2>1, <2>2 DEF StopSignal
<1>2. UnbornIsBare'
  BY DEF IInv, UnbornIsBare, TypeCore, Group, Proc, Live, GroupIsGone, Over, StopSignal,
     Hit, Killed, flagVars, pollVars, outVars, mgrVars, readVars
<1>3. GoneIsGone'
  BY DEF IInv, GoneIsGone, GroupIsGone, Live, Over, TypeCore, StopSignal, Hit, Killed,
     flagVars, pollVars, outVars, mgrVars, readVars
<1>4. ForcedIsStopped'
  BY DEF IInv, ForcedIsStopped, TypeCore, StopSignal, Hit, Killed, flagVars, pollVars,
     outVars, mgrVars, readVars
<1>5. HitIsAsked'
  BY DEF IInv, TypeCore, HitIsAsked, StopsAreMarked, GoneIsGone, ForcedIsStopped, Over,
     Group, Proc, Live, GroupIsGone, StopSignal, Hit, Killed, flagVars, pollVars, outVars,
     mgrVars, readVars
<1>6. AskedBySomebody'
  BY DEF IInv, AskedBySomebody, TypeCore, StopSignal, Hit, Killed, flagVars, pollVars,
     outVars, mgrVars, readVars
<1>7. StopsAreMarked'
  BY DEF IInv, StopsAreMarked, TypeCore, StopSignal, Hit, Killed, flagVars, pollVars,
     outVars, mgrVars, readVars
<1>8. CloseIsThorough'
  BY DEF IInv, CloseIsThorough, Doomed, Live, TypeCore, StopSignal, Hit, Killed, flagVars,
     pollVars, outVars, mgrVars, readVars
<1> QED
  BY <1>1, <1>2, <1>3, <1>4, <1>5, <1>6, <1>7, <1>8 DEF IInv

\* As for the first signal, and SIGKILL only dooms more.
LEMMA StopKillKeeps ==
  ASSUME IInv, NEW x \in Stopper, StopKill(x)
  PROVE  IInv'
<1>1. TypeCore'
  BY DEF IInv, TypeCore, StopsAreMarked, Group, Proc, Live, StopKill, Hit, Killed, flagVars,
     pollVars, outVars, mgrVars, readVars
<1>2. UnbornIsBare'
  BY DEF IInv, UnbornIsBare, TypeCore, Group, Proc, Live, GroupIsGone, Over, StopKill, Hit,
     Killed, flagVars, pollVars, outVars, mgrVars, readVars
<1>3. GoneIsGone'
  BY DEF IInv, GoneIsGone, GroupIsGone, Live, Over, TypeCore, StopKill, Hit, Killed,
     flagVars, pollVars, outVars, mgrVars, readVars
<1>4. ForcedIsStopped'
  BY DEF IInv, ForcedIsStopped, TypeCore, StopKill, Hit, Killed, flagVars, pollVars,
     outVars, mgrVars, readVars
<1>5. HitIsAsked'
  BY DEF IInv, TypeCore, HitIsAsked, StopsAreMarked, GoneIsGone, ForcedIsStopped, Over,
     Group, Proc, Live, GroupIsGone, StopKill, Hit, Killed, flagVars, pollVars, outVars,
     mgrVars, readVars
<1>6. AskedBySomebody'
  BY DEF IInv, AskedBySomebody, TypeCore, StopKill, Hit, Killed, flagVars, pollVars,
     outVars, mgrVars, readVars
<1>7. StopsAreMarked'
  BY DEF IInv, StopsAreMarked, TypeCore, StopKill, Hit, Killed, flagVars, pollVars, outVars,
     mgrVars, readVars
<1>8. CloseIsThorough'
  BY DEF IInv, CloseIsThorough, Doomed, Live, TypeCore, StopKill, Hit, Killed, flagVars,
     pollVars, outVars, mgrVars, readVars
<1> QED
  BY <1>1, <1>2, <1>3, <1>4, <1>5, <1>6, <1>7, <1>8 DEF IInv

\* Returning changes nothing but the call.
LEMMA StopReturnKeeps ==
  ASSUME IInv, NEW x \in Stopper, StopReturn(x)
  PROVE  IInv'
<1>1. TypeCore'
  BY DEF IInv, TypeCore, StopReturn, worldVars, flagVars, pollVars, outVars, mgrVars,
     readVars
<1>2. UnbornIsBare'
  BY DEF IInv, UnbornIsBare, TypeCore, StopReturn, worldVars, flagVars, pollVars, outVars,
     mgrVars, readVars
<1>3. GoneIsGone'
  BY DEF IInv, GoneIsGone, GroupIsGone, Live, Over, TypeCore, StopReturn, worldVars,
     flagVars, pollVars, outVars, mgrVars, readVars
<1>4. ForcedIsStopped'
  BY DEF IInv, ForcedIsStopped, TypeCore, StopReturn, worldVars, flagVars, pollVars,
     outVars, mgrVars, readVars
<1>5. HitIsAsked'
  BY DEF IInv, HitIsAsked, Over, TypeCore, StopReturn, worldVars, flagVars, pollVars,
     outVars, mgrVars, readVars
<1>6. AskedBySomebody'
  BY DEF IInv, AskedBySomebody, TypeCore, StopReturn, worldVars, flagVars, pollVars,
     outVars, mgrVars, readVars
<1>7. StopsAreMarked'
  BY DEF IInv, StopsAreMarked, TypeCore, StopReturn, worldVars, flagVars, pollVars, outVars,
     mgrVars, readVars
<1>8. CloseIsThorough'
  BY DEF IInv, CloseIsThorough, Doomed, Live, TypeCore, StopReturn, worldVars, flagVars,
     pollVars, outVars, mgrVars, readVars
<1> QED
  BY <1>1, <1>2, <1>3, <1>4, <1>5, <1>6, <1>7, <1>8 DEF IInv

\* Close finds every job that is running, and no other.
LEMMA CloseKeeps ==
  ASSUME IInv, Close
  PROVE  IInv'
<1>1. TypeCore'
  BY DEF IInv, TypeCore, Close, Running, Over, worldVars, flagVars, pollVars, outVars,
     readVars, stopVars
<1>2. UnbornIsBare'
  BY DEF IInv, UnbornIsBare, TypeCore, Close, Running, Over, worldVars, flagVars, pollVars,
     outVars, readVars, stopVars
<1>3. GoneIsGone'
  BY DEF IInv, GoneIsGone, GroupIsGone, Live, Over, TypeCore, Close, Running, worldVars,
     flagVars, pollVars, outVars, readVars, stopVars
<1>4. ForcedIsStopped'
  BY DEF IInv, TypeCore, ForcedIsStopped, CloseIsThorough, Close, Running, Over, worldVars,
     flagVars, pollVars, outVars, readVars, stopVars
<1>5. HitIsAsked'
  BY DEF IInv, HitIsAsked, Over, TypeCore, Close, Running, worldVars, flagVars, pollVars,
     outVars, readVars, stopVars
<1>6. AskedBySomebody'
  BY DEF IInv, TypeCore, AskedBySomebody, CloseIsThorough, Close, Running, Over, worldVars,
     flagVars, pollVars, outVars, readVars, stopVars
<1>7. StopsAreMarked'
  BY DEF IInv, StopsAreMarked, TypeCore, Close, Running, Over, worldVars, flagVars,
     pollVars, outVars, readVars, stopVars
<1>8. CloseIsThorough'
  BY DEF IInv, CloseIsThorough, Doomed, Live, TypeCore, Close, Running, Over, worldVars,
     flagVars, pollVars, outVars, readVars, stopVars
<1> QED
  BY <1>1, <1>2, <1>3, <1>4, <1>5, <1>6, <1>7, <1>8 DEF IInv

\* Close returns when it is through with every job it found.
LEMMA ClosedKeeps ==
  ASSUME IInv, Closed
  PROVE  IInv'
<1>1. TypeCore'
  BY DEF IInv, TypeCore, Closed, worldVars, flagVars, pollVars, outVars, readVars, stopVars
<1>2. UnbornIsBare'
  BY DEF IInv, UnbornIsBare, TypeCore, Closed, worldVars, flagVars, pollVars, outVars,
     readVars, stopVars
<1>3. GoneIsGone'
  BY DEF IInv, GoneIsGone, GroupIsGone, Live, Over, TypeCore, Closed, worldVars, flagVars,
     pollVars, outVars, readVars, stopVars
<1>4. ForcedIsStopped'
  BY DEF IInv, ForcedIsStopped, TypeCore, Closed, worldVars, flagVars, pollVars, outVars,
     readVars, stopVars
<1>5. HitIsAsked'
  BY DEF IInv, HitIsAsked, Over, TypeCore, Closed, worldVars, flagVars, pollVars, outVars,
     readVars, stopVars
<1>6. AskedBySomebody'
  BY DEF IInv, AskedBySomebody, TypeCore, Closed, worldVars, flagVars, pollVars, outVars,
     readVars, stopVars
<1>7. StopsAreMarked'
  BY DEF IInv, StopsAreMarked, TypeCore, Closed, worldVars, flagVars, pollVars, outVars,
     readVars, stopVars
<1>8. CloseIsThorough'
  BY DEF IInv, CloseIsThorough, Doomed, Live, TypeCore, Closed, worldVars, flagVars,
     pollVars, outVars, readVars, stopVars
<1> QED
  BY <1>1, <1>2, <1>3, <1>4, <1>5, <1>6, <1>7, <1>8 DEF IInv

-----------------------------------------------------------------------------
(* The invariant, and what follows from it.                                *)

\* Nothing is there in the beginning.
LEMMA InitHolds ==
  ASSUME Init
  PROVE  IInv
<1>1. TypeCore
  BY DEF Init, TypeCore
<1>2. UnbornIsBare /\ ForcedIsStopped /\ HitIsAsked /\ AskedBySomebody /\ StopsAreMarked
  BY DEF Init, UnbornIsBare, ForcedIsStopped, HitIsAsked, AskedBySomebody, StopsAreMarked
<1>3. GoneIsGone /\ CloseIsThorough
  BY DEF Init, GoneIsGone, CloseIsThorough, Over
<1> QED
  BY <1>1, <1>2, <1>3 DEF IInv

\* Steps that do not move what the invariant is about keep it.
LEMMA UnchangedKeeps ==
  ASSUME IInv,
         UNCHANGED core,
         supervisor' \in [Job -> {"off", "waiting", "polling", "marked", "over"}],
         \A j \in Job : supervisor[j] = "off" => supervisor'[j] = "off"
  PROVE  IInv'
<1>1. TypeCore'
  BY DEF IInv, TypeCore, core
<1>2. UnbornIsBare'
  BY DEF IInv, UnbornIsBare, core
<1>3. GoneIsGone' /\ ForcedIsStopped' /\ HitIsAsked'
  BY DEF IInv, GoneIsGone, ForcedIsStopped, HitIsAsked, GroupIsGone, Live, Over, core
<1>4. AskedBySomebody' /\ StopsAreMarked'
  BY DEF IInv, AskedBySomebody, StopsAreMarked, core
<1>5. CloseIsThorough'
  BY DEF IInv, CloseIsThorough, Doomed, Live, core
<1> QED
  BY <1>1, <1>2, <1>3, <1>4, <1>5 DEF IInv

\* Every step keeps the invariant.
LEMMA NextKeeps ==
  ASSUME IInv, [Next]_vars
  PROVE  IInv'
<1>1. CASE UNCHANGED vars
  BY <1>1, UnchangedKeeps DEF vars, core, worldVars, flagVars, pollVars, outVars, mgrVars,
     stopVars, IInv, TypeCore
<1>2. CASE Quiet
  BY <1>2, QuietIsQuiet, UnchangedKeeps DEF IInv
<1>3. CASE \E j \in Job : \/ \E p \in Proc : Fork(j, p) \/ Exit(j, p)
                          \/ Start(j) \/ Forget(j) \/ Finalize(j) \/ MarkGroupGone(j)
  BY <1>3, ForkKeeps, ExitKeeps, StartKeeps, ForgetKeeps, FinalizeKeeps, MarkGroupGoneKeeps
<1>4. CASE \E j \in Job : CloseStep(j)
  BY <1>4, CloseMarkKeeps, CloseTermKeeps, CloseKillKeeps, CloseWaitedKeeps, ForceFinishKeeps
     DEF CloseStep
<1>5. CASE \E x \in Stopper : StopStep(x) \/ \E j \in Job : StopFind(x, j)
  BY <1>5, StopFindKeeps, StopMarkKeeps, StopSignalKeeps, StopKillKeeps, StopReturnKeeps
     DEF StopStep
<1>6. CASE Close \/ Closed
  BY <1>6, CloseKeeps, ClosedKeeps
<1> QED
  BY <1>1, <1>2, <1>3, <1>4, <1>5, <1>6, NextCases

\* The invariant holds of every state the agent reaches.
LEMMA Invariance == Spec => []IInv
<1>1. Init => IInv
  BY InitHolds
<1>2. IInv /\ [Next]_vars => IInv'
  BY NextKeeps
<1> QED
  BY <1>1, <1>2, PTL DEF Spec

\* A job is never reported as finished while a process of its group is left,
\* whatever its shell has forked and however the supervisor, the drain and the
\* timer race for tryFinalize; only Close may say so (tryFinalize and forceFinish in
\* internal/jobs/jobs.go).
THEOREM FinishedIsGone == Spec => []FinishedMeansGone
<1>1. IInv => FinishedMeansGone
  BY DEF IInv, GoneIsGone, FinishedMeansGone
<1> QED
  BY <1>1, Invariance, PTL

\* A job that a signal of ours reached alive is reported as stopped, and one that
\* nobody asked to stop never is: the intent is recorded before the signal.
THEOREM StoppedIsRight == Spec => []StoppedIsSaid
<1>1. IInv => StoppedIsSaid
  BY DEF IInv, HitIsAsked, AskedBySomebody, StoppedIsSaid
<1> QED
  BY <1>1, Invariance, PTL

\* When Close has returned, no process is left in a job's group but those that were
\* sent SIGKILL and have yet to die.
THEOREM NothingIsLeft == Spec => []NothingOutlivesTheAgent
<1>1. ASSUME IInv, manager = "closed", NEW j \in Job PROVE Doomed(j)
  <2>1. CASE closer[j] = "finished"
    BY <1>1, <2>1 DEF IInv, CloseIsThorough
  <2>2. CASE closer[j] = "none" /\ status[j] = "unborn"
    BY <1>1, <2>2 DEF IInv, UnbornIsBare, Doomed, Live, Group
  <2>3. CASE closer[j] = "none" /\ Over(j)
    BY <1>1, <2>3 DEF IInv, GoneIsGone, ForcedIsStopped, GroupIsGone, Doomed
  <2> QED
    BY <1>1, <2>1, <2>2, <2>3 DEF IInv, TypeCore, CloseIsThorough, Over
<1>2. IInv => NothingOutlivesTheAgent
  BY <1>1 DEF NothingOutlivesTheAgent, Doomed
<1> QED
  BY <1>2, Invariance, PTL

\* How a job ended is decided once, whichever of the three callers of tryFinalize
\* comes first, and Close does not decide it again.
THEOREM EndsOnce == Spec => EndIsFinal
<1> DEFINE Kept == \A j \in Job : Over(j) => status'[j] = status[j]
<1>1. ASSUME IInv, [Next]_vars PROVE Kept
  <2>1. CASE UNCHANGED status
    BY <2>1
  <2>2. CASE \E k \in Job : Start(k)
    BY <1>1, <2>2 DEF IInv, TypeCore, Start, Over
  <2>3. CASE \E k \in Job : Finalize(k)
    BY <1>1, <2>3 DEF IInv, TypeCore, Finalize, DrainFinalize, SupervisorFinalize,
       TimerFinalize, TryFinalize, Ended, Over
  <2>4. CASE \E k \in Job : ForceFinish(k)
    BY <1>1, <2>4 DEF IInv, TypeCore, ForceFinish, Ended, Over
  <2>5. CASE Quiet \/ UNCHANGED vars
    BY <1>1, <2>1, <2>5, QuietIsQuiet DEF IInv, core, vars, flagVars
  <2>6. CASE \E k \in Job : \/ \E p \in Proc : Fork(k, p) \/ Exit(k, p)
                            \/ Forget(k) \/ MarkGroupGone(k)
    BY <2>1, <2>6 DEF Fork, Exit, Forget, MarkGroupGone, flagVars
  <2>7. CASE \E k \in Job : CloseMark(k) \/ CloseTerm(k) \/ CloseKill(k) \/ CloseWaited(k)
    BY <2>1, <2>7 DEF CloseMark, CloseTerm, CloseKill, CloseWaited, flagVars
  <2>8. CASE \E x \in Stopper : StopStep(x) \/ \E k \in Job : StopFind(x, k)
    BY <2>1, <2>8 DEF StopStep, StopFind, StopMark, StopSignal, StopKill, StopReturn, flagVars
  <2>9. CASE Close \/ Closed
    BY <2>1, <2>9 DEF Close, Closed, flagVars
  <2> QED
    BY <1>1, <2>2, <2>3, <2>4, <2>5, <2>6, <2>7, <2>8, <2>9, NextCases DEF CloseStep
<1>2. IInv /\ [Next]_vars => [Kept]_vars
  BY <1>1
<1> QED
  BY <1>2, Invariance, PTL DEF Spec, EndIsFinal

-----------------------------------------------------------------------------
(* How many process groups there may be.                                 *)

\* The jobs that may still have a process: those that run, and those Close gave up on.
Held == {j \in Job : status[j] = "running"} \cup forced

\* There are no more of them than may run at once.
HeldBounded == IsFiniteSet(Held) /\ Cardinality(Held) <= MaxJobs

\* A job starts only while the manager is open, when Close has given up on none, and
\* only if there is room for it.
LEMMA StartKeepsBound ==
  ASSUME IInv, HeldBounded, NEW j \in Job, Start(j)
  PROVE  HeldBounded'
<1>1. forced = {} /\ forced' = {}
  BY DEF IInv, TypeCore, CloseIsThorough, ForcedIsStopped, Start
<1>2. Held = Running
  BY <1>1 DEF IInv, TypeCore, UnbornIsBare, CloseIsThorough, Held, Running, Over
<1>3. Held' = Held \cup {j}
  BY <1>1 DEF IInv, TypeCore, Held, Start
<1>4. j \notin Held
  BY <1>1 DEF Held, Start
<1>5. Cardinality(Held) \in Nat /\ Cardinality(Held) < MaxJobs
  BY <1>2, FS_CardinalityType DEF HeldBounded, Start
<1>6. IsFiniteSet(Held') /\ Cardinality(Held') = Cardinality(Held) + 1
  BY <1>3, <1>4, FS_AddElement DEF HeldBounded
<1> QED
  BY <1>5, <1>6, JobsAssumption DEF HeldBounded

\* Every other step makes no job run that did not; Close gives up only on jobs that do.
LEMMA OthersHoldNoMore ==
  ASSUME IInv, [Next]_vars, ~\E j \in Job : Start(j)
  PROVE  Held' \subseteq Held
<1>1. CASE UNCHANGED <<status, forced>>
  BY <1>1 DEF Held
<1>2. CASE \E k \in Job : Finalize(k)
  BY <1>2 DEF IInv, TypeCore, Held, Finalize, DrainFinalize, SupervisorFinalize,
     TimerFinalize, TryFinalize, Ended, Over, mgrVars
<1>3. CASE \E k \in Job : ForceFinish(k)
  BY <1>3 DEF IInv, TypeCore, CloseIsThorough, UnbornIsBare, Held, ForceFinish, Ended, Over
<1>4. CASE Quiet \/ UNCHANGED vars
  BY <1>1, <1>4, QuietIsQuiet DEF IInv, core, vars, flagVars, mgrVars
<1>5. CASE \E k \in Job : \/ \E p \in Proc : Fork(k, p) \/ Exit(k, p)
                          \/ Forget(k) \/ MarkGroupGone(k)
  BY <1>1, <1>5 DEF Fork, Exit, Forget, MarkGroupGone, flagVars, mgrVars
<1>6. CASE \E k \in Job : CloseMark(k) \/ CloseTerm(k) \/ CloseKill(k) \/ CloseWaited(k)
  BY <1>1, <1>6 DEF CloseMark, CloseTerm, CloseKill, CloseWaited, flagVars
<1>7. CASE \E x \in Stopper : StopStep(x) \/ \E k \in Job : StopFind(x, k)
  BY <1>1, <1>7 DEF StopStep, StopFind, StopMark, StopSignal, StopKill, StopReturn, flagVars,
     mgrVars
<1>8. CASE Close \/ Closed
  BY <1>1, <1>8 DEF Close, Closed, flagVars
<1> QED
  BY <1>2, <1>3, <1>4, <1>5, <1>6, <1>7, <1>8, NextCases DEF CloseStep

\* Every step keeps the bound.
LEMMA NextKeepsBound ==
  ASSUME IInv, HeldBounded, [Next]_vars
  PROVE  HeldBounded'
<1>1. CASE \E j \in Job : Start(j)
  BY <1>1, StartKeepsBound
<1>2. CASE ~\E j \in Job : Start(j)
  <2>1. Held' \subseteq Held
    BY <1>2, OthersHoldNoMore
  <2>2. /\ IsFiniteSet(Held') /\ Cardinality(Held') <= Cardinality(Held)
        /\ Cardinality(Held) \in Nat /\ Cardinality(Held') \in Nat
    BY <2>1, FS_Subset, FS_CardinalityType DEF HeldBounded
  <2> QED
    BY <2>2, JobsAssumption DEF HeldBounded
<1> QED
  BY <1>1, <1>2

\* No more process groups are alive than jobs may run, and each can be found and stopped
\* through the manager until Close gives up on it, for any numbers of jobs and any limit.
THEOREM GroupsHeld == Spec => []GroupsAreHeld
<1>1. Init => HeldBounded
  <2>1. Init => Held = {}
    BY DEF Init, Held
  <2> QED
    BY <2>1, FS_EmptySet, JobsAssumption DEF HeldBounded
<1>2. IInv /\ HeldBounded /\ [Next]_vars => HeldBounded'
  BY NextKeepsBound
<1>3. ASSUME IInv, NEW j \in Job, ~GroupIsGone(j)
      PROVE  j \in Held /\ (j \notin forced => j \in jobs /\ ~Over(j))
  <2>1. status[j] # "unborn"
    BY <1>3 DEF IInv, UnbornIsBare, GroupIsGone, Live, Group
  <2>2. j \notin forced => ~Over(j)
    BY <1>3 DEF IInv, GoneIsGone
  <2> QED
    BY <1>3, <2>1, <2>2 DEF IInv, TypeCore, CloseIsThorough, Held, Over
<1>4. IInv /\ HeldBounded => GroupsAreHeld
  <2> SUFFICES ASSUME IInv, HeldBounded PROVE GroupsAreHeld
    OBVIOUS
  <2> DEFINE Alive == {j \in Job : ~GroupIsGone(j)}
  <2>1. Alive \subseteq Held
    BY <1>3
  <2>2. Cardinality(Alive) <= MaxJobs
    <3> HIDE DEF Alive
    <3>1. /\ Cardinality(Alive) <= Cardinality(Held)
          /\ Cardinality(Held) \in Nat /\ Cardinality(Alive) \in Nat
      BY <2>1, FS_Subset, FS_CardinalityType DEF HeldBounded
    <3> QED
      BY <3>1, JobsAssumption DEF HeldBounded
  <2> QED
    BY <1>3, <2>2 DEF GroupsAreHeld
<1> QED
  BY <1>1, <1>2, <1>4, Invariance, PTL DEF Spec

-----------------------------------------------------------------------------
(* The output of a job.                                                    *)

OutTypes ==
  /\ wrote \in [Job -> Nat] /\ captured \in [Job -> Nat]
  /\ drain \in [Job -> {"off", "reading", "poking", "eof", "over"}]
  /\ readerDone \subseteq Job /\ outputOpen \subseteq Job
  /\ poke \subseteq Job

\* What was read to its end stays so, for nobody is left who could write; and a job ends
\* with its output read to the end, given up or cut off by Close.
ReadToTheEnd ==
  \A j \in Job :
     /\ status[j] = "unborn" => drain[j] = "off" /\ j \notin readerDone
     /\ j \in readerDone => \/ j \in forced \cup outputOpen
                            \/ captured[j] = wrote[j] /\ PipeClosed(j)
     /\ Over(j) => j \in readerDone \cup outputOpen \cup forced

OutInv == OutTypes /\ ReadToTheEnd

\* What the invariant of the output is about.
output == <<proc, wrote, captured, drain, poke, status, readerDone, outputOpen, forced>>

\* Steps of processes: only one that has the pipe writes, or lets another have it.
LEMMA WorldKeepsOutput ==
  ASSUME IInv, OutInv, NEW j \in Job, World(j)
  PROVE  OutInv'
<1>1. CASE \E p \in Proc : Fork(j, p)
  <2>1. PICK p \in Proc : Fork(j, p)
    BY <1>1
  <2>2. UNCHANGED <<wrote, captured, drain, poke, status, readerDone, outputOpen, forced>>
    BY <2>1 DEF Fork, flagVars, pollVars, outVars, mgrVars
  <2>3. \A k \in Job : PipeClosed(k) => PipeClosed(k)'
    BY <2>1 DEF Fork, PipeClosed, Live, IInv, TypeCore
  <2> QED
    BY <2>2, <2>3 DEF OutInv, OutTypes, ReadToTheEnd, Over
<1>2. CASE \E p \in Proc : Exit(j, p)
  <2>1. PICK p \in Proc : Exit(j, p)
    BY <1>2
  <2>2. UNCHANGED <<wrote, captured, drain, poke, status, readerDone, outputOpen, forced>>
    BY <2>1 DEF Exit, flagVars, pollVars, outVars, mgrVars
  <2>3. \A k \in Job : PipeClosed(k) => PipeClosed(k)'
    BY <2>1 DEF Exit, PipeClosed, Live, IInv, TypeCore
  <2> QED
    BY <2>2, <2>3 DEF OutInv, OutTypes, ReadToTheEnd, Over
<1>3. CASE Write(j)
  <2>1. UNCHANGED <<proc, captured, drain, poke, status, readerDone, outputOpen, forced>>
    BY <1>3 DEF Write, flagVars, pollVars, outVars, mgrVars
  <2>2. ~PipeClosed(j)
    BY <1>3 DEF Write, PipeClosed, Live
  <2>3. wrote' \in [Job -> Nat] /\ \A k \in Job : k # j => wrote'[k] = wrote[k]
    BY <1>3 DEF Write, OutInv, OutTypes
  <2>4. \A k \in Job : PipeClosed(k)' = PipeClosed(k)
    BY <2>1 DEF PipeClosed, Live
  <2> QED
    BY <2>1, <2>2, <2>3, <2>4 DEF OutInv, OutTypes, ReadToTheEnd, Over
<1> QED
  BY <1>1, <1>2, <1>3 DEF World

\* Signals doom processes and leave them what they have.
LEMMA KilledClosesNoPipe ==
  ASSUME TypeCore, NEW j \in Job, proc' = Killed(j)
  PROVE  \A k \in Job : PipeClosed(k)' = PipeClosed(k)
BY DEF Killed, PipeClosed, Live, Heard, TypeCore

LEMMA SignalsKeepOutput ==
  ASSUME IInv, OutInv,
         UNCHANGED <<wrote, captured, drain, poke, status, readerDone, outputOpen, forced>>,
         NEW j \in Job, proc' = Killed(j)
  PROVE  OutInv'
<1>1. \A k \in Job : PipeClosed(k)' = PipeClosed(k)
  BY KilledClosesNoPipe DEF IInv
<1> QED
  BY <1>1 DEF OutInv, OutTypes, ReadToTheEnd, Over

LEMMA StartKeepsOutput ==
  ASSUME IInv, OutInv, NEW j \in Job, Start(j)
  PROVE  OutInv'
<1>1. UNCHANGED <<wrote, captured, poke, readerDone, outputOpen, forced>>
  BY DEF Start, outVars
<1>2. /\ drain' = [drain EXCEPT ![j] = "reading"] /\ status' = [status EXCEPT ![j] = "running"]
      /\ status[j] = "unborn" /\ proc' = [proc EXCEPT ![j]["shell"] = "live"]
  BY DEF Start
<1>3. j \notin readerDone /\ ~ Over(j)'
  BY <1>2 DEF OutInv, ReadToTheEnd, Over, IInv, TypeCore
<1>4. ASSUME NEW k \in Job, k # j
      PROVE  PipeClosed(k)' = PipeClosed(k) /\ drain'[k] = drain[k] /\ status'[k] = status[k]
  BY <1>2, <1>4 DEF PipeClosed, Live, IInv, TypeCore, OutInv, OutTypes
<1>5. drain' \in [Job -> {"off", "reading", "poking", "eof", "over"}]
  BY <1>2 DEF OutInv, OutTypes
<1>6. status'[j] = "running"
  BY <1>2 DEF IInv, TypeCore
<1>7. OutTypes'
  BY <1>1, <1>5 DEF OutInv, OutTypes
<1>8. ReadToTheEnd'
  BY <1>1, <1>3, <1>4, <1>6 DEF OutInv, ReadToTheEnd, Over
<1> QED
  BY <1>7, <1>8 DEF OutInv

\* The goroutines of a job: the drain says that it is through at the end of the file only.
LEMMA JobStepKeepsOutput ==
  ASSUME IInv, OutInv, NEW j \in Job, JobStep(j)
  PROVE  OutInv'
<1>1. proc' = proc /\ wrote' = wrote /\ forced' = forced
  BY DEF JobStep, Capture, Poke, FinishReading, DrainFinalize, Reap, MarkGroupGone,
     StopPolling, SupervisorFinalize, TimerLook, TimerOpen, TimerFinalize, worldVars, mgrVars
<1>2. \A k \in Job : PipeClosed(k)' = PipeClosed(k)
  BY <1>1 DEF PipeClosed, Live
<1>3. CASE Capture(j)
  BY <1>1, <1>2, <1>3 DEF Capture, OutInv, OutTypes, ReadToTheEnd, Over, flagVars
<1>4. CASE Poke(j)
  BY <1>1, <1>2, <1>4 DEF Poke, OutInv, OutTypes, ReadToTheEnd, Over, flagVars
<1>5. CASE FinishReading(j)
  BY <1>1, <1>2, <1>5 DEF FinishReading, OutInv, OutTypes, ReadToTheEnd, Over, outVars
<1>6. CASE Finalize(j)
  <2>1. TryFinalize(j) /\ UNCHANGED <<captured, poke, readerDone, outputOpen>>
    BY <1>6 DEF Finalize, DrainFinalize, SupervisorFinalize, TimerFinalize, outVars
  <2>2. /\ drain' \in [Job -> {"off", "reading", "poking", "eof", "over"}]
        /\ \A k \in Job : drain[k] = "off" => drain'[k] = "off"
    BY <1>6 DEF Finalize, DrainFinalize, SupervisorFinalize, TimerFinalize, OutInv, OutTypes
  <2>3. ASSUME NEW k \in Job
        PROVE  /\ status'[k] = "unborn" => status[k] = "unborn"
               /\ Over(k)' => Over(k) \/ k \in readerDone \cup outputOpen
    BY <2>1 DEF TryFinalize, Ended, Over, IInv, TypeCore
  <2>4. OutTypes'
    BY <1>1, <2>1, <2>2 DEF OutInv, OutTypes
  <2>5. ReadToTheEnd'
    BY <1>1, <1>2, <2>1, <2>2, <2>3 DEF OutInv, ReadToTheEnd
  <2> QED
    BY <2>4, <2>5 DEF OutInv
<1>7. CASE TimerOpen(j)
  BY <1>1, <1>2, <1>7 DEF TimerOpen, OutInv, OutTypes, ReadToTheEnd, Over, outVars
<1>8. CASE Reap(j) \/ MarkGroupGone(j) \/ StopPolling(j) \/ TimerLook(j)
  BY <1>1, <1>2, <1>8 DEF Reap, MarkGroupGone, StopPolling, TimerLook, OutInv, OutTypes,
     ReadToTheEnd, Over, outVars, flagVars
<1> QED
  BY <1>3, <1>4, <1>5, <1>6, <1>7, <1>8 DEF JobStep, Finalize

\* Close says that the output of a job it gives up on is read.
LEMMA ForceFinishKeepsOutput ==
  ASSUME IInv, OutInv, NEW j \in Job, ForceFinish(j)
  PROVE  OutInv'
<1>1. UNCHANGED <<proc, wrote, captured, drain, poke, outputOpen>>
  BY DEF ForceFinish, worldVars, outVars, pollVars
<1>2. \A k \in Job : PipeClosed(k)' = PipeClosed(k)
  BY <1>1 DEF PipeClosed, Live
<1>3. readerDone' = readerDone \cup {j} /\ status[j] # "unborn"
  BY DEF ForceFinish, IInv, UnbornIsBare
<1>4. CASE Over(j)
  <2>1. UNCHANGED <<status, forced>>
    BY <1>4 DEF ForceFinish
  <2> QED
    BY <1>1, <1>2, <1>3, <1>4, <2>1 DEF OutInv, OutTypes, ReadToTheEnd, Over
<1>5. CASE ~Over(j)
  <2>1. status' = Ended(j) /\ forced' = forced \cup {j}
    BY <1>5 DEF ForceFinish
  <2>2. ASSUME NEW k \in Job
        PROVE  /\ status'[k] = "unborn" => status[k] = "unborn"
               /\ k # j => status'[k] = status[k]
    BY <1>3, <2>1 DEF Ended, IInv, TypeCore
  <2>3. \A k \in Job : k \in forced' <=> k \in forced \/ k = j
    BY <2>1
  <2>4. OutTypes'
    BY <1>1, <1>3 DEF OutInv, OutTypes
  <2>5. ReadToTheEnd'
    BY <1>1, <1>2, <1>3, <2>2, <2>3 DEF OutInv, ReadToTheEnd, Over
  <2> QED
    BY <2>4, <2>5 DEF OutInv
<1> QED
  BY <1>4, <1>5

LEMMA StillKeepsOutput ==
  ASSUME OutInv, UNCHANGED <<proc, wrote, captured, drain, status, readerDone, outputOpen, forced>>,
         poke' \subseteq Job
  PROVE  OutInv'
BY DEF OutInv, OutTypes, ReadToTheEnd, PipeClosed, Live, Over

LEMMA NextKeepsOutput ==
  ASSUME IInv, OutInv, [Next]_vars
  PROVE  OutInv'
<1>1. poke \subseteq Job
  BY DEF OutInv, OutTypes
<1>2. CASE UNCHANGED vars
  BY <1>1, <1>2, StillKeepsOutput DEF vars, worldVars, flagVars, pollVars, outVars, mgrVars
<1>3. CASE \E j \in Job : Forget(j) \/ CloseMark(j) \/ CloseTerm(j) \/ CloseWaited(j)
  BY <1>1, <1>3, StillKeepsOutput DEF Forget, CloseMark, CloseTerm, CloseWaited, worldVars,
     flagVars, pollVars, outVars, mgrVars
<1>4. CASE Close \/ Closed
  BY <1>1, <1>4, StillKeepsOutput DEF Close, Closed, worldVars, flagVars, pollVars, outVars
<1>5. CASE \E r \in Reader : ReadStep(r) \/ \E j \in Job : Output(r, j)
  <2>1. UNCHANGED <<proc, wrote, captured, drain, status, readerDone, outputOpen, forced>>
    BY <1>5 DEF ReadStep, Output, Look, Decide, WakePoked, WakeDone, Expire, worldVars,
       flagVars, pollVars, outVars, mgrVars
  <2>2. poke' \subseteq poke
    BY <1>5 DEF ReadStep, Output, Look, Decide, WakePoked, WakeDone, Expire, outVars
  <2> QED
    BY <1>1, <2>1, <2>2, StillKeepsOutput
<1>6. CASE \E j \in Job : CloseKill(j)
  BY <1>6, SignalsKeepOutput DEF CloseKill, flagVars, pollVars, outVars
<1>7. CASE \E x \in Stopper : StopStep(x) \/ \E j \in Job : StopFind(x, j)
  <2>1. PICK x \in Stopper : StopStep(x) \/ \E j \in Job : StopFind(x, j)
    BY <1>7
  <2>2. UNCHANGED <<wrote, captured, drain, poke, status, readerDone, outputOpen, forced>>
    BY <2>1 DEF StopStep, StopFind, StopMark, StopSignal, StopKill, StopReturn, worldVars,
       flagVars, pollVars, outVars, mgrVars
  <2>3. CASE proc' = proc
    BY <1>1, <2>2, <2>3, StillKeepsOutput
  <2>4. CASE proc' # proc
    <3>1. proc' = Killed(target[x]) /\ spc[x] \in {"marked", "termed"}
      BY <2>1, <2>4 DEF StopStep, StopFind, StopMark, StopSignal, StopKill, StopReturn,
         worldVars
    <3>2. target[x] \in Job
      BY <3>1 DEF IInv, StopsAreMarked
    <3> QED
      BY <2>2, <3>1, <3>2, SignalsKeepOutput
  <2> QED
    BY <2>3, <2>4
<1> QED
  BY <1>2, <1>3, <1>4, <1>5, <1>6, <1>7, WorldKeepsOutput, StartKeepsOutput,
     JobStepKeepsOutput, ForceFinishKeepsOutput DEF Next, CloseStep

LEMMA OutputInvariance == Spec => []OutInv
<1>1. Init => OutInv
  BY DEF Init, OutInv, OutTypes, ReadToTheEnd, Over
<1>2. IInv /\ OutInv /\ [Next]_vars => OutInv'
  BY NextKeepsOutput
<1> QED
  BY <1>1, <1>2, Invariance, PTL DEF Spec

\* When a job is reported as finished, its output was read to the end, whichever of the
\* reaper, the end of the pipe and the drain timer came first; but for the jobs that Close
\* or the timer gave up on (process.drain and tryFinalize in internal/jobs/jobs.go).
THEOREM OutputIsComplete == Spec => []FinishedHasItsOutput
<1>1. OutInv => FinishedHasItsOutput
  BY DEF OutInv, ReadToTheEnd, FinishedHasItsOutput
<1> QED
  BY <1>1, OutputInvariance, PTL

-----------------------------------------------------------------------------
(* The reader of a job's output.                                           *)

\* Nothing of a job's output is left that no call has looked at, but for what a token, the
\* drain or a call on its way will bring one to look at.
HeardOrTold(j) ==
  \/ captured[j] <= heard[j]
  \/ j \in poke
  \/ drain[j] = "poking"
  \/ \E s \in Reader : on[s] = j /\ rpc[s] = "looking"

ReadersHear ==
  /\ \A j \in Job : heard[j] \in Nat /\ heard[j] <= captured[j]
  /\ \A j \in Job : HeardOrTold(j)
  /\ \A r \in Reader : rpc[r] # "idle" => on[r] \in Job

ReaderTypes == DOMAIN rpc = Reader /\ DOMAIN on = Reader /\ DOMAIN heard = Job

\* No step but a reader's moves a reader, and of the others only the drain moves the
\* output or the token.
LEMMA OnlyDrainTells ==
  ASSUME Next, ~\E r \in Reader : ReadStep(r) \/ \E j \in Job : Output(r, j),
         ~\E j \in Job : Capture(j) \/ Poke(j) \/ FinishReading(j) \/ DrainFinalize(j) \/ Start(j)
  PROVE  UNCHANGED <<readVars, captured, poke, drain>>
<1>1. CASE \E j \in Job : World(j) \/ Forget(j)
  BY <1>1 DEF World, Fork, Exit, Write, Forget, outVars, pollVars
<1>2. CASE \E j \in Job : \/ Reap(j) \/ MarkGroupGone(j) \/ StopPolling(j)
                          \/ SupervisorFinalize(j) \/ TimerLook(j) \/ TimerOpen(j)
                          \/ TimerFinalize(j)
  BY <1>2 DEF Reap, MarkGroupGone, StopPolling, SupervisorFinalize, TimerLook, TimerOpen,
     TimerFinalize, outVars
<1>3. CASE (\E j \in Job : CloseStep(j)) \/ Close \/ Closed
  BY <1>3 DEF CloseStep, CloseMark, CloseTerm, CloseKill, CloseWaited, ForceFinish, Close,
     Closed, outVars, pollVars
<1>4. CASE \E x \in Stopper : StopStep(x) \/ \E j \in Job : StopFind(x, j)
  BY <1>4 DEF StopStep, StopFind, StopMark, StopSignal, StopKill, StopReturn, outVars,
     pollVars
<1> QED
  BY <1>1, <1>2, <1>3, <1>4 DEF Next, JobStep

\* What the drain reads it tells of: with the token, or by being about to leave it.
LEMMA DrainTells ==
  ASSUME OutInv, ReadersHear, IInv,
         NEW j \in Job,
         Capture(j) \/ Poke(j) \/ FinishReading(j) \/ DrainFinalize(j) \/ Start(j)
  PROVE  ReadersHear'
<1>1. UNCHANGED <<rpc, on, heard>>
  BY DEF Capture, Poke, FinishReading, DrainFinalize, Start, readVars
<1>2. ASSUME NEW k \in Job
      PROVE  heard[k] <= captured'[k] /\ HeardOrTold(k)'
  <2>0. heard[k] \in Nat /\ heard[k] <= captured[k] /\ captured[k] \in Nat /\ HeardOrTold(k)
    BY DEF ReadersHear, OutInv, OutTypes
  <2>1. CASE Capture(j)
    <3>1. wrote[j] \in Nat /\ DOMAIN captured = Job /\ DOMAIN drain = Job
      BY DEF OutInv, OutTypes
    <3>2. captured[j] \in Nat /\ captured[j] < wrote[j] /\ poke' = poke
      BY <2>1 DEF Capture, OutInv, OutTypes
    <3>3. captured'[k] = (IF k = j THEN wrote[j] ELSE captured[k])
      BY <2>1, <3>1 DEF Capture
    <3>4. drain'[k] = (IF k = j THEN "poking" ELSE drain[k])
      BY <2>1, <3>1 DEF Capture
    <3> QED
      BY <1>1, <2>0, <3>1, <3>2, <3>3, <3>4 DEF HeardOrTold
  <2>2. CASE Poke(j)
    BY <1>1, <2>0, <2>2 DEF Poke, OutInv, OutTypes, HeardOrTold
  <2>3. CASE FinishReading(j) \/ DrainFinalize(j)
    BY <1>1, <2>0, <2>3 DEF FinishReading, DrainFinalize, OutInv, OutTypes, outVars, HeardOrTold
  <2>4. CASE Start(j)
    <3>1. drain[j] = "off"
      BY <2>4 DEF Start, OutInv, ReadToTheEnd
    <3> QED
      BY <1>1, <2>0, <2>4, <3>1 DEF Start, OutInv, OutTypes, outVars, HeardOrTold
  <2> QED
    BY <2>1, <2>2, <2>3, <2>4
<1> QED
  BY <1>1, <1>2 DEF ReadersHear

\* A reader that takes the token goes to look, and looking hears all there is.
LEMMA ReaderKeeps ==
  ASSUME OutInv, ReaderTypes, ReadersHear, IInv, NEW r \in Reader,
         ReadStep(r) \/ \E j \in Job : Output(r, j)
  PROVE  ReaderTypes' /\ ReadersHear'
<1>1. jobs \subseteq Job
  BY DEF IInv, TypeCore
<1>2. UNCHANGED <<captured, drain>>
  BY DEF ReadStep, Output, Look, Decide, WakePoked, WakeDone, Expire, outVars, pollVars
<1>3. \A j \in Job : captured[j] \in Nat /\ heard[j] \in Nat /\ heard[j] <= captured[j]
  BY DEF OutInv, OutTypes, ReadersHear
<1>4. CASE \E j \in Job : Output(r, j)
  <2>1. PICK j \in Job : Output(r, j)
    BY <1>4
  <2>2. rpc' = [rpc EXCEPT ![r] = "looking"] /\ on' = [on EXCEPT ![r] = j] /\ rpc[r] = "idle"
        /\ UNCHANGED <<heard, poke>>
    BY <2>1 DEF Output, outVars
  <2>3. \A k \in Job : HeardOrTold(k)'
    BY <1>2, <2>2 DEF HeardOrTold, ReadersHear, ReaderTypes
  <2> QED
    BY <1>2, <1>3, <2>2, <2>3 DEF ReaderTypes, ReadersHear
<1>5. CASE Look(r)
  <2>1. rpc' = [rpc EXCEPT ![r] = "looked"] /\ UNCHANGED <<on, poke>> /\ rpc[r] = "looking"
        /\ heard' = [heard EXCEPT ![on[r]] = captured[on[r]]]
    BY <1>5 DEF Look, outVars
  <2>2. on[r] \in Job
    BY <2>1 DEF ReadersHear
  <2>3. ASSUME NEW k \in Job
        PROVE  heard'[k] \in Nat /\ heard'[k] <= captured[k] /\ HeardOrTold(k)'
    <3>1. CASE k = on[r]
      <4>1. heard'[k] = captured[k]
        BY <2>1, <2>2, <3>1 DEF ReaderTypes
      <4> QED
        BY <1>2, <1>3, <4>1 DEF HeardOrTold
    <3>2. CASE k # on[r]
      <4>1. heard'[k] = heard[k]
        BY <2>1, <3>2 DEF ReaderTypes
      <4>2. \A s \in Reader : on[s] = k => rpc'[s] = rpc[s]
        BY <2>1, <3>2 DEF ReaderTypes
      <4>3. HeardOrTold(k)
        BY DEF ReadersHear
      <4> QED
        BY <1>2, <1>3, <2>1, <4>1, <4>2, <4>3 DEF HeardOrTold
    <3> QED
      BY <3>1, <3>2
  <2>4. ReaderTypes'
    BY <2>1 DEF ReaderTypes
  <2>5. \A s \in Reader : rpc'[s] # "idle" => on'[s] \in Job
    BY <2>1, <2>2 DEF ReadersHear, ReaderTypes
  <2> QED
    BY <1>2, <2>3, <2>4, <2>5 DEF ReadersHear
<1>6. CASE WakePoked(r)
  <2>1. rpc' = [rpc EXCEPT ![r] = "looking"] /\ UNCHANGED <<on, heard>> /\ rpc[r] = "parked"
        /\ poke' = poke \ {on[r]}
    BY <1>6 DEF WakePoked
  <2>2. \A k \in Job : HeardOrTold(k)'
    BY <1>2, <2>1 DEF HeardOrTold, ReadersHear, ReaderTypes
  <2> QED
    BY <1>2, <1>3, <2>1, <2>2 DEF ReaderTypes, ReadersHear
<1>7. CASE WakeDone(r)
  <2>1. rpc' = [rpc EXCEPT ![r] = "looking"] /\ UNCHANGED <<on, heard, poke>> /\ rpc[r] = "parked"
    BY <1>7 DEF WakeDone, outVars
  <2>2. \A k \in Job : HeardOrTold(k)'
    BY <1>2, <2>1 DEF HeardOrTold, ReadersHear, ReaderTypes
  <2> QED
    BY <1>2, <1>3, <2>1, <2>2 DEF ReaderTypes, ReadersHear
<1>8. CASE Decide(r) \/ Expire(r)
  <2>1. /\ rpc[r] # "looking" /\ rpc[r] # "idle"
        /\ UNCHANGED <<heard, poke>>
        /\ \/ rpc' = [rpc EXCEPT ![r] = "idle"] /\ on' = [on EXCEPT ![r] = None]
           \/ rpc' = [rpc EXCEPT ![r] = "parked"] /\ on' = on
    BY <1>8 DEF Decide, Expire, OutputReturns, outVars
  <2>2. \A k \in Job : HeardOrTold(k)'
    BY <1>2, <2>1 DEF HeardOrTold, ReadersHear, ReaderTypes
  <2> QED
    BY <1>2, <1>3, <2>1, <2>2 DEF ReaderTypes, ReadersHear
<1> QED
  BY <1>4, <1>5, <1>6, <1>7, <1>8 DEF ReadStep

\* While a call waits with something new to read there is a token to take, or one about to
\* be left, or a call on its way to look, or one that has looked at all there is, however
\* many calls wait for the job's one token (process.capture and Manager.Output in
\* internal/jobs).
THEOREM SomebodyHears == Spec => []OutputIsHeard
<1>1. Init => ReaderTypes /\ ReadersHear
  BY DEF Init, ReaderTypes, ReadersHear, HeardOrTold
<1>2. IInv /\ OutInv /\ ReaderTypes /\ ReadersHear /\ [Next]_vars
        => ReaderTypes' /\ ReadersHear'
  <2> SUFFICES ASSUME IInv, OutInv, ReaderTypes, ReadersHear, [Next]_vars
               PROVE  ReaderTypes' /\ ReadersHear'
    OBVIOUS
  <2>1. CASE \E r \in Reader : ReadStep(r) \/ \E j \in Job : Output(r, j)
    BY <2>1, ReaderKeeps
  <2>2. CASE \E j \in Job : Capture(j) \/ Poke(j) \/ FinishReading(j) \/ DrainFinalize(j) \/ Start(j)
    <3>1. UNCHANGED readVars
      BY <2>2 DEF Capture, Poke, FinishReading, DrainFinalize, Start
    <3> QED
      BY <2>2, <3>1, DrainTells DEF ReaderTypes, readVars
  <2>3. CASE UNCHANGED <<readVars, captured, poke, drain>>
    BY <2>3 DEF ReaderTypes, ReadersHear, HeardOrTold, readVars
  <2>4. CASE UNCHANGED vars
    BY <2>3, <2>4 DEF vars, outVars, pollVars
  <2> QED
    BY <2>1, <2>2, <2>3, <2>4, OnlyDrainTells
<1>3. OutInv /\ ReadersHear => OutputIsHeard
  <2> SUFFICES ASSUME OutInv, ReadersHear, NEW r \in Reader, rpc[r] = "parked"
               PROVE  \/ on[r] \in poke \/ drain[on[r]] = "poking"
                      \/ \E s \in Reader : on[s] = on[r] /\ rpc[s] = "looking"
                      \/ heard[on[r]] = captured[on[r]]
    BY DEF OutputIsHeard
  <2>1. on[r] \in Job
    BY DEF ReadersHear
  <2>2. heard[on[r]] \in Nat /\ captured[on[r]] \in Nat /\ heard[on[r]] <= captured[on[r]]
    BY <2>1 DEF ReadersHear, OutInv, OutTypes
  <2>3. HeardOrTold(on[r])
    BY <2>1 DEF ReadersHear
  <2> QED
    BY <2>2, <2>3 DEF HeardOrTold
<1> QED
  BY <1>1, <1>2, <1>3, Invariance, OutputInvariance, PTL DEF Spec

-----------------------------------------------------------------------------
(* Lists, and what is taken out of them.                                   *)

\* A set of numbers up to m that is not empty has a least one.
LEMMA LeastUpTo ==
  ASSUME NEW m \in Nat, NEW S \in SUBSET (0 .. m), S # {}
  PROVE  \E x \in S : \A y \in S : x <= y
<1> DEFINE Upto(x) == {y \in S : y <= x}
           Sets == {Upto(x) : x \in S}
<1>0. IsFiniteSet(S)
  <2>1. S \in SUBSET Nat /\ \A x \in S : x <= m
    OBVIOUS
  <2> QED
    BY <2>1, FS_BoundedSetOfNaturals
<1>1. Sets \subseteq FiniteSubsetsOf(S) /\ Sets # {}
  <2>1. \A x \in S : Upto(x) \subseteq S /\ IsFiniteSet(Upto(x))
    BY <1>0, FS_Subset
  <2> QED
    BY <2>1 DEF FiniteSubsetsOf
<1>2. IsWellFoundedOn(StrictSubsetOrdering(S), FiniteSubsetsOf(S))
  BY FS_StrictSubsetOrderingWellFounded
<1> HIDE DEF Sets
<1>3. PICK d \in Sets : \A e \in Sets : <<e, d>> \notin StrictSubsetOrdering(S)
  BY <1>1, <1>2, WFMin
<1>4. PICK x \in S : d = Upto(x)
  BY DEF Sets
<1>5. ASSUME NEW y \in S, ~ (x <= y) PROVE FALSE
  <2>1. x \in Nat /\ y \in Nat /\ y < x
    BY <1>5
  <2>2. Upto(y) \subseteq Upto(x)
    <3>1. \A z \in S : z <= y => z <= x
      BY <2>1
    <3> QED
      BY <3>1
  <2>3. x \in Upto(x) /\ x \notin Upto(y)
    <3>1. ~ (x <= y) /\ x <= x
      BY <2>1
    <3> QED
      BY <3>1
  <2>4. <<Upto(y), Upto(x)>> \in StrictSubsetOrdering(S)
    BY <2>2, <2>3 DEF StrictSubsetOrdering
  <2>5. Upto(y) \in Sets
    BY DEF Sets
  <2> QED
    BY <1>3, <1>4, <2>4, <2>5
<1> QED
  BY <1>5

\* What holds of 0, and of a number if of the one before it, holds of all up to m.
LEMMA AllUpTo ==
  ASSUME NEW m \in Nat, NEW S \in SUBSET (0 .. m), 0 \in S,
         \A n \in 1 .. m : n - 1 \in S => n \in S
  PROVE  S = 0 .. m
<1> DEFINE Rest == (0 .. m) \ S
<1>1. SUFFICES ASSUME Rest # {} PROVE FALSE
  <2>1. Rest = {} => \A x \in 0 .. m : x \in S
    OBVIOUS
  <2> QED
    BY <2>1
<1>2. PICK x \in Rest : \A y \in Rest : x <= y
  <2>1. Rest \in SUBSET (0 .. m)
    OBVIOUS
  <2> HIDE DEF Rest
  <2> QED
    BY <1>1, <2>1, LeastUpTo
<1>3. x \in 0 .. m /\ x # 0 /\ x \notin S
  OBVIOUS
<1>4. x \in 1 .. m /\ x - 1 \in 0 .. m /\ ~ (x <= x - 1)
  BY <1>3, SMT
<1>5. x - 1 \in S
  BY <1>2, <1>4
<1> QED
  BY <1>3, <1>4, <1>5


\* The step of the recursion in Without, as a function of what is kept of fewer.
Keeping(list, gone, f) ==
  [n \in 0 .. Len(list) |->
     IF n = 0 THEN <<>>
     ELSE IF list[n] \in gone THEN f[n - 1] ELSE Append(f[n - 1], list[n])]

Keeps(list, gone) == CHOOSE f : f = Keeping(list, gone, f)

\* There is such a function for every list.
LEMMA KeepsIsDefined ==
  ASSUME NEW X, NEW s \in Seq(X), NEW gone
  PROVE  /\ Keeps(s, gone)[0] = <<>>
         /\ \A n \in 1 .. Len(s) :
              Keeps(s, gone)[n] = IF s[n] \in gone THEN Keeps(s, gone)[n - 1]
                                  ELSE Append(Keeps(s, gone)[n - 1], s[n])
<1> DEFINE N == Len(s)
           More(t, e) == IF e \in gone THEN t ELSE Append(t, e)
           Good(g, m) == \A n \in 0 .. m :
             g[n] = IF n = 0 THEN <<>> ELSE More(g[n - 1], s[n])
           S == {m \in 0 .. N : \E g : Good(g, m)}
<1> HIDE DEF More
<1>0. N \in Nat /\ Len(s) = N
  OBVIOUS
<1>1. 0 \in S
  <2>1. \A n \in 0 .. 0 : n = 0
    OBVIOUS
  <2> DEFINE g == [n \in {0} |-> <<>>]
  <2>2. g[0] = <<>>
    OBVIOUS
  <2>3. Good(g, 0)
    <3> HIDE DEF g
    <3> QED
      BY <2>1, <2>2
  <2>4. 0 \in 0 .. N
    BY <1>0
  <2> HIDE DEF g, Good, N
  <2> QED
    BY <2>3, <2>4
<1>2. ASSUME NEW n \in 1 .. N, n - 1 \in S PROVE n \in S
  <2> HIDE DEF N
  <2>1. PICK g : Good(g, n - 1)
    BY <1>2
  <2> DEFINE next == More(g[n - 1], s[n])
             h == [k \in 0 .. n |-> IF k = n THEN next ELSE g[k]]
  <2>2. n \in Nat /\ n # 0 /\ n - 1 \in 0 .. n /\ n - 1 # n
    BY <1>0
  <2>3. h[n] = More(h[n - 1], s[n])
    <3>1. h[n - 1] = g[n - 1] /\ h[n] = next
      <4> HIDE DEF next
      <4> QED
        BY <2>2
    <3> HIDE DEF h
    <3> QED
      BY <3>1
  <2>4. ASSUME NEW k \in 0 .. n, k # n
        PROVE  h[k] = IF k = 0 THEN <<>> ELSE More(h[k - 1], s[k])
    <3>1. k \in 0 .. n - 1 /\ h[k] = g[k]
      BY <2>2, <2>4
    <3>2. k # 0 => (k - 1 \in 0 .. n /\ k - 1 # n)
      BY <2>2, <2>4
    <3>3. k # 0 => h[k - 1] = g[k - 1]
      BY <3>2
    <3> HIDE DEF h
    <3> QED
      BY <2>1, <3>1, <3>3
  <2>5. Good(h, n)
    <3> HIDE DEF h
    <3> QED
      BY <2>2, <2>3, <2>4
  <2> HIDE DEF h, Good
  <2> QED
    BY <2>5, <1>0
<1>3. S = 0 .. N
  <2>1. S \in SUBSET (0 .. N)
    OBVIOUS
  <2> HIDE DEF S, N
  <2> QED
    BY <1>0, <1>1, <1>2, <2>1, AllUpTo
<1>4. PICK g : Good(g, N)
  <2>1. N \in S
    <3> HIDE DEF S, N
    <3> QED
      BY <1>3, <1>0
  <2> QED
    BY <2>1
<1> DEFINE f == [n \in 0 .. Len(s) |-> g[n]]
<1>5. f = [n \in 0 .. Len(s) |-> IF n = 0 THEN <<>> ELSE More(f[n - 1], s[n])]
  <2>1. ASSUME NEW n \in 0 .. Len(s)
        PROVE  f[n] = IF n = 0 THEN <<>> ELSE More(f[n - 1], s[n])
    <3>1. n # 0 => n - 1 \in 0 .. Len(s)
      BY <1>0
    <3>2. f[n] = g[n] /\ (n # 0 => f[n - 1] = g[n - 1])
      BY <3>1
    <3> HIDE DEF f
    <3> QED
      BY <1>0, <1>4, <3>2
  <2>2. f = [n \in 0 .. Len(s) |-> f[n]]
    OBVIOUS
  <2> HIDE DEF f
  <2> QED
    BY <2>1, <2>2
<1>6. Keeps(s, gone) = Keeping(s, gone, Keeps(s, gone))
  <2>1. f = Keeping(s, gone, f)
    <3> HIDE DEF f
    <3> QED
      BY <1>5 DEF Keeping, More
  <2> HIDE DEF f
  <2> QED
    BY <2>1 DEF Keeps
<1>7. \A n \in 0 .. Len(s) :
         Keeps(s, gone)[n] = IF n = 0 THEN <<>>
                             ELSE IF s[n] \in gone THEN Keeps(s, gone)[n - 1]
                             ELSE Append(Keeps(s, gone)[n - 1], s[n])
  <2> DEFINE J == Keeps(s, gone)
  <2>1. \A n \in 0 .. Len(s) :
           Keeping(s, gone, J)[n] = IF n = 0 THEN <<>>
                                    ELSE IF s[n] \in gone THEN J[n - 1]
                                    ELSE Append(J[n - 1], s[n])
    BY DEF Keeping
  <2> HIDE DEF J
  <2>2. J = Keeping(s, gone, J)
    BY <1>6 DEF J
  <2>3. \A n \in 0 .. Len(s) : J[n] = IF n = 0 THEN <<>>
                                      ELSE IF s[n] \in gone THEN J[n - 1]
                                      ELSE Append(J[n - 1], s[n])
    BY <2>1, <2>2
  <2> QED
    BY <2>3 DEF J
<1>8. 0 \in 0 .. Len(s) /\ \A n \in 1 .. Len(s) : n \in 0 .. Len(s) /\ n # 0
  BY <1>0
<1> QED
  BY <1>7, <1>8

\* The list has those of a set, each once.
Lists(s, set) ==
  /\ s \in Seq(set)
  /\ \A x \in set : \E i \in 1 .. Len(s) : s[i] = x
  /\ \A i \in 1 .. Len(s) : \A k \in 1 .. Len(s) : s[i] = s[k] => i = k

\* A list with one more.
LEMMA OneMoreListed ==
  ASSUME NEW set, NEW s, Lists(s, set), NEW x, x \notin set
  PROVE  Lists(Append(s, x), set \cup {x})
<1> DEFINE N == Len(s)
           t == Append(s, x)
           more == set \cup {x}
<1>0. s \in Seq(set) /\ s \in Seq(more) /\ N \in Nat /\ x \in more
  BY DEF Lists
<1>1. /\ t \in Seq(more) /\ Len(t) = N + 1 /\ t[N + 1] = x
      /\ \A i \in 1 .. N : t[i] = s[i] /\ s[i] \in set
  <2>1. \A i \in 1 .. N : s[i] \in set
    BY <1>0, ElementOfSeq
  <2> HIDE DEF more
  <2> QED
    BY <1>0, <2>1, AppendProperties
<1>2. \A y \in more : \E i \in 1 .. N + 1 : t[i] = y
  <2> HIDE DEF N, t
  <2>1. \A y \in set : \E i \in 1 .. N : s[i] = y
    BY DEF Lists, N
  <2>2. N + 1 \in 1 .. N + 1 /\ \A i \in 1 .. N : i \in 1 .. N + 1
    BY <1>0
  <2> QED
    BY <1>1, <2>1, <2>2
<1>3. ASSUME NEW i \in 1 .. N + 1, NEW k \in 1 .. N + 1, t[i] = t[k] PROVE i = k
  <2> HIDE DEF N, t
  <2>1. \A j \in 1 .. N + 1 : j \in 1 .. N \/ j = N + 1
    BY <1>0
  <2>2. \A j \in 1 .. N : \A l \in 1 .. N : s[j] = s[l] => j = l
    BY DEF Lists, N
  <2>3. CASE i \in 1 .. N /\ k \in 1 .. N
    BY <1>1, <1>3, <2>2, <2>3
  <2>4. CASE i = N + 1 /\ k \in 1 .. N
    BY <1>1, <1>3, <2>4
  <2>5. CASE i \in 1 .. N /\ k = N + 1
    BY <1>1, <1>3, <2>5
  <2> QED
    BY <2>1, <2>3, <2>4, <2>5
<1> HIDE DEF t, more, N
<1>4. Lists(t, more)
  BY <1>1, <1>2, <1>3 DEF Lists
<1> QED
  BY <1>4 DEF t, more

\* A list of a set without those that go is one of those that stay.
LEMMA WithoutLists ==
  ASSUME NEW set, NEW s, Lists(s, set), NEW gone
  PROVE  Lists(Without(s, gone), set \ gone)
<1> DEFINE N == Len(s)
           K == Keeps(s, gone)
           First(m) == {s[i] : i \in 1 .. m}
           S == {m \in 0 .. N : Lists(K[m], First(m) \ gone)}
<1>0. s \in Seq(set) /\ N \in Nat
  BY DEF Lists
<1>1. Without(s, gone) = K[N]
  BY DEF Without, Keeps, Keeping
<1>2. K[0] = <<>> /\ \A n \in 1 .. N :
                        K[n] = IF s[n] \in gone THEN K[n - 1] ELSE Append(K[n - 1], s[n])
  BY <1>0, KeepsIsDefined
<1> HIDE DEF K, N
<1>3. 0 \in S
  <2>1. First(0) = {} /\ 0 \in 0 .. N
    BY <1>0
  <2>2. Lists(<<>>, {})
    BY DEF Lists
  <2> HIDE DEF First
  <2>3. First(0) \ gone = {}
    BY <2>1
  <2> QED
    BY <1>2, <2>1, <2>2, <2>3
<1>4. ASSUME NEW n \in 1 .. N, n - 1 \in S PROVE n \in S
  <2> DEFINE x == s[n]
             old == First(n - 1) \ gone
  <2>0. Lists(K[n - 1], old) /\ n \in 0 .. N
    BY <1>0, <1>4
  <2>1. First(n) = First(n - 1) \cup {x}
    <3>1. \A i : i \in 1 .. n <=> (i \in 1 .. n - 1 \/ i = n)
      BY <1>0
    <3> QED
      BY <3>1
  <2>2. x \notin First(n - 1)
    <3>1. \A i \in 1 .. n - 1 : i \in 1 .. N /\ i # n
      BY <1>0
    <3>2. \A i \in 1 .. N : s[i] = s[n] => i = n
      BY DEF Lists, N
    <3> QED
      BY <3>1, <3>2
  <2> HIDE DEF First, x
  <2>3. CASE x \in gone
    <3>1. K[n] = K[n - 1] /\ First(n) \ gone = old
      BY <1>2, <2>1, <2>3 DEF x
    <3> QED
      BY <2>0, <3>1
  <2>4. CASE x \notin gone
    <3>1. K[n] = Append(K[n - 1], x) /\ First(n) \ gone = old \cup {x} /\ x \notin old
      BY <1>2, <2>1, <2>2, <2>4 DEF x
    <3>2. Lists(Append(K[n - 1], x), old \cup {x})
      <4> HIDE DEF old
      <4> QED
        BY <2>0, <3>1, OneMoreListed
    <3> QED
      BY <2>0, <3>1, <3>2
  <2> QED
    BY <2>3, <2>4
<1>5. S = 0 .. N
  <2>1. S \in SUBSET (0 .. N)
    OBVIOUS
  <2> HIDE DEF S
  <2> QED
    BY <1>0, <1>3, <1>4, <2>1, AllUpTo
<1>6. Lists(K[N], First(N) \ gone)
  <2>1. N \in S
    <3> HIDE DEF S
    <3> QED
      BY <1>0, <1>5
  <2> QED
    BY <2>1
<1>7. First(N) = set
  <2>1. \A i \in 1 .. N : s[i] \in set
    BY <1>0, ElementOfSeq DEF N
  <2>2. \A x \in set : \E i \in 1 .. N : s[i] = x
    BY DEF Lists, N
  <2> QED
    BY <2>1, <2>2
<1> HIDE DEF First
<1> QED
  BY <1>1, <1>6, <1>7

\* It is as long as the set is large.
LEMMA ListedOnce ==
  ASSUME NEW set, NEW s, Lists(s, set)
  PROVE  {s[i] : i \in DOMAIN s} = set /\ Len(s) = Cardinality(set)
<1>0. s \in Seq(set) /\ Len(s) \in Nat /\ DOMAIN s = 1 .. Len(s)
  BY DEF Lists
<1>1. \A i \in 1 .. Len(s) : s[i] \in set
  BY <1>0, ElementOfSeq
<1>2. {s[i] : i \in DOMAIN s} = set
  BY <1>0, <1>1 DEF Lists
<1>3. s \in Bijection(1 .. Len(s), set)
  <2>1. s \in [1 .. Len(s) -> set]
    BY <1>0
  <2> QED
    BY <2>1 DEF Lists, Bijection, Injection, Surjection, IsInjective
<1>4. Cardinality(set) = Len(s)
  <2>1. IsFiniteSet(1 .. Len(s)) /\ Cardinality(1 .. Len(s)) = Len(s)
    <3> DEFINE n == Len(s)
    <3>1. n \in Nat /\ n \in Int /\ 1 \in Int
      BY <1>0
    <3> HIDE DEF n
    <3>2. IsFiniteSet(1 .. n) /\ Cardinality(1 .. n) = IF 1 > n THEN 0 ELSE n - 1 + 1
      BY <3>1, FS_Interval
    <3>3. Cardinality(1 .. n) = n
      BY <3>1, <3>2
    <3> QED
      BY <3>2, <3>3 DEF n
  <2>2. ExistsBijection(1 .. Len(s), set)
    BY <1>3 DEF ExistsBijection
  <2> QED
    BY <2>1, <2>2, FS_Bijection
<1> QED
  BY <1>2, <1>4

-----------------------------------------------------------------------------
(* The rest of the types, and the manager's list.                          *)

RestTypes ==
  /\ wrote \in [Job -> 0 .. MaxWrites] /\ captured \in [Job -> 0 .. MaxWrites]
  /\ reaped \subseteq Job
  /\ timer \in [Job -> {"off", "armed", "late", "open", "over"}]
  /\ rpc \in [Reader -> {"idle", "looking", "looked", "parked"}]
  /\ on \in [Reader -> Job \cup {None}]
  /\ from \in [Reader -> 0 .. MaxWrites] /\ seen \in [Reader -> 0 .. MaxWrites]
  /\ heard \in [Job -> 0 .. MaxWrites]
  /\ \A r \in Reader : rpc[r] # "idle" => on[r] \in Job

Listed == Lists(order, jobs)

\* What a job writes and what is read of it.
LEMMA NextKeepsRest ==
  ASSUME IInv, RestTypes, [Next]_vars
  PROVE  RestTypes'
<1>1. CASE UNCHANGED vars
  BY <1>1 DEF RestTypes, vars, worldVars, flagVars, pollVars, outVars, readVars
<1>2. CASE \E j \in Job : World(j)
  <2>1. PICK j \in Job : World(j)
    BY <1>2
  <2>2. UNCHANGED <<captured, reaped, timer, rpc, on, from, seen, heard>>
    BY <2>1 DEF World, Fork, Exit, Write, flagVars, pollVars, outVars, readVars
  <2>3. wrote' = wrote \/ (wrote[j] < MaxWrites /\ wrote' = [wrote EXCEPT ![j] = @ + 1])
    BY <2>1 DEF World, Fork, Exit, Write
  <2>4. wrote' \in [Job -> 0 .. MaxWrites]
    BY <2>3, JobsAssumption DEF RestTypes
  <2> QED
    BY <2>2, <2>4 DEF RestTypes
<1>3. CASE \E j \in Job : JobStep(j)
  <2>1. PICK j \in Job : JobStep(j)
    BY <1>3
  <2>2. UNCHANGED <<wrote, rpc, on, from, seen, heard>>
    BY <2>1 DEF JobStep, Capture, Poke, FinishReading, DrainFinalize, Reap, MarkGroupGone,
       StopPolling, SupervisorFinalize, TimerLook, TimerOpen, TimerFinalize, worldVars, readVars
  <2>3. captured' = captured \/ captured' = [captured EXCEPT ![j] = wrote[j]]
    BY <2>1 DEF JobStep, Capture, Poke, FinishReading, DrainFinalize, Reap, MarkGroupGone,
       StopPolling, SupervisorFinalize, TimerLook, TimerOpen, TimerFinalize, outVars
  <2>4. reaped' = reaped \/ reaped' = reaped \cup {j}
    BY <2>1 DEF JobStep, Capture, Poke, FinishReading, DrainFinalize, Reap, MarkGroupGone,
       StopPolling, SupervisorFinalize, TimerLook, TimerOpen, TimerFinalize, flagVars
  <2>5. \/ timer' = timer
        \/ \E stage \in {"armed", "late", "open", "over"} : timer' = [timer EXCEPT ![j] = stage]
    BY <2>1 DEF JobStep, Capture, Poke, FinishReading, DrainFinalize, Reap, MarkGroupGone,
       StopPolling, SupervisorFinalize, TimerLook, TimerOpen, TimerFinalize, pollVars
  <2> QED
    BY <2>2, <2>3, <2>4, <2>5 DEF RestTypes
<1>4. CASE \E j \in Job : Start(j) \/ Forget(j) \/ CloseStep(j)
  BY <1>4 DEF Start, Forget, CloseStep, CloseMark, CloseTerm, CloseKill, CloseWaited,
     ForceFinish, RestTypes, worldVars, flagVars, pollVars, outVars, readVars
<1>5. CASE \E x \in Stopper : StopStep(x) \/ \E j \in Job : StopFind(x, j)
  BY <1>5 DEF StopStep, StopFind, StopMark, StopSignal, StopKill, StopReturn, RestTypes,
     worldVars, flagVars, pollVars, outVars, readVars
<1>6. CASE Close \/ Closed
  BY <1>6 DEF Close, Closed, RestTypes, worldVars, flagVars, pollVars, outVars, readVars
<1>7. ASSUME NEW r \in Reader, ReadStep(r) \/ \E j \in Job : Output(r, j)
      PROVE  RestTypes'
  <2>1. UNCHANGED <<wrote, captured, reaped, timer>>
    BY <1>7 DEF ReadStep, Output, Look, Decide, WakePoked, WakeDone, Expire, worldVars,
       flagVars, pollVars, outVars
  <2>2. CASE \E j \in Job : Output(r, j)
    BY <2>1, <2>2, JobsAssumption DEF Output, RestTypes
  <2>3. CASE Look(r)
    <3>1. on[r] \in Job /\ captured[on[r]] \in 0 .. MaxWrites
      BY <2>3 DEF Look, RestTypes
    <3> QED
      BY <2>1, <2>3, <3>1 DEF Look, RestTypes
  <2>4. CASE OutputReturns(r) /\ heard' = heard
    <3>1. 0 \in 0 .. MaxWrites
      BY JobsAssumption
    <3> QED
      BY <2>1, <2>4, <3>1 DEF OutputReturns, RestTypes
  <2>5. CASE \/ /\ rpc[r] # "idle" /\ UNCHANGED <<on, from, seen, heard>>
                /\ \E stage \in {"looking", "parked"} : rpc' = [rpc EXCEPT ![r] = stage]
    BY <2>1, <2>5 DEF RestTypes
  <2> QED
    BY <1>7, <2>2, <2>3, <2>4, <2>5 DEF ReadStep, Decide, WakePoked, WakeDone, Expire
<1> QED
  BY <1>1, <1>2, <1>3, <1>4, <1>5, <1>6, <1>7 DEF Next

\* The manager's list has the jobs it holds, each once: a job that starts is a new one, and
\* what is forgotten or pruned goes from both.
LEMMA NextKeepsList ==
  ASSUME IInv, Listed, [Next]_vars
  PROVE  Listed'
<1>1. CASE UNCHANGED <<jobs, order>>
  BY <1>1 DEF Listed
<1>2. ASSUME NEW j \in Job, Start(j) PROVE Listed'
  <2>1. j \notin jobs
    BY <1>2 DEF Start, IInv, UnbornIsBare
  <2>2. jobs' = (jobs \cup {j}) \ Pruned /\ order' = Without(Append(order, j), Pruned)
    BY <1>2 DEF Start
  <2>3. Lists(Append(order, j), jobs \cup {j})
    BY <2>1, OneMoreListed DEF Listed
  <2>4. Lists(Without(Append(order, j), Pruned), (jobs \cup {j}) \ Pruned)
    BY <2>3, WithoutLists
  <2> QED
    BY <2>2, <2>4 DEF Listed
<1>3. ASSUME NEW j \in Job, Forget(j) PROVE Listed'
  <2>1. jobs' = jobs \ {j} /\ order' = Without(order, {j})
    BY <1>3 DEF Forget
  <2>2. Lists(Without(order, {j}), jobs \ {j})
    BY WithoutLists DEF Listed
  <2> QED
    BY <2>1, <2>2 DEF Listed
<1>4. CASE \/ UNCHANGED vars \/ Close \/ Closed
           \/ \E j \in Job : World(j) \/ JobStep(j) \/ CloseStep(j)
           \/ \E r \in Reader : ReadStep(r) \/ \E j \in Job : Output(r, j)
           \/ \E x \in Stopper : StopStep(x) \/ \E j \in Job : StopFind(x, j)
  <2>1. CASE \/ UNCHANGED vars \/ Close \/ Closed
             \/ \E j \in Job : World(j) \/ CloseStep(j)
    BY <1>1, <2>1 DEF vars, Close, Closed, World, Fork, Exit, Write, CloseStep, CloseMark,
       CloseTerm, CloseKill, CloseWaited, ForceFinish, mgrVars
  <2>2. CASE \E j \in Job : JobStep(j)
    BY <1>1, <2>2 DEF JobStep, Capture, Poke, FinishReading, DrainFinalize, Reap,
       MarkGroupGone, StopPolling, SupervisorFinalize, TimerLook, TimerOpen, TimerFinalize,
       mgrVars
  <2>3. CASE \/ \E r \in Reader : ReadStep(r) \/ \E j \in Job : Output(r, j)
             \/ \E x \in Stopper : StopStep(x) \/ \E j \in Job : StopFind(x, j)
    BY <1>1, <2>3 DEF ReadStep, Output, Look, Decide, WakePoked, WakeDone, Expire, StopStep,
       StopFind, StopMark, StopSignal, StopKill, StopReturn, mgrVars
  <2> QED
    BY <1>4, <2>1, <2>2, <2>3
<1> QED
  BY <1>2, <1>3, <1>4 DEF Next

\* Every reachable state is well typed, and the list the manager shows has the jobs it holds,
\* each once, whatever is started, pruned and forgotten (spawnLocked, pruneLocked and
\* Forget in internal/jobs/jobs.go).
THEOREM TypesHold == Spec => []TypeOK
<1>1. ASSUME Init PROVE RestTypes /\ Listed
  <2>1. RestTypes
    BY <1>1, JobsAssumption DEF Init, RestTypes
  <2>2. Listed
    BY <1>1 DEF Init, Listed, Lists
  <2> QED
    BY <2>1, <2>2
<1>2. ASSUME IInv, OutInv, RestTypes, Listed PROVE TypeOK
  <2>1. TypeWorld /\ TypeJob /\ TypeCalls
    BY <1>2 DEF IInv, TypeCore, OutInv, OutTypes, RestTypes, TypeWorld, TypeJob, TypeCalls
  <2>2. order \in Seq(Job)
    BY <1>2 DEF Listed, Lists, IInv, TypeCore
  <2>3. TypeManager
    BY <1>2, <2>2 DEF IInv, TypeCore, TypeManager
  <2>4. OrderIsJobs
    BY <1>2, ListedOnce DEF Listed, OrderIsJobs
  <2> QED
    BY <2>1, <2>3, <2>4 DEF TypeOK
<1>3. IInv /\ RestTypes /\ Listed /\ [Next]_vars => RestTypes' /\ Listed'
  BY NextKeepsRest, NextKeepsList
<1> QED
  BY <1>1, <1>2, <1>3, Invariance, OutputInvariance, PTL DEF Spec
===============================================================================
