-------------------------------- MODULE Jobs --------------------------------
(***************************************************************************)
(* The background jobs of one agent process: the manager that starts,      *)
(* lists, stops, forgets and closes them, and for each job the goroutine   *)
(* that drains its output, the one that reaps its shell and then waits for *)
(* its process group to empty, and the timer that gives up on a pipe that  *)
(* a process outside the group keeps open.                                 *)
(*                                                                         *)
(* The processes themselves are the environment: a shell may fork a child  *)
(* in its group, one that has redirected its output, and one that leaves   *)
(* the group; any of them may exit or ignore SIGTERM, and one that is      *)
(* stuck outlives SIGKILL.                                                 *)
(* Output is counted, not spelled; log files and their cap are left out.   *)
(***************************************************************************)
EXTENDS Naturals, Sequences, FiniteSets

CONSTANTS Job,         \* the jobs that may be started
          Reader,      \* calls of Output that wait for news
          Stopper,     \* calls of Stop
          Forks,       \* what else a shell may fork: "child", "silent", "escaped"
          None,        \* no job
          MaxJobs,     \* how many jobs may run at once
          MaxFinished, \* how many finished records are kept
          MaxWrites    \* bound: how much one job writes

ASSUME JobsAssumption ==
         /\ None \notin Job
         /\ Forks \subseteq {"child", "silent", "escaped"}
         /\ MaxJobs \in Nat \ {0}
         /\ MaxFinished \in Nat \ {0}
         /\ MaxWrites \in Nat

VARIABLES
  \* the processes of each job, and what they have written
  proc, wrote,
  \* the manager
  jobs, order,  \* Manager.jobs and Manager.order
  manager,      \* "open", "closing" or "closed"
  closer,       \* how far Close has come with each job it found running
  \* each job
  status,       \* "unborn", "running", "exited" or "stopped"
  reaped, groupGone, readerDone, outputOpen, stopAsked, \* flags, as sets of jobs
  poke,         \* the jobs whose wake-up token is there to take
  captured,     \* window.total
  drain, supervisor, timer,   \* where its goroutines are
  forced,       \* history variable: the jobs that Close declared finished
  hit,          \* history variable: the jobs a signal of ours reached alive
  \* the calls in flight
  rpc, on, from, seen,
  heard,        \* history variable: how much of a job's output some call has looked at
  spc, target

worldVars == <<proc, wrote>>
flagVars  == <<status, reaped, groupGone, readerDone, outputOpen, stopAsked>>
pollVars  == <<drain, supervisor, timer>>
outVars   == <<poke, captured>>
mgrVars   == <<jobs, order, manager, closer, forced>>
readVars  == <<rpc, on, from, seen, heard>>
stopVars  == <<spc, target>>
vars == <<worldVars, flagVars, pollVars, outVars, mgrVars, hit, readVars, stopVars>>

-----------------------------------------------------------------------------
Proc  == {"shell"} \cup Forks
Group == Proc \ {"escaped"}  \* which has left the group with the pipe
Heard == Proc \ {"silent"}   \* which has redirected its output

Over(j) == status[j] \in {"exited", "stopped"}

\* process.running, seen from the manager: everything started and not finished.
Running == {j \in jobs : ~Over(j)}

Live(j, p) == proc[j][p] \in {"live", "doomed"}

\* groupIsGone: the probe of a process group.
GroupIsGone(j) == \A p \in Group : ~Live(j, p)

PipeClosed(j) == \A p \in Heard : ~Live(j, p)

\* SIGKILL dooms whoever is in the group; nothing is certain after SIGTERM.
Killed(j) ==
  [proc EXCEPT ![j] = [p \in Proc |-> IF p \in Group /\ Live(j, p) THEN "doomed" ELSE @[p]]]

Hit(j) == IF GroupIsGone(j) THEN hit ELSE hit \cup {j}

\* finalizeLocked on a job that is running: how it ends was decided when it was
\* asked to stop.
Ended(j) == [status EXCEPT ![j] = IF j \in stopAsked THEN "stopped" ELSE "exited"]

\* Mutant of TryFinalize: the output is not waited for.
TryFinalizeUndrained(j) ==
  status' = IF ~Over(j) /\ j \in reaped /\ j \in groupGone THEN Ended(j) ELSE status

\* tryFinalize: the shell reaped, the group empty, the output drained or given up.
TryFinalize(j) ==
  status' = IF ~Over(j) /\ j \in reaped /\ j \in groupGone /\ j \in readerDone \cup outputOpen
            THEN Ended(j) ELSE status

-----------------------------------------------------------------------------
Init ==
  /\ proc = [j \in Job |-> [p \in Proc |-> "unborn"]]
  /\ wrote = [j \in Job |-> 0]
  /\ jobs = {} /\ order = <<>>
  /\ manager = "open"
  /\ closer = [j \in Job |-> "none"]
  /\ status = [j \in Job |-> "unborn"]
  /\ reaped = {} /\ groupGone = {} /\ readerDone = {} /\ outputOpen = {} /\ stopAsked = {}
  /\ poke = {}
  /\ captured = [j \in Job |-> 0]
  /\ drain = [j \in Job |-> "off"]
  /\ supervisor = [j \in Job |-> "off"]
  /\ timer = [j \in Job |-> "off"]
  /\ forced = {} /\ hit = {}
  /\ rpc = [r \in Reader |-> "idle"]
  /\ on = [r \in Reader |-> None]
  /\ from = [r \in Reader |-> 0]
  /\ seen = [r \in Reader |-> 0]
  /\ heard = [j \in Job |-> 0]
  /\ spc = [x \in Stopper |-> "idle"]
  /\ target = [x \in Stopper |-> None]

-----------------------------------------------------------------------------
(* The world.                                                              *)

\* The pipe is inherited from a process that has it.
Fork(j, p) ==
  /\ proc[j][p] = "unborn"
  /\ \E q \in Group : proc[j][q] = "live" /\ (p \in Heard => q \in Heard)
  /\ proc' = [proc EXCEPT ![j][p] = "live"]
  /\ UNCHANGED <<wrote, flagVars, pollVars, outVars, mgrVars, hit, readVars, stopVars>>

Write(j) ==
  /\ \E p \in Heard : proc[j][p] = "live"
  /\ wrote[j] < MaxWrites
  /\ wrote' = [wrote EXCEPT ![j] = @ + 1]
  /\ UNCHANGED <<proc, flagVars, pollVars, outVars, mgrVars, hit, readVars, stopVars>>

Exit(j, p) ==
  /\ Live(j, p)
  /\ proc' = [proc EXCEPT ![j][p] = "dead"]
  /\ UNCHANGED <<wrote, flagVars, pollVars, outVars, mgrVars, hit, readVars, stopVars>>

-----------------------------------------------------------------------------
(* Starting and forgetting.                                                *)

\* A list without those that go.
Without(list, gone) ==
  LET kept[n \in 0..Len(list)] ==
        IF n = 0 THEN <<>>
        ELSE IF list[n] \in gone THEN kept[n - 1] ELSE Append(kept[n - 1], list[n])
  IN  kept[Len(list)]

Ahead(k, j) == \E i, n \in DOMAIN order : i < n /\ order[i] = k /\ order[n] = j

\* pruneLocked: the finished records that have MaxFinished newer ones.
Pruned ==
  {j \in jobs : Over(j) /\ Cardinality({k \in jobs : Over(k) /\ Ahead(j, k)}) >= MaxFinished}

\* Start, which holds the manager's lock for the whole of spawnLocked.
Start(j) ==
  /\ manager = "open"
  /\ status[j] = "unborn"
  /\ Cardinality(Running) < MaxJobs
  /\ status' = [status EXCEPT ![j] = "running"]
  /\ proc' = [proc EXCEPT ![j]["shell"] = "live"]
  /\ jobs' = (jobs \cup {j}) \ Pruned
  /\ order' = Without(Append(order, j), Pruned)
  /\ drain' = [drain EXCEPT ![j] = "reading"]
  /\ supervisor' = [supervisor EXCEPT ![j] = "waiting"]
  /\ UNCHANGED <<wrote, reaped, groupGone, readerDone, outputOpen, stopAsked, timer,
                 outVars, manager, closer, forced, hit, readVars, stopVars>>

\* Mutant of Forget: the record goes and its place in the list stays.
ForgetListed(j) ==
  /\ j \in jobs /\ Over(j)
  /\ jobs' = jobs \ {j}
  /\ UNCHANGED <<worldVars, flagVars, pollVars, outVars, order, manager, closer, forced, hit,
                 readVars, stopVars>>

\* Forget; a running job is refused.
Forget(j) ==
  /\ j \in jobs /\ Over(j)
  /\ jobs' = jobs \ {j}
  /\ order' = Without(order, {j})
  /\ UNCHANGED <<worldVars, flagVars, pollVars, outVars, manager, closer, forced, hit,
                 readVars, stopVars>>

-----------------------------------------------------------------------------
(* The output: drain and capture.                                          *)

\* Mutant of Capture: readers are not told.
CaptureSilently(j) ==
  /\ drain[j] = "reading" /\ captured[j] < wrote[j]
  /\ captured' = [captured EXCEPT ![j] = wrote[j]]
  /\ UNCHANGED <<worldVars, flagVars, pollVars, poke, mgrVars, hit, readVars, stopVars>>

\* One read of the pipe goes into the window under the job's lock ...
Capture(j) ==
  /\ drain[j] = "reading" /\ captured[j] < wrote[j]
  /\ captured' = [captured EXCEPT ![j] = wrote[j]]
  /\ drain' = [drain EXCEPT ![j] = "poking"]
  /\ UNCHANGED <<worldVars, flagVars, supervisor, timer, poke, mgrVars, hit, readVars, stopVars>>

\* ... and the token is left after it.
Poke(j) ==
  /\ drain[j] = "poking"
  /\ poke' = poke \cup {j}
  /\ drain' = [drain EXCEPT ![j] = "reading"]
  /\ UNCHANGED <<worldVars, flagVars, supervisor, timer, captured, mgrVars, hit, readVars, stopVars>>

\* EOF: every process that held the pipe has closed it (finishReading).  A read that
\* fails otherwise, which is only logged, is left out.
FinishReading(j) ==
  /\ drain[j] = "reading" /\ captured[j] = wrote[j] /\ PipeClosed(j)
  /\ readerDone' = readerDone \cup {j}
  /\ drain' = [drain EXCEPT ![j] = "eof"]
  /\ UNCHANGED <<worldVars, status, reaped, groupGone, outputOpen, stopAsked, supervisor,
                 timer, outVars, mgrVars, hit, readVars, stopVars>>

DrainFinalize(j) ==
  /\ drain[j] = "eof"
  /\ drain' = [drain EXCEPT ![j] = "over"]
  /\ TryFinalize(j)
  /\ UNCHANGED <<worldVars, reaped, groupGone, readerDone, outputOpen, stopAsked, supervisor,
                 timer, outVars, mgrVars, hit, readVars, stopVars>>

-----------------------------------------------------------------------------
(* The end of a job: supervise, awaitGroupGone, markGroupGone.             *)

Reap(j) ==
  /\ supervisor[j] = "waiting" /\ ~Live(j, "shell")
  /\ reaped' = reaped \cup {j}
  /\ supervisor' = [supervisor EXCEPT ![j] = "polling"]
  /\ UNCHANGED <<worldVars, status, groupGone, readerDone, outputOpen, stopAsked, drain,
                 timer, outVars, mgrVars, hit, readVars, stopVars>>

\* Mutant of MarkGroupGone: a job is its shell.
MarkGroupGoneOnReap(j) ==
  /\ supervisor[j] = "polling"
  /\ groupGone' = groupGone \cup {j}
  /\ supervisor' = [supervisor EXCEPT ![j] = "marked"]
  /\ timer' = [timer EXCEPT ![j] = "armed"]
  /\ UNCHANGED <<worldVars, status, reaped, readerDone, outputOpen, stopAsked, drain,
                 outVars, mgrVars, hit, readVars, stopVars>>

\* The probe, at once and then on every tick; the timer starts with the flag.
MarkGroupGone(j) ==
  /\ supervisor[j] = "polling" /\ GroupIsGone(j)
  /\ groupGone' = groupGone \cup {j}
  /\ supervisor' = [supervisor EXCEPT ![j] = "marked"]
  /\ timer' = [timer EXCEPT ![j] = "armed"]
  /\ UNCHANGED <<worldVars, status, reaped, readerDone, outputOpen, stopAsked, drain,
                 outVars, mgrVars, hit, readVars, stopVars>>

\* stopPoll is closed: Close has finalized the record itself.
StopPolling(j) ==
  /\ supervisor[j] = "polling" /\ closer[j] = "finished"
  /\ supervisor' = [supervisor EXCEPT ![j] = "marked"]
  /\ UNCHANGED <<worldVars, flagVars, drain, timer, outVars, mgrVars, hit, readVars, stopVars>>

SupervisorFinalize(j) ==
  /\ supervisor[j] = "marked"
  /\ supervisor' = [supervisor EXCEPT ![j] = "over"]
  /\ TryFinalize(j)
  /\ UNCHANGED <<worldVars, reaped, groupGone, readerDone, outputOpen, stopAsked, drain,
                 timer, outVars, mgrVars, hit, readVars, stopVars>>

\* The drain grace is over: three looks at the job, each under the lock.
TimerLook(j) ==
  /\ timer[j] = "armed"
  /\ timer' = [timer EXCEPT ![j] = IF j \in readerDone THEN "over" ELSE "late"]
  /\ UNCHANGED <<worldVars, flagVars, drain, supervisor, outVars, mgrVars, hit, readVars, stopVars>>

TimerOpen(j) ==
  /\ timer[j] = "late"
  /\ timer' = [timer EXCEPT ![j] = "open"]
  /\ outputOpen' = outputOpen \cup {j}
  /\ UNCHANGED <<worldVars, status, reaped, groupGone, readerDone, stopAsked, drain,
                 supervisor, outVars, mgrVars, hit, readVars, stopVars>>

\* Mutant of TimerFinalize: the timer only sets the flag.
TimerFinalizeNever(j) ==
  /\ timer[j] = "open"
  /\ timer' = [timer EXCEPT ![j] = "over"]
  /\ UNCHANGED <<worldVars, flagVars, drain, supervisor, outVars, mgrVars, hit, readVars, stopVars>>

TimerFinalize(j) ==
  /\ timer[j] = "open"
  /\ timer' = [timer EXCEPT ![j] = "over"]
  /\ TryFinalize(j)
  /\ UNCHANGED <<worldVars, reaped, groupGone, readerDone, outputOpen, stopAsked, drain,
                 supervisor, outVars, mgrVars, hit, readVars, stopVars>>

-----------------------------------------------------------------------------
(* Output with a wait.                                                     *)

Output(r, j) ==
  /\ rpc[r] = "idle" /\ j \in jobs
  /\ \E offset \in 0..captured[j] : from' = [from EXCEPT ![r] = offset]
  /\ on' = [on EXCEPT ![r] = j]
  /\ rpc' = [rpc EXCEPT ![r] = "looking"]
  /\ UNCHANGED <<worldVars, flagVars, pollVars, outVars, mgrVars, hit, seen, heard, stopVars>>

OutputReturns(r) ==
  /\ rpc' = [rpc EXCEPT ![r] = "idle"]
  /\ on' = [on EXCEPT ![r] = None]
  /\ from' = [from EXCEPT ![r] = 0]
  /\ seen' = [seen EXCEPT ![r] = 0]

\* process.read ...
Look(r) ==
  /\ rpc[r] = "looking"
  /\ seen' = [seen EXCEPT ![r] = captured[on[r]]]
  /\ heard' = [heard EXCEPT ![on[r]] = captured[on[r]]]
  /\ rpc' = [rpc EXCEPT ![r] = "looked"]
  /\ UNCHANGED <<worldVars, flagVars, pollVars, outVars, mgrVars, hit, on, from, stopVars>>

\* ... and then running: something new or a job that is over is returned, and
\* anything else is waited for.
Decide(r) ==
  /\ rpc[r] = "looked"
  /\ IF seen[r] > from[r] \/ Over(on[r])
     THEN OutputReturns(r)
     ELSE rpc' = [rpc EXCEPT ![r] = "parked"] /\ UNCHANGED <<on, from, seen>>
  /\ UNCHANGED <<worldVars, flagVars, pollVars, outVars, mgrVars, hit, heard, stopVars>>

\* The token is taken by one reader, whoever else is waiting.
WakePoked(r) ==
  /\ rpc[r] = "parked" /\ on[r] \in poke
  /\ poke' = poke \ {on[r]}
  /\ rpc' = [rpc EXCEPT ![r] = "looking"]
  /\ UNCHANGED <<worldVars, flagVars, pollVars, captured, mgrVars, hit, on, from, seen, heard, stopVars>>

WakeDone(r) ==
  /\ rpc[r] = "parked" /\ Over(on[r])
  /\ rpc' = [rpc EXCEPT ![r] = "looking"]
  /\ UNCHANGED <<worldVars, flagVars, pollVars, outVars, mgrVars, hit, on, from, seen, heard, stopVars>>

\* The wait is over, or the caller has gone.
Expire(r) ==
  /\ rpc[r] = "parked"
  /\ OutputReturns(r)
  /\ UNCHANGED <<worldVars, flagVars, pollVars, outVars, mgrVars, hit, heard, stopVars>>

-----------------------------------------------------------------------------
(* Stop.                                                                   *)

StopFind(x, j) ==
  /\ spc[x] = "idle" /\ j \in jobs
  /\ target' = [target EXCEPT ![x] = j]
  /\ spc' = [spc EXCEPT ![x] = IF Over(j) THEN "conflict" ELSE "found"]
  /\ UNCHANGED <<worldVars, flagVars, pollVars, outVars, mgrVars, hit, readVars>>

\* Mutant of StopMark: the intent is not recorded before the signal.
StopMarkLate(x) ==
  /\ spc[x] = "found"
  /\ spc' = [spc EXCEPT ![x] = "marked"]
  /\ UNCHANGED <<worldVars, flagVars, pollVars, outVars, mgrVars, hit, readVars, target>>

StopMark(x) ==
  /\ spc[x] = "found"
  /\ spc' = [spc EXCEPT ![x] = "marked"]
  /\ stopAsked' = stopAsked \cup {target[x]}
  /\ UNCHANGED <<worldVars, status, reaped, groupGone, readerDone, outputOpen, pollVars,
                 outVars, mgrVars, hit, readVars, target>>

\* SIGTERM, or SIGKILL at once when that is what was asked for.
StopSignal(x) ==
  /\ spc[x] = "marked"
  /\ hit' = Hit(target[x])
  /\ \/ spc' = [spc EXCEPT ![x] = "termed"] /\ UNCHANGED proc
     \/ spc' = [spc EXCEPT ![x] = "killed"] /\ proc' = Killed(target[x])
  /\ UNCHANGED <<wrote, flagVars, pollVars, outVars, mgrVars, readVars, target>>

\* The grace is over and the job is not: SIGKILL.
StopKill(x) ==
  /\ spc[x] = "termed"
  /\ spc' = [spc EXCEPT ![x] = "killed"]
  /\ hit' = Hit(target[x])
  /\ proc' = Killed(target[x])
  /\ UNCHANGED <<wrote, flagVars, pollVars, outVars, mgrVars, readVars, target>>

\* The job is done, or the wait after SIGKILL is.
StopReturn(x) ==
  /\ spc[x] \in {"termed", "killed"}
  /\ Over(target[x]) \/ spc[x] = "killed"
  /\ spc' = [spc EXCEPT ![x] = "returned"]
  /\ UNCHANGED <<worldVars, flagVars, pollVars, outVars, mgrVars, hit, readVars, target>>

-----------------------------------------------------------------------------
(* Close.                                                                  *)

Close ==
  /\ manager = "open"
  /\ manager' = IF Running = {} THEN "closed" ELSE "closing"
  /\ closer' = [j \in Job |-> IF j \in Running THEN "found" ELSE "none"]
  /\ UNCHANGED <<worldVars, flagVars, pollVars, outVars, jobs, order, forced, hit, readVars, stopVars>>

CloseMark(j) ==
  /\ closer[j] = "found"
  /\ closer' = [closer EXCEPT ![j] = "marked"]
  /\ stopAsked' = stopAsked \cup {j}
  /\ UNCHANGED <<worldVars, status, reaped, groupGone, readerDone, outputOpen, pollVars,
                 outVars, jobs, order, manager, forced, hit, readVars, stopVars>>

CloseTerm(j) ==
  /\ closer[j] = "marked"
  /\ closer' = [closer EXCEPT ![j] = "termed"]
  /\ hit' = Hit(j)
  /\ UNCHANGED <<worldVars, flagVars, pollVars, outVars, jobs, order, manager, forced,
                 readVars, stopVars>>

\* Mutant of CloseKill: the grace is over and that is that.
CloseNoKill(j) ==
  /\ closer[j] = "termed"
  /\ closer' = [closer EXCEPT ![j] = "killed"]
  /\ UNCHANGED <<worldVars, flagVars, pollVars, outVars, jobs, order, manager, forced, hit,
                 readVars, stopVars>>

CloseKill(j) ==
  /\ closer[j] = "termed"
  /\ closer' = [closer EXCEPT ![j] = "killed"]
  /\ hit' = Hit(j)
  /\ proc' = Killed(j)
  /\ UNCHANGED <<wrote, flagVars, pollVars, outVars, jobs, order, manager, forced,
                 readVars, stopVars>>

CloseWaited(j) ==
  /\ closer[j] \in {"termed", "killed"}
  /\ Over(j) \/ closer[j] = "killed"
  /\ closer' = [closer EXCEPT ![j] = "waited"]
  /\ UNCHANGED <<worldVars, flagVars, pollVars, outVars, jobs, order, manager, forced, hit,
                 readVars, stopVars>>

\* forceFinish, once every job has been waited for, and stopPoll closed.
ForceFinish(j) ==
  /\ manager = "closing"
  /\ \A k \in Job : closer[k] \in {"none", "waited", "finished"}
  /\ closer[j] = "waited"
  /\ closer' = [closer EXCEPT ![j] = "finished"]
  /\ groupGone' = groupGone \cup {j}
  /\ readerDone' = readerDone \cup {j}
  /\ IF Over(j) THEN UNCHANGED <<status, forced>>
                ELSE status' = Ended(j) /\ forced' = forced \cup {j}
  /\ UNCHANGED <<worldVars, reaped, outputOpen, stopAsked, pollVars, outVars, jobs, order,
                 manager, hit, readVars, stopVars>>

Closed ==
  /\ manager = "closing"
  /\ \A j \in Job : closer[j] \in {"none", "finished"}
  /\ manager' = "closed"
  /\ UNCHANGED <<worldVars, flagVars, pollVars, outVars, jobs, order, closer, forced, hit,
                 readVars, stopVars>>

-----------------------------------------------------------------------------
World(j) == (\E p \in Proc : Fork(j, p) \/ Exit(j, p)) \/ Write(j)

JobStep(j) ==
  \/ Capture(j) \/ Poke(j) \/ FinishReading(j) \/ DrainFinalize(j)
  \/ Reap(j) \/ MarkGroupGone(j) \/ StopPolling(j) \/ SupervisorFinalize(j)
  \/ TimerLook(j) \/ TimerOpen(j) \/ TimerFinalize(j)

ReadStep(r) == Look(r) \/ Decide(r) \/ WakePoked(r) \/ WakeDone(r) \/ Expire(r)

StopStep(x) == StopMark(x) \/ StopSignal(x) \/ StopKill(x) \/ StopReturn(x)

CloseStep(j) == CloseMark(j) \/ CloseTerm(j) \/ CloseKill(j) \/ CloseWaited(j) \/ ForceFinish(j)

Next ==
  \/ \E j \in Job : World(j) \/ Start(j) \/ Forget(j) \/ JobStep(j) \/ CloseStep(j)
  \/ \E r \in Reader : ReadStep(r) \/ \E j \in Job : Output(r, j)
  \/ \E x \in Stopper : StopStep(x) \/ \E j \in Job : StopFind(x, j)
  \/ Close \/ Closed

Spec == Init /\ [][Next]_vars

\* The goroutines are scheduled and their timers fire; processes owe nothing.
Fairness ==
  /\ \A j \in Job :
       /\ WF_vars(Capture(j) \/ Poke(j) \/ FinishReading(j) \/ DrainFinalize(j))
       /\ WF_vars(Reap(j) \/ MarkGroupGone(j) \/ StopPolling(j) \/ SupervisorFinalize(j))
       /\ WF_vars(TimerLook(j) \/ TimerOpen(j) \/ TimerFinalize(j))
       /\ WF_vars(CloseStep(j))
  /\ \A x \in Stopper : WF_vars(StopStep(x))
  /\ WF_vars(Closed)

FairSpec == Spec /\ Fairness

-----------------------------------------------------------------------------
TypeWorld ==
  /\ proc \in [Job -> [Proc -> {"unborn", "live", "doomed", "dead"}]]
  /\ wrote \in [Job -> 0..MaxWrites]
  /\ hit \subseteq Job

TypeManager ==
  /\ jobs \subseteq Job
  /\ order \in Seq(Job)
  /\ manager \in {"open", "closing", "closed"}
  /\ closer \in [Job -> {"none", "found", "marked", "termed", "killed", "waited", "finished"}]
  /\ forced \subseteq Job

TypeJob ==
  /\ status \in [Job -> {"unborn", "running", "exited", "stopped"}]
  /\ reaped \subseteq Job /\ groupGone \subseteq Job /\ readerDone \subseteq Job
  /\ outputOpen \subseteq Job /\ stopAsked \subseteq Job /\ poke \subseteq Job
  /\ captured \in [Job -> 0..MaxWrites]
  /\ drain \in [Job -> {"off", "reading", "poking", "eof", "over"}]
  /\ supervisor \in [Job -> {"off", "waiting", "polling", "marked", "over"}]
  /\ timer \in [Job -> {"off", "armed", "late", "open", "over"}]

TypeCalls ==
  /\ rpc \in [Reader -> {"idle", "looking", "looked", "parked"}]
  /\ on \in [Reader -> Job \cup {None}]
  /\ from \in [Reader -> 0..MaxWrites]
  /\ seen \in [Reader -> 0..MaxWrites]
  /\ heard \in [Job -> 0..MaxWrites]
  /\ spc \in [Stopper -> {"idle", "conflict", "found", "marked", "termed", "killed", "returned"}]
  /\ target \in [Stopper -> Job \cup {None}]

\* The list the manager shows has the jobs it holds, each once.
OrderIsJobs ==
  /\ {order[i] : i \in DOMAIN order} = jobs
  /\ Len(order) = Cardinality(jobs)

\* Every variable has its type, and the manager's map and list agree.
TypeOK == TypeWorld /\ TypeManager /\ TypeJob /\ TypeCalls /\ OrderIsJobs

-----------------------------------------------------------------------------
(* Safety.                                                                 *)

\* A job is reported as finished only when no process of its group is left, the
\* forked server whose shell has exited included; Close is the one exception.
FinishedMeansGone == \A j \in Job : Over(j) /\ j \notin forced => GroupIsGone(j)

\* When a job is reported as finished and its output as complete, all of its
\* output has been read off the pipe (what the window keeps of it is bounded).
FinishedHasItsOutput ==
  \A j \in Job : Over(j) /\ j \notin forced \cup outputOpen => captured[j] = wrote[j]

\* No more process groups are alive than jobs may run, and each of them can be
\* found and stopped through the manager, until Close has given up on it.
GroupsAreHeld ==
  /\ Cardinality({j \in Job : ~GroupIsGone(j)}) <= MaxJobs
  /\ \A j \in Job : ~GroupIsGone(j) /\ j \notin forced => j \in jobs /\ ~Over(j)

\* A job that a signal of ours reached is never reported as having ended by
\* itself, and one that nobody asked to stop never as stopped.
StoppedIsSaid ==
  \A j \in Job :
     /\ Over(j) /\ j \in hit => status[j] = "stopped"
     /\ status[j] = "stopped" => \/ \E x \in Stopper : target[x] = j
                                 \/ closer[j] # "none"

\* Nothing outlives the agent: when Close is through, whatever is still in a job's
\* group has been sent SIGKILL.
NothingOutlivesTheAgent ==
  manager = "closed" =>
     \A j \in Job, p \in Group : Live(j, p) => proc[j][p] = "doomed"

\* No output goes unheard: when a reader waits with something new to read, there is a
\* token to take or one about to be left, or a reader of the job is on its way to look,
\* or another call has looked at all there is ("so a waiting reader wakes up and
\* re-checks its offsets", internal/jobs/jobs.go:888).  The token is one for all the
\* readers of a job, so no more can be said of each of them: of two that wait one is
\* woken.  Nobody but the reader itself has looked since it did when it is alone, and then
\* it never waits with something new to read and no token.
OutputIsHeard ==
  \A r \in Reader :
     rpc[r] = "parked" /\ captured[on[r]] > from[r] =>
        \/ on[r] \in poke \/ drain[on[r]] = "poking"
        \/ \E s \in Reader : on[s] = on[r] /\ rpc[s] = "looking"
        \/ heard[on[r]] = captured[on[r]]

\* How a job ended is decided once (done is a channel that may be closed once).
EndIsFinal == [][\A j \in Job : Over(j) => status'[j] = status[j]]_vars

-----------------------------------------------------------------------------
(* Liveness.                                                               *)

\* A job whose processes are gone is finished in the end, even with its pipe held open
\* for ever by a process that left the group; and Stop and Close return, whatever the
\* processes do with the signals.
EverythingEnds ==
  /\ \A j \in Job : (status[j] = "running" /\ GroupIsGone(j)) ~> Over(j)
  /\ \A x \in Stopper : (spc[x] = "found") ~> (spc[x] = "returned")
  /\ (manager = "closing") ~> (manager = "closed")
=============================================================================
