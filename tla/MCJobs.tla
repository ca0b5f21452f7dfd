------------------------------- MODULE MCJobs -------------------------------
(* Instances of module Jobs for TLC.                                       *)
EXTENDS Jobs

\* What hides from the output and what hides from the group are looked at apart, readers
\* only beside the first and beside a stop or Close, not both, and a second reader only of
\* a job that has forked nothing and that nobody stops.  It bounds what shells fork, who
\* reads and who stops, none of which is owed by anybody.
Idle(readers) == \A r \in readers : rpc[r] = "idle"

NobodyStops == \A x \in Stopper : spc[x] = "idle"

Apart ==
  /\ \A j \in Job : "unborn" \in {proc[j]["silent"], proc[j]["escaped"]}
  /\ \/ Idle(Reader)
     \/ /\ \A j \in Job : proc[j]["silent"] = "unborn"
        /\ manager = "open" \/ NobodyStops
  /\ \/ Idle(Reader \ {CHOOSE r \in Reader : TRUE})
     \/ /\ manager = "open" /\ NobodyStops
        /\ \A j \in Job, p \in Forks : proc[j][p] = "unborn"

MCSpec == Init /\ [][Next /\ Apart']_vars /\ Fairness
=============================================================================
