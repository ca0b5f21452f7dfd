--------------------------- MODULE ProgressGuard ---------------------------
(***************************************************************************)
(* The loop guard of a turn (internal/chat/progress.go): what it counts of *)
(* one step's calls, and what it tells the model or ends the turn for.     *)
(*                                                                         *)
(* A call is a tool with its arguments, so that equal calls are equal      *)
(* elements of Call.                                                       *)
(***************************************************************************)
EXTENDS Naturals, Sequences, FiniteSets

CONSTANTS Call,
          KindOf,      \* what kind of tool a call is of
          Path,        \* the files read,
          ReadsOf,     \* and those each call reads
          None,
          RepeatNudge, RepeatStop, IdleNudge, IdleStop, MaxSteers, RereadNudge

\* The kinds of tool that the guard, the scheduler and Narrow tell apart: a read-only
\* file tool, a command that only looks, the plan read back, a search of the web, a
\* question to the user, a tool or command that changes things, a subagent.
Kind == {"read", "look", "plan_read", "search", "ask", "change", "spawn"}

ASSUME GuardAssumption ==
  /\ IsFiniteSet(Call) /\ KindOf \in [Call -> Kind]
  /\ ReadsOf \in [Call -> SUBSET Path]
  /\ {RepeatNudge, RepeatStop, IdleNudge, IdleStop, MaxSteers, RereadNudge}
       \subseteq Nat \ {0}
  /\ None \notin Call \cup Path /\ "idle" \notin Call \cup Path /\ Call \cap Path = {}

\* The two stops are raised above their nudges.
LoopStop == IF RepeatStop <= RepeatNudge THEN RepeatNudge + 1 ELSE RepeatStop
QuietStop == IF IdleStop <= IdleNudge THEN IdleNudge * 3 ELSE IdleStop

EffectOf(c) ==
  CASE KindOf[c] \in {"ask", "search"} -> "neutral"
    [] KindOf[c] \in {"change", "spawn"} -> "change"
    [] OTHER -> "read"

\* Reading the plan back is not a repeat.
Counted(c) == EffectOf(c) = "read" /\ KindOf[c] # "plan_read"

\* The guard of one turn. A call in stale was last seen before the world changed: its
\* count starts over when it is made again. The code keeps a pair of flags for each
\* call and for the idle streak, warned and steered, always set and cleared together.
Guard == [count: [Call -> Nat], stale: SUBSET Call, warned: SUBSET Call,
          reads: [Path -> Nat], told: SUBSET Path,
          idle: Nat, idleWarned: {"no", "yes"}, steers: Nat]

NewGuard ==
  [count |-> [c \in Call |-> 0], stale |-> {}, warned |-> {},
   reads |-> [p \in Path |-> 0], told |-> {},
   idle |-> 0, idleWarned |-> "no", steers |-> 0]

-----------------------------------------------------------------------------
(* observe. A run is one call of the step and whether it succeeded. The loop over    *)
(* the runs is put in closed form: what a call is counted for depends on no other.   *)
CountedIn(runs) == {c \in Call : Counted(c) /\ \E i \in DOMAIN runs : runs[i].call = c}
Times(runs, c) == Cardinality({i \in DOMAIN runs : runs[i].call = c})
LastAt(runs, c) == CHOOSE i \in DOMAIN runs :
                      runs[i].call = c /\ \A j \in DOMAIN runs : runs[j].call = c => j <= i

\* noteCall: the count, and the warning with it, start over when the world has changed.
NoteCalls(g, runs) ==
  [g EXCEPT !.count = [c \in Call |-> (IF c \in g.stale \cap CountedIn(runs) THEN 0 ELSE @[c])
                                       + (IF Counted(c) THEN Times(runs, c) ELSE 0)],
            !.warned = @ \ (g.stale \cap CountedIn(runs)),
            !.stale = @ \ CountedIn(runs)]

NoteReads(g, runs) ==
  [g EXCEPT !.reads = [p \in Path |-> @[p] + Cardinality({i \in DOMAIN runs :
                                                 /\ EffectOf(runs[i].call) = "read"
                                                 /\ p \in ReadsOf[runs[i].call]})]]

\* The most repeated call of the step: when two are equal, the first to get there.
MostRepeated(g, runs) ==
  IF CountedIn(runs) = {} THEN None
  ELSE CHOOSE c \in CountedIn(runs) : \A d \in CountedIn(runs) :
          \/ g.count[c] > g.count[d]
          \/ g.count[c] = g.count[d] /\ LastAt(runs, c) <= LastAt(runs, d)

\* A change, tried or made, and a question end the idle streak.
Streak(g, runs) ==
  IF \E i \in DOMAIN runs : EffectOf(runs[i].call) # "read"
  THEN [g EXCEPT !.idle = 0, !.idleWarned = "no"]
  ELSE [g EXCEPT !.idle = @ + 1]

\* stepChangedWorld: only calls that succeeded count.
ChangedWorld(runs) ==
  \E i \in DOMAIN runs : runs[i].ok /\ EffectOf(runs[i].call) = "change"

Age(g, runs) == IF ChangedWorld(runs) THEN [g EXCEPT !.stale = Call] ELSE g

Observed(g, runs) == Age(Streak(NoteReads(NoteCalls(g, runs), runs), runs), runs)

-----------------------------------------------------------------------------
(* The verdict: what to say, and why to stop. *)
Silent == [kind |-> "none", about |-> None, stop |-> None]
Say(kind, about) == [kind |-> kind, about |-> about, stop |-> None]
Stop(kind, about, reason) == [kind |-> kind, about |-> about, stop |-> reason]

MostRead(g) ==
  LET fresh == Path \ g.told
  IN  {p \in fresh : g.reads[p] >= RereadNudge /\ \A q \in fresh : g.reads[q] <= g.reads[p]}

\* Mutant of MayStop: a stop may be the first the model hears of it.
MayStopUnwarned(g, hit) == TRUE

\* A warning that the cap on messages held back is given now, and the stop waits.
MayStop(g, hit) == hit \in g.warned

Verdict(g, hit) ==
  LET repeated(n) == hit # None /\ g.count[hit] >= n
  IN  IF g.idle >= IdleNudge /\ g.idleWarned = "no" THEN Say("idle", "idle")
      ELSE IF repeated(LoopStop)
           THEN IF MayStop(g, hit) THEN Stop("repeat", hit, "loop") ELSE Say("repeat", hit)
      ELSE IF g.idle >= QuietStop /\ g.idleWarned = "yes" THEN Stop("idle", "idle", "idle")
      ELSE IF g.steers >= MaxSteers THEN Silent
      ELSE IF repeated(RepeatNudge) /\ hit \notin g.warned THEN Say("repeat", hit)
      ELSE IF MostRead(g) # {} THEN Say("reread", CHOOSE p \in MostRead(g) : TRUE)
      ELSE Silent

\* What saying it leaves behind.
Said(g, v) ==
  IF v.kind = "none" \/ v.stop # None THEN g
  ELSE [g EXCEPT !.steers = @ + 1,
                 !.idleWarned = IF v.kind = "idle" THEN "yes" ELSE @,
                 !.warned = IF v.kind = "repeat" THEN @ \cup {v.about} ELSE @,
                 !.told = IF v.kind = "reread" THEN @ \cup {v.about} ELSE @]
=============================================================================
