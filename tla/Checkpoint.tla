----------------------------- MODULE Checkpoint -----------------------------
(***************************************************************************)
(* The checkpoints of a workspace (internal/checkpoint), the file tools    *)
(* that fill them (the guard of turn.go, the two-phase batch of            *)
(* internal/edit) and the rollback that reads them back.                   *)
(*                                                                         *)
(* A content of a file is a number: 0 when there is no file, 1 for what    *)
(* was there at the start, and a new number for every write, so that equal *)
(* contents are equal hashes.                                              *)
(***************************************************************************)
EXTENDS Naturals, FiniteSets, FiniteSetsExt

CONSTANTS Session,     \* conversations that share the workspace
          Writer,      \* tool calls of a turn that may overlap: its own and its subagents'
          Restorer,    \* rollbacks that may overlap
          SessionOf,   \* the conversation a writer works for
          File,        \* the files, as numbers: manifests are sorted by path
          Paths,       \* the files write_file and edit_file are called with,
          Batches,     \* and the sets of files apply_patch is
          None,
          KeepTurns,   \* Options.KeepTurns
          MaxTurns,    \* bounds: turns,
          MaxCalls,    \* tool calls,
          MaxRestores, \* rollbacks,
          MaxContents, \* contents written,
          MaxEvicted,  \* directories one Prune drops for their size,
          MaxMishaps   \* and mishaps together: writes and removals by bash or a
                       \* person, failed reads and writes of the disk, and deaths
                       \* of the process

ASSUME CheckpointAssumption ==
  /\ SessionOf \in [Writer -> Session]
  /\ File \subseteq Nat /\ IsFiniteSet(File)
  /\ Paths \subseteq File /\ Batches \subseteq SUBSET File /\ {} \notin Batches
  /\ KeepTurns \in Nat \ {0} /\ MaxContents \in Nat \ {0}
  /\ {MaxTurns, MaxCalls, MaxRestores, MaxEvicted, MaxMishaps} \subseteq Nat
  /\ None \notin Nat \cup Session \cup Writer \cup Restorer
  /\ Session \cap Writer = {} /\ Session \cap Restorer = {} /\ Writer \cap Restorer = {}

VARIABLES disk,    \* what each file holds
          clock,   \* the last content written
          store,   \* the checkpoint directories: session -> number -> directory or None
          age,     \* how many directories were written since each last was
          held,    \* the manifest that is about to be written, by whoever has the lock
                   \* of a Checkpointer; None while nobody has it
          turn,    \* each session's turn
          op,      \* what each writer is doing
          rest,    \* what each restorer is doing
          raced,   \* history: the files somebody else wrote since an actor began
          ended,   \* history: the last content there was when turn n of a session ended
          used     \* how much of each bound is spent

fileVars == <<disk, clock, raced>>
dirVars  == <<store, age, held>>
vars == <<disk, clock, store, age, held, turn, op, rest, raced, ended, used>>

Absent == 0
Content == 0 .. MaxContents
NoHash == 0                       \* an empty after_sha256
Number == 1 .. MaxTurns + MaxRestores
Actor == Session \cup Writer

\* The writers of a turn are guarded by one Checkpointer and every rollback makes
\* its own: a lock keeps a turn's captures apart, and nothing keeps a rollback's
\* apart from them.  (The turn itself is opened and closed with another one, while
\* no writer is at work.)
Checkpointer == Session \cup Restorer

\* One file's record: what it held before the turn (Absent: it did not exist; None:
\* it was skipped, being unreadable, too large or no regular file), and what the
\* turn last wrote to it.
FileEntry == [pre : Content \cup {None}, after : Content]
Manifest == [File -> FileEntry \cup {None}]
NoFiles == [f \in File |-> None]

\* A directory: its manifest and the contents it has blobs of.
Dir == [files : Manifest, blobs : SUBSET Content]
EmptyDir == [files |-> NoFiles, blobs |-> {}]

ASSUME NoneIsNoRecord == None \notin Dir \cup Manifest \cup FileEntry

\* start and lost are history: the workspace as the turn found it, and the files
\* whose capture failed or was skipped, whose record was pruned under the turn or
\* changed by a rollback, or that were filed under its number before it began.
Turn == [at : {"none", "numbered", "opening", "running", "closing", "ending"},
         n : Number \cup {0}, start : [File -> Content], lost : SUBSET File]
NoTurn == [at |-> "none", n |-> 0, start |-> [f \in File |-> Absent], lost |-> {}]

\* batch: the call is an apply_patch.
Op == [pc : {"idle", "capture", "files", "write", "hash", "record", "recording",
             "apply", "rollback", "failed"},
       batch : BOOLEAN, files : SUBSET File, todo : SUBSET File, orig : [File -> Content],
       saw : Content, mixed : BOOLEAN]
Idle == [pc |-> "idle", batch |-> FALSE, files |-> {}, todo |-> {},
         orig |-> [f \in File |-> Absent], saw |-> Absent, mixed |-> FALSE]

\* plan holds, for a file to put back, what the file held when that was decided.
Rollback == [pc : {"idle", "number", "copy", "copied", "decide", "write"},
             s : Session \cup {None}, n : Number \cup {0}, force : BOOLEAN, m : Manifest,
             undo : Number \cup {0}, todo : SUBSET File, plan : [File -> Content \cup {None}]]
NoRollback == [pc |-> "idle", s |-> None, n |-> 0, force |-> FALSE, m |-> NoFiles,
               undo |-> 0, todo |-> {}, plan |-> NoFiles]

Init ==
  /\ disk \in [File -> {Absent, 1}]
  /\ clock = 1
  /\ store = [s \in Session |-> [n \in Number |-> None]]
  /\ age = [s \in Session |-> [n \in Number |-> 0]]
  /\ held = [a \in Checkpointer |-> None]
  /\ turn = [s \in Session |-> NoTurn]
  /\ op = [w \in Writer |-> Idle]
  /\ rest = [r \in Restorer |-> NoRollback]
  /\ raced = [a \in Actor |-> {}]
  /\ ended = [s \in Session |-> [n \in Number |-> None]]
  /\ used = [turns |-> 0, calls |-> 0, restores |-> 0, mishaps |-> 0]

-----------------------------------------------------------------------------
(* The disk *)

\* The running turns and the batches.
Busy == {s \in Session : turn[s].at = "running"} \cup {w \in Writer : op[w].batch}

\* WriteFileAtomic, os.Remove: f holds v from now on.  To a turn its own
\* writers are not somebody else.
Put(who, f, v) ==
  /\ disk' = [disk EXCEPT ![f] = v]
  /\ raced' = [a \in Actor |->
                 IF a \notin Busy THEN {}
                 ELSE IF who = a \/ (who \in Writer /\ SessionOf[who] = a) THEN raced[a]
                 ELSE raced[a] \cup {f}]

\* ... with a content nobody has written before.
PutNew(who, f) ==
  /\ clock < MaxContents
  /\ clock' = clock + 1
  /\ Put(who, f, clock + 1)

Begins(a) == raced' = [raced EXCEPT ![a] = {}]

Spend(what, max) ==
  /\ used[what] < max
  /\ used' = [used EXCEPT ![what] = @ + 1]

Mishap == Spend("mishaps", MaxMishaps)

-----------------------------------------------------------------------------
(* The directories *)

Highest(s) == Max({0} \cup {n \in Number : store[s][n] # None})

DirOf(s, n) == IF store[s][n] = None THEN EmptyDir ELSE store[s][n]
Entry(s, n, f) == DirOf(s, n).files[f]
Captured(m) == {f \in File : m[f] # None}

\* Writing a manifest makes its directory, and makes it the youngest.
WriteDir(s, n, d) ==
  /\ store' = [store EXCEPT ![s][n] = d]
  /\ age' = [t \in Session |-> [m \in Number |->
               IF <<t, m>> = <<s, n>> THEN 0
               ELSE IF store[t][m] # None /\ (store[s][n] = None \/ age[t][m] < age[s][n])
                    THEN age[t][m] + 1
                    ELSE age[t][m]]]

\* writeManifest: what was read, and added to, replaces what is there by now, and
\* the lock is let go.  It may fail.
WriteBack(a, s, n, ok) ==
  /\ held' = [held EXCEPT ![a] = None]
  /\ IF ok
     THEN WriteDir(s, n, [DirOf(s, n) EXCEPT !.files = held[a]]) /\ UNCHANGED used
     ELSE Mishap /\ UNCHANGED <<store, age>>

\* c.mu.Lock, readManifest, and what is to be written of it.
Holds(a, m) ==
  /\ held[a] = None
  /\ held' = [held EXCEPT ![a] = m]

\* Mutant of Filed: a file is captured every time.
FiledNever(s, n, f) == FALSE

\* The record is made the first time only.
Filed(s, n, f) == Entry(s, n, f) # None

\* Capture up to its manifest: the file is read, or cannot be and is skipped, and
\* what was read is stored as a blob.
Capture(a, s, n, f) ==
  /\ ~ Filed(s, n, f)
  /\ \E pre \in {disk[f], None} :
       /\ Holds(a, [DirOf(s, n).files EXCEPT ![f] = [pre |-> pre, after |-> NoHash]])
       /\ IF pre = None THEN Mishap ELSE UNCHANGED used
       /\ IF pre \in {Absent, None}
          THEN UNCHANGED <<store, age>>
          ELSE WriteDir(s, n, [DirOf(s, n) EXCEPT !.blobs = @ \cup {pre}])

\* readBlob: the directory has that content.
HasBlob(s, n, v) == v \in DirOf(s, n).blobs

-----------------------------------------------------------------------------
(* A turn *)

\* Mutant of NextTurn: the highest number in use, not the one past it.
NextTurnInUse(s) ==
  /\ turn[s].at = "none"
  /\ Spend("turns", MaxTurns)
  /\ turn' = [turn EXCEPT ![s] = [NoTurn EXCEPT !.at = "numbered", !.n = Highest(s)]]
  /\ ended' = [ended EXCEPT ![s] = [n \in Number |-> IF n = Highest(s) THEN None ELSE @[n]]]
  /\ UNCHANGED <<fileVars, dirVars, op, rest>>

\* The number is read off the disk, and the lock is let go before it is used.
NextTurn(s) ==
  /\ turn[s].at = "none"
  /\ Spend("turns", MaxTurns)
  /\ turn' = [turn EXCEPT ![s] = [NoTurn EXCEPT !.at = "numbered", !.n = Highest(s) + 1]]
  /\ ended' = [ended EXCEPT ![s][Highest(s) + 1] = None]
  /\ UNCHANGED <<fileVars, dirVars, op, rest>>

\* BeginTurn reads the manifest there is ...
OpensTurn(s) ==
  /\ turn[s].at = "numbered"
  /\ Holds(s, DirOf(s, turn[s].n).files)
  /\ turn' = [turn EXCEPT ![s].at = "opening"]
  /\ UNCHANGED <<fileVars, store, age, op, rest, ended, used>>

\* ... and writes it back; that it failed is only logged.
BeginTurn(s) ==
  /\ turn[s].at = "opening"
  /\ \E ok \in BOOLEAN : WriteBack(s, s, turn[s].n, ok)
  /\ turn' = [turn EXCEPT ![s].at = "running", ![s].start = disk,
                          ![s].lost = Captured(DirOf(s, turn[s].n).files) \cup Captured(held[s])]
  /\ Begins(s)
  /\ UNCHANGED <<disk, clock, op, rest, ended>>

\* The runner has returned, and with it every tool call.  EndTurn, like BeginTurn,
\* reads the manifest ...
ClosesTurn(s) ==
  /\ turn[s].at = "running"
  /\ \A w \in Writer : SessionOf[w] = s => op[w].pc = "idle"
  /\ Holds(s, DirOf(s, turn[s].n).files)
  /\ turn' = [turn EXCEPT ![s].at = "closing"]
  /\ ended' = [ended EXCEPT ![s][turn[s].n] = clock]
  /\ UNCHANGED <<fileVars, store, age, op, rest, used>>

\* ... and writes it back.
EndTurn(s) ==
  /\ turn[s].at = "closing"
  /\ \E ok \in BOOLEAN : WriteBack(s, s, turn[s].n, ok)
  /\ turn' = [turn EXCEPT ![s].at = "ending"]
  /\ UNCHANGED <<fileVars, op, rest, ended>>

\* All but the KeepTurns highest numbers of each session, then the oldest
\* directories while they are over max_total_mb together: sizes are not
\* modelled, so that may be any number of them.
Directories == {d \in Session \X Number : store[d[1]][d[2]] # None}

BeyondKept ==
  {d \in Directories :
     Cardinality({n \in Number : n > d[2] /\ store[d[1]][n] # None}) >= KeepTurns}

OldestOf(dirs, k) ==
  {d \in dirs : Cardinality({e \in dirs : age[e[1]][e[2]] > age[d[1]][d[2]]}) < k}

\* The lock it takes is not the one of those who are reading or writing what it drops.
Prune(s) ==
  /\ turn[s].at = "ending"
  /\ \E k \in 0 .. MaxEvicted :
       LET doomed == BeyondKept \cup OldestOf(Directories \ BeyondKept, k)
       IN  /\ store' = [t \in Session |-> [n \in Number |->
                          IF <<t, n>> \in doomed THEN None ELSE store[t][n]]]
           /\ age' = [t \in Session |-> [n \in Number |->
                        IF <<t, n>> \in doomed THEN 0 ELSE age[t][n]]]
           /\ turn' = [t \in Session |->
                         IF t = s THEN NoTurn
                         ELSE IF turn[t].at = "running" /\ <<t, turn[t].n>> \in doomed
                              THEN [turn[t] EXCEPT !.lost = File]
                              ELSE turn[t]]
  /\ UNCHANGED <<fileVars, held, op, rest, ended, used>>

-----------------------------------------------------------------------------
(* write_file and edit_file behind the guard *)

CanCall(w) == op[w].pc = "idle" /\ turn[SessionOf[w]].at = "running"

\* What w does once the file it is at is captured, or cannot be: the next one, or
\* all of them are and the tool goes to work.
Onwards(o) ==
  LET left == o.todo \ {Min(o.todo)}
  IN  IF left # {} THEN [o EXCEPT !.pc = "capture", !.todo = left]
      ELSE IF o.batch THEN [o EXCEPT !.pc = "apply", !.todo = o.files]
      ELSE [o EXCEPT !.pc = "write", !.todo = {}]

\* InvokableRun up to the capture.
GuardedCall(w, f) ==
  /\ CanCall(w) /\ Spend("calls", MaxCalls)
  /\ op' = [op EXCEPT ![w] = [Idle EXCEPT !.pc = "capture", !.files = {f}, !.todo = {f}]]
  /\ UNCHANGED <<fileVars, dirVars, turn, rest, ended>>

\* A capture for the turn, which may fail and is then only logged.  A patch names
\* its files in any order; here a batch is taken in theirs.
CapturesNext(w) ==
  /\ op[w].pc = "capture"
  /\ LET s == SessionOf[w]
         n == turn[s].n
         f == Min(op[w].todo)
     IN  \/ /\ Capture(s, s, n, f)
            /\ op' = [op EXCEPT ![w].pc = "files"]
            /\ UNCHANGED turn
         \/ /\ held[s] = None /\ Filed(s, n, f)
            /\ op' = [op EXCEPT ![w] = Onwards(op[w])]
            /\ UNCHANGED <<dirVars, turn, used>>
         \/ /\ held[s] = None /\ Mishap
            /\ turn' = [turn EXCEPT ![s].lost = IF Entry(s, n, f) = None THEN @ \cup {f} ELSE @]
            /\ op' = [op EXCEPT ![w] = Onwards(op[w])]
            /\ UNCHANGED dirVars
  /\ UNCHANGED <<fileVars, rest, ended>>

\* ... and the manifest with its record is written.
FilesCapture(w) ==
  /\ op[w].pc = "files"
  /\ LET s == SessionOf[w]
         f == Min(op[w].todo)
     IN  \E ok \in BOOLEAN :
           /\ WriteBack(s, s, turn[s].n, ok)
           /\ turn' = [turn EXCEPT ![s].lost =
                         IF ok /\ held[s][f].pre # None THEN @ ELSE @ \cup {f}]
  /\ op' = [op EXCEPT ![w] = Onwards(op[w])]
  /\ UNCHANGED <<fileVars, rest, ended>>

\* The tool writes, or it fails and nothing is recorded.
ToolWrites(w) ==
  /\ op[w].pc = "write"
  /\ \/ /\ \E f \in op[w].files : PutNew(w, f)
        /\ op' = [op EXCEPT ![w].pc = "hash"]
     \/ /\ op' = [op EXCEPT ![w] = Idle]
        /\ UNCHANGED fileVars
  /\ UNCHANGED <<dirVars, turn, rest, ended, used>>

\* RecordAfter reads the file before it takes the lock ...
ReadsAfter(w) ==
  /\ op[w].pc = "hash"
  /\ \E f \in op[w].files :
       op' = [op EXCEPT ![w].pc = "record", ![w].saw = disk[f]]
  /\ UNCHANGED <<fileVars, dirVars, turn, rest, ended, used>>

\* ... puts the hash under a record that is there ...
RecordAfter(w) ==
  /\ op[w].pc = "record"
  /\ LET s == SessionOf[w]
         m == DirOf(s, turn[s].n).files
     IN  \E f \in op[w].files :
           \/ /\ m[f] # None
              /\ Holds(s, [m EXCEPT ![f].after = op[w].saw])
              /\ op' = [op EXCEPT ![w].pc = "recording"]
           \/ /\ m[f] = None /\ held[s] = None
              /\ op' = [op EXCEPT ![w] = Idle]
              /\ UNCHANGED held
  /\ UNCHANGED <<fileVars, store, age, turn, rest, ended, used>>

\* ... and writes the manifest.
FilesAfter(w) ==
  /\ op[w].pc = "recording"
  /\ LET s == SessionOf[w] IN \E ok \in BOOLEAN : WriteBack(s, s, turn[s].n, ok)
  /\ op' = [op EXCEPT ![w] = Idle]
  /\ UNCHANGED <<fileVars, turn, rest, ended>>

-----------------------------------------------------------------------------
(* apply_patch: the two phases of internal/edit.  No hash is recorded: the   *)
(* guard looks for a path argument, and a batch names its files elsewhere.   *)

\* Apply begins with a capture of every file before any is touched.
PlanBatch(w, files) ==
  /\ CanCall(w) /\ Spend("calls", MaxCalls)
  /\ \A f \in files : disk[f] # Absent
  /\ op' = [op EXCEPT ![w] =
              [Idle EXCEPT !.pc = "capture", !.batch = TRUE, !.files = files, !.todo = files,
                           !.orig = [f \in File |-> IF f \in files THEN disk[f] ELSE Absent]]]
  /\ Begins(w)
  /\ UNCHANGED <<disk, clock, dirVars, turn, rest, ended>>

\* Mutant of AppliesNext: a failed write ends the batch, with no way back.
AppliesNextOnly(w) ==
  /\ op[w].pc = "apply"
  /\ LET f    == Min(op[w].todo)
         left == op[w].todo \ {f}
     IN  \/ /\ PutNew(w, f)
            /\ op' = IF left = {} THEN [op EXCEPT ![w] = Idle] ELSE [op EXCEPT ![w].todo = left]
            /\ UNCHANGED used
         \/ /\ Mishap
            /\ op' = [op EXCEPT ![w].pc = "failed"]
            /\ UNCHANGED fileVars
  /\ UNCHANGED <<dirVars, turn, rest, ended>>

\* The second half: each file in turn, and back again when one fails.
AppliesNext(w) ==
  /\ op[w].pc = "apply"
  /\ LET f    == Min(op[w].todo)
         left == op[w].todo \ {f}
     IN  \/ /\ PutNew(w, f)
            /\ op' = IF left = {} THEN [op EXCEPT ![w] = Idle] ELSE [op EXCEPT ![w].todo = left]
            /\ UNCHANGED used
         \/ /\ Mishap
            /\ op' = LET written == op[w].files \ op[w].todo
                     IN  [op EXCEPT ![w].todo = written,
                                    ![w].pc = IF written = {} THEN "failed" ELSE "rollback"]
            /\ UNCHANGED fileVars
  /\ UNCHANGED <<dirVars, turn, rest, ended>>

\* What kept the batch from going on may keep it from going back.
RollsBackNext(w) ==
  /\ op[w].pc = "rollback"
  /\ LET f    == Min(op[w].todo)
         left == op[w].todo \ {f}
         then(mixed) == op' = [op EXCEPT ![w].todo = left, ![w].mixed = @ \/ mixed,
                                         ![w].pc = IF left = {} THEN "failed" ELSE "rollback"]
     IN  \/ /\ Put(w, f, op[w].orig[f])
            /\ then(FALSE)
            /\ UNCHANGED clock
         \/ /\ then(TRUE)
            /\ UNCHANGED fileVars
  /\ UNCHANGED <<dirVars, turn, rest, ended, used>>

\* The error the model reads: nothing was changed, or the disk is mixed.
BatchFails(w) ==
  /\ op[w].pc = "failed"
  /\ op' = [op EXCEPT ![w] = Idle]
  /\ UNCHANGED <<fileVars, dirVars, turn, rest, ended, used>>

-----------------------------------------------------------------------------
(* Restore *)

\* The files a manifest has something of: the skipped ones are passed over.
Covered(m) == {f \in Captured(m) : m[f].pre # None}

Step(r, todo, then) ==
  IF todo = {} THEN then ELSE [rest[r] EXCEPT !.todo = todo]

\* A checkpoint with no files is none.  The manifest read here is the one used
\* to the end.
Restore(r, s, n, force) ==
  /\ rest[r].pc = "idle"
  /\ store[s][n] # None /\ Captured(store[s][n].files) # {}
  /\ Spend("restores", MaxRestores)
  /\ rest' = [rest EXCEPT ![r] = [NoRollback EXCEPT !.pc = "number", !.s = s, !.n = n,
                                    !.force = force, !.m = store[s][n].files]]
  /\ UNCHANGED <<fileVars, dirVars, turn, op, ended>>

\* nextTurnNumber, like NextTurn, lets the lock go.
NumbersUndo(r) ==
  /\ rest[r].pc = "number"
  /\ rest' = [rest EXCEPT ![r].pc = "copy", ![r].undo = Highest(rest[r].s) + 1,
                          ![r].todo = Covered(rest[r].m)]
  /\ UNCHANGED <<fileVars, dirVars, turn, op, ended, used>>

\* The copies are made, or one could not be and the undo is not offered: on to
\* phase one, if there is anything to decide.
Decides(r, undo) ==
  IF Covered(rest[r].m) = {} THEN NoRollback
  ELSE [rest[r] EXCEPT !.pc = "decide", !.undo = undo, !.todo = Covered(rest[r].m)]

\* captureCurrentState: the next file, and after the last one git's readings, if
\* there are any.
CopiesNext(r) ==
  /\ rest[r].pc = "copy"
  /\ LET q == rest[r]
         f == Min(q.todo)
     IN  \/ /\ q.todo # {} /\ Capture(r, q.s, q.undo, f)
            /\ rest' = [rest EXCEPT ![r].pc = "copied"]
         \/ /\ q.todo # {} /\ Filed(q.s, q.undo, f)
            /\ rest' = [rest EXCEPT ![r].todo = @ \ {f}]
            /\ UNCHANGED <<dirVars, used>>
         \/ /\ q.todo = {} /\ Holds(r, DirOf(q.s, q.undo).files)
            /\ rest' = [rest EXCEPT ![r].pc = "copied"]
            /\ UNCHANGED <<store, age, used>>
         \/ /\ q.todo = {}
            /\ rest' = [rest EXCEPT ![r] = Decides(r, q.undo)]
            /\ UNCHANGED <<dirVars, used>>
         \/ /\ Mishap
            /\ rest' = [rest EXCEPT ![r] = Decides(r, 0)]
            /\ UNCHANGED dirVars
  /\ UNCHANGED <<fileVars, turn, op, ended>>

\* The manifest is written.  A running turn that was given the same number misses
\* the records this changes.
FilesCopy(r) ==
  /\ rest[r].pc = "copied"
  /\ LET q == rest[r]
         changed == {f \in File : held[r][f] # Entry(q.s, q.undo, f)}
     IN  \E ok \in BOOLEAN :
           /\ WriteBack(r, q.s, q.undo, ok)
           /\ turn' = IF ok /\ turn[q.s].n = q.undo
                      THEN [turn EXCEPT ![q.s].lost = @ \cup changed]
                      ELSE turn
           /\ rest' = [rest EXCEPT ![r] =
                         IF ~ ok THEN Decides(r, 0)
                         ELSE IF q.todo = {} THEN Decides(r, q.undo)
                         ELSE [q EXCEPT !.pc = "copy", !.todo = @ \ {Min(@)}]]
  /\ UNCHANGED <<fileVars, op, ended>>

\* Mutant of PutsBack: nothing is a conflict.
PutsBackAnyway(r, f) ==
  LET e == rest[r].m[f]
  IN  IF e.pre = Absent
      THEN disk[f] # Absent
      ELSE disk[f] # e.pre /\ HasBlob(rest[r].s, rest[r].n, e.pre)

\* What phase one finds for a file: it is to be put back, or it is left alone
\* (unchanged, a conflict, or its pre-image is gone).
PutsBack(r, f) ==
  LET e == rest[r].m[f]
      ownEdit == e.after # NoHash /\ disk[f] = e.after
  IN  IF e.pre = Absent
      THEN disk[f] # Absent
      ELSE /\ disk[f] # e.pre
           /\ disk[f] = Absent \/ ownEdit \/ rest[r].force
           /\ HasBlob(rest[r].s, rest[r].n, e.pre)

DecidesNext(r) ==
  /\ rest[r].pc = "decide"
  /\ LET f    == Min(rest[r].todo)
         left == rest[r].todo \ {f}
         plan == [rest[r].plan EXCEPT ![f] = IF PutsBack(r, f) THEN disk[f] ELSE None]
         now  == [rest[r] EXCEPT !.plan = plan, !.todo = left]
     IN  rest' = [rest EXCEPT ![r] =
                    IF left # {} THEN now
                    ELSE IF Captured(plan) = {} THEN NoRollback
                    ELSE [now EXCEPT !.pc = "write", !.todo = Captured(plan)]]
  /\ UNCHANGED <<fileVars, dirVars, turn, op, ended, used>>

\* Phase two, one file, whatever it holds by now; a failure is reported and the
\* next file is tried.  Removing a file that is gone fails too.
WritesNext(r) ==
  /\ rest[r].pc = "write"
  /\ LET f  == Min(rest[r].todo)
         to == rest[r].m[f].pre
     IN  /\ rest' = [rest EXCEPT ![r] = Step(r, rest[r].todo \ {f}, NoRollback)]
         /\ \/ /\ ~ (to = Absent /\ disk[f] = Absent)
               /\ Put(r, f, to)
               /\ UNCHANGED <<clock, used>>
            \/ /\ to = Absent /\ disk[f] = Absent
               /\ UNCHANGED <<fileVars, used>>
            \/ /\ Mishap
               /\ UNCHANGED fileVars
  /\ UNCHANGED <<dirVars, turn, op, ended>>

-----------------------------------------------------------------------------
(* Everybody else *)

\* bash, an editor, another program: writes or removes a file.
Outside(f) ==
  /\ Mishap
  /\ \/ PutNew(None, f)
     \/ disk[f] # Absent /\ Put(None, f, Absent) /\ UNCHANGED clock
  /\ UNCHANGED <<dirVars, turn, op, rest, ended>>

\* The process dies and starts again: what is on disk stays.
Crash ==
  /\ Mishap
  /\ turn' = [s \in Session |-> NoTurn]
  /\ op' = [w \in Writer |-> Idle]
  /\ rest' = [r \in Restorer |-> NoRollback]
  /\ held' = [a \in Checkpointer |-> None]
  /\ UNCHANGED <<fileVars, store, age, ended>>

Next ==
  \/ \E s \in Session :
       NextTurn(s) \/ OpensTurn(s) \/ BeginTurn(s) \/ ClosesTurn(s) \/ EndTurn(s) \/ Prune(s)
  \/ \E w \in Writer, f \in Paths : GuardedCall(w, f)
  \/ \E w \in Writer : CapturesNext(w) \/ FilesCapture(w)
  \/ \E w \in Writer : ToolWrites(w) \/ ReadsAfter(w) \/ RecordAfter(w) \/ FilesAfter(w)
  \/ \E w \in Writer, files \in Batches : PlanBatch(w, files)
  \/ \E w \in Writer : AppliesNext(w) \/ RollsBackNext(w) \/ BatchFails(w)
  \/ \E r \in Restorer, s \in Session, n \in Number, force \in BOOLEAN : Restore(r, s, n, force)
  \/ \E r \in Restorer :
       NumbersUndo(r) \/ CopiesNext(r) \/ FilesCopy(r) \/ DecidesNext(r) \/ WritesNext(r)
  \/ \E f \in File : Outside(f)
  \/ Crash

Spec == Init /\ [][Next]_vars

-----------------------------------------------------------------------------
(* Properties *)

TypeFiles ==
  /\ disk \in [File -> Content] /\ clock \in Content
  /\ raced \in [Actor -> SUBSET File]

TypeDirs ==
  /\ store \in [Session -> [Number -> Dir \cup {None}]]
  /\ age \in [Session -> [Number -> Nat]]
  /\ held \in [Checkpointer -> Manifest \cup {None}]

TypeTurns ==
  /\ turn \in [Session -> Turn]
  /\ \A s \in Session : turn[s].at # "none" => turn[s].n \in Number

TypeOps == op \in [Writer -> Op]

TypeRests == rest \in [Restorer -> Rollback]

TypeEnded == ended \in [Session -> [Number -> Content \cup {None}]]

TypeUsed ==
  /\ DOMAIN used = {"turns", "calls", "restores", "mishaps"}
  /\ used.turns \in 0 .. MaxTurns
  /\ used.calls \in 0 .. MaxCalls
  /\ used.restores \in 0 .. MaxRestores
  /\ used.mishaps \in 0 .. MaxMishaps

\* Every variable stays in its range, and a turn has a number from 1 on.
TypeOK == TypeFiles /\ TypeDirs /\ TypeTurns /\ TypeOps /\ TypeRests /\ TypeEnded /\ TypeUsed

\* Rolling a turn back brings back what the turn found: as long as nobody else
\* has written the file, either it is as the turn found it or a pre-image is filed
\* for it, which is what it held when the turn began, however many of the turn's
\* writers write it and in whatever order.  A capture that failed or was skipped,
\* that was pruned under the turn, that was there before it began or that a
\* rollback with the same number replaced is lost.
FirstPreImage ==
  \A s \in Session, f \in File :
    (turn[s].at = "running" /\ f \notin raced[s] \cup turn[s].lost) =>
      IF Entry(s, turn[s].n, f) = None
      THEN disk[f] = turn[s].start[f]
      ELSE Entry(s, turn[s].n, f).pre = turn[s].start[f]

\* What f holds was on disk before the turn a rollback is of was over.
IsOfTheTurn(r, f) ==
  LET end == ended[rest[r].s][rest[r].n] IN end = None \/ disk[f] <= end

\* What was written after a turn ended is not overwritten by a rollback of that
\* turn that was not told to, unless it was written after the rollback had looked:
\* whatever phase two is about to replace is of the turn, or is not what phase one
\* found there.  (A file the turn created is removed whatever it holds: the code
\* does not compare it.)
LaterWorkIsLostOnlyUnseen ==
  \A r \in Restorer :
    (rest[r].pc = "write" /\ ~ rest[r].force) =>
      \A f \in rest[r].todo :
        \/ disk[f] = Absent \/ rest[r].m[f].pre = Absent
        \/ IsOfTheTurn(r, f)
        \/ disk[f] # rest[r].plan[f]

\* Either every edit of a batch is on disk or none is: when the batch has
\* failed and its rollback has not, every file of it nobody else wrote holds
\* what it held when the batch was planned.
AllOrNothing ==
  \A w \in Writer :
    (op[w].pc = "failed" /\ ~ op[w].mixed) =>
      \A f \in op[w].files \ raced[w] : disk[f] = op[w].orig[f]
=============================================================================
