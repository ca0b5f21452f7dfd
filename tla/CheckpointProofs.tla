--------------------------- MODULE CheckpointProofs ---------------------------
(***************************************************************************)
(* Proofs about module Checkpoint, for any sets of conversations, writers, *)
(* rollbacks and files and any bounds: its types, what the pre-images of a *)
(* turn hold, what a failed batch leaves, and what a rollback overwrites.  *)
(*                                                                         *)
(* None of these is inductive.  The types are not because NextTurn and     *)
(* nextTurnNumber take one more than the highest directory there is, which *)
(* stays a number only because every turn and every rollback takes one     *)
(* number at most; nor do the loops of a batch and of a rollback stay in   *)
(* range unless there is something to do whenever they go on, of what they *)
(* set out to do, nor is a manifest there to be written unless whoever is  *)
(* about to has the lock, alone.  That a pre-image is what the turn found  *)
(* needs that no writer touches a file before it is filed, so that what is *)
(* not filed yet is still as it was found, and that a manifest about to be *)
(* written still has every record the one on disk has by then, though both *)
(* were read before.  That a failed batch left nothing behind needs which  *)
(* of its files are as planned at every step of both loops.  And that      *)
(* later work is overwritten unseen only needs that no record, on disk, in *)
(* a manifest about to be written or in the one a rollback has read, is    *)
(* younger than its turn's end.                                            *)
(***************************************************************************)
EXTENDS Checkpoint, FiniteSetTheorems, WellFoundedInduction, TLAPS

(* Numbers.                                                                *)

Numbering == {r \in Restorer : rest[r].pc = "number"}

\* The numbers that may have been given out: one to every turn and to every
\* rollback that is past asking for one.
Given == used.turns + used.restores - Cardinality(Numbering)

NumbersAreGiven ==
  /\ IsFiniteSet(Numbering) /\ Cardinality(Numbering) <= used.restores
  /\ \A s \in Session : turn[s].n <= Given
  /\ \A s \in Session, n \in Number : store[s][n] # None => n <= Given
  /\ \A r \in Restorer : rest[r].undo <= Given

(* What goes on.                                                           *)

WritersAreRunning ==
  \A w \in Writer : op[w].pc # "idle" => turn[SessionOf[w]].at = "running"

\* What is still to do of a call is of the call, and something is.
GoesOn(o) ==
  /\ o.todo \subseteq o.files
  /\ (o.todo # {}) <=> (o.pc \in {"capture", "files", "apply", "rollback"})
  /\ o.pc \in {"apply", "rollback", "failed"} => o.batch
  /\ o.batch => o.pc \in {"capture", "files", "apply", "rollback", "failed"}

CallsGoOn == \A w \in Writer : GoesOn(op[w])

\* A rollback goes through the files its manifest has something of, and puts back
\* only those.
Goes(q) ==
  /\ q.todo \subseteq Covered(q.m)
  /\ Captured(q.plan) \subseteq Covered(q.m)
  /\ q.pc # "idle" => q.s \in Session /\ q.n \in Number
  /\ q.pc \in {"decide", "write"} => q.todo # {}
  /\ q.pc \in {"copy", "copied"} => q.undo \in Number

RollbacksGoOn == \A r \in Restorer : Goes(rest[r])

Types == TypeOK /\ NumbersAreGiven /\ WritersAreRunning /\ CallsGoOn /\ RollbacksGoOn

(* The locks.                                                              *)

Locks(w) == op[w].pc \in {"files", "recording"}

\* Whoever is about to write a manifest has one, and of a turn's writers one is.
HoldersHold ==
  /\ \A w \in Writer : Locks(w) => held[SessionOf[w]] # None
  /\ \A w \in Writer : op[w].pc = "files" => held[SessionOf[w]][Min(op[w].todo)] # None
  /\ \A v, w \in Writer : Locks(v) /\ Locks(w) /\ SessionOf[v] = SessionOf[w] => v = w
  /\ \A s \in Session : turn[s].at \in {"opening", "closing"} => held[s] # None
  /\ \A r \in Restorer : rest[r].pc = "copied" => held[r] # None

-----------------------------------------------------------------------------
(* The operators the model is built from.                                  *)

\* A finite set of numbers that is not empty has a least one.
LEMMA LeastIsOne ==
  ASSUME NEW S \in SUBSET Nat, IsFiniteSet(S), S # {}
  PROVE  \E x \in S : \A y \in S : x <= y
<1> DEFINE Upto(x) == {y \in S : y <= x}
           Sets == {Upto(x) : x \in S}
<1>1. Sets \subseteq FiniteSubsetsOf(S) /\ Sets # {}
  <2>1. \A x \in S : Upto(x) \subseteq S /\ IsFiniteSet(Upto(x))
    BY FS_Subset
  <2> QED
    BY <2>1 DEF FiniteSubsetsOf
<1>2. IsWellFoundedOn(StrictSubsetOrdering(S), FiniteSubsetsOf(S))
  BY FS_StrictSubsetOrderingWellFounded
<1> HIDE DEF Sets
<1>3. PICK d \in Sets : \A e \in Sets : <<e, d>> \notin StrictSubsetOrdering(S)
  BY <1>1, <1>2, WFMin
<1>4. PICK x \in S : d = Upto(x)
  BY DEF Sets
<1>5. ASSUME NEW y \in S, ~ (x <= y) PROVE FALSE
  <2>1. x \in Nat /\ y \in Nat /\ y < x
    BY <1>5
  <2>2. Upto(y) \subseteq Upto(x)
    <3>1. \A z \in S : z <= y => z <= x
      BY <2>1
    <3> QED
      BY <3>1
  <2>3. x \in Upto(x) /\ x \notin Upto(y)
    <3>1. ~ (x <= y) /\ x <= x
      BY <2>1
    <3> QED
      BY <3>1
  <2>4. <<Upto(y), Upto(x)>> \in StrictSubsetOrdering(S)
    BY <2>2, <2>3 DEF StrictSubsetOrdering
  <2>5. Upto(y) \in Sets
    BY DEF Sets
  <2> QED
    BY <1>3, <1>4, <2>4, <2>5
<1> QED
  BY <1>5

\* The next file of what is to do is one of it.
LEMMA NextIsToDo ==
  ASSUME NEW todo \in SUBSET File, todo # {}
  PROVE  Min(todo) \in todo
<1>1. todo \in SUBSET Nat /\ IsFiniteSet(todo)
  BY CheckpointAssumption, FS_Subset
<1> QED
  BY <1>1, LeastIsOne DEF Min

\* The greatest of a set of numbers that has a bound.
LEMMA GreatestIsOne ==
  ASSUME NEW S \in SUBSET Nat, S # {}, NEW m \in Nat, \A x \in S : x <= m
  PROVE  Max(S) \in S /\ \A x \in S : x <= Max(S)
<1> DEFINE Gaps == {m - x : x \in S}
<1>1. \A x \in S : x \in Nat /\ m - x \in Nat /\ m - x <= m
  OBVIOUS
<1>2. Gaps \in SUBSET Nat /\ Gaps # {} /\ \A t \in Gaps : t <= m
  BY <1>1
<1>3. PICK t \in Gaps : \A u \in Gaps : t <= u
  <2> HIDE DEF Gaps
  <2>1. IsFiniteSet(Gaps)
    BY <1>2, FS_BoundedSetOfNaturals
  <2> QED
    BY <1>2, <2>1, LeastIsOne
<1>4. PICK x \in S : t = m - x
  BY <1>3
<1>5. ASSUME NEW y \in S PROVE x >= y
  <2>1. m - y \in Gaps
    OBVIOUS
  <2>2. m - x <= m - y
    BY <1>3, <1>4, <2>1
  <2> QED
    BY <1>1, <2>2
<1>6. Max(S) \in S /\ \A y \in S : Max(S) >= y
  BY <1>5 DEF Max
<1> QED
  BY <1>1, <1>6

\* No directory has a higher number, and unless there is none one has this one.
LEMMA HighestIsLast ==
  ASSUME TypeDirs, NEW s \in Session
  PROVE  /\ Highest(s) \in Nat
         /\ \A n \in Number : store[s][n] # None => n <= Highest(s)
         /\ Highest(s) # 0 => Highest(s) \in Number /\ store[s][Highest(s)] # None
<1> DEFINE S == {0} \cup {n \in Number : store[s][n] # None}
<1>1. MaxTurns + MaxRestores \in Nat
  BY CheckpointAssumption
<1>2. S \in SUBSET Nat /\ S # {} /\ \A n \in S : n <= MaxTurns + MaxRestores
  BY <1>1 DEF Number
<1> HIDE DEF S
<1>3. Max(S) \in S /\ \A n \in S : n <= Max(S)
  BY <1>1, <1>2, GreatestIsOne
<1>4. Highest(s) = Max(S)
  BY DEF Highest, S
<1> QED
  BY <1>2, <1>3, <1>4 DEF S, Number

\* The number after it is no directory's yet.
LEMMA NextIsFree ==
  ASSUME TypeDirs, NEW s \in Session
  PROVE  Highest(s) + 1 \in Number => store[s][Highest(s) + 1] = None
<1>1. Highest(s) \in Nat /\ ~ (Highest(s) + 1 <= Highest(s))
  BY HighestIsLast
<1> QED
  BY <1>1, HighestIsLast

\* A directory that is not there reads as an empty manifest.
LEMMA EmptyDirIsDir == EmptyDir \in Dir
BY DEF EmptyDir, Dir, NoFiles, Manifest

\* Whatever number is asked for, a manifest is read.
LEMMA DirOfIsDir ==
  ASSUME TypeDirs, NEW s \in Session, NEW n \in Number
  PROVE  DirOf(s, n) \in Dir /\ DirOf(s, n).files \in Manifest
<1>1. DirOf(s, n) \in Dir
  BY EmptyDirIsDir DEF DirOf, TypeDirs
<1> QED
  BY <1>1 DEF Dir

\* A record is a record, or none.
LEMMA RecordIsOne ==
  ASSUME NEW m \in Manifest, NEW f \in File, m[f] # None
  PROVE  m[f] \in FileEntry
BY DEF Manifest

\* A manifest with one record replaced is a manifest.
LEMMA ManifestWith ==
  ASSUME NEW m \in Manifest, NEW f \in File, NEW e \in FileEntry
  PROVE  /\ [m EXCEPT ![f] = e] \in Manifest
         /\ \A g \in File : [m EXCEPT ![f] = e][g] = IF g = f THEN e ELSE m[g]
BY DEF Manifest

\* Writing a directory replaces one and leaves the others alone.
LEMMA WriteDirWrites ==
  ASSUME TypeDirs, NEW s \in Session, NEW n \in Number, NEW d \in Dir, WriteDir(s, n, d)
  PROVE  /\ store' \in [Session -> [Number -> Dir \cup {None}]]
         /\ age' \in [Session -> [Number -> Nat]]
         /\ \A t \in Session, m \in Number :
              /\ (store[t][m] # None)' = (store[t][m] # None \/ (t = s /\ m = n))
              /\ DirOf(t, m)' = IF t = s /\ m = n THEN d ELSE DirOf(t, m)
<1>1. store' = [store EXCEPT ![s] = [store[s] EXCEPT ![n] = d]]
  BY DEF WriteDir
<1>2. \A t \in Session, m \in Number : store'[t][m] = IF t = s /\ m = n THEN d ELSE store[t][m]
  BY <1>1 DEF TypeDirs
<1>3. store' \in [Session -> [Number -> Dir \cup {None}]]
  BY <1>1 DEF TypeDirs
<1>4. age' \in [Session -> [Number -> Nat]]
  BY DEF TypeDirs, WriteDir
<1> QED
  BY <1>2, <1>3, <1>4, NoneIsNoRecord DEF DirOf

\* No directory is made but that one.
MakesOnly(s, n) ==
  \A t \in Session, m \in Number : store'[t][m] # None => store[t][m] # None \/ (t = s /\ m = n)

\* The manifests there are, but for that of one directory, which is m now.
SameFiles == \A t \in Session, k \in Number : DirOf(t, k)'.files = DirOf(t, k).files
SetsFiles(s, n, m) ==
  \A t \in Session, k \in Number :
    DirOf(t, k)'.files = IF t = s /\ k = n THEN m ELSE DirOf(t, k).files

NumbersUnused == used'.turns = used.turns /\ used'.restores = used.restores

\* A mishap spends one, and no number.
LEMMA MishapSpends ==
  ASSUME TypeUsed, Mishap
  PROVE  TypeUsed' /\ NumbersUnused
BY CheckpointAssumption DEF TypeUsed, Mishap, Spend, NumbersUnused

\* A manifest that is written takes the place of the one there is, or it fails; in
\* both cases the lock is let go.
LEMMA WriteBackWrites ==
  ASSUME TypeDirs, TypeUsed, NEW a \in Checkpointer, NEW s \in Session, NEW n \in Number,
         NEW ok \in BOOLEAN, held[a] # None, WriteBack(a, s, n, ok)
  PROVE  /\ TypeDirs' /\ TypeUsed' /\ NumbersUnused
         /\ held' = [held EXCEPT ![a] = None]
         /\ MakesOnly(s, n)
         /\ \A t \in Session, k \in Number : store[t][k] # None => store'[t][k] # None
         /\ ok => SetsFiles(s, n, held[a])
         /\ ~ ok => SameFiles
<1>1. held' = [held EXCEPT ![a] = None] /\ held[a] \in Manifest
  BY DEF WriteBack, TypeDirs
<1>2. held' \in [Checkpointer -> Manifest \cup {None}]
  BY <1>1 DEF TypeDirs
<1>3. CASE ok
  <2> DEFINE d == [DirOf(s, n) EXCEPT !.files = held[a]]
  <2>1. WriteDir(s, n, d) /\ UNCHANGED used
    BY <1>3 DEF WriteBack
  <2>2. DirOf(s, n) \in Dir
    BY DirOfIsDir
  <2>3. d \in Dir /\ d.files = held[a]
    BY <1>1, <2>2 DEF Dir
  <2> HIDE DEF d
  <2>4. /\ store' \in [Session -> [Number -> Dir \cup {None}]]
        /\ age' \in [Session -> [Number -> Nat]]
        /\ \A t \in Session, m \in Number :
             /\ (store[t][m] # None)' = (store[t][m] # None \/ (t = s /\ m = n))
             /\ DirOf(t, m)' = IF t = s /\ m = n THEN d ELSE DirOf(t, m)
    BY <2>1, <2>3, WriteDirWrites
  <2>5. TypeDirs' /\ TypeUsed' /\ NumbersUnused
    BY <1>2, <2>1, <2>4 DEF TypeDirs, TypeUsed, NumbersUnused
  <2> QED
    BY <1>1, <1>3, <2>3, <2>4, <2>5 DEF MakesOnly, SetsFiles
<1>4. CASE ~ ok
  <2>1. Mishap /\ UNCHANGED <<store, age>>
    BY <1>4 DEF WriteBack
  <2>2. TypeUsed' /\ NumbersUnused
    BY <2>1, MishapSpends
  <2>3. TypeDirs'
    BY <1>2, <2>1 DEF TypeDirs
  <2> QED
    BY <1>1, <1>4, <2>1, <2>2, <2>3 DEF MakesOnly, SameFiles, DirOf
<1> QED
  BY <1>3, <1>4

\* What is held to be written is what was read, but for the one record.
HoldsWith(a, s, n, f, e) ==
  /\ e \in FileEntry
  /\ held[a] = None
  /\ held' = [held EXCEPT ![a] = [DirOf(s, n).files EXCEPT ![f] = e]]

\* A capture changes no manifest yet, and files what the file holds or that it was
\* skipped.
LEMMA CaptureHolds ==
  ASSUME TypeDirs, TypeFiles, TypeUsed, NEW a \in Checkpointer, NEW s \in Session,
         NEW n \in Number, NEW f \in File, Capture(a, s, n, f)
  PROVE  /\ TypeDirs' /\ TypeUsed' /\ NumbersUnused
         /\ MakesOnly(s, n) /\ SameFiles
         /\ \A t \in Session, k \in Number : store[t][k] # None => store'[t][k] # None
         /\ Entry(s, n, f) = None
         /\ \E pre \in {disk[f], None} : HoldsWith(a, s, n, f, [pre |-> pre, after |-> NoHash])
<1>1. PICK pre \in {disk[f], None} :
        /\ Holds(a, [DirOf(s, n).files EXCEPT ![f] = [pre |-> pre, after |-> NoHash]])
        /\ IF pre = None THEN Mishap ELSE UNCHANGED used
        /\ IF pre \in {Absent, None}
           THEN UNCHANGED <<store, age>>
           ELSE WriteDir(s, n, [DirOf(s, n) EXCEPT !.blobs = @ \cup {pre}])
  BY DEF Capture
<1> DEFINE e == [pre |-> pre, after |-> NoHash]
           m == [DirOf(s, n).files EXCEPT ![f] = e]
<1>2. pre \in Content \cup {None} /\ NoHash \in Content
  BY CheckpointAssumption DEF TypeFiles, NoHash, Content
<1>3. e \in FileEntry
  BY <1>2 DEF FileEntry
<1> HIDE DEF e
<1>4. m \in Manifest /\ DirOf(s, n) \in Dir
  BY <1>3, DirOfIsDir, ManifestWith
<1>5. held[a] = None /\ held' = [held EXCEPT ![a] = m]
  BY <1>1 DEF Holds, e
<1>6. HoldsWith(a, s, n, f, e)
  BY <1>3, <1>5 DEF HoldsWith
<1> HIDE DEF m
<1>7. held' \in [Checkpointer -> Manifest \cup {None}]
  BY <1>4, <1>5 DEF TypeDirs
<1>8. TypeUsed' /\ NumbersUnused
  BY <1>1, MishapSpends DEF TypeUsed, NumbersUnused
<1>9. Entry(s, n, f) = None
  BY DEF Capture, Filed
<1>10. CASE UNCHANGED <<store, age>>
  <2>1. TypeDirs' /\ MakesOnly(s, n) /\ SameFiles
    BY <1>7, <1>10 DEF TypeDirs, MakesOnly, SameFiles, DirOf
  <2> QED
    BY <1>6, <1>8, <1>9, <1>10, <2>1 DEF e
<1>11. CASE pre \notin {Absent, None}
  <2> DEFINE d == [DirOf(s, n) EXCEPT !.blobs = DirOf(s, n).blobs \cup {pre}]
  <2>1. WriteDir(s, n, d)
    BY <1>1, <1>11
  <2>2. d \in Dir /\ d.files = DirOf(s, n).files
    BY <1>2, <1>4, <1>11 DEF Dir
  <2> HIDE DEF d
  <2>4. /\ store' \in [Session -> [Number -> Dir \cup {None}]]
        /\ age' \in [Session -> [Number -> Nat]]
        /\ \A t \in Session, k \in Number :
             /\ (store[t][k] # None)' = (store[t][k] # None \/ (t = s /\ k = n))
             /\ DirOf(t, k)' = IF t = s /\ k = n THEN d ELSE DirOf(t, k)
    BY <2>1, <2>2, WriteDirWrites
  <2>5. TypeDirs' /\ MakesOnly(s, n) /\ SameFiles
    BY <1>7, <2>2, <2>4 DEF TypeDirs, MakesOnly, SameFiles
  <2>6. \A t \in Session, k \in Number : store[t][k] # None => store'[t][k] # None
    BY <2>4
  <2> QED
    BY <1>6, <1>8, <1>9, <2>5, <2>6 DEF e
<1> QED
  BY <1>1, <1>10, <1>11

\* Writing a file.
LEMMA PutWrites ==
  ASSUME TypeFiles, NEW who, NEW f \in File, NEW v \in Content, Put(who, f, v),
         clock' \in Content
  PROVE  TypeFiles'
BY DEF TypeFiles, Put

\* A new content is the next one.
LEMMA PutNewWrites ==
  ASSUME TypeFiles, NEW who, NEW f \in File, PutNew(who, f)
  PROVE  /\ TypeFiles'
         /\ clock + 1 \in Content /\ clock' = clock + 1 /\ Put(who, f, clock + 1)
<1>1. clock + 1 \in Content /\ clock' = clock + 1 /\ Put(who, f, clock + 1)
  BY CheckpointAssumption DEF PutNew, TypeFiles, Content
<1> QED
  BY <1>1, PutWrites

\* No more numbers are given out than turns and rollbacks may take.
LEMMA GivenIsNat ==
  ASSUME TypeUsed, NumbersAreGiven
  PROVE  Given \in Nat /\ Given <= MaxTurns + MaxRestores
BY FS_CardinalityType, CheckpointAssumption DEF TypeUsed, NumbersAreGiven, Given

\* A step that starts no turn and no rollback, and numbers none, gives no number
\* out.
LEMMA NumbersStay ==
  ASSUME NumbersAreGiven, TypeUsed, NumbersUnused,
         \A r \in Restorer : (rest'[r].pc = "number") <=> (rest[r].pc = "number"),
         \A s \in Session : turn'[s].n \in {turn[s].n, 0},
         \A r \in Restorer : rest'[r].undo \in {rest[r].undo, 0},
         \A s \in Session, n \in Number :
            store'[s][n] # None =>
               \/ store[s][n] # None
               \/ n = turn[s].n
               \/ \E r \in Restorer : n = rest[r].undo
  PROVE  NumbersAreGiven'
<1>1. Numbering' = Numbering
  BY DEF Numbering
<1>2. Given' = Given /\ Given \in Nat
  BY <1>1, GivenIsNat DEF Given, NumbersUnused
<1>3. IsFiniteSet(Numbering)' /\ (Cardinality(Numbering) <= used.restores)'
  BY <1>1 DEF NumbersAreGiven, NumbersUnused
<1>4. \A s \in Session : turn'[s].n <= Given'
  BY <1>2 DEF NumbersAreGiven
<1>5. \A r \in Restorer : rest'[r].undo <= Given'
  BY <1>2 DEF NumbersAreGiven
<1>6. \A s \in Session, n \in Number : store'[s][n] # None => n <= Given'
  BY <1>2 DEF NumbersAreGiven
<1> QED
  BY <1>3, <1>4, <1>5, <1>6 DEF NumbersAreGiven

-----------------------------------------------------------------------------
(* Types.                                                                  *)

\* A session between two turns.
LEMMA NoTurnIsOne == NoTurn \in Turn
BY CheckpointAssumption DEF NoTurn, Turn, Absent, Content

\* A writer between two calls.
LEMMA IdleIsOp == Idle \in Op /\ GoesOn(Idle)
BY CheckpointAssumption DEF Idle, Op, GoesOn, Content, Absent

\* A restorer between two rollbacks.
LEMMA NoRollbackIsOne == NoRollback \in Rollback /\ Goes(NoRollback)
BY CheckpointAssumption DEF NoRollback, Rollback, Goes, NoFiles, Captured, Covered, Manifest

\* The step of a writer, which does not end the turn it works for.
LEMMA WriterGoesOn ==
  ASSUME Types, NEW w \in Writer, NEW o \in Op, GoesOn(o), op' = [op EXCEPT ![w] = o],
         o.pc # "idle" => turn[SessionOf[w]].at = "running",
         \A s \in Session : turn[s].at = "running" => turn'[s].at = "running"
  PROVE  TypeOps' /\ CallsGoOn' /\ WritersAreRunning'
<1>1. TypeOps'
  BY DEF Types, TypeOK, TypeOps
<1>2. \A v \in Writer : op'[v] = IF v = w THEN o ELSE op[v]
  BY DEF Types, TypeOK, TypeOps
<1>3. CallsGoOn'
  BY <1>2 DEF Types, CallsGoOn
<1>4. WritersAreRunning'
  BY <1>2, CheckpointAssumption DEF Types, WritersAreRunning
<1> QED
  BY <1>1, <1>3, <1>4

\* The step of a rollback.
LEMMA RollbackGoesOn ==
  ASSUME Types, NEW r \in Restorer, NEW q \in Rollback, Goes(q),
         rest' = [rest EXCEPT ![r] = q]
  PROVE  TypeRests' /\ RollbacksGoOn'
<1>1. \A v \in Restorer : rest'[v] = IF v = r THEN q ELSE rest[v]
  BY DEF Types, TypeOK, TypeRests
<1> QED
  BY <1>1 DEF Types, TypeOK, TypeRests, RollbacksGoOn

\* The step of a turn, which no writer is at work for when it leaves off.
LEMMA TurnMovesOn ==
  ASSUME Types, NEW s \in Session, NEW t \in Turn, t.at # "none" => t.n \in Number,
         turn' = [turn EXCEPT ![s] = t], UNCHANGED op,
         \/ t.at = "running"
         \/ turn[s].at # "running"
         \/ \A w \in Writer : SessionOf[w] = s => op[w].pc = "idle"
  PROVE  TypeTurns' /\ WritersAreRunning'
<1>1. \A u \in Session : turn'[u] = IF u = s THEN t ELSE turn[u]
  BY DEF Types, TypeOK, TypeTurns
<1>2. TypeTurns'
  BY <1>1 DEF Types, TypeOK, TypeTurns
<1>3. WritersAreRunning'
  BY <1>1, CheckpointAssumption DEF Types, WritersAreRunning
<1> QED
  BY <1>2, <1>3

\* What a step leaves alone stays as it is.
LEMMA TypesStay ==
  ASSUME Types
  PROVE  /\ UNCHANGED fileVars => TypeFiles'
         /\ UNCHANGED dirVars => TypeDirs'
         /\ UNCHANGED turn => TypeTurns'
         /\ UNCHANGED op => TypeOps' /\ CallsGoOn'
         /\ UNCHANGED rest => TypeRests' /\ RollbacksGoOn'
         /\ UNCHANGED ended => TypeEnded'
         /\ UNCHANGED used => TypeUsed' /\ NumbersUnused
         /\ UNCHANGED <<op, turn>> => WritersAreRunning'
         /\ NumbersUnused /\ UNCHANGED <<store, turn, rest>> => NumbersAreGiven'
<1>1. UNCHANGED fileVars => TypeFiles'
  BY DEF Types, TypeOK, TypeFiles, fileVars, Actor
<1>2. UNCHANGED dirVars => TypeDirs'
  BY DEF Types, TypeOK, TypeDirs, dirVars
<1>3. UNCHANGED turn => TypeTurns'
  BY DEF Types, TypeOK, TypeTurns
<1>4. UNCHANGED op => TypeOps' /\ CallsGoOn'
  BY DEF Types, TypeOK, TypeOps, CallsGoOn
<1>5. UNCHANGED rest => TypeRests' /\ RollbacksGoOn'
  BY DEF Types, TypeOK, TypeRests, RollbacksGoOn
<1>6. UNCHANGED used => TypeUsed' /\ NumbersUnused
  BY DEF Types, TypeOK, TypeUsed, NumbersUnused
<1>7. UNCHANGED <<op, turn>> => WritersAreRunning'
  BY DEF Types, WritersAreRunning
<1>8. NumbersUnused /\ UNCHANGED <<store, turn, rest>> => NumbersAreGiven'
  BY DEF Types, NumbersAreGiven, Given, Numbering, NumbersUnused
<1>9. UNCHANGED ended => TypeEnded'
  BY DEF Types, TypeOK, TypeEnded
<1> QED
  BY <1>1, <1>2, <1>3, <1>4, <1>5, <1>6, <1>7, <1>8, <1>9

\* Reading a manifest to write it changes none.
LEMMA HoldsReads ==
  ASSUME TypeDirs, NEW a \in Checkpointer, NEW m \in Manifest, Holds(a, m),
         UNCHANGED <<store, age>>
  PROVE  /\ TypeDirs' /\ SameFiles
         /\ held[a] = None /\ held' = [held EXCEPT ![a] = m]
<1>1. held[a] = None /\ held' = [held EXCEPT ![a] = m]
  BY DEF Holds
<1>2. TypeDirs'
  BY <1>1 DEF TypeDirs
<1> QED
  BY <1>1, <1>2 DEF SameFiles, DirOf

\* NextTurn.
LEMMA NextTurnTypes ==
  ASSUME Types, NEW s \in Session, NextTurn(s) PROVE Types'
<1> DEFINE n == Highest(s) + 1
           t == [NoTurn EXCEPT !.at = "numbered", !.n = n]
<1>1. /\ used.turns < MaxTurns /\ used' = [used EXCEPT !["turns"] = @ + 1]
      /\ turn' = [turn EXCEPT ![s] = t] /\ ended' = [ended EXCEPT ![s][n] = None]
      /\ UNCHANGED <<fileVars, dirVars, op, rest>> /\ turn[s].at = "none"
  BY DEF NextTurn, Spend
<1>2. TypeDirs /\ TypeTurns /\ TypeRests /\ TypeUsed /\ TypeEnded /\ NumbersAreGiven
  BY DEF Types, TypeOK
<1>3. TypeUsed' /\ used'.turns = used.turns + 1 /\ used'.restores = used.restores
  BY <1>1, <1>2, CheckpointAssumption DEF TypeUsed
<1>6. Numbering' = Numbering /\ Cardinality(Numbering) \in Nat
  BY <1>1, <1>2, FS_CardinalityType DEF Numbering, NumbersAreGiven
<1>7. Given' = Given + 1 /\ Given \in Nat
  BY <1>2, <1>3, <1>6, GivenIsNat DEF Given, TypeUsed
<1>8. n \in Nat /\ n <= Given' /\ n >= 1
  BY <1>2, <1>7, HighestIsLast DEF NumbersAreGiven
<1>9. Given' <= MaxTurns + MaxRestores
  BY <1>1, <1>2, <1>6, <1>7, CheckpointAssumption DEF TypeUsed, NumbersAreGiven, Given
<1>10. n \in Number
  BY <1>8, <1>9, <1>7, CheckpointAssumption DEF Number
<1> HIDE DEF n
<1>11. t \in Turn /\ t.n \in Number /\ t.n = n
  BY <1>10, NoTurnIsOne DEF Turn, NoTurn
<1> HIDE DEF t
<1>12. TypeTurns' /\ WritersAreRunning'
  BY <1>1, <1>11, TurnMovesOn
<1>13. NumbersAreGiven'
  <2>1. \A u \in Session : turn'[u].n <= Given'
    <3> TAKE u \in Session
    <3>1. turn'[u] = IF u = s THEN t ELSE turn[u]
      BY <1>1, <1>2 DEF TypeTurns
    <3>2. turn[u].n \in Nat /\ turn[u].n <= Given
      BY <1>2 DEF TypeTurns, Turn, NumbersAreGiven, Number
    <3> QED
      BY <3>1, <3>2, <1>7, <1>8, <1>11
  <2>2. \A r \in Restorer : rest'[r].undo <= Given'
    BY <1>1, <1>2, <1>7 DEF NumbersAreGiven, TypeRests, Rollback, Number
  <2>3. \A u \in Session, m \in Number : store'[u][m] # None => m <= Given'
    BY <1>1, <1>2, <1>7 DEF NumbersAreGiven, dirVars, Number
  <2> QED
    BY <1>2, <1>3, <1>6, <2>1, <2>2, <2>3 DEF NumbersAreGiven
<1>14. TypeEnded'
  BY <1>1, <1>2 DEF TypeEnded
<1> QED
  BY <1>1, <1>3, <1>12, <1>13, <1>14, TypesStay DEF Types, TypeOK

\* BeginTurn, the read.
LEMMA OpensTurnTypes ==
  ASSUME Types, NEW s \in Session, OpensTurn(s) PROVE Types'
<1> DEFINE t == [turn[s] EXCEPT !.at = "opening"]
<1>1. /\ turn[s].at = "numbered" /\ Holds(s, DirOf(s, turn[s].n).files)
      /\ turn' = [turn EXCEPT ![s] = t]
      /\ UNCHANGED <<fileVars, store, age, op, rest, ended, used>>
  BY DEF OpensTurn
<1>2. TypeDirs /\ TypeTurns /\ TypeUsed /\ NumbersAreGiven
  BY DEF Types, TypeOK
<1>3. turn[s].n \in Number /\ turn[s] \in Turn /\ s \in Checkpointer
  BY <1>1, <1>2 DEF TypeTurns, Checkpointer
<1>4. t \in Turn /\ t.n = turn[s].n
  BY <1>3 DEF Turn
<1> HIDE DEF t
<1>5. TypeDirs'
  BY <1>1, <1>2, <1>3, DirOfIsDir, HoldsReads
<1>6. TypeTurns' /\ WritersAreRunning'
  BY <1>1, <1>3, <1>4, TurnMovesOn
<1>7. NumbersAreGiven'
  <2>1. \A u \in Session : turn'[u].n = turn[u].n
    BY <1>1, <1>2, <1>4 DEF TypeTurns
  <2> QED
    BY <1>1, <1>2, <2>1, TypesStay, NumbersStay
<1> QED
  BY <1>1, <1>5, <1>6, <1>7, TypesStay DEF Types, TypeOK

\* BeginTurn, the write.
LEMMA BeginTurnTypes ==
  ASSUME Types, HoldersHold, NEW s \in Session, BeginTurn(s) PROVE Types'
<1> DEFINE n == turn[s].n
           lost == Captured(DirOf(s, n).files) \cup Captured(held[s])
           t == [turn[s] EXCEPT !.at = "running", !.start = disk, !.lost = lost]
<1>1. /\ turn[s].at = "opening" /\ turn' = [turn EXCEPT ![s] = t]
      /\ raced' = [raced EXCEPT ![s] = {}]
      /\ UNCHANGED <<disk, clock, op, rest, ended>>
  BY DEF BeginTurn, Begins
<1>2. PICK ok \in BOOLEAN : WriteBack(s, s, n, ok)
  BY DEF BeginTurn
<1>3. TypeFiles /\ TypeDirs /\ TypeTurns /\ TypeUsed /\ NumbersAreGiven
  BY DEF Types, TypeOK
<1>4. n \in Number /\ turn[s] \in Turn /\ s \in Checkpointer /\ held[s] # None
  BY <1>1, <1>3 DEF TypeTurns, Checkpointer, HoldersHold
<1>5. TypeDirs' /\ TypeUsed' /\ NumbersUnused /\ MakesOnly(s, n)
  BY <1>2, <1>3, <1>4, WriteBackWrites
<1>6. t \in Turn /\ t.n = n /\ t.at = "running"
  <2>1. lost \in SUBSET File /\ disk \in [File -> Content]
    BY <1>3 DEF TypeFiles, Captured
  <2> HIDE DEF lost
  <2> QED
    BY <1>4, <2>1 DEF Turn
<1> HIDE DEF t
<1>7. TypeTurns' /\ WritersAreRunning'
  BY <1>1, <1>4, <1>6, TurnMovesOn
<1>8. TypeFiles'
  BY <1>1, <1>3 DEF TypeFiles, Actor
<1>9. NumbersAreGiven'
  <2>1. \A u \in Session : turn'[u].n = turn[u].n
    BY <1>1, <1>3, <1>6 DEF TypeTurns
  <2> QED
    BY <1>1, <1>3, <1>5, <2>1, NumbersStay DEF MakesOnly
<1> QED
  BY <1>1, <1>5, <1>7, <1>8, <1>9, TypesStay DEF Types, TypeOK

\* EndTurn, the read.
LEMMA ClosesTurnTypes ==
  ASSUME Types, NEW s \in Session, ClosesTurn(s) PROVE Types'
<1> DEFINE t == [turn[s] EXCEPT !.at = "closing"]
<1>1. /\ turn[s].at = "running" /\ Holds(s, DirOf(s, turn[s].n).files)
      /\ \A w \in Writer : SessionOf[w] = s => op[w].pc = "idle"
      /\ turn' = [turn EXCEPT ![s] = t] /\ ended' = [ended EXCEPT ![s][turn[s].n] = clock]
      /\ UNCHANGED <<fileVars, store, age, op, rest, used>>
  BY DEF ClosesTurn
<1>2. TypeDirs /\ TypeTurns /\ TypeUsed /\ TypeEnded /\ TypeFiles /\ NumbersAreGiven
  BY DEF Types, TypeOK
<1>3. turn[s].n \in Number /\ turn[s] \in Turn /\ s \in Checkpointer
  BY <1>1, <1>2 DEF TypeTurns, Checkpointer
<1>4. t \in Turn /\ t.n = turn[s].n
  BY <1>3 DEF Turn
<1> HIDE DEF t
<1>5. TypeDirs'
  BY <1>1, <1>2, <1>3, DirOfIsDir, HoldsReads
<1>6. TypeTurns' /\ WritersAreRunning'
  BY <1>1, <1>3, <1>4, TurnMovesOn
<1>7. NumbersAreGiven'
  <2>1. \A u \in Session : turn'[u].n = turn[u].n
    BY <1>1, <1>2, <1>4 DEF TypeTurns
  <2> QED
    BY <1>1, <1>2, <2>1, TypesStay, NumbersStay
<1>8. TypeEnded'
  BY <1>1, <1>2 DEF TypeEnded, TypeFiles
<1> QED
  BY <1>1, <1>5, <1>6, <1>7, <1>8, TypesStay DEF Types, TypeOK

\* EndTurn, the write.
LEMMA EndTurnTypes ==
  ASSUME Types, HoldersHold, NEW s \in Session, EndTurn(s) PROVE Types'
<1> DEFINE n == turn[s].n
           t == [turn[s] EXCEPT !.at = "ending"]
<1>1. /\ turn[s].at = "closing" /\ turn' = [turn EXCEPT ![s] = t]
      /\ UNCHANGED <<fileVars, op, rest, ended>>
  BY DEF EndTurn
<1>2. PICK ok \in BOOLEAN : WriteBack(s, s, n, ok)
  BY DEF EndTurn
<1>3. TypeDirs /\ TypeTurns /\ TypeUsed /\ NumbersAreGiven
  BY DEF Types, TypeOK
<1>4. n \in Number /\ turn[s] \in Turn /\ s \in Checkpointer /\ held[s] # None
  BY <1>1, <1>3 DEF TypeTurns, Checkpointer, HoldersHold
<1>5. TypeDirs' /\ TypeUsed' /\ NumbersUnused /\ MakesOnly(s, n)
  BY <1>2, <1>3, <1>4, WriteBackWrites
<1>6. t \in Turn /\ t.n = n
  BY <1>4 DEF Turn
<1> HIDE DEF t
<1>7. TypeTurns' /\ WritersAreRunning'
  BY <1>1, <1>4, <1>6, TurnMovesOn
<1>8. NumbersAreGiven'
  <2>1. \A u \in Session : turn'[u].n = turn[u].n
    BY <1>1, <1>3, <1>6 DEF TypeTurns
  <2> QED
    BY <1>1, <1>3, <1>5, <2>1, NumbersStay DEF MakesOnly
<1> QED
  BY <1>1, <1>5, <1>7, <1>8, TypesStay DEF Types, TypeOK

\* What Prune drops, and what it comes to for the turns.
Drops(s, doomed) ==
  /\ store' = [t \in Session |-> [n \in Number |->
                 IF <<t, n>> \in doomed THEN None ELSE store[t][n]]]
  /\ age' = [t \in Session |-> [n \in Number |->
               IF <<t, n>> \in doomed THEN 0 ELSE age[t][n]]]
  /\ turn' = [t \in Session |->
                IF t = s THEN NoTurn
                ELSE IF turn[t].at = "running" /\ <<t, turn[t].n>> \in doomed
                     THEN [turn[t] EXCEPT !.lost = File]
                     ELSE turn[t]]

\* Prune drops some.
LEMMA PruneDrops ==
  ASSUME NEW s \in Session, Prune(s)
  PROVE  \E doomed : Drops(s, doomed)
<1>1. PICK k \in 0 .. MaxEvicted :
        Drops(s, BeyondKept \cup OldestOf(Directories \ BeyondKept, k))
  BY DEF Prune, Drops
<1> QED
  BY <1>1

\* Prune.
LEMMA PruneTypes ==
  ASSUME Types, NEW s \in Session, Prune(s) PROVE Types'
<1>1. TypeDirs /\ TypeTurns /\ TypeRests /\ TypeUsed /\ NumbersAreGiven
  BY DEF Types, TypeOK
<1>2. PICK doomed : Drops(s, doomed)
  BY PruneDrops
<1>3. turn[s].at = "ending" /\ UNCHANGED <<fileVars, held, op, rest, ended, used>>
  BY DEF Prune
<1>4. TypeDirs'
  BY <1>1, <1>2, <1>3 DEF TypeDirs, Drops
<1>5. /\ TypeTurns'
      /\ \A u \in Session : /\ turn'[u].n \in {turn[u].n, 0}
                            /\ turn[u].at = "running" => turn'[u].at = "running"
  BY <1>1, <1>2, <1>3, NoTurnIsOne DEF TypeTurns, Turn, NoTurn, Drops
<1>6. NumbersAreGiven'
  <2>1. \A u \in Session, m \in Number : store'[u][m] # None => store[u][m] # None
    BY <1>2 DEF Drops
  <2> QED
    BY <1>1, <1>3, <1>5, <2>1, TypesStay, NumbersStay
<1>7. WritersAreRunning'
  BY <1>3, <1>5, CheckpointAssumption DEF Types, WritersAreRunning
<1> QED
  BY <1>3, <1>4, <1>5, <1>6, <1>7, TypesStay DEF Types, TypeOK

\* GuardedCall.
LEMMA GuardedCallTypes ==
  ASSUME Types, NEW w \in Writer, NEW f \in Paths, GuardedCall(w, f) PROVE Types'
<1> DEFINE o == [Idle EXCEPT !.pc = "capture", !.files = {f}, !.todo = {f}]
<1>1. /\ turn[SessionOf[w]].at = "running" /\ op' = [op EXCEPT ![w] = o]
      /\ used' = [used EXCEPT !["calls"] = @ + 1] /\ used.calls < MaxCalls
      /\ UNCHANGED <<fileVars, dirVars, turn, rest, ended>>
  BY DEF GuardedCall, CanCall, Spend
<1>2. o \in Op /\ GoesOn(o)
  <2>1. {f} \in SUBSET File /\ {f} # {}
    BY CheckpointAssumption
  <2> QED
    BY <2>1, IdleIsOp DEF Op, Idle, GoesOn
<1>3. TypeOps' /\ CallsGoOn' /\ WritersAreRunning'
  BY <1>1, <1>2, WriterGoesOn
<1>4. TypeUsed' /\ NumbersUnused
  BY <1>1, CheckpointAssumption DEF Types, TypeOK, TypeUsed, NumbersUnused
<1> QED
  BY <1>1, <1>3, <1>4, TypesStay DEF Types, TypeOK, dirVars

\* PlanBatch.
LEMMA PlanBatchTypes ==
  ASSUME Types, NEW w \in Writer, NEW files \in Batches, PlanBatch(w, files) PROVE Types'
<1> DEFINE orig == [f \in File |-> IF f \in files THEN disk[f] ELSE Absent]
           o == [Idle EXCEPT !.pc = "capture", !.batch = TRUE, !.files = files,
                             !.todo = files, !.orig = orig]
<1>1. /\ turn[SessionOf[w]].at = "running" /\ op' = [op EXCEPT ![w] = o]
      /\ raced' = [raced EXCEPT ![w] = {}]
      /\ used' = [used EXCEPT !["calls"] = @ + 1] /\ used.calls < MaxCalls
      /\ UNCHANGED <<disk, clock, dirVars, turn, rest, ended>>
  BY DEF PlanBatch, CanCall, Begins, Spend
<1>2. TypeFiles /\ files \in SUBSET File /\ files # {}
  BY CheckpointAssumption DEF Types, TypeOK
<1>3. orig \in [File -> Content]
  BY <1>2, CheckpointAssumption DEF TypeFiles, Content, Absent
<1> HIDE DEF orig
<1>4. o \in Op /\ GoesOn(o)
  BY <1>2, <1>3, IdleIsOp DEF Op, Idle, GoesOn
<1>5. TypeOps' /\ CallsGoOn' /\ WritersAreRunning'
  BY <1>1, <1>4, WriterGoesOn
<1>6. TypeFiles'
  BY <1>1, <1>2 DEF TypeFiles, Actor
<1>7. TypeUsed' /\ NumbersUnused
  BY <1>1, CheckpointAssumption DEF Types, TypeOK, TypeUsed, NumbersUnused
<1> QED
  BY <1>1, <1>5, <1>6, <1>7, TypesStay DEF Types, TypeOK, dirVars

\* What Onwards leaves alone, and where it leads.
LEMMA OnwardsGoesOn ==
  ASSUME NEW o \in Op, GoesOn(o), o.pc \in {"capture", "files"}
  PROVE  LET p == Onwards(o)
         IN  /\ Min(o.todo) \in o.todo /\ Min(o.todo) \in File
             /\ p \in Op /\ GoesOn(p)
             /\ p.files = o.files /\ p.batch = o.batch /\ p.orig = o.orig
             /\ p.saw = o.saw /\ p.mixed = o.mixed
             /\ \/ p.pc = "capture" /\ p.todo = o.todo \ {Min(o.todo)}
                \/ p.pc = "apply" /\ p.todo = o.files /\ o.todo = {Min(o.todo)}
                \/ p.pc = "write" /\ p.todo = {} /\ o.todo = {Min(o.todo)}
<1> DEFINE f == Min(o.todo)
           left == o.todo \ {f}
<1>1. o.todo # {} /\ o.todo \in SUBSET File /\ o.files \in SUBSET File
      /\ o.todo \subseteq o.files
  BY DEF GoesOn, Op
<1>2. f \in o.todo /\ f \in File
  BY <1>1, NextIsToDo
<1> HIDE DEF f
<1>3. Onwards(o) = IF left # {} THEN [o EXCEPT !.pc = "capture", !.todo = left]
                   ELSE IF o.batch THEN [o EXCEPT !.pc = "apply", !.todo = o.files]
                   ELSE [o EXCEPT !.pc = "write", !.todo = {}]
  BY DEF Onwards, f
<1>4. CASE left # {}
  <2>1. Onwards(o) = [o EXCEPT !.pc = "capture", !.todo = left]
    BY <1>3, <1>4
  <2>2. left \in SUBSET File /\ left \subseteq o.files
    BY <1>1
  <2> HIDE DEF left
  <2>3. Onwards(o) \in Op /\ GoesOn(Onwards(o))
    BY <1>4, <2>1, <2>2 DEF Op, GoesOn
  <2> QED
    BY <1>2, <2>1, <2>3 DEF left, f, Op
<1>5. CASE left = {} /\ o.batch
  <2>1. Onwards(o) = [o EXCEPT !.pc = "apply", !.todo = o.files]
    BY <1>3, <1>5
  <2>2. o.files # {} /\ o.todo = {f}
    BY <1>1, <1>2, <1>5
  <2>3. Onwards(o) \in Op /\ GoesOn(Onwards(o))
    BY <1>1, <1>5, <2>1, <2>2 DEF Op, GoesOn
  <2> QED
    BY <1>2, <2>1, <2>2, <2>3 DEF f, Op
<1>6. CASE left = {} /\ ~ o.batch
  <2>1. Onwards(o) = [o EXCEPT !.pc = "write", !.todo = {}]
    BY <1>3, <1>6
  <2>2. o.todo = {f}
    BY <1>1, <1>2, <1>6
  <2>3. Onwards(o) \in Op /\ GoesOn(Onwards(o))
    BY <1>1, <1>6, <2>1 DEF Op, GoesOn
  <2> QED
    BY <1>2, <2>1, <2>2, <2>3 DEF f, Op
<1> QED
  BY <1>4, <1>5, <1>6 DEF Op

\* The files a turn is known to miss from now on.
Loses(s, X) == turn' = [turn EXCEPT ![s].lost = @ \cup X]

LEMMA LosesTypes ==
  ASSUME TypeTurns, NEW s \in Session, NEW X \in SUBSET File, Loses(s, X)
  PROVE  /\ TypeTurns'
         /\ \A u \in Session :
              /\ turn'[u].at = turn[u].at /\ turn'[u].n = turn[u].n
              /\ turn'[u].start = turn[u].start
              /\ turn'[u].lost = IF u = s THEN turn[u].lost \cup X ELSE turn[u].lost
<1> DEFINE t == [turn[s] EXCEPT !.lost = turn[s].lost \cup X]
<1>1. turn' = [turn EXCEPT ![s] = t]
  BY DEF Loses
<1>2. turn[s] \in Turn /\ turn[s].lost \in SUBSET File
  BY DEF TypeTurns, Turn
<1>3. /\ t \in Turn /\ t.at = turn[s].at /\ t.n = turn[s].n /\ t.start = turn[s].start
      /\ t.lost = turn[s].lost \cup X
  BY <1>2 DEF Turn
<1> HIDE DEF t
<1>4. \A u \in Session : turn'[u] = IF u = s THEN t ELSE turn[u]
  BY <1>1 DEF TypeTurns
<1> QED
  BY <1>1, <1>3, <1>4 DEF TypeTurns

\* The first half of a capture: what it comes to.
LEMMA CapturesNextDoes ==
  ASSUME Types, NEW w \in Writer, CapturesNext(w)
  PROVE  LET s == SessionOf[w]
             n == turn[s].n
             f == Min(op[w].todo)
         IN  /\ op[w].pc = "capture" /\ turn[s].at = "running"
             /\ s \in Session /\ n \in Number /\ f \in op[w].todo /\ f \in File
             /\ held[s] = None /\ UNCHANGED <<fileVars, rest, ended>>
             /\ TypeDirs' /\ TypeUsed' /\ NumbersUnused
             /\ MakesOnly(s, n) /\ SameFiles
             /\ \A t \in Session, k \in Number : store[t][k] # None => store'[t][k] # None
             /\ \/ /\ Entry(s, n, f) = None
                   /\ \E pre \in {disk[f], None} : HoldsWith(s, s, n, f, [pre |-> pre, after |-> NoHash])
                   /\ op' = [op EXCEPT ![w] = [op[w] EXCEPT !.pc = "files"]]
                   /\ UNCHANGED turn
                \/ /\ UNCHANGED held
                   /\ op' = [op EXCEPT ![w] = Onwards(op[w])]
                   /\ \/ Entry(s, n, f) # None /\ UNCHANGED turn
                      \/ Loses(s, {f})
<1> DEFINE s == SessionOf[w]
           n == turn[s].n
           f == Min(op[w].todo)
<1>1. op[w].pc = "capture" /\ UNCHANGED <<fileVars, rest, ended>>
  BY DEF CapturesNext
<1>2. /\ op[w] \in Op /\ GoesOn(op[w]) /\ turn[s].at = "running"
      /\ TypeDirs /\ TypeFiles /\ TypeUsed /\ TypeTurns
  BY <1>1 DEF Types, TypeOK, TypeOps, CallsGoOn, WritersAreRunning
<1>3. s \in Session /\ n \in Number /\ s \in Checkpointer
  BY <1>2, CheckpointAssumption DEF TypeTurns, Checkpointer
<1>4. f \in op[w].todo /\ f \in File
  BY <1>1, <1>2, NextIsToDo DEF GoesOn, Op
<1>5. \/ /\ Capture(s, s, n, f) /\ op' = [op EXCEPT ![w].pc = "files"] /\ UNCHANGED turn
      \/ /\ held[s] = None /\ Filed(s, n, f)
         /\ op' = [op EXCEPT ![w] = Onwards(op[w])] /\ UNCHANGED <<dirVars, turn, used>>
      \/ /\ held[s] = None /\ Mishap
         /\ turn' = [turn EXCEPT ![s].lost = IF Entry(s, n, f) = None THEN @ \cup {f} ELSE @]
         /\ op' = [op EXCEPT ![w] = Onwards(op[w])] /\ UNCHANGED dirVars
  BY DEF CapturesNext
<1> HIDE DEF f
<1>6. CASE Capture(s, s, n, f) /\ op' = [op EXCEPT ![w].pc = "files"] /\ UNCHANGED turn
  <2>1. held[s] = None
    BY <1>6 DEF Capture, Holds
  <2> QED
    BY <1>1, <1>2, <1>3, <1>4, <1>6, <2>1, CaptureHolds DEF f
<1>7. CASE /\ held[s] = None /\ UNCHANGED dirVars
           /\ op' = [op EXCEPT ![w] = Onwards(op[w])]
           /\ \/ Filed(s, n, f) /\ UNCHANGED <<turn, used>>
              \/ /\ Mishap
                 /\ turn' = [turn EXCEPT ![s].lost = IF Entry(s, n, f) = None THEN @ \cup {f} ELSE @]
  <2>1. TypeDirs' /\ MakesOnly(s, n) /\ SameFiles /\ UNCHANGED <<held, store>>
    BY <1>2, <1>7 DEF TypeDirs, dirVars, MakesOnly, SameFiles, DirOf
  <2>2. TypeUsed' /\ NumbersUnused
    BY <1>2, <1>7, MishapSpends DEF TypeUsed, NumbersUnused
  <2>3. (Entry(s, n, f) # None /\ UNCHANGED turn) \/ Loses(s, {f})
    <3>1. turn = [turn EXCEPT ![s].lost = @]
      BY <1>2, <1>3 DEF TypeTurns, Turn
    <3> QED
      BY <1>7, <3>1 DEF Filed, Loses
  <2> QED
    BY <1>1, <1>2, <1>3, <1>4, <1>7, <2>1, <2>2, <2>3 DEF f
<1> QED
  BY <1>5, <1>6, <1>7

\* Capture, the read.
LEMMA CapturesNextTypes ==
  ASSUME Types, NEW w \in Writer, CapturesNext(w) PROVE Types'
<1> DEFINE s == SessionOf[w]
           n == turn[s].n
           f == Min(op[w].todo)
<1>1. /\ op[w].pc = "capture" /\ turn[s].at = "running" /\ s \in Session /\ n \in Number
      /\ f \in File
      /\ TypeDirs' /\ TypeUsed' /\ NumbersUnused /\ MakesOnly(s, n)
      /\ UNCHANGED <<fileVars, rest, ended>>
      /\ \/ op' = [op EXCEPT ![w] = [op[w] EXCEPT !.pc = "files"]]
         \/ op' = [op EXCEPT ![w] = Onwards(op[w])]
      /\ UNCHANGED turn \/ Loses(s, {f})
  BY CapturesNextDoes
<1> HIDE DEF f
<1>2. op[w] \in Op /\ GoesOn(op[w]) /\ TypeTurns /\ NumbersAreGiven /\ TypeUsed
  BY DEF Types, TypeOK, TypeOps, CallsGoOn
<1>3. TypeTurns' /\ \A u \in Session : turn'[u].at = turn[u].at /\ turn'[u].n = turn[u].n
  <2>1. CASE UNCHANGED turn
    BY <1>2, <2>1 DEF TypeTurns
  <2>2. CASE Loses(s, {f})
    <3>1. {f} \in SUBSET File
      BY <1>1
    <3> QED
      BY <1>1, <1>2, <2>2, <3>1, LosesTypes
  <2> QED
    BY <1>1, <2>1, <2>2
<1>4. TypeOps' /\ CallsGoOn' /\ WritersAreRunning'
  <2>1. CASE op' = [op EXCEPT ![w] = [op[w] EXCEPT !.pc = "files"]]
    <3> DEFINE o == [op[w] EXCEPT !.pc = "files"]
    <3>1. o \in Op /\ GoesOn(o)
      BY <1>1, <1>2 DEF Op, GoesOn
    <3> QED
      BY <1>1, <1>3, <2>1, <3>1, WriterGoesOn
  <2>2. CASE op' = [op EXCEPT ![w] = Onwards(op[w])]
    BY <1>1, <1>2, <1>3, <2>2, OnwardsGoesOn, WriterGoesOn
  <2> QED
    BY <1>1, <2>1, <2>2
<1>5. NumbersAreGiven'
  BY <1>1, <1>2, <1>3, NumbersStay DEF MakesOnly
<1> QED
  BY <1>1, <1>3, <1>4, <1>5, TypesStay DEF Types, TypeOK

\* The second half: what it comes to.
LEMMA FilesCaptureDoes ==
  ASSUME Types, HoldersHold, NEW w \in Writer, FilesCapture(w)
  PROVE  LET s == SessionOf[w]
             n == turn[s].n
             f == Min(op[w].todo)
         IN  /\ op[w].pc = "files" /\ turn[s].at = "running"
             /\ s \in Session /\ n \in Number /\ f \in op[w].todo /\ f \in File
             /\ held[s] # None /\ held[s][f] # None
             /\ op' = [op EXCEPT ![w] = Onwards(op[w])]
             /\ UNCHANGED <<fileVars, rest, ended>>
             /\ \E ok \in BOOLEAN, X \in {{}, {f}} :
                  /\ WriteBack(s, s, n, ok) /\ Loses(s, X)
                  /\ X = {} => ok /\ held[s][f].pre # None
<1> DEFINE s == SessionOf[w]
           n == turn[s].n
           f == Min(op[w].todo)
<1>1. /\ op[w].pc = "files" /\ UNCHANGED <<fileVars, rest, ended>>
      /\ op' = [op EXCEPT ![w] = Onwards(op[w])]
  BY DEF FilesCapture
<1>2. op[w] \in Op /\ GoesOn(op[w]) /\ turn[s].at = "running" /\ TypeTurns
  BY <1>1 DEF Types, TypeOK, TypeOps, CallsGoOn, WritersAreRunning
<1>3. s \in Session /\ n \in Number
  BY <1>2, CheckpointAssumption DEF TypeTurns
<1>4. f \in op[w].todo /\ f \in File
  BY <1>1, <1>2, NextIsToDo DEF GoesOn, Op
<1>5. held[s] # None /\ held[s][f] # None
  BY <1>1 DEF HoldersHold, Locks
<1>6. PICK ok \in BOOLEAN :
        /\ WriteBack(s, s, n, ok)
        /\ turn' = [turn EXCEPT ![s].lost =
                      IF ok /\ held[s][f].pre # None THEN @ ELSE @ \cup {f}]
  BY DEF FilesCapture
<1> HIDE DEF f
<1> DEFINE X == IF ok /\ held[s][f].pre # None THEN {} ELSE {f}
<1>7. Loses(s, X)
  <2>1. turn[s].lost = turn[s].lost \cup {}
    OBVIOUS
  <2> QED
    BY <1>6, <2>1 DEF Loses
<1>8. X \in {{}, {f}} /\ (X = {} => ok /\ held[s][f].pre # None)
  OBVIOUS
<1> HIDE DEF X
<1> QED
  BY <1>1, <1>2, <1>3, <1>4, <1>5, <1>6, <1>7, <1>8 DEF f

\* Capture, the write.
LEMMA FilesCaptureTypes ==
  ASSUME Types, HoldersHold, NEW w \in Writer, FilesCapture(w) PROVE Types'
<1> DEFINE s == SessionOf[w]
           n == turn[s].n
           f == Min(op[w].todo)
<1>1. /\ op[w].pc = "files" /\ turn[s].at = "running" /\ s \in Session /\ n \in Number
      /\ f \in File /\ held[s] # None
      /\ op' = [op EXCEPT ![w] = Onwards(op[w])] /\ UNCHANGED <<fileVars, rest, ended>>
  BY FilesCaptureDoes
<1>2. PICK ok \in BOOLEAN, X \in {{}, {f}} : WriteBack(s, s, n, ok) /\ Loses(s, X)
  BY FilesCaptureDoes
<1> HIDE DEF f
<1>3. op[w] \in Op /\ GoesOn(op[w]) /\ TypeTurns /\ NumbersAreGiven /\ TypeUsed /\ TypeDirs
  BY DEF Types, TypeOK, TypeOps, CallsGoOn
<1>4. TypeTurns' /\ \A u \in Session : turn'[u].at = turn[u].at /\ turn'[u].n = turn[u].n
  BY <1>1, <1>2, <1>3, LosesTypes
<1>5. TypeOps' /\ CallsGoOn' /\ WritersAreRunning'
  BY <1>1, <1>3, <1>4, OnwardsGoesOn, WriterGoesOn
<1>6. TypeDirs' /\ TypeUsed' /\ NumbersUnused /\ MakesOnly(s, n)
  BY <1>1, <1>2, <1>3, WriteBackWrites DEF Checkpointer
<1>7. NumbersAreGiven'
  BY <1>1, <1>3, <1>4, <1>6, NumbersStay DEF MakesOnly
<1> QED
  BY <1>1, <1>4, <1>5, <1>6, <1>7, TypesStay DEF Types, TypeOK

\* A writer's call returns.
LEMMA WriterStops ==
  ASSUME Types, NEW w \in Writer, op' = [op EXCEPT ![w] = Idle], UNCHANGED turn
  PROVE  /\ TypeOps' /\ CallsGoOn' /\ WritersAreRunning'
         /\ UNCHANGED <<fileVars, dirVars, rest, ended, used>> => Types'
<1>1. TypeOps' /\ CallsGoOn' /\ WritersAreRunning'
  BY IdleIsOp, WriterGoesOn DEF Idle
<1> QED
  BY <1>1, TypesStay DEF Types, TypeOK, dirVars

\* ToolWrites.
LEMMA ToolWritesTypes ==
  ASSUME Types, NEW w \in Writer, ToolWrites(w) PROVE Types'
<1>1. op[w].pc = "write" /\ UNCHANGED <<dirVars, turn, rest, ended, used>>
  BY DEF ToolWrites
<1>2. op[w] \in Op /\ GoesOn(op[w]) /\ TypeFiles /\ turn[SessionOf[w]].at = "running"
  BY <1>1 DEF Types, TypeOK, TypeOps, CallsGoOn, WritersAreRunning
<1>3. CASE (\E f \in op[w].files : PutNew(w, f)) /\ op' = [op EXCEPT ![w].pc = "hash"]
  <2> DEFINE o == [op[w] EXCEPT !.pc = "hash"]
  <2>1. o \in Op /\ GoesOn(o) /\ op' = [op EXCEPT ![w] = o]
    BY <1>1, <1>2, <1>3 DEF Op, GoesOn
  <2>2. TypeOps' /\ CallsGoOn' /\ WritersAreRunning'
    BY <1>1, <1>2, <2>1, WriterGoesOn
  <2>3. TypeFiles'
    BY <1>2, <1>3, PutNewWrites DEF Op
  <2> QED
    BY <1>1, <2>2, <2>3, TypesStay DEF Types, TypeOK, dirVars
<1>4. CASE op' = [op EXCEPT ![w] = Idle] /\ UNCHANGED fileVars
  BY <1>1, <1>4, WriterStops DEF dirVars
<1> QED
  BY <1>3, <1>4 DEF ToolWrites

\* RecordAfter, the read of the file.
LEMMA ReadsAfterTypes ==
  ASSUME Types, NEW w \in Writer, ReadsAfter(w) PROVE Types'
<1>1. op[w].pc = "hash" /\ UNCHANGED <<fileVars, dirVars, turn, rest, ended, used>>
  BY DEF ReadsAfter
<1>2. op[w] \in Op /\ GoesOn(op[w]) /\ TypeFiles /\ turn[SessionOf[w]].at = "running"
  BY <1>1 DEF Types, TypeOK, TypeOps, CallsGoOn, WritersAreRunning
<1>3. PICK f \in op[w].files : op' = [op EXCEPT ![w].pc = "record", ![w].saw = disk[f]]
  BY DEF ReadsAfter
<1> DEFINE o == [op[w] EXCEPT !.pc = "record", !.saw = disk[f]]
<1>4. disk[f] \in Content
  BY <1>2 DEF TypeFiles, Op
<1>5. o \in Op /\ GoesOn(o) /\ op' = [op EXCEPT ![w] = o]
  BY <1>1, <1>2, <1>3, <1>4 DEF Op, GoesOn
<1>6. TypeOps' /\ CallsGoOn' /\ WritersAreRunning'
  BY <1>1, <1>2, <1>5, WriterGoesOn
<1> QED
  BY <1>1, <1>6, TypesStay DEF Types, TypeOK, dirVars

\* RecordAfter puts the hash under a record that is there, or there is none.
LEMMA RecordAfterDoes ==
  ASSUME Types, NEW w \in Writer, RecordAfter(w)
  PROVE  LET s == SessionOf[w]
             n == turn[s].n
             m == DirOf(s, n).files
         IN  /\ op[w].pc = "record" /\ turn[s].at = "running"
             /\ s \in Session /\ n \in Number /\ held[s] = None
             /\ UNCHANGED <<fileVars, store, age, turn, rest, ended, used>>
             /\ \/ /\ \E f \in File :
                        /\ m[f] # None
                        /\ HoldsWith(s, s, n, f, [m[f] EXCEPT !.after = op[w].saw])
                   /\ op' = [op EXCEPT ![w] = [op[w] EXCEPT !.pc = "recording"]]
                \/ UNCHANGED held /\ op' = [op EXCEPT ![w] = Idle]
<1> DEFINE s == SessionOf[w]
           n == turn[s].n
           m == DirOf(s, n).files
<1>1. op[w].pc = "record" /\ UNCHANGED <<fileVars, store, age, turn, rest, ended, used>>
  BY DEF RecordAfter
<1>2. /\ op[w] \in Op /\ turn[s].at = "running" /\ TypeDirs /\ TypeTurns
  BY <1>1 DEF Types, TypeOK, TypeOps, WritersAreRunning
<1>3. s \in Session /\ n \in Number
  BY <1>2, CheckpointAssumption DEF TypeTurns
<1>4. m \in Manifest
  BY <1>2, <1>3, DirOfIsDir
<1>5. PICK f \in op[w].files :
        \/ /\ m[f] # None
           /\ Holds(s, [m EXCEPT ![f].after = op[w].saw])
           /\ op' = [op EXCEPT ![w].pc = "recording"]
        \/ /\ m[f] = None /\ held[s] = None
           /\ op' = [op EXCEPT ![w] = Idle]
           /\ UNCHANGED held
  BY DEF RecordAfter
<1>6. f \in File /\ op[w].saw \in Content
  BY <1>2 DEF Op
<1> HIDE DEF m
<1>7. CASE /\ m[f] # None
           /\ Holds(s, [m EXCEPT ![f].after = op[w].saw])
           /\ op' = [op EXCEPT ![w].pc = "recording"]
  <2> DEFINE e == [m[f] EXCEPT !.after = op[w].saw]
  <2>1. e \in FileEntry
    BY <1>4, <1>6, <1>7, RecordIsOne DEF FileEntry
  <2>2. held[s] = None /\ held' = [held EXCEPT ![s] = [m EXCEPT ![f] = e]]
    BY <1>7 DEF Holds
  <2>3. HoldsWith(s, s, n, f, e)
    BY <2>1, <2>2 DEF HoldsWith, m
  <2> QED
    BY <1>1, <1>2, <1>3, <1>6, <1>7, <2>2, <2>3 DEF m
<1>8. CASE /\ m[f] = None /\ held[s] = None
           /\ op' = [op EXCEPT ![w] = Idle]
           /\ UNCHANGED held
  BY <1>1, <1>2, <1>3, <1>8 DEF m
<1> QED
  BY <1>5, <1>7, <1>8

\* A manifest that is held with one record replaced is one.
LEMMA HoldsWithTypes ==
  ASSUME TypeDirs, NEW a \in Checkpointer, NEW s \in Session, NEW n \in Number,
         NEW f \in File, NEW e, HoldsWith(a, s, n, f, e), UNCHANGED <<store, age>>
  PROVE  TypeDirs' /\ SameFiles
<1>1. [DirOf(s, n).files EXCEPT ![f] = e] \in Manifest
  BY DirOfIsDir, ManifestWith DEF HoldsWith
<1> QED
  BY <1>1 DEF HoldsWith, TypeDirs, SameFiles, DirOf

\* RecordAfter, the read of the manifest.
LEMMA RecordAfterTypes ==
  ASSUME Types, NEW w \in Writer, RecordAfter(w) PROVE Types'
<1> DEFINE s == SessionOf[w]
           n == turn[s].n
           m == DirOf(s, n).files
<1>1. /\ op[w].pc = "record" /\ turn[s].at = "running" /\ s \in Session /\ n \in Number
      /\ UNCHANGED <<fileVars, store, age, turn, rest, ended, used>>
  BY RecordAfterDoes
<1>2. \/ /\ \E f \in File : HoldsWith(s, s, n, f, [m[f] EXCEPT !.after = op[w].saw])
         /\ op' = [op EXCEPT ![w] = [op[w] EXCEPT !.pc = "recording"]]
      \/ UNCHANGED held /\ op' = [op EXCEPT ![w] = Idle]
  BY RecordAfterDoes
<1>3. op[w] \in Op /\ GoesOn(op[w]) /\ TypeDirs
  BY DEF Types, TypeOK, TypeOps, CallsGoOn
<1>4. TypeOps' /\ CallsGoOn' /\ WritersAreRunning'
  <2> DEFINE o == [op[w] EXCEPT !.pc = "recording"]
  <2>1. o \in Op /\ GoesOn(o)
    BY <1>1, <1>3 DEF Op, GoesOn
  <2>2. op' = [op EXCEPT ![w] = o] \/ op' = [op EXCEPT ![w] = Idle]
    BY <1>2
  <2> HIDE DEF o
  <2> QED
    BY <1>1, <2>1, <2>2, WriterGoesOn, WriterStops
<1>5. TypeDirs'
  BY <1>1, <1>2, <1>3, HoldsWithTypes DEF Checkpointer, TypeDirs
<1> QED
  BY <1>1, <1>4, <1>5, TypesStay DEF Types, TypeOK

\* RecordAfter, the write.
LEMMA FilesAfterTypes ==
  ASSUME Types, HoldersHold, NEW w \in Writer, FilesAfter(w) PROVE Types'
<1> DEFINE s == SessionOf[w]
           n == turn[s].n
<1>1. /\ op[w].pc = "recording" /\ op' = [op EXCEPT ![w] = Idle]
      /\ UNCHANGED <<fileVars, turn, rest, ended>>
  BY DEF FilesAfter
<1>2. PICK ok \in BOOLEAN : WriteBack(s, s, n, ok)
  BY DEF FilesAfter
<1>3. TypeDirs /\ TypeTurns /\ TypeUsed /\ NumbersAreGiven /\ turn[s].at = "running"
  BY <1>1 DEF Types, TypeOK, WritersAreRunning
<1>4. s \in Session /\ n \in Number /\ s \in Checkpointer /\ held[s] # None
  BY <1>1, <1>3, CheckpointAssumption DEF TypeTurns, Checkpointer, HoldersHold, Locks
<1>5. TypeDirs' /\ TypeUsed' /\ NumbersUnused /\ MakesOnly(s, n)
  BY <1>2, <1>3, <1>4, WriteBackWrites
<1>6. TypeOps' /\ CallsGoOn' /\ WritersAreRunning'
  BY <1>1, WriterStops
<1>7. NumbersAreGiven'
  BY <1>1, <1>3, <1>4, <1>5, NumbersStay DEF MakesOnly
<1> QED
  BY <1>1, <1>5, <1>6, <1>7, TypesStay DEF Types, TypeOK

\* AppliesNext.
LEMMA AppliesNextTypes ==
  ASSUME Types, NEW w \in Writer, AppliesNext(w) PROVE Types'
<1> DEFINE f == Min(op[w].todo)
           left == op[w].todo \ {f}
           written == op[w].files \ op[w].todo
           back == IF written = {} THEN "failed" ELSE "rollback"
<1>1. op[w].pc = "apply" /\ UNCHANGED <<dirVars, turn, rest, ended>>
  BY DEF AppliesNext
<1>2. /\ op[w] \in Op /\ GoesOn(op[w]) /\ op[w].todo # {} /\ TypeFiles
      /\ turn[SessionOf[w]].at = "running"
  BY <1>1 DEF Types, TypeOK, TypeOps, CallsGoOn, WritersAreRunning, GoesOn
<1>3. f \in op[w].todo /\ f \in File
  BY <1>2, NextIsToDo DEF Op
<1>4. \/ /\ PutNew(w, f) /\ UNCHANGED used
         /\ op' = IF left = {} THEN [op EXCEPT ![w] = Idle] ELSE [op EXCEPT ![w].todo = left]
      \/ /\ Mishap /\ UNCHANGED fileVars
         /\ op' = [op EXCEPT ![w].todo = written, ![w].pc = back]
  BY DEF AppliesNext
<1> HIDE DEF f
<1>5. CASE PutNew(w, f) /\ UNCHANGED used /\ op' = [op EXCEPT ![w] = Idle]
  BY <1>1, <1>2, <1>3, <1>5, PutNewWrites, WriterStops, TypesStay DEF Types, TypeOK, dirVars
<1>6. CASE PutNew(w, f) /\ UNCHANGED used /\ left # {} /\ op' = [op EXCEPT ![w].todo = left]
  <2> DEFINE o == [op[w] EXCEPT !.todo = left]
  <2>1. o \in Op /\ GoesOn(o) /\ op' = [op EXCEPT ![w] = o]
    BY <1>1, <1>2, <1>3, <1>6 DEF Op, GoesOn
  <2>2. TypeOps' /\ CallsGoOn' /\ WritersAreRunning'
    BY <1>1, <1>2, <2>1, WriterGoesOn
  <2> QED
    BY <1>1, <1>2, <1>3, <1>6, <2>2, PutNewWrites, TypesStay DEF Types, TypeOK, dirVars
<1>7. CASE /\ Mishap /\ UNCHANGED fileVars
           /\ op' = [op EXCEPT ![w].todo = written, ![w].pc = back]
  <2> DEFINE o == [op[w] EXCEPT !.todo = written, !.pc = back]
  <2>0. written \in SUBSET File /\ written \subseteq op[w].files
    BY <1>2 DEF Op
  <2>1. back \in {"failed", "rollback"} /\ (written # {} <=> back = "rollback")
    OBVIOUS
  <2> HIDE DEF written, back
  <2>2. op' = [op EXCEPT ![w] = o]
    BY <1>7 DEF Types, TypeOK, TypeOps
  <2>3. o \in Op /\ GoesOn(o)
    BY <1>1, <1>2, <2>0, <2>1 DEF Op, GoesOn
  <2>4. TypeOps' /\ CallsGoOn' /\ WritersAreRunning'
    BY <1>1, <1>2, <2>2, <2>3, WriterGoesOn
  <2> QED
    BY <1>1, <1>7, <2>4, MishapSpends, TypesStay DEF Types, TypeOK, dirVars
<1> QED
  BY <1>4, <1>5, <1>6, <1>7

\* RollsBackNext.
LEMMA RollsBackNextTypes ==
  ASSUME Types, NEW w \in Writer, RollsBackNext(w) PROVE Types'
<1> DEFINE f == Min(op[w].todo)
           left == op[w].todo \ {f}
           then == IF left = {} THEN "failed" ELSE "rollback"
<1>1. op[w].pc = "rollback" /\ UNCHANGED <<dirVars, turn, rest, ended, used>>
  BY DEF RollsBackNext
<1>2. /\ op[w] \in Op /\ GoesOn(op[w]) /\ op[w].todo # {} /\ TypeFiles
      /\ turn[SessionOf[w]].at = "running"
  BY <1>1 DEF Types, TypeOK, TypeOps, CallsGoOn, WritersAreRunning, GoesOn
<1>3. f \in op[w].todo /\ f \in File
  BY <1>2, NextIsToDo DEF Op
<1>4. \/ op' = [op EXCEPT ![w].todo = left, ![w].mixed = @ \/ FALSE, ![w].pc = then]
      \/ op' = [op EXCEPT ![w].todo = left, ![w].mixed = @ \/ TRUE, ![w].pc = then]
  BY DEF RollsBackNext
<1>5. UNCHANGED fileVars \/ (Put(w, f, op[w].orig[f]) /\ UNCHANGED clock)
  BY DEF RollsBackNext
<1> HIDE DEF f
<1>6. left \in SUBSET File /\ left \subseteq op[w].files
  BY <1>2, <1>3 DEF Op, GoesOn
<1> HIDE DEF left
<1>7. then \in {"failed", "rollback"} /\ (left # {} <=> then = "rollback")
  BY DEF left
<1> HIDE DEF then
<1> DEFINE o(m) == [op[w] EXCEPT !.todo = left, !.mixed = m, !.pc = then]
<1>8. ASSUME NEW m \in BOOLEAN PROVE o(m) \in Op /\ GoesOn(o(m))
  BY <1>1, <1>2, <1>6, <1>7 DEF Op, GoesOn
<1> HIDE DEF o
<1>9. TypeOps' /\ CallsGoOn' /\ WritersAreRunning'
  <2>1. CASE op' = [op EXCEPT ![w].todo = left, ![w].mixed = @ \/ FALSE, ![w].pc = then]
    <3> DEFINE was == op[w].mixed \/ FALSE
    <3>1. was \in BOOLEAN
      OBVIOUS
    <3>2. op' = [op EXCEPT ![w] = o(was)]
      BY <2>1 DEF Types, TypeOK, TypeOps, o
    <3>3. o(was) \in Op /\ GoesOn(o(was))
      BY <3>1, <1>8
    <3> QED
      BY <1>1, <1>2, <3>2, <3>3, WriterGoesOn
  <2>2. CASE op' = [op EXCEPT ![w].todo = left, ![w].mixed = @ \/ TRUE, ![w].pc = then]
    <3>1. op' = [op EXCEPT ![w] = o(TRUE)]
      BY <2>2 DEF Types, TypeOK, TypeOps, o
    <3>2. o(TRUE) \in Op /\ GoesOn(o(TRUE))
      BY <1>8
    <3> QED
      BY <1>1, <1>2, <3>1, <3>2, WriterGoesOn
  <2> QED
    BY <1>4, <2>1, <2>2
<1>11. TypeFiles'
  <2>1. op[w].orig[f] \in Content /\ clock \in Content
    BY <1>2, <1>3 DEF Op, TypeFiles
  <2> QED
    BY <1>2, <1>3, <1>5, <2>1, PutWrites, TypesStay
<1> QED
  BY <1>1, <1>9, <1>11, TypesStay DEF Types, TypeOK, dirVars

\* BatchFails.
LEMMA BatchFailsTypes ==
  ASSUME Types, NEW w \in Writer, BatchFails(w) PROVE Types'
BY WriterStops DEF BatchFails

\* Restore.
LEMMA RestoreTypes ==
  ASSUME Types, NEW r \in Restorer, NEW s \in Session, NEW n \in Number, NEW force \in BOOLEAN,
         Restore(r, s, n, force)
  PROVE  Types'
<1> DEFINE m == store[s][n].files
           q == [NoRollback EXCEPT !.pc = "number", !.s = s, !.n = n, !.force = force, !.m = m]
<1>1. /\ rest[r].pc = "idle" /\ store[s][n] # None
      /\ used.restores < MaxRestores /\ used' = [used EXCEPT !["restores"] = @ + 1]
      /\ rest' = [rest EXCEPT ![r] = q]
      /\ UNCHANGED <<fileVars, dirVars, turn, op, ended>>
  BY DEF Restore, Spend
<1>2. TypeFiles /\ TypeDirs /\ TypeTurns /\ TypeRests /\ TypeUsed /\ NumbersAreGiven
  BY DEF Types, TypeOK
<1>3. m \in Manifest
  BY <1>1, <1>2 DEF TypeDirs, Dir
<1> HIDE DEF m
<1>4. q \in Rollback /\ Goes(q) /\ q.pc = "number" /\ q.undo = 0
  BY <1>1, <1>3, NoRollbackIsOne DEF Rollback, Goes, NoRollback, Captured, NoFiles
<1> HIDE DEF q
<1>5. TypeRests' /\ RollbacksGoOn'
  BY <1>1, <1>4, RollbackGoesOn
<1>6. TypeUsed' /\ used'.turns = used.turns /\ used'.restores = used.restores + 1
  BY <1>1, <1>2, CheckpointAssumption DEF TypeUsed
<1>8. \A v \in Restorer : rest'[v] = IF v = r THEN q ELSE rest[v]
  BY <1>1, <1>2 DEF TypeRests
<1>9. NumbersAreGiven'
  <2>1. Numbering' = Numbering \cup {r} /\ r \notin Numbering
    BY <1>1, <1>4, <1>8 DEF Numbering
  <2>2. IsFiniteSet(Numbering') /\ Cardinality(Numbering') = Cardinality(Numbering) + 1
        /\ Cardinality(Numbering) \in Nat
    BY <1>2, <2>1, FS_AddElement, FS_CardinalityType DEF NumbersAreGiven
  <2>3. Given' = Given /\ Given \in Nat
    BY <1>2, <1>6, <2>2, GivenIsNat DEF Given, TypeUsed
  <2>4. (Cardinality(Numbering) <= used.restores)'
    BY <1>2, <1>6, <2>2 DEF NumbersAreGiven, TypeUsed
  <2>5. \A v \in Restorer : rest'[v].undo <= Given'
    BY <1>2, <1>4, <1>8, <2>3 DEF NumbersAreGiven
  <2>6. \A u \in Session : turn'[u].n <= Given'
    BY <1>1, <1>2, <2>3 DEF NumbersAreGiven
  <2>7. \A u \in Session, k \in Number : store'[u][k] # None => k <= Given'
    BY <1>1, <1>2, <2>3 DEF NumbersAreGiven, dirVars
  <2> QED
    BY <2>2, <2>4, <2>5, <2>6, <2>7 DEF NumbersAreGiven
<1> QED
  BY <1>1, <1>5, <1>6, <1>9, TypesStay DEF Types, TypeOK, dirVars

\* NumbersUndo.
LEMMA NumbersUndoTypes ==
  ASSUME Types, NEW r \in Restorer, NumbersUndo(r) PROVE Types'
<1> DEFINE n == Highest(rest[r].s) + 1
           q == [rest[r] EXCEPT !.pc = "copy", !.undo = n, !.todo = Covered(rest[r].m)]
<1>1. /\ rest[r].pc = "number"
      /\ UNCHANGED <<fileVars, dirVars, turn, op, ended, used>>
  BY DEF NumbersUndo
<1>2. rest' = [rest EXCEPT ![r] = q]
  BY DEF NumbersUndo
<1>3. TypeDirs /\ TypeTurns /\ TypeRests /\ TypeUsed /\ NumbersAreGiven
  BY DEF Types, TypeOK
<1>4. rest[r].s \in Session /\ Goes(rest[r]) /\ rest[r] \in Rollback
  BY <1>1, <1>3 DEF Types, RollbacksGoOn, Goes, TypeRests
<1>6. /\ IsFiniteSet(Numbering) /\ r \in Numbering
      /\ Cardinality(Numbering \ {r}) = Cardinality(Numbering) - 1
      /\ IsFiniteSet(Numbering \ {r}) /\ Cardinality(Numbering) \in Nat
  BY <1>1, <1>3, FS_RemoveElement, FS_CardinalityType DEF Numbering, NumbersAreGiven
<1>7. Given \in Nat /\ Given + 1 <= MaxTurns + MaxRestores
  <2>1. Cardinality(Numbering \ {r}) \in Nat
    BY <1>6, FS_CardinalityType
  <2> QED
    BY <1>3, <1>6, <2>1, GivenIsNat, CheckpointAssumption DEF TypeUsed, Given
<1>8. n \in Number /\ n <= Given + 1
  BY <1>3, <1>4, <1>7, HighestIsLast, CheckpointAssumption DEF NumbersAreGiven, Number
<1> HIDE DEF n
<1>9. q \in Rollback /\ Goes(q) /\ q.pc = "copy" /\ q.undo = n
  <2>1. Covered(rest[r].m) \in SUBSET File
    BY DEF Covered, Captured
  <2> QED
    BY <1>1, <1>4, <1>8, <2>1 DEF Rollback, Goes
<1> HIDE DEF q
<1>10. TypeRests' /\ RollbacksGoOn'
  BY <1>2, <1>9, RollbackGoesOn
<1>11. \A v \in Restorer : rest'[v] = IF v = r THEN q ELSE rest[v]
  BY <1>2, <1>3 DEF TypeRests
<1>12. NumbersAreGiven'
  <2>1. Numbering' = Numbering \ {r}
    BY <1>9, <1>11 DEF Numbering
  <2>2. Given' = Given + 1
    BY <1>1, <1>3, <1>6, <2>1 DEF Given, TypeUsed
  <2>3. IsFiniteSet(Numbering') /\ Cardinality(Numbering') <= used'.restores
    BY <1>1, <1>3, <1>6, <2>1 DEF NumbersAreGiven, TypeUsed
  <2>4. \A v \in Restorer : rest'[v].undo <= Given'
    <3> TAKE v \in Restorer
    <3>1. rest[v].undo \in Nat /\ rest[v].undo <= Given
      BY <1>3 DEF NumbersAreGiven, TypeRests, Rollback, Number
    <3> QED
      BY <3>1, <1>7, <1>8, <1>9, <1>11, <2>2
  <2>5. \A u \in Session : turn'[u].n <= Given'
    BY <1>1, <1>3, <1>7, <2>2 DEF NumbersAreGiven, TypeTurns, Turn, Number
  <2>6. \A u \in Session, k \in Number : store'[u][k] # None => k <= Given'
    BY <1>1, <1>3, <1>7, <2>2 DEF NumbersAreGiven, dirVars, Number
  <2> QED
    BY <2>3, <2>4, <2>5, <2>6 DEF NumbersAreGiven
<1> QED
  BY <1>1, <1>10, <1>12, TypesStay DEF Types, TypeOK, dirVars

\* The step of a rollback that neither asks for a number nor is given one.
LEMMA RollbackNumbers ==
  ASSUME Types, NEW r \in Restorer, NEW q \in Rollback, rest' = [rest EXCEPT ![r] = q],
         rest[r].pc # "number", q.pc # "number", q.undo \in {rest[r].undo, 0},
         NumbersUnused, \A u \in Session : turn'[u].n = turn[u].n,
         \A s \in Session, n \in Number :
            store'[s][n] # None => store[s][n] # None \/ n = rest[r].undo
  PROVE  NumbersAreGiven'
<1>1. \A v \in Restorer : rest'[v] = IF v = r THEN q ELSE rest[v]
  BY DEF Types, TypeOK, TypeRests
<1> QED
  BY <1>1, NumbersStay DEF Types, TypeOK

\* On to phase one, or there is nothing to decide.
LEMMA DecidesGoesOn ==
  ASSUME NEW r \in Restorer, rest[r] \in Rollback, Goes(rest[r]),
         rest[r].pc # "idle", NEW undo \in Number \cup {0}
  PROVE  LET q == Decides(r, undo)
         IN  /\ q \in Rollback /\ Goes(q) /\ q.undo \in {undo, 0}
             /\ \/ q = NoRollback
                \/ /\ q.pc = "decide" /\ q.s = rest[r].s /\ q.n = rest[r].n
                   /\ q.m = rest[r].m /\ q.force = rest[r].force /\ q.plan = rest[r].plan
<1>1. CASE Covered(rest[r].m) = {}
  BY <1>1, NoRollbackIsOne DEF Decides, NoRollback
<1>2. CASE Covered(rest[r].m) # {}
  <2> DEFINE todo == Covered(rest[r].m)
             q == [rest[r] EXCEPT !.pc = "decide", !.undo = undo, !.todo = todo]
  <2>1. Decides(r, undo) = q
    BY <1>2 DEF Decides
  <2>2. todo \in SUBSET File /\ todo # {}
    BY <1>2 DEF Covered, Captured
  <2> HIDE DEF todo
  <2>3. q \in Rollback
    BY <2>2 DEF Rollback
  <2>4. Goes(q)
    <3>1. todo \subseteq Covered(rest[r].m)
      BY DEF todo
    <3> QED
      BY <2>2, <3>1 DEF Goes, Rollback
  <2> QED
    BY <2>1, <2>3, <2>4 DEF Rollback
<1> QED
  BY <1>1, <1>2

\* The first half of a copy: what it comes to.
LEMMA CopiesNextDoes ==
  ASSUME Types, NEW r \in Restorer, CopiesNext(r)
  PROVE  LET q == rest[r]
             p == rest'[r]
         IN  /\ q.pc = "copy" /\ q.s \in Session /\ q.undo \in Number
             /\ UNCHANGED <<fileVars, turn, op, ended>>
             /\ TypeDirs' /\ TypeUsed' /\ NumbersUnused
             /\ MakesOnly(q.s, q.undo) /\ SameFiles
             /\ \A t \in Session, k \in Number : store[t][k] # None => store'[t][k] # None
             /\ rest' = [rest EXCEPT ![r] = p]
             /\ p \in Rollback /\ Goes(p) /\ p.pc # "number" /\ p.undo \in {q.undo, 0}
             /\ \/ p = NoRollback
                \/ /\ p.pc \in {"copy", "copied", "decide"} /\ p.s = q.s /\ p.n = q.n
                   /\ p.m = q.m /\ p.force = q.force /\ p.plan = q.plan
             /\ \/ UNCHANGED held /\ p.pc # "copied"
                \/ /\ p.pc = "copied" /\ p.undo = q.undo /\ held[r] = None
                   /\ \/ held' = [held EXCEPT ![r] = DirOf(q.s, q.undo).files]
                      \/ \E f \in File : \E pre \in {disk[f], None} :
                           HoldsWith(r, q.s, q.undo, f, [pre |-> pre, after |-> NoHash])
<1> DEFINE q == rest[r]
           f == Min(q.todo)
<1>1. q.pc = "copy" /\ UNCHANGED <<fileVars, turn, op, ended>>
  BY DEF CopiesNext
<1>2. /\ TypeFiles /\ TypeDirs /\ TypeUsed /\ q \in Rollback /\ Goes(q)
      /\ q.s \in Session /\ q.undo \in Number /\ r \in Checkpointer
      /\ rest \in [Restorer -> Rollback]
  BY <1>1 DEF Types, TypeOK, TypeRests, RollbacksGoOn, Goes, Checkpointer
<1>3. q.todo # {} => f \in q.todo /\ f \in File
  BY <1>2, NextIsToDo DEF Rollback
<1>4. \/ /\ q.todo # {} /\ Capture(r, q.s, q.undo, f)
         /\ rest' = [rest EXCEPT ![r].pc = "copied"]
      \/ /\ q.todo # {} /\ rest' = [rest EXCEPT ![r].todo = @ \ {f}]
         /\ UNCHANGED <<dirVars, used>>
      \/ /\ Holds(r, DirOf(q.s, q.undo).files)
         /\ rest' = [rest EXCEPT ![r].pc = "copied"]
         /\ UNCHANGED <<store, age, used>>
      \/ /\ rest' = [rest EXCEPT ![r] = Decides(r, q.undo)]
         /\ UNCHANGED <<dirVars, used>>
      \/ /\ Mishap
         /\ rest' = [rest EXCEPT ![r] = Decides(r, 0)]
         /\ UNCHANGED dirVars
  BY DEF CopiesNext
<1> HIDE DEF f
<1>5. ASSUME NEW p \in Rollback, rest' = [rest EXCEPT ![r] = p]
      PROVE  rest'[r] = p
  BY <1>2, <1>5
<1> DEFINE copied == [q EXCEPT !.pc = "copied"]
<1>6. copied \in Rollback /\ Goes(copied)
  BY <1>1, <1>2 DEF Rollback, Goes
<1>7. /\ copied.pc = "copied" /\ copied.s = q.s /\ copied.n = q.n /\ copied.m = q.m
      /\ copied.force = q.force /\ copied.plan = q.plan /\ copied.undo = q.undo
  BY <1>2 DEF Rollback
<1>8. rest' = [rest EXCEPT ![r].pc = "copied"] => rest' = [rest EXCEPT ![r] = copied]
  OBVIOUS
<1> HIDE DEF copied
<1>9. CASE /\ q.todo # {} /\ Capture(r, q.s, q.undo, f)
           /\ rest' = [rest EXCEPT ![r].pc = "copied"]
  <2>1. /\ TypeDirs' /\ TypeUsed' /\ NumbersUnused
        /\ MakesOnly(q.s, q.undo) /\ SameFiles
        /\ \A t \in Session, k \in Number : store[t][k] # None => store'[t][k] # None
        /\ \E pre \in {disk[f], None} : HoldsWith(r, q.s, q.undo, f, [pre |-> pre, after |-> NoHash])
    BY <1>2, <1>3, <1>9, CaptureHolds
  <2>2. rest'[r] = copied /\ rest' = [rest EXCEPT ![r] = copied] /\ held[r] = None
    BY <1>5, <1>6, <1>8, <1>9 DEF Capture, Holds
  <2> QED
    BY <1>1, <1>2, <1>3, <1>6, <1>7, <1>9, <2>1, <2>2
<1>10. CASE /\ Holds(r, DirOf(q.s, q.undo).files)
            /\ rest' = [rest EXCEPT ![r].pc = "copied"]
            /\ UNCHANGED <<store, age, used>>
  <2>1. /\ TypeDirs' /\ SameFiles /\ held[r] = None
        /\ held' = [held EXCEPT ![r] = DirOf(q.s, q.undo).files]
    BY <1>2, <1>10, DirOfIsDir, HoldsReads
  <2>2. TypeUsed' /\ NumbersUnused /\ MakesOnly(q.s, q.undo)
    BY <1>2, <1>10 DEF TypeUsed, NumbersUnused, MakesOnly
  <2>3. rest'[r] = copied /\ rest' = [rest EXCEPT ![r] = copied]
    BY <1>5, <1>6, <1>8, <1>10
  <2> QED
    BY <1>1, <1>2, <1>6, <1>7, <1>10, <2>1, <2>2, <2>3
<1>11. ASSUME UNCHANGED dirVars
       PROVE  /\ TypeDirs' /\ SameFiles /\ MakesOnly(q.s, q.undo) /\ UNCHANGED <<held, store>>
  BY <1>2, <1>11 DEF dirVars, TypeDirs, SameFiles, MakesOnly, DirOf
<1>12. CASE /\ q.todo # {} /\ rest' = [rest EXCEPT ![r].todo = @ \ {f}]
            /\ UNCHANGED <<dirVars, used>>
  <2> DEFINE p == [q EXCEPT !.todo = q.todo \ {f}]
  <2>1. p \in Rollback /\ Goes(p)
    BY <1>1, <1>2 DEF Rollback, Goes
  <2>2. /\ p.pc = "copy" /\ p.s = q.s /\ p.n = q.n /\ p.m = q.m
        /\ p.force = q.force /\ p.plan = q.plan /\ p.undo = q.undo
    BY <1>1, <1>2 DEF Rollback
  <2>3. rest' = [rest EXCEPT ![r] = p]
    BY <1>12
  <2> HIDE DEF p
  <2>4. rest'[r] = p
    BY <1>5, <2>1, <2>3
  <2>5. TypeUsed' /\ NumbersUnused
    BY <1>2, <1>12 DEF TypeUsed, NumbersUnused
  <2> QED
    BY <1>1, <1>2, <1>11, <1>12, <2>1, <2>2, <2>3, <2>4, <2>5
<1>13. CASE /\ UNCHANGED dirVars /\ (UNCHANGED used \/ Mishap)
            /\ \E undo \in {q.undo, 0} : rest' = [rest EXCEPT ![r] = Decides(r, undo)]
  <2>1. PICK undo \in {q.undo, 0} : rest' = [rest EXCEPT ![r] = Decides(r, undo)]
    BY <1>13
  <2> DEFINE p == Decides(r, undo)
  <2>2. /\ p \in Rollback /\ Goes(p) /\ p.undo \in {undo, 0}
        /\ \/ p = NoRollback
           \/ /\ p.pc = "decide" /\ p.s = q.s /\ p.n = q.n
              /\ p.m = q.m /\ p.force = q.force /\ p.plan = q.plan
    BY <1>1, <1>2, DecidesGoesOn
  <2>3. p.pc \notin {"number", "copied"}
    BY <2>2 DEF NoRollback
  <2>4. rest' = [rest EXCEPT ![r] = p]
    BY <2>1
  <2> HIDE DEF p
  <2>5. rest'[r] = p
    BY <1>5, <2>2, <2>4
  <2>6. TypeUsed' /\ NumbersUnused
    BY <1>2, <1>13, MishapSpends DEF TypeUsed, NumbersUnused
  <2>7. /\ TypeDirs' /\ SameFiles /\ MakesOnly(q.s, q.undo) /\ UNCHANGED <<held, store>>
    BY <1>11, <1>13
  <2>8. p.undo \in {q.undo, 0}
    BY <2>1, <2>2
  <2>9. /\ rest' = [rest EXCEPT ![r] = rest'[r]]
        /\ rest'[r] \in Rollback /\ Goes(rest'[r]) /\ rest'[r].pc # "number"
        /\ rest'[r].undo \in {q.undo, 0} /\ rest'[r].pc # "copied"
    BY <2>2, <2>3, <2>4, <2>5, <2>8
  <2>10. \/ rest'[r] = NoRollback
         \/ /\ rest'[r].pc \in {"copy", "copied", "decide"}
            /\ rest'[r].s = q.s /\ rest'[r].n = q.n
            /\ rest'[r].m = q.m /\ rest'[r].force = q.force /\ rest'[r].plan = q.plan
    BY <2>2, <2>5
  <2> QED
    BY <1>1, <1>2, <2>6, <2>7, <2>9, <2>10 DEF dirVars
<1> QED
  BY <1>4, <1>9, <1>10, <1>12, <1>13

\* captureCurrentState, the read.
LEMMA CopiesNextTypes ==
  ASSUME Types, NEW r \in Restorer, CopiesNext(r) PROVE Types'
<1> DEFINE q == rest[r]
           p == rest'[r]
<1>1. /\ q.pc = "copy" /\ UNCHANGED <<fileVars, turn, op, ended>>
      /\ TypeDirs' /\ TypeUsed' /\ NumbersUnused /\ MakesOnly(q.s, q.undo)
      /\ rest' = [rest EXCEPT ![r] = p]
      /\ p \in Rollback /\ Goes(p) /\ p.pc # "number" /\ p.undo \in {q.undo, 0}
  BY CopiesNextDoes
<1> HIDE DEF p
<1>2. TypeRests' /\ RollbacksGoOn'
  BY <1>1, RollbackGoesOn
<1>3. NumbersAreGiven'
  BY <1>1, RollbackNumbers DEF MakesOnly
<1> QED
  BY <1>1, <1>2, <1>3, TypesStay DEF Types, TypeOK

\* The second half: what it comes to.
LEMMA FilesCopyDoes ==
  ASSUME Types, HoldersHold, NEW r \in Restorer, FilesCopy(r)
  PROVE  LET q == rest[r]
             p == rest'[r]
         IN  /\ q.pc = "copied" /\ q.s \in Session /\ q.undo \in Number /\ held[r] # None
             /\ UNCHANGED <<fileVars, op, ended>>
             /\ rest' = [rest EXCEPT ![r] = p]
             /\ p \in Rollback /\ Goes(p) /\ p.pc \notin {"number", "copied"}
             /\ p.undo \in {q.undo, 0}
             /\ \/ p = NoRollback
                \/ /\ p.pc \in {"copy", "decide"} /\ p.s = q.s /\ p.n = q.n
                   /\ p.m = q.m /\ p.force = q.force /\ p.plan = q.plan
             /\ \E ok \in BOOLEAN, X \in SUBSET File :
                  /\ WriteBack(r, q.s, q.undo, ok)
                  /\ UNCHANGED turn \/ Loses(q.s, X)
                  /\ ok /\ turn[q.s].n = q.undo =>
                       /\ Loses(q.s, X)
                       /\ \A f \in File \ X : held[r][f] = Entry(q.s, q.undo, f)
<1> DEFINE q == rest[r]
           changed == {f \in File : held[r][f] # Entry(q.s, q.undo, f)}
<1>1. q.pc = "copied" /\ UNCHANGED <<fileVars, op, ended>>
  BY DEF FilesCopy
<1>2. /\ q \in Rollback /\ Goes(q) /\ q.s \in Session /\ q.undo \in Number
      /\ held[r] # None /\ rest \in [Restorer -> Rollback]
  BY <1>1 DEF Types, TypeOK, TypeRests, RollbacksGoOn, Goes, HoldersHold
<1>3. PICK ok \in BOOLEAN :
           /\ WriteBack(r, q.s, q.undo, ok)
           /\ turn' = IF ok /\ turn[q.s].n = q.undo
                      THEN [turn EXCEPT ![q.s].lost = @ \cup changed]
                      ELSE turn
           /\ rest' = [rest EXCEPT ![r] =
                         IF ~ ok THEN Decides(r, 0)
                         ELSE IF q.todo = {} THEN Decides(r, q.undo)
                         ELSE [q EXCEPT !.pc = "copy", !.todo = @ \ {Min(@)}]]
  BY DEF FilesCopy
<1>4. changed \in SUBSET File /\ \A f \in File \ changed : held[r][f] = Entry(q.s, q.undo, f)
  OBVIOUS
<1> HIDE DEF changed
<1>5. /\ UNCHANGED turn \/ Loses(q.s, changed)
      /\ ok /\ turn[q.s].n = q.undo => Loses(q.s, changed)
  BY <1>3 DEF Loses
<1> DEFINE Ends(p) ==
             /\ p \in Rollback /\ Goes(p) /\ p.pc \notin {"number", "copied"}
             /\ p.undo \in {q.undo, 0}
             /\ \/ p = NoRollback
                \/ /\ p.pc \in {"copy", "decide"} /\ p.s = q.s /\ p.n = q.n
                   /\ p.m = q.m /\ p.force = q.force /\ p.plan = q.plan
<1>6. ASSUME NEW undo \in {q.undo, 0} PROVE Ends(Decides(r, undo))
  <2> DEFINE p == Decides(r, undo)
  <2>1. /\ p \in Rollback /\ Goes(p) /\ p.undo \in {undo, 0}
        /\ \/ p = NoRollback
           \/ /\ p.pc = "decide" /\ p.s = q.s /\ p.n = q.n
              /\ p.m = q.m /\ p.force = q.force /\ p.plan = q.plan
    BY <1>1, <1>2, DecidesGoesOn
  <2> HIDE DEF p
  <2>2. p.pc \notin {"number", "copied"}
    BY <2>1 DEF NoRollback
  <2>3. Ends(p)
    BY <2>1, <2>2
  <2> QED
    BY <2>3 DEF p
<1>7. Ends([q EXCEPT !.pc = "copy", !.todo = q.todo \ {Min(q.todo)}])
  <2> DEFINE left == q.todo \ {Min(q.todo)}
             p == [q EXCEPT !.pc = "copy", !.todo = left]
  <2>1. left \in SUBSET File /\ left \subseteq q.todo
    BY <1>2 DEF Rollback
  <2> HIDE DEF left
  <2>2. p \in Rollback /\ Goes(p)
    BY <1>1, <1>2, <2>1 DEF Rollback, Goes
  <2>3. /\ p.pc = "copy" /\ p.s = q.s /\ p.n = q.n /\ p.m = q.m
        /\ p.force = q.force /\ p.plan = q.plan /\ p.undo = q.undo
    BY <1>2 DEF Rollback
  <2> HIDE DEF p
  <2>4. Ends(p)
    BY <2>2, <2>3
  <2> QED
    BY <2>4 DEF p, left
<1>8. \E p : Ends(p) /\ rest' = [rest EXCEPT ![r] = p]
  <2> HIDE DEF Ends
  <2>1. CASE ~ ok
    BY <1>3, <1>6, <2>1
  <2>2. CASE ok /\ q.todo = {}
    BY <1>3, <1>6, <2>2
  <2>3. CASE ok /\ q.todo # {}
    BY <1>3, <1>7, <2>3
  <2> QED
    BY <2>1, <2>2, <2>3
<1>9. Ends(rest'[r]) /\ rest' = [rest EXCEPT ![r] = rest'[r]]
  <2> HIDE DEF Ends
  <2> QED
    BY <1>2, <1>8
<1> QED
  BY <1>1, <1>2, <1>3, <1>4, <1>5, <1>9

\* captureCurrentState, the write.
LEMMA FilesCopyTypes ==
  ASSUME Types, HoldersHold, NEW r \in Restorer, FilesCopy(r) PROVE Types'
<1> DEFINE q == rest[r]
           p == rest'[r]
<1>1. /\ q.pc = "copied" /\ q.s \in Session /\ q.undo \in Number /\ held[r] # None
      /\ UNCHANGED <<fileVars, op, ended>>
      /\ rest' = [rest EXCEPT ![r] = p]
      /\ p \in Rollback /\ Goes(p) /\ p.pc \notin {"number", "copied"}
      /\ p.undo \in {q.undo, 0}
  BY FilesCopyDoes
<1>2. PICK ok \in BOOLEAN, X \in SUBSET File :
        WriteBack(r, q.s, q.undo, ok) /\ (UNCHANGED turn \/ Loses(q.s, X))
  BY FilesCopyDoes
<1> HIDE DEF p
<1>3. TypeTurns /\ TypeDirs /\ TypeUsed /\ r \in Checkpointer
  BY DEF Types, TypeOK, Checkpointer
<1>4. TypeDirs' /\ TypeUsed' /\ NumbersUnused /\ MakesOnly(q.s, q.undo)
  BY <1>1, <1>2, <1>3, WriteBackWrites
<1>5. TypeTurns' /\ \A u \in Session : turn'[u].at = turn[u].at /\ turn'[u].n = turn[u].n
  BY <1>1, <1>2, <1>3, LosesTypes DEF TypeTurns
<1>6. TypeRests' /\ RollbacksGoOn'
  BY <1>1, RollbackGoesOn
<1>7. NumbersAreGiven'
  BY <1>1, <1>4, <1>5, RollbackNumbers DEF MakesOnly
<1>8. WritersAreRunning'
  BY <1>1, <1>5, CheckpointAssumption DEF Types, WritersAreRunning
<1> QED
  BY <1>1, <1>4, <1>5, <1>6, <1>7, <1>8, TypesStay DEF Types, TypeOK

\* Phase one, one file.
LEMMA DecidesNextTypes ==
  ASSUME Types, NEW r \in Restorer, DecidesNext(r) PROVE Types'
<1> DEFINE f == Min(rest[r].todo)
           left == rest[r].todo \ {f}
           was == IF PutsBack(r, f) THEN disk[f] ELSE None
           plan == [rest[r].plan EXCEPT ![f] = was]
           now == [rest[r] EXCEPT !.plan = plan, !.todo = left]
           q == IF left # {} THEN now
                ELSE IF Captured(plan) = {} THEN NoRollback
                ELSE [now EXCEPT !.pc = "write", !.todo = Captured(plan)]
<1>1. rest[r].pc = "decide" /\ UNCHANGED <<fileVars, dirVars, turn, op, ended, used>>
  BY DEF DecidesNext
<1>2. rest' = [rest EXCEPT ![r] = q]
  BY DEF DecidesNext
<1>3. TypeFiles /\ rest[r] \in Rollback /\ Goes(rest[r]) /\ rest[r].todo # {}
  BY <1>1 DEF Types, TypeOK, TypeRests, RollbacksGoOn, Goes
<1>4. f \in rest[r].todo /\ f \in File
  BY <1>3, NextIsToDo DEF Rollback
<1> HIDE DEF f
<1>5. was \in Content \cup {None}
  BY <1>3, <1>4 DEF TypeFiles
<1> HIDE DEF was
<1>6. plan \in [File -> Content \cup {None}] /\ Captured(plan) \subseteq Covered(rest[r].m)
  BY <1>3, <1>4, <1>5 DEF Rollback, Goes, Captured
<1> HIDE DEF plan
<1>7. now \in Rollback
  BY <1>3, <1>4, <1>6 DEF Rollback
<1>8. q \in Rollback /\ Goes(q) /\ q.pc # "number" /\ q.undo \in {rest[r].undo, 0}
  <2>1. CASE left # {}
    BY <1>1, <1>3, <1>6, <1>7, <2>1 DEF Goes, Rollback
  <2>2. CASE left = {} /\ Captured(plan) = {}
    BY <2>2, NoRollbackIsOne DEF NoRollback
  <2>3. CASE left = {} /\ Captured(plan) # {}
    <3>1. Captured(plan) \in SUBSET File
      BY DEF Captured
    <3> QED
      BY <1>1, <1>3, <1>6, <2>3, <3>1 DEF Goes, Rollback
  <2> QED
    BY <2>1, <2>2, <2>3
<1> HIDE DEF q
<1>9. TypeRests' /\ RollbacksGoOn'
  BY <1>2, <1>8, RollbackGoesOn
<1>10. NumbersAreGiven'
  BY <1>1, <1>2, <1>8, TypesStay, RollbackNumbers DEF dirVars
<1> QED
  BY <1>1, <1>9, <1>10, TypesStay DEF Types, TypeOK, dirVars

\* Phase two, one file.
LEMMA WritesNextTypes ==
  ASSUME Types, NEW r \in Restorer, WritesNext(r) PROVE Types'
<1> DEFINE f == Min(rest[r].todo)
           left == rest[r].todo \ {f}
           to == rest[r].m[f].pre
           q == Step(r, left, NoRollback)
<1>1. rest[r].pc = "write" /\ UNCHANGED <<dirVars, turn, op, ended>> /\ rest' = [rest EXCEPT ![r] = q]
  BY DEF WritesNext
<1>2. \/ Put(r, f, to) /\ UNCHANGED <<clock, used>>
      \/ UNCHANGED <<fileVars, used>>
      \/ Mishap /\ UNCHANGED fileVars
  BY DEF WritesNext
<1>3. TypeFiles /\ rest[r] \in Rollback /\ Goes(rest[r]) /\ rest[r].todo # {}
  BY <1>1 DEF Types, TypeOK, TypeRests, RollbacksGoOn, Goes
<1>4. f \in rest[r].todo /\ f \in File
  BY <1>3, NextIsToDo DEF Rollback
<1> HIDE DEF f
<1>5. to \in Content
  BY <1>3, <1>4 DEF Rollback, Goes, Covered, Captured, FileEntry, Manifest
<1> HIDE DEF to
<1>6. q \in Rollback /\ Goes(q) /\ q.pc # "number" /\ q.undo \in {rest[r].undo, 0}
  <2>1. CASE left = {}
    BY <2>1, NoRollbackIsOne DEF Step, NoRollback
  <2>2. CASE left # {}
    BY <1>1, <1>3, <1>4, <2>2 DEF Step, Rollback, Goes
  <2> QED
    BY <2>1, <2>2
<1> HIDE DEF q
<1>7. TypeRests' /\ RollbacksGoOn'
  BY <1>1, <1>6, RollbackGoesOn
<1>8. TypeFiles'
  BY <1>2, <1>3, <1>4, <1>5, PutWrites, TypesStay DEF TypeFiles
<1>9. TypeUsed' /\ NumbersUnused
  BY <1>2, MishapSpends, TypesStay DEF Types, TypeOK
<1>10. NumbersAreGiven'
  BY <1>1, <1>6, <1>9, RollbackNumbers DEF dirVars
<1> QED
  BY <1>1, <1>7, <1>8, <1>9, <1>10, TypesStay DEF Types, TypeOK

\* Everybody else.
LEMMA OutsideTypes ==
  ASSUME Types, NEW f \in File, Outside(f) PROVE Types'
<1>1. Mishap /\ UNCHANGED <<dirVars, turn, op, rest, ended>>
  BY DEF Outside
<1>2. TypeFiles /\ Absent \in Content
  BY CheckpointAssumption DEF Types, TypeOK, Absent, Content
<1>3. PutNew(None, f) \/ (Put(None, f, Absent) /\ UNCHANGED clock)
  BY DEF Outside
<1>4. TypeFiles'
  <2>1. CASE PutNew(None, f)
    BY <1>2, <2>1, PutNewWrites
  <2>2. CASE Put(None, f, Absent) /\ UNCHANGED clock
    <3>1. clock' \in Content
      BY <1>2, <2>2 DEF TypeFiles
    <3> QED
      BY <1>2, <2>2, <3>1, PutWrites
  <2> QED
    BY <1>3, <2>1, <2>2
<1> QED
  BY <1>1, <1>4, MishapSpends, TypesStay DEF Types, TypeOK, dirVars

\* A crash forgets everything but the disk.
LEMMA CrashTypes ==
  ASSUME Types, Crash PROVE Types'
<1>1. /\ Mishap /\ UNCHANGED <<fileVars, store, age, ended>>
      /\ turn' = [s \in Session |-> NoTurn] /\ op' = [w \in Writer |-> Idle]
      /\ rest' = [r \in Restorer |-> NoRollback] /\ held' = [a \in Checkpointer |-> None]
  BY DEF Crash
<1>2. TypeTurns' /\ \A s \in Session : turn'[s].n = 0
  BY <1>1, NoTurnIsOne DEF TypeTurns, NoTurn
<1>3. TypeOps' /\ CallsGoOn' /\ WritersAreRunning'
  BY <1>1, IdleIsOp DEF TypeOps, CallsGoOn, WritersAreRunning, Idle
<1>4. TypeRests' /\ RollbacksGoOn'
  BY <1>1, NoRollbackIsOne DEF TypeRests, RollbacksGoOn
<1>5. TypeUsed' /\ NumbersUnused
  BY <1>1, MishapSpends DEF Types, TypeOK
<1>6. NumbersAreGiven'
  <2>1. Numbering' = {}
    BY <1>1 DEF Numbering, NoRollback
  <2>2. IsFiniteSet(Numbering') /\ Cardinality(Numbering') = 0
    BY <2>1, FS_EmptySet
  <2>3. TypeUsed /\ used'.turns = used.turns /\ used'.restores = used.restores
    BY <1>5 DEF Types, TypeOK, NumbersUnused
  <2>4. Given' = used.turns + used.restores /\ Cardinality(Numbering) \in Nat
    BY <2>2, <2>3, FS_CardinalityType DEF Given, TypeUsed, Types, NumbersAreGiven
  <2>5. Given' \in Nat /\ Given <= Given' /\ Given \in Nat
    BY <2>3, <2>4, GivenIsNat DEF Given, TypeUsed, Types
  <2>6. \A s \in Session, n \in Number : store'[s][n] # None => n <= Given'
    BY <1>1, <2>5 DEF Types, NumbersAreGiven, Number
  <2>7. \A r \in Restorer : rest'[r].undo <= Given'
    BY <1>1, <2>5 DEF NoRollback
  <2>8. \A s \in Session : turn'[s].n <= Given'
    BY <1>2, <2>5
  <2>9. 0 <= used'.restores
    BY <2>3 DEF TypeUsed
  <2> QED
    BY <2>2, <2>6, <2>7, <2>8, <2>9 DEF NumbersAreGiven
<1>7. TypeDirs'
  BY <1>1 DEF Types, TypeOK, TypeDirs
<1> QED
  BY <1>1, <1>2, <1>3, <1>4, <1>5, <1>6, <1>7, TypesStay DEF Types, TypeOK

\* There is no directory, no turn and no rollback yet.
LEMMA TypesInit == Init => Types
<1> SUFFICES ASSUME Init PROVE Types
  OBVIOUS
<1>1. TypeFiles /\ TypeUsed /\ TypeEnded
  BY CheckpointAssumption DEF Init, TypeFiles, TypeUsed, TypeEnded, Content, Absent
<1>2. TypeDirs
  BY DEF Init, TypeDirs
<1>3. TypeTurns
  BY NoTurnIsOne DEF Init, TypeTurns, NoTurn
<1>4. TypeOps /\ CallsGoOn /\ WritersAreRunning
  BY IdleIsOp DEF Init, TypeOps, CallsGoOn, WritersAreRunning, Idle
<1>5. TypeRests /\ RollbacksGoOn
  BY NoRollbackIsOne DEF Init, TypeRests, RollbacksGoOn
<1>6. NumbersAreGiven
  <2>1. Numbering = {}
    BY DEF Init, Numbering, NoRollback
  <2>2. IsFiniteSet(Numbering) /\ Cardinality(Numbering) = 0
    BY <2>1, FS_EmptySet
  <2>3. Given = 0
    BY <2>2 DEF Init, Given
  <2> QED
    BY <2>2, <2>3 DEF Init, NumbersAreGiven, NoTurn, NoRollback
<1> QED
  BY <1>1, <1>2, <1>3, <1>4, <1>5, <1>6 DEF Types, TypeOK

\* Every step keeps every variable in its range.
LEMMA TypesStep == Types /\ HoldersHold /\ [Next]_vars => Types'
<1> SUFFICES ASSUME Types, HoldersHold, [Next]_vars PROVE Types'
  OBVIOUS
<1>1. CASE \E s \in Session : NextTurn(s) \/ OpensTurn(s) \/ BeginTurn(s)
                              \/ ClosesTurn(s) \/ EndTurn(s) \/ Prune(s)
  BY <1>1, NextTurnTypes, OpensTurnTypes, BeginTurnTypes, ClosesTurnTypes, EndTurnTypes, PruneTypes
<1>2. CASE \E w \in Writer, f \in Paths : GuardedCall(w, f)
  BY <1>2, GuardedCallTypes
<1>3. CASE \E w \in Writer : CapturesNext(w) \/ FilesCapture(w)
  BY <1>3, CapturesNextTypes, FilesCaptureTypes
<1>4. CASE \E w \in Writer : ToolWrites(w) \/ ReadsAfter(w) \/ RecordAfter(w) \/ FilesAfter(w)
  BY <1>4, ToolWritesTypes, ReadsAfterTypes, RecordAfterTypes, FilesAfterTypes
<1>5. CASE \E w \in Writer, files \in Batches : PlanBatch(w, files)
  BY <1>5, PlanBatchTypes
<1>6. CASE \E w \in Writer : AppliesNext(w) \/ RollsBackNext(w) \/ BatchFails(w)
  BY <1>6, AppliesNextTypes, RollsBackNextTypes, BatchFailsTypes
<1>7. CASE \E r \in Restorer, s \in Session, n \in Number, force \in BOOLEAN :
             Restore(r, s, n, force)
  BY <1>7, RestoreTypes
<1>8. CASE \E r \in Restorer :
             NumbersUndo(r) \/ CopiesNext(r) \/ FilesCopy(r) \/ DecidesNext(r) \/ WritesNext(r)
  BY <1>8, NumbersUndoTypes, CopiesNextTypes, FilesCopyTypes, DecidesNextTypes, WritesNextTypes
<1>9. CASE \E f \in File : Outside(f)
  BY <1>9, OutsideTypes
<1>10. CASE Crash
  BY <1>10, CrashTypes
<1>11. CASE UNCHANGED vars
  BY <1>11, TypesStay DEF vars, fileVars, dirVars, Types, TypeOK
<1> QED
  BY <1>1, <1>2, <1>3, <1>4, <1>5, <1>6, <1>7, <1>8, <1>9, <1>10, <1>11 DEF Next

-----------------------------------------------------------------------------
(* The locks.                                                              *)

\* What is held by whom when nobody's but a's changes, and a is not taken.
LEMMA HoldersStay ==
  ASSUME Types, HoldersHold, UNCHANGED held,
         \A w \in Writer : op'[w].pc \in {"files", "recording"} =>
           op'[w] = op[w] \/ (op'[w].pc = op[w].pc /\ op'[w].todo = op[w].todo),
         \A s \in Session : turn'[s].at \in {"opening", "closing"} => turn[s].at = turn'[s].at,
         \A r \in Restorer : rest'[r].pc = "copied" => rest[r].pc = "copied"
  PROVE  HoldersHold'
<1>1. \A w \in Writer : Locks(w)' => Locks(w)
  BY DEF Locks
<1>2. \A w \in Writer : op'[w].pc = "files" => op[w].pc = "files" /\ op'[w].todo = op[w].todo
  OBVIOUS
<1> QED
  BY <1>1, <1>2 DEF HoldersHold

\* A turn's step.
LEMMA TurnHolds ==
  ASSUME Types, HoldersHold, NEW s \in Session, NEW t, turn' = [turn EXCEPT ![s] = t],
         UNCHANGED <<op, rest>>,
         \/ /\ t.at \in {"opening", "closing"}
            /\ \E m \in Manifest : held' = [held EXCEPT ![s] = m]
            /\ \A w \in Writer : SessionOf[w] = s => op[w].pc = "idle"
         \/ t.at \notin {"opening", "closing"} /\ UNCHANGED held
         \/ /\ t.at \notin {"opening", "closing"} /\ held' = [held EXCEPT ![s] = None]
            /\ \A w \in Writer : SessionOf[w] = s => op[w].pc = "idle"
  PROVE  HoldersHold'
<1>1. /\ \A u \in Session : turn'[u] = IF u = s THEN t ELSE turn[u]
      /\ held \in [Checkpointer -> Manifest \cup {None}] /\ None \notin Manifest
  BY NoneIsNoRecord DEF Types, TypeOK, TypeTurns, TypeDirs
<1>2. Session \subseteq Checkpointer /\ Restorer \subseteq Checkpointer /\ s \notin Restorer
  BY CheckpointAssumption DEF Checkpointer
<1>3. CASE t.at \notin {"opening", "closing"} /\ UNCHANGED held
  BY <1>1, <1>3, HoldersStay
<1>4. CASE /\ t.at \notin {"opening", "closing"} /\ held' = [held EXCEPT ![s] = None]
           /\ \A w \in Writer : SessionOf[w] = s => op[w].pc = "idle"
  <2>1. \A w \in Writer : Locks(w) => SessionOf[w] # s /\ SessionOf[w] \in Session
    BY <1>4, CheckpointAssumption DEF Locks
  <2>2. \A a \in Checkpointer : held'[a] = IF a = s THEN None ELSE held[a]
    BY <1>1, <1>4
  <2> QED
    BY <1>1, <1>2, <1>4, <2>1, <2>2 DEF HoldersHold, Locks
<1>5. CASE /\ t.at \in {"opening", "closing"}
           /\ \E m \in Manifest : held' = [held EXCEPT ![s] = m]
           /\ \A w \in Writer : SessionOf[w] = s => op[w].pc = "idle"
  <2>1. PICK m \in Manifest : held' = [held EXCEPT ![s] = m]
    BY <1>5
  <2>2. \A w \in Writer : Locks(w) => SessionOf[w] # s /\ SessionOf[w] \in Session
    BY <1>5, CheckpointAssumption DEF Locks
  <2>3. \A a \in Checkpointer : held'[a] = IF a = s THEN m ELSE held[a]
    BY <1>1, <2>1
  <2> QED
    BY <1>1, <1>2, <2>2, <2>3 DEF HoldersHold, Locks
<1> QED
  BY <1>3, <1>4, <1>5

\* A writer takes the lock of its turn.
LEMMA WriterLocks ==
  ASSUME Types, HoldersHold, NEW w \in Writer, NEW o \in Op, NEW m \in Manifest,
         op' = [op EXCEPT ![w] = o], turn[SessionOf[w]].at = "running",
         held[SessionOf[w]] = None, held' = [held EXCEPT ![SessionOf[w]] = m],
         o.pc = "files" => m[Min(o.todo)] # None,
         UNCHANGED <<turn, rest>>
  PROVE  HoldersHold'
<1> DEFINE s == SessionOf[w]
<1>1. /\ \A v \in Writer : op'[v] = IF v = w THEN o ELSE op[v]
      /\ held \in [Checkpointer -> Manifest \cup {None}] /\ None \notin Manifest
  BY NoneIsNoRecord DEF Types, TypeOK, TypeOps, TypeDirs
<1>2. /\ Session \subseteq Checkpointer /\ Restorer \subseteq Checkpointer
      /\ s \in Session /\ s \notin Restorer
  BY CheckpointAssumption DEF Checkpointer
<1>3. \A a \in Checkpointer : held'[a] = IF a = s THEN m ELSE held[a]
  BY <1>1, <1>2
<1>4. \A v \in Writer : Locks(v) => SessionOf[v] # s /\ SessionOf[v] \in Checkpointer
  BY <1>2, CheckpointAssumption DEF HoldersHold
<1>5. \A v \in Writer : Locks(v)' => v = w \/ (Locks(v) /\ op'[v] = op[v])
  BY <1>1 DEF Locks
<1>6. m # None
  BY <1>1
<1>7. \A v \in Writer : Locks(v)' => held'[SessionOf[v]] # None
  BY <1>2, <1>3, <1>4, <1>5, <1>6 DEF HoldersHold
<1>8. \A v \in Writer : op'[v].pc = "files" => held'[SessionOf[v]][Min(op'[v].todo)] # None
  <2> SUFFICES ASSUME NEW v \in Writer, op'[v].pc = "files"
               PROVE  held'[SessionOf[v]][Min(op'[v].todo)] # None
    OBVIOUS
  <2>1. CASE v = w
    BY <1>1, <1>2, <1>3, <2>1
  <2>2. CASE v # w
    <3>1. Locks(v) /\ op'[v] = op[v]
      BY <1>1, <2>2 DEF Locks
    <3> QED
      BY <1>3, <1>4, <3>1 DEF HoldersHold
  <2> QED
    BY <2>1, <2>2
<1>9. \A u, v \in Writer : Locks(u)' /\ Locks(v)' /\ SessionOf[u] = SessionOf[v] => u = v
  BY <1>4, <1>5 DEF HoldersHold
<1>10. \A u \in Session : turn'[u].at \in {"opening", "closing"} => held'[u] # None
  BY <1>2, <1>3, <1>6 DEF HoldersHold
<1>11. \A r \in Restorer : rest'[r].pc = "copied" => held'[r] # None
  BY <1>2, <1>3 DEF HoldersHold
<1> QED
  BY <1>7, <1>8, <1>9, <1>10, <1>11 DEF HoldersHold

\* ... and lets it go.
LEMMA WriterUnlocks ==
  ASSUME Types, HoldersHold, NEW w \in Writer, NEW o \in Op, Locks(w),
         op' = [op EXCEPT ![w] = o], o.pc \notin {"files", "recording"},
         turn[SessionOf[w]].at = "running",
         held' = [held EXCEPT ![SessionOf[w]] = None],
         \A u \in Session : turn'[u].at = turn[u].at, UNCHANGED rest
  PROVE  HoldersHold'
<1> DEFINE s == SessionOf[w]
<1>1. /\ \A v \in Writer : op'[v] = IF v = w THEN o ELSE op[v]
      /\ held \in [Checkpointer -> Manifest \cup {None}]
  BY DEF Types, TypeOK, TypeOps, TypeDirs
<1>2. /\ Session \subseteq Checkpointer /\ Restorer \subseteq Checkpointer
      /\ s \in Session /\ s \notin Restorer
  BY CheckpointAssumption DEF Checkpointer
<1>3. \A a \in Checkpointer : held'[a] = IF a = s THEN None ELSE held[a]
  BY <1>1, <1>2
<1>4. \A v \in Writer : Locks(v)' => /\ Locks(v) /\ op'[v] = op[v]
                                     /\ SessionOf[v] # s /\ SessionOf[v] \in Checkpointer
  BY <1>1, <1>2, CheckpointAssumption DEF HoldersHold, Locks
<1>5. \A v \in Writer : op'[v].pc = "files" => Locks(v)'
  BY DEF Locks
<1> QED
  BY <1>2, <1>3, <1>4, <1>5 DEF HoldersHold

\* A rollback takes the lock it made.
LEMMA RollbackLocks ==
  ASSUME Types, HoldersHold, NEW r \in Restorer, NEW q, NEW m \in Manifest \cup {None},
         rest' = [rest EXCEPT ![r] = q], q.pc = "copied" => m # None,
         held' = [held EXCEPT ![r] = m],
         \A u \in Session : turn'[u].at = turn[u].at, UNCHANGED op
  PROVE  HoldersHold'
<1>1. /\ \A v \in Restorer : rest'[v] = IF v = r THEN q ELSE rest[v]
      /\ held \in [Checkpointer -> Manifest \cup {None}]
  BY DEF Types, TypeOK, TypeRests, TypeDirs
<1>2. /\ Session \subseteq Checkpointer /\ Restorer \subseteq Checkpointer
      /\ r \notin Session /\ \A w \in Writer : SessionOf[w] \in Session
  BY CheckpointAssumption DEF Checkpointer
<1>3. \A a \in Checkpointer : held'[a] = IF a = r THEN m ELSE held[a]
  BY <1>1, <1>2
<1>4. \A u \in Session : held'[u] = held[u]
  BY <1>2, <1>3
<1>5. /\ \A w \in Writer : held'[SessionOf[w]] = held[SessionOf[w]] /\ Locks(w)' = Locks(w)
      /\ \A w \in Writer : op'[w] = op[w]
  BY <1>2, <1>4 DEF Locks
<1>6. \A v \in Restorer : rest'[v].pc = "copied" => held'[v] # None
  BY <1>1, <1>2, <1>3 DEF HoldersHold
<1> QED
  BY <1>4, <1>5, <1>6 DEF HoldersHold

\* A rollback that is not at its copies.
LEMMA RollbackIsBack ==
  ASSUME Types, NEW r \in Restorer, NumbersUndo(r) \/ DecidesNext(r) \/ WritesNext(r)
  PROVE  /\ rest'[r].pc \in {"copy", "decide", "write", "idle"}
         /\ \A v \in Restorer : v # r => rest'[v] = rest[v]
<1>0. rest \in [Restorer -> Rollback]
  BY DEF Types, TypeOK, TypeRests
<1>1. rest[r] \in Rollback
  BY <1>0
<1>2. CASE NumbersUndo(r)
  BY <1>0, <1>1, <1>2 DEF NumbersUndo, Rollback
<1>3. CASE WritesNext(r)
  BY <1>0, <1>1, <1>3 DEF WritesNext, Step, NoRollback, Rollback
<1>4. CASE DecidesNext(r)
  <2> DEFINE f    == Min(rest[r].todo)
             left == rest[r].todo \ {f}
             plan == [rest[r].plan EXCEPT ![f] = IF PutsBack(r, f) THEN disk[f] ELSE None]
             now  == [rest[r] EXCEPT !.plan = plan, !.todo = left]
             q == IF left # {} THEN now
                  ELSE IF Captured(plan) = {} THEN NoRollback
                  ELSE [now EXCEPT !.pc = "write", !.todo = Captured(plan)]
  <2>1. rest[r].pc = "decide" /\ rest' = [rest EXCEPT ![r] = q]
    BY <1>4 DEF DecidesNext
  <2> HIDE DEF left, plan
  <2>2. q.pc \in {"decide", "write", "idle"}
    BY <1>1, <2>1 DEF Rollback, NoRollback
  <2> HIDE DEF q
  <2> QED
    BY <1>0, <2>1, <2>2
<1> QED
  BY <1>2, <1>3, <1>4

\* Every step leaves those who are about to write a manifest with it.
LEMMA HoldersStep == Types /\ Types' /\ HoldersHold /\ [Next]_vars => HoldersHold'
<1> SUFFICES ASSUME Types, Types', HoldersHold, [Next]_vars PROVE HoldersHold'
  OBVIOUS
<1> USE DEF dirVars
<1>0. /\ TypeTurns /\ TypeDirs /\ TypeUsed /\ TypeFiles
      /\ op \in [Writer -> Op] /\ rest \in [Restorer -> Rollback] /\ turn \in [Session -> Turn]
      /\ \A w \in Writer : op[w].pc # "idle" => turn[SessionOf[w]].at = "running"
      /\ \A w \in Writer : SessionOf[w] \in Session
  BY CheckpointAssumption DEF Types, TypeOK, TypeOps, TypeRests, TypeTurns, WritersAreRunning
<1>1. ASSUME NEW s \in Session, NextTurn(s) PROVE HoldersHold'
  <2> DEFINE t == [NoTurn EXCEPT !.at = "numbered", !.n = Highest(s) + 1]
  <2>1. turn' = [turn EXCEPT ![s] = t] /\ UNCHANGED <<held, op, rest>>
    BY <1>1 DEF NextTurn
  <2>2. t.at \notin {"opening", "closing"}
    BY DEF NoTurn
  <2> HIDE DEF t
  <2> QED
    BY <2>1, <2>2, TurnHolds
<1>2. ASSUME NEW s \in Session, OpensTurn(s) PROVE HoldersHold'
  <2> DEFINE t == [turn[s] EXCEPT !.at = "opening"]
             m == DirOf(s, turn[s].n).files
  <2>1. /\ turn[s].at = "numbered" /\ Holds(s, m) /\ turn' = [turn EXCEPT ![s] = t]
        /\ UNCHANGED <<op, rest>>
    BY <1>2 DEF OpensTurn
  <2>2. t.at = "opening" /\ m \in Manifest
    BY <1>0, <2>1, DirOfIsDir DEF Turn, TypeTurns
  <2>3. held' = [held EXCEPT ![s] = m]
    BY <2>1 DEF Holds
  <2>4. \A w \in Writer : SessionOf[w] = s => op[w].pc = "idle"
    BY <1>0, <2>1
  <2> HIDE DEF t, m
  <2> QED
    BY <2>1, <2>2, <2>3, <2>4, TurnHolds
<1>3. ASSUME NEW s \in Session, BeginTurn(s) PROVE HoldersHold'
  <2> DEFINE t == [turn[s] EXCEPT !.at = "running", !.start = disk,
                     !.lost = Captured(DirOf(s, turn[s].n).files) \cup Captured(held[s])]
  <2>1. /\ turn[s].at = "opening" /\ turn' = [turn EXCEPT ![s] = t] /\ UNCHANGED <<op, rest>>
        /\ held' = [held EXCEPT ![s] = None]
    BY <1>3 DEF BeginTurn, WriteBack
  <2>2. t.at = "running"
    BY <1>0 DEF Turn
  <2>4. \A w \in Writer : SessionOf[w] = s => op[w].pc = "idle"
    BY <1>0, <2>1
  <2> HIDE DEF t
  <2> QED
    BY <2>1, <2>2, <2>4, TurnHolds
<1>4. ASSUME NEW s \in Session, ClosesTurn(s) PROVE HoldersHold'
  <2> DEFINE t == [turn[s] EXCEPT !.at = "closing"]
             m == DirOf(s, turn[s].n).files
  <2>1. /\ turn[s].at = "running" /\ Holds(s, m) /\ turn' = [turn EXCEPT ![s] = t]
        /\ \A w \in Writer : SessionOf[w] = s => op[w].pc = "idle"
        /\ UNCHANGED <<op, rest>>
    BY <1>4 DEF ClosesTurn
  <2>2. t.at = "closing" /\ m \in Manifest
    BY <1>0, <2>1, DirOfIsDir DEF Turn, TypeTurns
  <2>3. held' = [held EXCEPT ![s] = m]
    BY <2>1 DEF Holds
  <2> HIDE DEF t, m
  <2> QED
    BY <2>1, <2>2, <2>3, TurnHolds
<1>5. ASSUME NEW s \in Session, EndTurn(s) PROVE HoldersHold'
  <2> DEFINE t == [turn[s] EXCEPT !.at = "ending"]
  <2>1. /\ turn[s].at = "closing" /\ turn' = [turn EXCEPT ![s] = t] /\ UNCHANGED <<op, rest>>
        /\ held' = [held EXCEPT ![s] = None]
    BY <1>5 DEF EndTurn, WriteBack
  <2>2. t.at = "ending"
    BY <1>0 DEF Turn
  <2>4. \A w \in Writer : SessionOf[w] = s => op[w].pc = "idle"
    BY <1>0, <2>1
  <2> HIDE DEF t
  <2> QED
    BY <2>1, <2>2, <2>4, TurnHolds
<1>6. ASSUME NEW s \in Session, Prune(s) PROVE HoldersHold'
  <2>1. UNCHANGED <<held, op, rest>>
    BY <1>6 DEF Prune
  <2>2. PICK doomed : Drops(s, doomed)
    BY <1>6, PruneDrops
  <2>3. \A u \in Session : turn'[u].at \in {turn[u].at, "none"}
    BY <1>0, <2>2 DEF Drops, NoTurn, Turn
  <2> QED
    BY <2>1, <2>3, HoldersStay
<1>7. ASSUME NEW w \in Writer, NEW o, op' = [op EXCEPT ![w] = o],
             o.pc \notin {"files", "recording"}, UNCHANGED <<held, rest>>,
             \A u \in Session : turn'[u].at = turn[u].at
      PROVE  HoldersHold'
  <2>1. \A v \in Writer : op'[v] = IF v = w THEN o ELSE op[v]
    BY <1>0, <1>7
  <2> QED
    BY <1>7, <2>1, HoldersStay
<1>8. ASSUME NEW w \in Writer, NEW f \in Paths, GuardedCall(w, f) PROVE HoldersHold'
  BY <1>7, <1>8 DEF GuardedCall, Idle
<1>9. ASSUME NEW w \in Writer, NEW files \in Batches, PlanBatch(w, files) PROVE HoldersHold'
  BY <1>7, <1>9 DEF PlanBatch, Idle
<1>10. ASSUME NEW w \in Writer, CapturesNext(w) PROVE HoldersHold'
  <2> DEFINE s == SessionOf[w]
             n == turn[s].n
             f == Min(op[w].todo)
  <2>1. /\ op[w].pc = "capture" /\ turn[s].at = "running"
        /\ s \in Session /\ n \in Number /\ f \in File /\ held[s] = None /\ UNCHANGED rest
        /\ \/ /\ \E pre \in {disk[f], None} : HoldsWith(s, s, n, f, [pre |-> pre, after |-> NoHash])
              /\ op' = [op EXCEPT ![w] = [op[w] EXCEPT !.pc = "files"]]
              /\ UNCHANGED turn
           \/ /\ UNCHANGED held
              /\ op' = [op EXCEPT ![w] = Onwards(op[w])]
              /\ UNCHANGED turn \/ Loses(s, {f})
    BY <1>10, CapturesNextDoes
  <2>2. op[w] \in Op /\ GoesOn(op[w])
    BY DEF Types, TypeOK, TypeOps, CallsGoOn
  <2>3. CASE /\ \E pre \in {disk[f], None} : HoldsWith(s, s, n, f, [pre |-> pre, after |-> NoHash])
             /\ op' = [op EXCEPT ![w] = [op[w] EXCEPT !.pc = "files"]]
             /\ UNCHANGED turn
    <3> DEFINE o == [op[w] EXCEPT !.pc = "files"]
    <3>1. PICK e \in FileEntry : held' = [held EXCEPT ![s] = [DirOf(s, n).files EXCEPT ![f] = e]]
      BY <2>3 DEF HoldsWith
    <3> DEFINE m == [DirOf(s, n).files EXCEPT ![f] = e]
    <3>2. m \in Manifest /\ m[f] = e /\ e # None
      BY <1>0, <2>1, DirOfIsDir, ManifestWith, NoneIsNoRecord
    <3>3. o \in Op /\ o.todo = op[w].todo
      BY <2>2 DEF Op
    <3>4. held' = [held EXCEPT ![s] = m] /\ op' = [op EXCEPT ![w] = o]
      BY <2>3, <3>1
    <3> HIDE DEF m, o
    <3>5. m[Min(o.todo)] # None
      BY <3>2, <3>3
    <3> QED
      BY <2>1, <2>3, <3>2, <3>3, <3>4, <3>5, WriterLocks
  <2>4. CASE /\ UNCHANGED held
             /\ op' = [op EXCEPT ![w] = Onwards(op[w])]
             /\ UNCHANGED turn \/ Loses(s, {f})
    <3>1. Onwards(op[w]).pc \notin {"files", "recording"}
      BY <2>1, <2>2, OnwardsGoesOn
    <3>2. \A u \in Session : turn'[u].at = turn[u].at
      <4>1. {f} \in SUBSET File
        BY <2>1
      <4> QED
        BY <1>0, <2>1, <2>4, <4>1, LosesTypes
    <3> QED
      BY <1>7, <2>1, <2>4, <3>1, <3>2
  <2> QED
    BY <2>1, <2>3, <2>4
<1>11. ASSUME NEW w \in Writer, FilesCapture(w) PROVE HoldersHold'
  <2> DEFINE s == SessionOf[w]
             f == Min(op[w].todo)
  <2>1. /\ op[w].pc = "files" /\ turn[s].at = "running" /\ s \in Session /\ f \in File
        /\ op' = [op EXCEPT ![w] = Onwards(op[w])] /\ UNCHANGED rest
    BY <1>11, FilesCaptureDoes
  <2>2. PICK ok \in BOOLEAN, X \in {{}, {f}} : WriteBack(s, s, turn[s].n, ok) /\ Loses(s, X)
    BY <1>11, FilesCaptureDoes
  <2>3. op[w] \in Op /\ GoesOn(op[w])
    BY DEF Types, TypeOK, TypeOps, CallsGoOn
  <2>4. Onwards(op[w]) \in Op /\ Onwards(op[w]).pc \notin {"files", "recording"}
    BY <2>1, <2>3, OnwardsGoesOn
  <2>5. \A u \in Session : turn'[u].at = turn[u].at
    BY <1>0, <2>1, <2>2, LosesTypes
  <2>6. held' = [held EXCEPT ![s] = None] /\ Locks(w)
    BY <2>1, <2>2 DEF WriteBack, Locks
  <2> QED
    BY <2>1, <2>4, <2>5, <2>6, WriterUnlocks
<1>12. ASSUME NEW w \in Writer, ToolWrites(w) \/ ReadsAfter(w) PROVE HoldersHold'
  <2>1. UNCHANGED <<held, turn, rest>>
    BY <1>12 DEF ToolWrites, ReadsAfter
  <2>2. op'[w].pc \in {"hash", "record", "idle"} /\ \A v \in Writer : v # w => op'[v] = op[v]
    BY <1>0, <1>12 DEF ToolWrites, ReadsAfter, Idle, Op
  <2> QED
    BY <2>1, <2>2, HoldersStay
<1>13. ASSUME NEW w \in Writer, RecordAfter(w) PROVE HoldersHold'
  <2> DEFINE s == SessionOf[w]
             n == turn[s].n
             m == DirOf(s, n).files
  <2>1. /\ op[w].pc = "record" /\ turn[s].at = "running" /\ s \in Session /\ n \in Number
        /\ held[s] = None /\ UNCHANGED <<turn, rest>>
        /\ \/ /\ \E f \in File : HoldsWith(s, s, n, f, [m[f] EXCEPT !.after = op[w].saw])
              /\ op' = [op EXCEPT ![w] = [op[w] EXCEPT !.pc = "recording"]]
           \/ UNCHANGED held /\ op' = [op EXCEPT ![w] = Idle]
    BY <1>13, RecordAfterDoes
  <2>2. CASE /\ \E f \in File : HoldsWith(s, s, n, f, [m[f] EXCEPT !.after = op[w].saw])
             /\ op' = [op EXCEPT ![w] = [op[w] EXCEPT !.pc = "recording"]]
    <3> DEFINE o == [op[w] EXCEPT !.pc = "recording"]
    <3>1. PICK f \in File, e \in FileEntry : held' = [held EXCEPT ![s] = [m EXCEPT ![f] = e]]
      BY <2>2 DEF HoldsWith
    <3> DEFINE k == [m EXCEPT ![f] = e]
    <3>2. k \in Manifest
      BY <1>0, <2>1, DirOfIsDir, ManifestWith
    <3>3. o \in Op /\ o.pc = "recording"
      BY <1>0 DEF Op
    <3>4. held' = [held EXCEPT ![s] = k] /\ op' = [op EXCEPT ![w] = o]
      BY <2>2, <3>1
    <3> HIDE DEF k, o
    <3> QED
      BY <2>1, <3>2, <3>3, <3>4, WriterLocks
  <2>3. CASE UNCHANGED held /\ op' = [op EXCEPT ![w] = Idle]
    BY <1>7, <2>1, <2>3 DEF Idle
  <2> QED
    BY <2>1, <2>2, <2>3
<1>14. ASSUME NEW w \in Writer, FilesAfter(w) PROVE HoldersHold'
  <2>1. /\ op[w].pc = "recording" /\ op' = [op EXCEPT ![w] = Idle] /\ UNCHANGED <<turn, rest>>
        /\ held' = [held EXCEPT ![SessionOf[w]] = None]
    BY <1>14 DEF FilesAfter, WriteBack
  <2>2. Locks(w) /\ Idle.pc = "idle" /\ Idle \in Op /\ turn[SessionOf[w]].at = "running"
    BY <1>0, <2>1, IdleIsOp DEF Locks, Idle
  <2> QED
    BY <2>1, <2>2, WriterUnlocks
<1>15. ASSUME NEW w \in Writer, AppliesNext(w) \/ RollsBackNext(w) \/ BatchFails(w)
       PROVE  HoldersHold'
  <2>1. UNCHANGED <<held, turn, rest>>
    BY <1>15 DEF AppliesNext, RollsBackNext, BatchFails
  <2>2. op'[w].pc \in {"idle", "apply", "failed", "rollback"} /\ \A v \in Writer : v # w => op'[v] = op[v]
    BY <1>0, <1>15 DEF AppliesNext, RollsBackNext, BatchFails, Idle, Op
  <2> QED
    BY <2>1, <2>2, HoldersStay
<1>16. ASSUME NEW r \in Restorer, NEW s \in Session, NEW n \in Number, NEW force \in BOOLEAN,
              Restore(r, s, n, force)
       PROVE  HoldersHold'
  <2>1. UNCHANGED <<held, turn, op>>
    BY <1>16 DEF Restore
  <2>2. rest'[r].pc = "number" /\ \A v \in Restorer : v # r => rest'[v] = rest[v]
    BY <1>0, <1>16 DEF Restore, NoRollback
  <2> QED
    BY <2>1, <2>2, HoldersStay
<1>17. ASSUME NEW r \in Restorer, NumbersUndo(r) \/ DecidesNext(r) \/ WritesNext(r)
       PROVE  HoldersHold'
  <2>1. UNCHANGED <<held, turn, op>>
    BY <1>17 DEF NumbersUndo, DecidesNext, WritesNext
  <2>2. /\ rest'[r].pc \in {"copy", "decide", "write", "idle"}
        /\ \A v \in Restorer : v # r => rest'[v] = rest[v]
    BY <1>17, RollbackIsBack
  <2> QED
    BY <2>1, <2>2, HoldersStay
<1>18. ASSUME NEW r \in Restorer, CopiesNext(r) PROVE HoldersHold'
  <2> DEFINE q == rest[r]
             p == rest'[r]
  <2>1. /\ q.s \in Session /\ q.undo \in Number /\ UNCHANGED <<turn, op>>
        /\ rest' = [rest EXCEPT ![r] = p]
        /\ \/ UNCHANGED held /\ p.pc # "copied"
           \/ /\ p.pc = "copied"
              /\ \/ held' = [held EXCEPT ![r] = DirOf(q.s, q.undo).files]
                 \/ \E f \in File : \E pre \in {disk[f], None} :
                      HoldsWith(r, q.s, q.undo, f, [pre |-> pre, after |-> NoHash])
    BY <1>18, CopiesNextDoes
  <2>2. CASE UNCHANGED held /\ p.pc # "copied"
    <3>1. \A v \in Restorer : v # r => rest'[v] = rest[v]
      BY <1>0, <2>1
    <3> QED
      BY <2>1, <2>2, <3>1, HoldersStay
  <2> HIDE DEF p
  <2>3. CASE held' = [held EXCEPT ![r] = DirOf(q.s, q.undo).files]
    <3> DEFINE m == DirOf(q.s, q.undo).files
    <3>1. m \in Manifest /\ m # None
      BY <1>0, <2>1, DirOfIsDir, NoneIsNoRecord
    <3>2. held' = [held EXCEPT ![r] = m]
      BY <2>3
    <3> HIDE DEF m
    <3> QED
      BY <2>1, <3>1, <3>2, RollbackLocks
  <2>4. CASE \E f \in File : \E pre \in {disk[f], None} :
                HoldsWith(r, q.s, q.undo, f, [pre |-> pre, after |-> NoHash])
    <3>1. PICK f \in File, e \in FileEntry :
            held' = [held EXCEPT ![r] = [DirOf(q.s, q.undo).files EXCEPT ![f] = e]]
      BY <2>4 DEF HoldsWith
    <3> DEFINE m == [DirOf(q.s, q.undo).files EXCEPT ![f] = e]
    <3>2. m \in Manifest /\ m # None
      BY <1>0, <2>1, DirOfIsDir, ManifestWith, NoneIsNoRecord
    <3>3. held' = [held EXCEPT ![r] = m]
      BY <3>1
    <3> HIDE DEF m
    <3> QED
      BY <2>1, <3>2, <3>3, RollbackLocks
  <2> QED
    BY <2>1, <2>2, <2>3, <2>4 DEF p
<1>19. ASSUME NEW r \in Restorer, FilesCopy(r) PROVE HoldersHold'
  <2> DEFINE q == rest[r]
             p == rest'[r]
  <2>1. /\ q.s \in Session /\ UNCHANGED op /\ rest' = [rest EXCEPT ![r] = p] /\ p.pc # "copied"
    BY <1>19, FilesCopyDoes
  <2>2. PICK ok \in BOOLEAN, X \in SUBSET File :
          WriteBack(r, q.s, q.undo, ok) /\ (UNCHANGED turn \/ Loses(q.s, X))
    BY <1>19, FilesCopyDoes
  <2>3. \A u \in Session : turn'[u].at = turn[u].at
    BY <1>0, <2>1, <2>2, LosesTypes
  <2>4. held' = [held EXCEPT ![r] = None]
    BY <2>2 DEF WriteBack
  <2> HIDE DEF p
  <2> QED
    BY <2>1, <2>3, <2>4, RollbackLocks
<1>20. ASSUME NEW f \in File, Outside(f) PROVE HoldersHold'
  BY <1>20, HoldersStay DEF Outside
<1>21. ASSUME Crash PROVE HoldersHold'
  BY <1>21 DEF Crash, HoldersHold, Locks, Idle, NoTurn, NoRollback
<1>22. ASSUME UNCHANGED vars PROVE HoldersHold'
  BY <1>22, HoldersStay DEF vars
<1> QED
  BY <1>1, <1>2, <1>3, <1>4, <1>5, <1>6, <1>8, <1>9, <1>10, <1>11, <1>12, <1>13, <1>14,
     <1>15, <1>16, <1>17, <1>18, <1>19, <1>20, <1>21, <1>22 DEF Next

LEMMA HoldersInit == Init => HoldersHold
BY DEF Init, HoldersHold, Locks, Idle, NoTurn, NoRollback

\* Every reachable state is well typed: no directory is ever given a number past
\* those that turns and rollbacks may take, and what is on record of a file is a
\* content or that it was skipped (NextTurn, nextTurnNumber, writeManifest).
THEOREM WellTyped == Spec => []TypeOK
<1>1. Types => TypeOK
  BY DEF Types
<1>2. Init => Types /\ HoldersHold
  BY TypesInit, HoldersInit
<1>3. Types /\ HoldersHold /\ [Next]_vars => Types' /\ HoldersHold'
  BY TypesStep, HoldersStep
<1> QED
  BY <1>1, <1>2, <1>3, PTL DEF Spec


-----------------------------------------------------------------------------
(* A turn's pre-images, and its batches.                                   *)

Here(s, f) == Entry(s, turn[s].n, f)

Kept(s, f) == f \in turn[s].lost \/ Here(s, f) # None

\* The files a writer has captured.
Done(w) ==
  IF op[w].pc \in {"capture", "files"} THEN op[w].files \ op[w].todo
  ELSE IF op[w].pc \in {"write", "apply", "rollback"} THEN op[w].files
  ELSE {}

\* No writer touches a file before it is filed, so a file that is not filed is as
\* the turn found it.
FiledFirst == \A w \in Writer : \A f \in Done(w) : Kept(SessionOf[w], f)

\* What is about to be written of f has what is on disk of it, or it is new, and
\* of f as the turn found it.
Follows(s, f) ==
  LET e == held[s][f]
  IN  \/ e = None /\ Here(s, f) = None
      \/ e # None /\ Here(s, f) # None /\ e.pre = Here(s, f).pre
      \/ /\ e # None /\ Here(s, f) = None
         /\ e.pre = None \/ f \in raced[s] \/ e.pre = turn[s].start[f]
         /\ \E w \in Writer : SessionOf[w] = s /\ op[w].pc = "files" /\ f = Min(op[w].todo)

HeldFollows ==
  \A s \in Session :
    turn[s].at = "running" /\ held[s] # None =>
      \A f \in File \ turn[s].lost : Follows(s, f)

\* The files of a batch that are as they were when it was planned: what it has
\* not written yet, and what it has put back.
Untouched(w) ==
  IF ~ op[w].batch THEN {}
  ELSE IF op[w].pc \in {"capture", "files"} THEN op[w].files
  ELSE IF op[w].pc = "apply" THEN op[w].todo
  ELSE IF op[w].mixed THEN {}
  ELSE op[w].files \ op[w].todo

UntouchedIsOriginal ==
  \A w \in Writer : \A f \in Untouched(w) \ raced[w] : disk[f] = op[w].orig[f]

TurnInv == FiledFirst /\ FirstPreImage /\ HeldFollows /\ UntouchedIsOriginal

\* The steps that may disturb what an actor counts on without being noted as a race.
Acts(a) ==
  \/ /\ a \in Session
     /\ \/ BeginTurn(a)
        \/ \E w \in Writer : SessionOf[w] = a /\ (ToolWrites(w) \/ AppliesNext(w) \/ RollsBackNext(w))
  \/ /\ a \in Writer
     /\ \/ \E files \in Batches : PlanBatch(a, files)
        \/ AppliesNext(a) \/ RollsBackNext(a)

Undisturbed(a) == \A f \in File \ raced'[a] : f \notin raced[a] /\ disk'[f] = disk[f]

\* A write by anybody but an actor and its writers is noted with the actor.
LEMMA PutIsNoted ==
  ASSUME TypeFiles, NEW who, NEW g \in File, NEW v, Put(who, g, v), NEW a \in Actor, a \in Busy,
         who # a, ~ (who \in Writer /\ SessionOf[who] = a)
  PROVE  Undisturbed(a)
BY DEF TypeFiles, Put, Undisturbed

\* A step that writes nothing disturbs nobody.
LEMMA NobodyWrites ==
  ASSUME NEW a \in Actor, disk' = disk, raced'[a] = raced[a]
  PROVE  Undisturbed(a)
BY DEF Undisturbed

\* The file a writer's next step writes, if it writes one.
LEMMA WriterPuts ==
  ASSUME Types, NEW w \in Writer, ToolWrites(w) \/ AppliesNext(w) \/ RollsBackNext(w)
  PROVE  /\ UNCHANGED <<dirVars, turn, rest>>
         /\ \/ UNCHANGED fileVars
            \/ \E f \in Done(w), v \in Content : Put(w, f, v)
<1>1. op[w] \in Op /\ TypeFiles /\ GoesOn(op[w])
  BY DEF Types, TypeOK, TypeOps, CallsGoOn
<1>2. CASE ToolWrites(w)
  <2>1. op[w].pc = "write" /\ (UNCHANGED fileVars \/ \E f \in op[w].files : PutNew(w, f))
    BY <1>2 DEF ToolWrites
  <2>2. Done(w) = op[w].files /\ op[w].files \subseteq File
    BY <1>1, <2>1 DEF Done, Op
  <2> QED
    BY <1>1, <1>2, <2>1, <2>2, PutNewWrites DEF ToolWrites
<1>3. CASE AppliesNext(w)
  <2>1. op[w].pc = "apply" /\ (UNCHANGED fileVars \/ PutNew(w, Min(op[w].todo)))
    BY <1>3 DEF AppliesNext
  <2>2. Done(w) = op[w].files /\ op[w].files \subseteq File /\ Min(op[w].todo) \in op[w].files
    BY <1>1, <2>1, NextIsToDo DEF Done, Op, GoesOn
  <2> QED
    BY <1>1, <1>3, <2>1, <2>2, PutNewWrites DEF AppliesNext
<1>4. CASE RollsBackNext(w)
  <2>1. /\ op[w].pc = "rollback"
        /\ UNCHANGED fileVars \/ Put(w, Min(op[w].todo), op[w].orig[Min(op[w].todo)])
    BY <1>4 DEF RollsBackNext
  <2>2. Done(w) = op[w].files /\ op[w].files \subseteq File /\ Min(op[w].todo) \in op[w].files
    BY <1>1, <2>1, NextIsToDo DEF Done, Op, GoesOn
  <2>3. op[w].orig[Min(op[w].todo)] \in Content
    BY <1>1, <2>2 DEF Op
  <2> QED
    BY <1>4, <2>1, <2>2, <2>3 DEF RollsBackNext
<1> QED
  BY <1>2, <1>3, <1>4

\* The file phase two of a rollback is at.
LEMMA RollbackPuts ==
  ASSUME Types, NEW r \in Restorer, WritesNext(r)
  PROVE  LET f == Min(rest[r].todo)
         IN  /\ f \in rest[r].todo /\ f \in File /\ rest[r].m[f].pre \in Content
             /\ UNCHANGED <<dirVars, turn, op, ended>>
             /\ UNCHANGED fileVars \/ (Put(r, f, rest[r].m[f].pre) /\ UNCHANGED clock)
<1> DEFINE f == Min(rest[r].todo)
<1>1. rest[r] \in Rollback /\ Goes(rest[r]) /\ rest[r].pc = "write"
  BY DEF Types, TypeOK, TypeRests, RollbacksGoOn, WritesNext
<1>2. f \in rest[r].todo /\ f \in File
  BY <1>1, NextIsToDo DEF Rollback, Goes
<1>3. rest[r].m \in Manifest /\ rest[r].m[f] # None /\ rest[r].m[f].pre # None
  BY <1>1, <1>2 DEF Goes, Covered, Captured, Rollback
<1>4. rest[r].m[f].pre \in Content
  <2> HIDE DEF f
  <2> QED
    BY <1>2, <1>3, RecordIsOne DEF FileEntry
<1> QED
  BY <1>2, <1>4 DEF WritesNext

\* Whoever else writes a file an actor counts on is noted.
LEMMA OthersAreNoted ==
  ASSUME Types, [Next]_vars, NEW a \in Actor, a \in Busy, ~ Acts(a)
  PROVE  Undisturbed(a)
<1>1. TypeFiles
  BY DEF Types, TypeOK
<1>2. \A x \in Actor : raced' = [raced EXCEPT ![x] = {}] /\ x # a => raced'[a] = raced[a]
  BY <1>1 DEF TypeFiles
<1>3. ASSUME NEW s \in Session, NextTurn(s) \/ OpensTurn(s) \/ ClosesTurn(s) \/ EndTurn(s) \/ Prune(s)
      PROVE  Undisturbed(a)
  BY <1>3, NobodyWrites DEF NextTurn, OpensTurn, ClosesTurn, EndTurn, Prune, fileVars
<1>4. ASSUME NEW s \in Session, BeginTurn(s) PROVE Undisturbed(a)
  BY <1>2, <1>4, NobodyWrites DEF BeginTurn, Begins, Acts, Actor
<1>5. ASSUME NEW w \in Writer, NEW f \in Paths, GuardedCall(w, f) PROVE Undisturbed(a)
  BY <1>5, NobodyWrites DEF GuardedCall, fileVars
<1>6. ASSUME NEW w \in Writer, CapturesNext(w) \/ FilesCapture(w) PROVE Undisturbed(a)
  BY <1>6, NobodyWrites DEF CapturesNext, FilesCapture, fileVars
<1>7. ASSUME NEW w \in Writer, ReadsAfter(w) \/ RecordAfter(w) \/ FilesAfter(w) \/ BatchFails(w)
      PROVE  Undisturbed(a)
  BY <1>7, NobodyWrites DEF ReadsAfter, RecordAfter, FilesAfter, BatchFails, fileVars
<1>8. ASSUME NEW w \in Writer, ToolWrites(w) \/ AppliesNext(w) \/ RollsBackNext(w)
      PROVE  Undisturbed(a)
  <2>1. CASE UNCHANGED fileVars
    BY <2>1, NobodyWrites DEF fileVars
  <2>2. CASE \E f \in Done(w), v \in Content : Put(w, f, v)
    <3>1. PICK f \in Done(w), v \in Content : Put(w, f, v)
      BY <2>2
    <3>2. f \in File
      BY DEF Types, TypeOK, TypeOps, Op, Done
    <3>3. SessionOf[w] # a
      BY <1>8, CheckpointAssumption DEF Acts
    <3>4. w # a
      <4>1. CASE AppliesNext(w) \/ RollsBackNext(w)
        BY <4>1 DEF Acts
      <4>2. CASE ToolWrites(w)
        <5>1. ~ op[w].batch
          BY <4>2 DEF ToolWrites, Types, CallsGoOn, GoesOn
        <5> QED
          BY <5>1, CheckpointAssumption DEF Busy
      <4> QED
        BY <1>8, <4>1, <4>2
    <3> QED
      BY <1>1, <3>1, <3>2, <3>3, <3>4, PutIsNoted
  <2> QED
    BY <1>8, <2>1, <2>2, WriterPuts
<1>9. ASSUME NEW w \in Writer, NEW files \in Batches, PlanBatch(w, files) PROVE Undisturbed(a)
  <2>1. w # a
    BY <1>9 DEF Acts
  <2> QED
    BY <1>2, <1>9, <2>1, NobodyWrites DEF PlanBatch, Begins, Actor
<1>10. ASSUME NEW r \in Restorer, NEW s \in Session, NEW n \in Number, NEW force \in BOOLEAN,
              Restore(r, s, n, force)
       PROVE  Undisturbed(a)
  BY <1>10, NobodyWrites DEF Restore, fileVars
<1>11. ASSUME NEW r \in Restorer, NumbersUndo(r) \/ DecidesNext(r) PROVE Undisturbed(a)
  BY <1>11, NobodyWrites DEF NumbersUndo, DecidesNext, fileVars
<1>12. ASSUME NEW r \in Restorer, CopiesNext(r) \/ FilesCopy(r) PROVE Undisturbed(a)
  BY <1>12, NobodyWrites DEF CopiesNext, FilesCopy, fileVars
<1>13. ASSUME NEW r \in Restorer, WritesNext(r) PROVE Undisturbed(a)
  <2>1. r # a /\ r \notin Writer
    BY CheckpointAssumption DEF Actor
  <2>2. /\ Min(rest[r].todo) \in File
        /\ UNCHANGED fileVars \/ Put(r, Min(rest[r].todo), rest[r].m[Min(rest[r].todo)].pre)
    BY <1>13, RollbackPuts
  <2> QED
    BY <1>1, <2>1, <2>2, PutIsNoted, NobodyWrites DEF fileVars
<1>14. ASSUME NEW f \in File, Outside(f) PROVE Undisturbed(a)
  <2>1. None # a /\ None \notin Writer
    BY CheckpointAssumption DEF Actor
  <2>2. \E v : Put(None, f, v)
    BY <1>14 DEF Outside, PutNew
  <2> QED
    BY <1>1, <2>1, <2>2, PutIsNoted
<1>15. CASE Crash \/ UNCHANGED vars
  BY <1>15, NobodyWrites DEF Crash, vars, fileVars
<1> QED
  BY <1>3, <1>4, <1>5, <1>6, <1>7, <1>8, <1>9, <1>10, <1>11, <1>12, <1>13, <1>14, <1>15 DEF Next

\* A turn that runs has just begun, or goes on: it may only miss more files.
SameTurn(s) ==
  /\ turn[s].at = "running"
  /\ turn'[s].n = turn[s].n /\ turn'[s].start = turn[s].start
  /\ turn[s].lost \subseteq turn'[s].lost

\* What a step makes of the books of a turn that goes on: nothing,
Leaves(s) ==
  /\ held'[s] = held[s]
  /\ \A f \in File \ turn'[s].lost : Here(s, f)' = Here(s, f)
  /\ \A w \in Writer : SessionOf[w] = s /\ op[w].pc = "files" => op'[w] = op[w]

\* a writer has read them, to add a file or a hash,
Takes(s, w) ==
  /\ SessionOf[w] = s /\ held[s] = None /\ UNCHANGED fileVars
  /\ \A f \in File : Here(s, f)' = Here(s, f)
  /\ \E g \in File, e \in FileEntry :
       /\ held'[s] = [DirOf(s, turn[s].n).files EXCEPT ![g] = e]
       /\ \/ /\ Here(s, g) = None /\ e.pre \in {disk[g], None}
             /\ op'[w].pc = "files" /\ g = Min(op'[w].todo)
          \/ Here(s, g) # None /\ e.pre = Here(s, g).pre

\* or has written them, or could not.
Returns(s, w) ==
  /\ SessionOf[w] = s /\ Locks(w) /\ held[s] # None /\ held'[s] = None /\ UNCHANGED fileVars
  /\ \/ \A f \in File : Here(s, f)' = Here(s, f)
     \/ /\ \A f \in File : Here(s, f)' = held[s][f]
        /\ (op[w].pc = "files" /\ Min(op[w].todo) \notin turn'[s].lost) =>
              held[s][Min(op[w].todo)].pre # None

GoesOnSo(s) == SameTurn(s) /\ (Leaves(s) \/ \E w \in Writer : Takes(s, w) \/ Returns(s, w))

\* What leaves a turn, its directory and its writers alone leaves its books alone.
LEMMA LeavesAlone ==
  ASSUME NEW s \in Session, turn[s].at = "running", turn'[s] = turn[s], held'[s] = held[s],
         DirOf(s, turn[s].n)'.files = DirOf(s, turn[s].n).files,
         \A w \in Writer : SessionOf[w] = s /\ op[w].pc = "files" => op'[w] = op[w]
  PROVE  GoesOnSo(s)
BY DEF GoesOnSo, SameTurn, Leaves, Here, Entry, DirOf

\* A turn that runs has just begun, or goes on so.
LEMMA TurnGoesOn ==
  ASSUME Types, HoldersHold, [Next]_vars, NEW s \in Session, turn'[s].at = "running"
  PROVE  BeginTurn(s) \/ GoesOnSo(s)
<1>0. /\ TypeDirs /\ TypeFiles /\ TypeTurns /\ TypeUsed
      /\ turn \in [Session -> Turn] /\ op \in [Writer -> Op] /\ rest \in [Restorer -> Rollback]
      /\ turn[s] \in Turn /\ s \in Checkpointer /\ s \notin Restorer
      /\ held \in [Checkpointer -> Manifest \cup {None}]
      /\ (turn[s].at = "running" => turn[s].n \in Number)
  BY CheckpointAssumption
     DEF Types, TypeOK, TypeTurns, TypeOps, TypeRests, Checkpointer, TypeDirs
<1>1. ASSUME turn'[s] = turn[s], held'[s] = held[s], UNCHANGED op,
             SameFiles \/ \E u \in Session \ {s}, n \in Number : \E m : SetsFiles(u, n, m)
      PROVE  GoesOnSo(s)
  <2>1. turn[s].at = "running" /\ turn[s].n \in Number
    BY <1>0, <1>1
  <2> QED
    BY <1>1, <2>1, LeavesAlone DEF SameFiles, SetsFiles
<1>2. ASSUME UNCHANGED <<turn, dirVars>>, NEW w \in Writer, op[w].pc # "files",
             \A v \in Writer : v # w => op'[v] = op[v]
      PROVE  GoesOnSo(s)
  <2>1. DirOf(s, turn[s].n)'.files = DirOf(s, turn[s].n).files
    BY <1>2 DEF DirOf, dirVars
  <2> QED
    BY <1>2, <2>1, LeavesAlone DEF dirVars
<1>3. UNCHANGED dirVars => SameFiles /\ held'[s] = held[s]
  BY DEF SameFiles, DirOf, dirVars
<1>4. ASSUME NEW u \in Session, NextTurn(u) \/ OpensTurn(u) \/ ClosesTurn(u) PROVE GoesOnSo(s)
  <2>1. u # s
    BY <1>0, <1>4 DEF NextTurn, OpensTurn, ClosesTurn, NoTurn, Turn
  <2>2. UNCHANGED op
    BY <1>4 DEF NextTurn, OpensTurn, ClosesTurn
  <2>3. turn'[s] = turn[s]
    BY <1>0, <1>4, <2>1 DEF NextTurn, OpensTurn, ClosesTurn
  <2>4. UNCHANGED store /\ held'[s] = held[s]
    BY <1>0, <1>4, <2>1 DEF NextTurn, OpensTurn, ClosesTurn, dirVars, Holds
  <2>5. SameFiles
    BY <2>4 DEF SameFiles, DirOf
  <2> QED
    BY <1>1, <2>2, <2>3, <2>4, <2>5
<1>5. ASSUME NEW u \in Session, BeginTurn(u) \/ EndTurn(u), ~ BeginTurn(s) PROVE GoesOnSo(s)
  <2>1. u # s
    BY <1>0, <1>5 DEF EndTurn, Turn
  <2>2. /\ turn[u].at \in {"opening", "closing"} /\ UNCHANGED op
        /\ \E ok \in BOOLEAN : WriteBack(u, u, turn[u].n, ok)
    BY <1>5 DEF BeginTurn, EndTurn
  <2>3. turn'[s] = turn[s]
    BY <1>0, <1>5, <2>1 DEF BeginTurn, EndTurn
  <2>4. turn[u].n \in Number /\ held[u] # None /\ u \in Checkpointer
    BY <1>0, <2>2 DEF TypeTurns, HoldersHold, Checkpointer
  <2>5. /\ held' = [held EXCEPT ![u] = None]
        /\ SameFiles \/ SetsFiles(u, turn[u].n, held[u])
    BY <1>0, <2>2, <2>4, WriteBackWrites
  <2> QED
    BY <1>0, <1>1, <2>1, <2>2, <2>3, <2>4, <2>5
<1>6. ASSUME NEW u \in Session, Prune(u) PROVE GoesOnSo(s)
  <2>1. PICK doomed : Drops(u, doomed)
    BY <1>6, PruneDrops
  <2>2. UNCHANGED <<held, op>>
    BY <1>6 DEF Prune
  <2>3. u # s
    BY <1>0, <2>1 DEF Drops, NoTurn
  <2>4. turn'[s] = IF turn[s].at = "running" /\ <<s, turn[s].n>> \in doomed
                   THEN [turn[s] EXCEPT !.lost = File] ELSE turn[s]
    BY <2>1, <2>3 DEF Drops
  <2>5. CASE turn[s].at = "running" /\ <<s, turn[s].n>> \in doomed
    <3>1. /\ turn'[s].n = turn[s].n /\ turn'[s].start = turn[s].start /\ turn'[s].lost = File
          /\ turn[s].lost \subseteq File
      BY <1>0, <2>4, <2>5 DEF Turn
    <3> QED
      BY <2>2, <2>5, <3>1 DEF GoesOnSo, SameTurn, Leaves
  <2>6. CASE ~ (turn[s].at = "running" /\ <<s, turn[s].n>> \in doomed)
    <3>1. turn'[s] = turn[s] /\ turn[s].at = "running" /\ turn[s].n \in Number
      BY <1>0, <2>4, <2>6
    <3>2. store'[s][turn[s].n] = store[s][turn[s].n]
      BY <2>1, <2>6, <3>1 DEF Drops
    <3>3. DirOf(s, turn[s].n)'.files = DirOf(s, turn[s].n).files
      BY <3>1, <3>2 DEF DirOf
    <3> QED
      BY <2>2, <3>1, <3>3, LeavesAlone
  <2> QED
    BY <2>5, <2>6
<1>7. ASSUME NEW w \in Writer, NEW f \in Paths, GuardedCall(w, f) PROVE GoesOnSo(s)
  BY <1>0, <1>2, <1>7 DEF GuardedCall, CanCall
<1>8. ASSUME NEW w \in Writer, NEW files \in Batches, PlanBatch(w, files) PROVE GoesOnSo(s)
  BY <1>0, <1>2, <1>8 DEF PlanBatch, CanCall
<1>9. ASSUME NEW w \in Writer, CapturesNext(w) PROVE GoesOnSo(s)
  <2> DEFINE u == SessionOf[w]
             n == turn[u].n
             f == Min(op[w].todo)
  <2>1. /\ op[w].pc = "capture" /\ turn[u].at = "running"
        /\ u \in Session /\ n \in Number /\ f \in op[w].todo /\ f \in File
        /\ held[u] = None /\ UNCHANGED fileVars /\ SameFiles
        /\ \/ /\ Entry(u, n, f) = None
              /\ \E pre \in {disk[f], None} : HoldsWith(u, u, n, f, [pre |-> pre, after |-> NoHash])
              /\ op' = [op EXCEPT ![w] = [op[w] EXCEPT !.pc = "files"]]
              /\ UNCHANGED turn
           \/ /\ UNCHANGED held
              /\ op' = [op EXCEPT ![w] = Onwards(op[w])]
              /\ \/ Entry(u, n, f) # None /\ UNCHANGED turn
                 \/ Loses(u, {f})
    BY <1>9, CapturesNextDoes
  <2>2. \A v \in Writer : v # w => op'[v] = op[v]
    BY <1>0, <2>1
  <2>3. \A v \in Writer : op[v].pc = "files" => op'[v] = op[v]
    BY <2>1, <2>2
  <2>4. UNCHANGED turn \/ Loses(u, {f})
    BY <2>1
  <2>5. {f} \in SUBSET File
    BY <2>1
  <2>6. CASE u # s
    <3>1. turn'[s].n = turn[s].n /\ turn'[s].start = turn[s].start /\ turn'[s].at = turn[s].at
          /\ turn'[s].lost = turn[s].lost
      BY <1>0, <2>1, <2>4, <2>5, <2>6, LosesTypes
    <3>2. held'[s] = held[s]
      BY <1>0, <2>1, <2>6 DEF HoldsWith
    <3>3. turn[s].n \in Number
      BY <1>0, <3>1
    <3>4. \A g \in File : Here(s, g)' = Here(s, g)
      BY <2>1, <3>1, <3>3 DEF SameFiles, Here, Entry
    <3> QED
      BY <2>3, <3>1, <3>2, <3>4 DEF GoesOnSo, SameTurn, Leaves
  <2>7. CASE u = s /\ UNCHANGED held
    <3>1. turn'[s].n = turn[s].n /\ turn'[s].start = turn[s].start
          /\ turn[s].lost \subseteq turn'[s].lost
      <4>1. CASE UNCHANGED turn
        BY <4>1
      <4>2. CASE Loses(s, {f})
        BY <1>0, <2>5, <4>2, LosesTypes
      <4> QED
        BY <2>4, <2>7, <4>1, <4>2
    <3>2. \A g \in File : Here(s, g)' = Here(s, g)
      BY <2>1, <2>7, <3>1 DEF SameFiles, Here, Entry
    <3> QED
      BY <2>1, <2>3, <2>7, <3>1, <3>2 DEF GoesOnSo, SameTurn, Leaves
  <2>8. CASE /\ u = s /\ Entry(u, n, f) = None
             /\ \E pre \in {disk[f], None} : HoldsWith(u, u, n, f, [pre |-> pre, after |-> NoHash])
             /\ op' = [op EXCEPT ![w] = [op[w] EXCEPT !.pc = "files"]]
             /\ UNCHANGED turn
    <3>1. PICK pre \in {disk[f], None} : HoldsWith(u, u, n, f, [pre |-> pre, after |-> NoHash])
      BY <2>8
    <3> DEFINE e == [pre |-> pre, after |-> NoHash]
    <3>2. e \in FileEntry /\ e.pre = pre /\ held' = [held EXCEPT ![s] = [DirOf(s, n).files EXCEPT ![f] = e]]
      BY <2>8, <3>1 DEF HoldsWith
    <3>3. op'[w].pc = "files" /\ op'[w].todo = op[w].todo
      BY <1>0, <2>8 DEF Op
    <3> HIDE DEF e
    <3>4. held'[s] = [DirOf(s, n).files EXCEPT ![f] = e]
      BY <1>0, <3>2
    <3>5. \A g \in File : Here(s, g)' = Here(s, g)
      BY <2>1, <2>8 DEF SameFiles, Here, Entry
    <3>6. SameTurn(s)
      BY <2>1, <2>8 DEF SameTurn
    <3>7. /\ Here(s, f) = None /\ e.pre \in {disk[f], None} /\ f = Min(op'[w].todo)
          /\ SessionOf[w] = s /\ held[s] = None
      BY <2>1, <2>8, <3>2, <3>3 DEF Here
    <3>8. Takes(s, w)
      <4> HIDE DEF f
      <4> QED
        BY <2>1, <2>8, <3>2, <3>3, <3>4, <3>5, <3>7 DEF Takes
    <3> QED
      BY <3>6, <3>8 DEF GoesOnSo
  <2> QED
    BY <2>1, <2>6, <2>7, <2>8
<1>10. ASSUME NEW w \in Writer, FilesCapture(w) PROVE GoesOnSo(s)
  <2> DEFINE u == SessionOf[w]
             n == turn[u].n
             f == Min(op[w].todo)
  <2>1. /\ op[w].pc = "files" /\ turn[u].at = "running"
        /\ u \in Session /\ n \in Number /\ f \in File
        /\ held[u] # None /\ held[u][f] # None
        /\ op' = [op EXCEPT ![w] = Onwards(op[w])] /\ UNCHANGED fileVars
    BY <1>10, FilesCaptureDoes
  <2>2. PICK ok \in BOOLEAN, X \in {{}, {f}} :
          /\ WriteBack(u, u, n, ok) /\ Loses(u, X)
          /\ X = {} => ok /\ held[u][f].pre # None
    BY <1>10, FilesCaptureDoes
  <2>3. X \in SUBSET File /\ u \in Checkpointer
    BY <2>1, <2>2 DEF Checkpointer
  <2>4. /\ held' = [held EXCEPT ![u] = None]
        /\ ok => SetsFiles(u, n, held[u])
        /\ ~ ok => SameFiles
    BY <1>0, <2>1, <2>2, <2>3, WriteBackWrites
  <2>5. /\ turn'[s].n = turn[s].n /\ turn'[s].start = turn[s].start /\ turn'[s].at = turn[s].at
        /\ turn'[s].lost = IF s = u THEN turn[s].lost \cup X ELSE turn[s].lost
    BY <1>0, <2>1, <2>2, <2>3, LosesTypes
  <2>6. SameTurn(s) /\ turn[s].n \in Number
    BY <1>0, <2>5 DEF SameTurn
  <2>7. \A g \in File : Here(s, g)' = IF s = u /\ ok THEN held[s][g] ELSE Here(s, g)
    BY <2>4, <2>5, <2>6 DEF SetsFiles, SameFiles, Here, Entry
  <2>8. CASE u # s
    <3>1. held'[s] = held[s] /\ \A v \in Writer : SessionOf[v] = s => op'[v] = op[v]
      BY <1>0, <2>1, <2>4, <2>8
    <3> QED
      BY <2>6, <2>7, <2>8, <3>1 DEF GoesOnSo, Leaves
  <2>9. CASE u = s
    <3>1. held'[s] = None /\ Locks(w)
      BY <1>0, <2>1, <2>4, <2>9 DEF Locks
    <3>2. f \notin turn'[s].lost => held[s][f].pre # None
      BY <2>2, <2>5, <2>9
    <3>3. Returns(s, w)
      BY <2>1, <2>7, <2>9, <3>1, <3>2 DEF Returns
    <3> QED
      BY <2>6, <3>3 DEF GoesOnSo
  <2> QED
    BY <2>8, <2>9
<1>11. ASSUME NEW w \in Writer, RecordAfter(w) PROVE GoesOnSo(s)
  <2> DEFINE u == SessionOf[w]
             n == turn[u].n
             m == DirOf(u, n).files
  <2>1. /\ op[w].pc = "record" /\ turn[u].at = "running"
        /\ u \in Session /\ n \in Number /\ held[u] = None
        /\ UNCHANGED <<fileVars, store, age, turn>>
        /\ \/ /\ \E f \in File :
                   /\ m[f] # None
                   /\ HoldsWith(u, u, n, f, [m[f] EXCEPT !.after = op[w].saw])
              /\ op' = [op EXCEPT ![w] = [op[w] EXCEPT !.pc = "recording"]]
           \/ UNCHANGED held /\ op' = [op EXCEPT ![w] = Idle]
    BY <1>11, RecordAfterDoes
  <2>2. \A v \in Writer : v # w => op'[v] = op[v]
    BY <1>0, <2>1
  <2>3. SameFiles
    BY <2>1 DEF SameFiles, DirOf
  <2>4. CASE u # s \/ UNCHANGED held
    <3>1. held'[s] = held[s]
      BY <1>0, <2>1, <2>4 DEF HoldsWith
    <3>2. turn[s].at = "running" /\ turn[s].n \in Number
      BY <1>0, <2>1
    <3>3. DirOf(s, turn[s].n)'.files = DirOf(s, turn[s].n).files
      BY <2>1 DEF DirOf
    <3>4. \A v \in Writer : SessionOf[v] = s /\ op[v].pc = "files" => op'[v] = op[v]
      BY <2>1, <2>2
    <3> QED
      BY <2>1, <3>1, <3>2, <3>3, <3>4, LeavesAlone
  <2>5. CASE u = s /\ \E f \in File :
                   /\ m[f] # None
                   /\ HoldsWith(u, u, n, f, [m[f] EXCEPT !.after = op[w].saw])
    <3>1. PICK f \in File :
                   /\ m[f] # None
                   /\ HoldsWith(u, u, n, f, [m[f] EXCEPT !.after = op[w].saw])
      BY <2>5
    <3> DEFINE e == [m[f] EXCEPT !.after = op[w].saw]
    <3>2. m \in Manifest
      BY <1>0, <2>1, DirOfIsDir
    <3>3. m[f] \in FileEntry
      BY <3>1, <3>2, RecordIsOne
    <3>4. e \in FileEntry /\ e.pre = m[f].pre
      BY <3>1, <3>3 DEF FileEntry, HoldsWith
    <3>5. held' = [held EXCEPT ![s] = [m EXCEPT ![f] = e]]
      BY <2>5, <3>1 DEF HoldsWith
    <3> HIDE DEF e
    <3>6. held'[s] = [DirOf(s, turn[s].n).files EXCEPT ![f] = e]
      BY <1>0, <2>5, <3>5
    <3>7. \A g \in File : Here(s, g)' = Here(s, g)
      BY <2>1 DEF Here, Entry, DirOf
    <3>8. Here(s, f) # None /\ e.pre = Here(s, f).pre
      BY <2>5, <3>1, <3>4 DEF Here, Entry
    <3>9. Takes(s, w)
      BY <2>1, <2>5, <3>4, <3>6, <3>7, <3>8 DEF Takes
    <3>10. SameTurn(s)
      BY <2>1, <2>5 DEF SameTurn
    <3> QED
      BY <3>9, <3>10 DEF GoesOnSo
  <2> QED
    BY <2>1, <2>4, <2>5
<1>12. ASSUME NEW w \in Writer, FilesAfter(w) PROVE GoesOnSo(s)
  <2> DEFINE u == SessionOf[w]
             n == turn[u].n
  <2>1. /\ op[w].pc = "recording" /\ turn[u].at = "running" /\ u \in Session /\ n \in Number
        /\ op' = [op EXCEPT ![w] = Idle] /\ UNCHANGED <<fileVars, turn>>
        /\ u \in Checkpointer /\ Locks(w) /\ held[u] # None
    BY <1>0, <1>12, CheckpointAssumption
       DEF FilesAfter, Types, WritersAreRunning, TypeTurns, Checkpointer, Locks, HoldersHold
  <2>2. PICK ok \in BOOLEAN : WriteBack(u, u, n, ok)
    BY <1>12 DEF FilesAfter
  <2>3. /\ held' = [held EXCEPT ![u] = None]
        /\ ok => SetsFiles(u, n, held[u])
        /\ ~ ok => SameFiles
    BY <1>0, <2>1, <2>2, WriteBackWrites
  <2>4. SameTurn(s) /\ turn[s].n \in Number
    BY <1>0, <2>1 DEF SameTurn
  <2>5. \A g \in File : Here(s, g)' = IF s = u /\ ok THEN held[s][g] ELSE Here(s, g)
    BY <2>1, <2>3, <2>4 DEF SetsFiles, SameFiles, Here, Entry
  <2>6. CASE u # s
    <3>1. held'[s] = held[s] /\ \A v \in Writer : SessionOf[v] = s => op'[v] = op[v]
      BY <1>0, <2>1, <2>3, <2>6
    <3> QED
      BY <2>4, <2>5, <2>6, <3>1 DEF GoesOnSo, Leaves
  <2>7. CASE u = s
    <3>1. held'[s] = None
      BY <1>0, <2>3, <2>7
    <3>2. Returns(s, w)
      BY <2>1, <2>5, <2>7, <3>1 DEF Returns
    <3> QED
      BY <2>4, <3>2 DEF GoesOnSo
  <2> QED
    BY <2>6, <2>7
<1>13. ASSUME NEW w \in Writer, ToolWrites(w) \/ ReadsAfter(w) PROVE GoesOnSo(s)
  <2>1. /\ UNCHANGED <<turn, dirVars>> /\ op[w].pc # "files"
        /\ \A v \in Writer : v # w => op'[v] = op[v]
    BY <1>0, <1>13 DEF ToolWrites, ReadsAfter
  <2> QED
    BY <1>2, <2>1
<1>14. ASSUME NEW w \in Writer, AppliesNext(w) \/ RollsBackNext(w) \/ BatchFails(w)
       PROVE  GoesOnSo(s)
  <2>1. /\ UNCHANGED <<turn, dirVars>> /\ op[w].pc # "files"
        /\ \A v \in Writer : v # w => op'[v] = op[v]
    BY <1>0, <1>14 DEF AppliesNext, RollsBackNext, BatchFails
  <2> QED
    BY <1>2, <2>1
<1>15. ASSUME NEW r \in Restorer, NEW u \in Session, NEW n \in Number, NEW force \in BOOLEAN,
              Restore(r, u, n, force)
       PROVE  GoesOnSo(s)
  BY <1>1, <1>3, <1>15 DEF Restore
<1>16. ASSUME NEW r \in Restorer, NumbersUndo(r) \/ DecidesNext(r) \/ WritesNext(r)
       PROVE  GoesOnSo(s)
  BY <1>1, <1>3, <1>16 DEF NumbersUndo, DecidesNext, WritesNext
<1>17. ASSUME NEW r \in Restorer, CopiesNext(r) PROVE GoesOnSo(s)
  <2> DEFINE q == rest[r]
  <2>1. /\ UNCHANGED <<turn, op>> /\ SameFiles
        /\ \/ UNCHANGED held
           \/ held' = [held EXCEPT ![r] = DirOf(q.s, q.undo).files]
           \/ \E f \in File : \E pre \in {disk[f], None} :
                HoldsWith(r, q.s, q.undo, f, [pre |-> pre, after |-> NoHash])
    BY <1>17, CopiesNextDoes
  <2>2. held'[s] = held[s]
    BY <1>0, <2>1 DEF HoldsWith
  <2> QED
    BY <1>1, <2>1, <2>2
<1>18. ASSUME NEW r \in Restorer, FilesCopy(r) PROVE GoesOnSo(s)
  <2> DEFINE q == rest[r]
  <2>1. q.s \in Session /\ q.undo \in Number /\ held[r] # None /\ UNCHANGED <<fileVars, op>>
    BY <1>18, FilesCopyDoes
  <2>2. PICK ok \in BOOLEAN, X \in SUBSET File :
          /\ WriteBack(r, q.s, q.undo, ok)
          /\ UNCHANGED turn \/ Loses(q.s, X)
          /\ ok /\ turn[q.s].n = q.undo =>
               /\ Loses(q.s, X)
               /\ \A f \in File \ X : held[r][f] = Entry(q.s, q.undo, f)
    BY <1>18, FilesCopyDoes
  <2>3. r \in Checkpointer
    BY DEF Checkpointer
  <2>4. /\ held' = [held EXCEPT ![r] = None]
        /\ ok => SetsFiles(q.s, q.undo, held[r])
        /\ ~ ok => SameFiles
    BY <1>0, <2>1, <2>2, <2>3, WriteBackWrites
  <2>5. held'[s] = held[s]
    BY <1>0, <2>4
  <2>6. /\ turn'[s].n = turn[s].n /\ turn'[s].start = turn[s].start /\ turn'[s].at = turn[s].at
        /\ turn[s].lost \subseteq turn'[s].lost
    BY <1>0, <2>1, <2>2, LosesTypes
  <2>7. SameTurn(s) /\ turn[s].n \in Number
    BY <1>0, <2>6 DEF SameTurn
  <2>8. \A f \in File \ turn'[s].lost : Here(s, f)' = Here(s, f)
    <3>1. CASE ok /\ q.s = s /\ turn[s].n = q.undo
      <4>1. Loses(s, X) /\ \A f \in File \ X : held[r][f] = Here(s, f)
        BY <2>2, <3>1 DEF Here
      <4>3. X \subseteq turn'[s].lost
        BY <1>0, <4>1 DEF Loses, Turn
      <4>2. \A f \in File : Here(s, f)' = held[r][f]
        BY <2>4, <2>6, <2>7, <3>1 DEF SetsFiles, Here, Entry
      <4> QED
        BY <4>1, <4>2, <4>3
    <3>2. CASE ~ (ok /\ q.s = s /\ turn[s].n = q.undo)
      BY <2>4, <2>6, <2>7, <3>2 DEF SetsFiles, SameFiles, Here, Entry
    <3> QED
      BY <3>1, <3>2
  <2> QED
    BY <2>1, <2>5, <2>7, <2>8 DEF GoesOnSo, Leaves
<1>19. ASSUME NEW f \in File, Outside(f) PROVE GoesOnSo(s)
  BY <1>1, <1>3, <1>19 DEF Outside
<1>20. ASSUME Crash PROVE FALSE
  <2>1. turn'[s] = NoTurn
    BY <1>20 DEF Crash
  <2>2. NoTurn.at = "none"
    BY DEF NoTurn
  <2> QED
    BY <2>1, <2>2
<1>21. ASSUME UNCHANGED vars PROVE GoesOnSo(s)
  BY <1>1, <1>3, <1>21 DEF vars, dirVars
<1> QED
  BY <1>4, <1>5, <1>6, <1>7, <1>8, <1>9, <1>10, <1>11, <1>12, <1>13, <1>14, <1>15, <1>16,
     <1>17, <1>18, <1>19, <1>20, <1>21 DEF Next

\* A writer stays where it is, is done, or moves, by a step of its own.
Moves(w) ==
  \/ \E f \in Paths : GuardedCall(w, f)
  \/ \E files \in Batches : PlanBatch(w, files)
  \/ CapturesNext(w) \/ FilesCapture(w)
  \/ ToolWrites(w) \/ ReadsAfter(w) \/ RecordAfter(w) \/ AppliesNext(w) \/ RollsBackNext(w)

LEMMA WriterMoves ==
  ASSUME Types, [Next]_vars, NEW w \in Writer
  PROVE  op'[w] = op[w] \/ op'[w] = Idle \/ Moves(w)
<1>1. op \in [Writer -> Op]
  BY DEF Types, TypeOK, TypeOps
<1>2. ASSUME NEW s \in Session,
             \/ NextTurn(s) \/ OpensTurn(s) \/ BeginTurn(s)
             \/ ClosesTurn(s) \/ EndTurn(s) \/ Prune(s)
      PROVE  op' = op
  BY <1>2 DEF NextTurn, OpensTurn, BeginTurn, ClosesTurn, EndTurn, Prune
<1>3. ASSUME NEW v \in Writer, NEW f \in Paths, GuardedCall(v, f), v # w PROVE op'[w] = op[w]
  BY <1>1, <1>3 DEF GuardedCall
<1>4. ASSUME NEW v \in Writer, NEW files \in Batches, PlanBatch(v, files), v # w
      PROVE  op'[w] = op[w]
  BY <1>1, <1>4 DEF PlanBatch
<1>5. ASSUME NEW v \in Writer, ToolWrites(v) \/ ReadsAfter(v) \/ RecordAfter(v), v # w
      PROVE  op'[w] = op[w]
  BY <1>1, <1>5 DEF ToolWrites, ReadsAfter, RecordAfter
<1>6. ASSUME NEW v \in Writer, CapturesNext(v) \/ FilesCapture(v), v # w PROVE op'[w] = op[w]
  BY <1>1, <1>6 DEF CapturesNext, FilesCapture
<1>7. ASSUME NEW v \in Writer, AppliesNext(v) \/ RollsBackNext(v), v # w PROVE op'[w] = op[w]
  BY <1>1, <1>7 DEF AppliesNext, RollsBackNext
<1>8. ASSUME NEW v \in Writer, FilesAfter(v) \/ BatchFails(v) PROVE op'[w] \in {op[w], Idle}
  <2>1. op' = [op EXCEPT ![v] = Idle]
    BY <1>8 DEF FilesAfter, BatchFails
  <2> QED
    BY <1>1, <2>1
<1>9. ASSUME NEW r \in Restorer,
             NumbersUndo(r) \/ CopiesNext(r) \/ FilesCopy(r) \/ DecidesNext(r) \/ WritesNext(r)
      PROVE  op' = op
  BY <1>9 DEF NumbersUndo, CopiesNext, FilesCopy, DecidesNext, WritesNext
<1>10. ASSUME NEW r \in Restorer, NEW t \in Session, NEW n \in Number, NEW force \in BOOLEAN,
              Restore(r, t, n, force)
       PROVE  op' = op
  BY <1>10 DEF Restore
<1>11. ASSUME (\E f \in File : Outside(f)) \/ UNCHANGED vars PROVE op' = op
  BY <1>11 DEF Outside, vars
<1>12. Crash => op'[w] = Idle
  BY DEF Crash
<1> QED
  BY <1>2, <1>3, <1>4, <1>5, <1>6, <1>7, <1>8, <1>9, <1>10, <1>11, <1>12 DEF Next, Moves

\* A file that is filed, or lost, stays so while the turn runs.
LEMMA KeptStays ==
  ASSUME HeldFollows, NEW s \in Session, GoesOnSo(s), NEW f \in File, Kept(s, f)
  PROVE  Kept(s, f)'
<1>1. turn[s].at = "running" /\ turn[s].lost \subseteq turn'[s].lost
  BY DEF GoesOnSo, SameTurn
<1>2. CASE f \in turn'[s].lost
  BY <1>2 DEF Kept
<1>3. CASE f \notin turn'[s].lost
  <2>1. Here(s, f) # None /\ f \notin turn[s].lost
    BY <1>1, <1>3 DEF Kept
  <2>2. Here(s, f)' = Here(s, f) \/ (held[s] # None /\ Here(s, f)' = held[s][f])
    BY <1>3 DEF GoesOnSo, Leaves, Takes, Returns
  <2>3. held[s] # None => held[s][f] # None
    BY <1>1, <2>1 DEF HeldFollows, Follows
  <2>4. Here(s, f)' # None
    BY <2>1, <2>2, <2>3
  <2> QED
    BY <2>4 DEF Kept
<1> QED
  BY <1>2, <1>3

\* What a move makes of the files a writer has captured.
LEMMA MovesDone ==
  ASSUME Types, HoldersHold, NEW w \in Writer, Moves(w), NEW f \in File, f \in Done(w)'
  PROVE  \/ f \in Done(w)
         \/ /\ CapturesNext(w) \/ FilesCapture(w)
            /\ f = Min(op[w].todo) /\ op'[w] = Onwards(op[w])
<1>1. op \in [Writer -> Op] /\ op[w] \in Op /\ GoesOn(op[w])
  BY DEF Types, TypeOK, TypeOps, CallsGoOn
<1>2. ASSUME NEW g \in Paths, GuardedCall(w, g) PROVE FALSE
  <2> DEFINE o == [Idle EXCEPT !.pc = "capture", !.files = {g}, !.todo = {g}]
  <2>1. o.pc = "capture" /\ o.files = {g} /\ o.todo = {g}
    BY DEF Idle
  <2>2. op' = [op EXCEPT ![w] = o]
    BY <1>2 DEF GuardedCall
  <2> HIDE DEF o
  <2>3. op'[w] = o
    BY <1>1, <2>2
  <2> QED
    BY <2>1, <2>3 DEF Done
<1>3. ASSUME NEW files \in Batches, PlanBatch(w, files) PROVE FALSE
  <2>1. op'[w].pc = "capture" /\ op'[w].files = files /\ op'[w].todo = files
    BY <1>1, <1>3 DEF PlanBatch, Idle
  <2> QED
    BY <2>1 DEF Done
<1>4. ASSUME op'[w] = Onwards(op[w]), op[w].pc \in {"capture", "files"}, f \notin Done(w)
      PROVE  f = Min(op[w].todo)
  <2> DEFINE o == op[w]
             p == Onwards(op[w])
             g == Min(op[w].todo)
  <2>1. /\ p.files = o.files
        /\ \/ p.pc = "capture" /\ p.todo = o.todo \ {g}
           \/ p.pc = "apply" /\ o.todo = {g}
           \/ p.pc = "write" /\ o.todo = {g}
    BY <1>1, <1>4, OnwardsGoesOn
  <2> HIDE DEF p, g
  <2>2. op'[w] = p /\ f \notin o.files \ o.todo
    BY <1>4 DEF Done, p
  <2>3. f \in p.files \ (IF p.pc = "capture" THEN p.todo ELSE {})
    BY <2>1, <2>2 DEF Done
  <2> QED
    BY <2>1, <2>2, <2>3 DEF g
<1>5. CASE CapturesNext(w)
  <2>1. /\ op[w].pc = "capture"
        /\ \/ op' = [op EXCEPT ![w] = [op[w] EXCEPT !.pc = "files"]]
           \/ op' = [op EXCEPT ![w] = Onwards(op[w])]
    BY <1>5, CapturesNextDoes
  <2>2. CASE op' = [op EXCEPT ![w] = [op[w] EXCEPT !.pc = "files"]]
    <3>1. op'[w].pc = "files" /\ op'[w].files = op[w].files /\ op'[w].todo = op[w].todo
      BY <1>1, <2>2 DEF Op
    <3> QED
      BY <2>1, <3>1 DEF Done
  <2>3. CASE op' = [op EXCEPT ![w] = Onwards(op[w])]
    BY <1>1, <1>4, <1>5, <2>1, <2>3
  <2> QED
    BY <2>1, <2>2, <2>3
<1>6. CASE FilesCapture(w)
  <2>1. op[w].pc = "files" /\ op'[w] = Onwards(op[w])
    BY <1>1, <1>6 DEF FilesCapture
  <2> QED
    BY <1>4, <1>6, <2>1
<1>7. ASSUME ToolWrites(w) \/ ReadsAfter(w) \/ RecordAfter(w) PROVE FALSE
  <2>1. op'[w].pc \in {"hash", "record", "recording", "idle"}
    <3>1. CASE ToolWrites(w)
      BY <1>1, <3>1 DEF ToolWrites, Op, Idle
    <3>2. CASE ReadsAfter(w)
      BY <1>1, <3>2 DEF ReadsAfter, Op
    <3>3. CASE RecordAfter(w)
      BY <1>1, <3>3 DEF RecordAfter, Op, Idle
    <3> QED
      BY <1>7, <3>1, <3>2, <3>3
  <2> QED
    BY <2>1 DEF Done
<1>8. CASE AppliesNext(w)
  <2>1. op[w].pc = "apply"
    BY <1>8 DEF AppliesNext
  <2>2. op'[w] = Idle \/ op'[w].files = op[w].files
    BY <1>1, <1>8 DEF AppliesNext, Op
  <2>3. op'[w] # Idle
    BY DEF Done, Idle
  <2>4. Done(w) = op[w].files
    BY <2>1 DEF Done
  <2> QED
    BY <2>2, <2>3, <2>4 DEF Done
<1>9. CASE RollsBackNext(w)
  <2>1. op[w].pc = "rollback"
    BY <1>9 DEF RollsBackNext
  <2>2. op'[w].files = op[w].files
    BY <1>1, <1>9 DEF RollsBackNext, Op
  <2>3. Done(w) = op[w].files
    BY <2>1 DEF Done
  <2> QED
    BY <2>2, <2>3 DEF Done
<1> QED
  BY <1>2, <1>3, <1>5, <1>6, <1>7, <1>8, <1>9 DEF Moves

\* The file a writer goes on from is filed, or lost.
LEMMA CapturedIsKept ==
  ASSUME Types, HoldersHold, NEW w \in Writer, CapturesNext(w) \/ FilesCapture(w),
         op'[w] = Onwards(op[w]), NEW f \in File, f = Min(op[w].todo)
  PROVE  Kept(SessionOf[w], f)'
<1> DEFINE s == SessionOf[w]
<1> DEFINE n == turn[s].n
<1>0. TypeDirs /\ TypeTurns /\ TypeUsed /\ op \in [Writer -> Op] /\ op[w] \in Op /\ GoesOn(op[w])
  BY DEF Types, TypeOK, TypeOps, CallsGoOn
<1>1. CASE CapturesNext(w)
  <2>1. /\ op[w].pc = "capture" /\ s \in Session /\ n \in Number /\ f \in File /\ SameFiles
        /\ \/ op' = [op EXCEPT ![w] = [op[w] EXCEPT !.pc = "files"]]
           \/ /\ op' = [op EXCEPT ![w] = Onwards(op[w])]
              /\ \/ Entry(s, n, f) # None /\ UNCHANGED turn
                 \/ Loses(s, {f})
    BY <1>1, CapturesNextDoes
  <2>2. op' # [op EXCEPT ![w] = [op[w] EXCEPT !.pc = "files"]]
    <3>1. Onwards(op[w]).pc # "files"
      BY <1>0, <2>1, OnwardsGoesOn
    <3>2. [op EXCEPT ![w] = [op[w] EXCEPT !.pc = "files"]][w].pc = "files"
      BY <1>0 DEF Op
    <3> QED
      BY <3>1, <3>2
  <2>3. CASE Loses(s, {f})
    <3>1. f \in turn'[s].lost
      BY <1>0, <2>1, <2>3 DEF Loses, TypeTurns, Turn
    <3> QED
      BY <3>1 DEF Kept
  <2>4. CASE Entry(s, n, f) # None /\ UNCHANGED turn
    <3>1. Here(s, f)' = Here(s, f)
      BY <2>1, <2>4 DEF SameFiles, Here, Entry, DirOf
    <3> QED
      BY <2>4, <3>1 DEF Kept, Here
  <2> QED
    BY <2>1, <2>2, <2>3, <2>4
<1>2. CASE FilesCapture(w)
  <2>1. /\ s \in Session /\ n \in Number /\ f \in File /\ held[s] # None /\ held[s][f] # None
    BY <1>2, FilesCaptureDoes
  <2>2. PICK ok \in BOOLEAN, X \in {{}, {f}} :
          /\ WriteBack(s, s, n, ok) /\ Loses(s, X)
          /\ X = {} => ok /\ held[s][f].pre # None
    BY <1>2, FilesCaptureDoes
  <2>3. X \in SUBSET File /\ s \in Checkpointer
    BY <2>1, <2>2 DEF Checkpointer
  <2>4. turn'[s].n = n /\ turn'[s].lost = turn[s].lost \cup X
    BY <1>0, <2>1, <2>2, <2>3, LosesTypes
  <2>5. CASE X = {f}
    BY <2>4, <2>5 DEF Kept
  <2>6. CASE X = {}
    <3>1. SetsFiles(s, n, held[s])
      BY <1>0, <2>1, <2>2, <2>3, <2>6, WriteBackWrites
    <3>2. Here(s, f)' = held[s][f]
      BY <2>1, <2>4, <3>1 DEF SetsFiles, Here, Entry
    <3> QED
      BY <2>1, <3>2 DEF Kept
  <2> QED
    BY <2>2, <2>5, <2>6
<1> QED
  BY <1>1, <1>2

\* No writer touches a file before it is filed.
LEMMA FiledFirstStep ==
  ASSUME Types, Types', HoldersHold, FiledFirst, HeldFollows, [Next]_vars PROVE FiledFirst'
<1> SUFFICES ASSUME NEW w \in Writer, NEW f \in Done(w)' PROVE Kept(SessionOf[w], f)'
  BY DEF FiledFirst
<1> DEFINE s == SessionOf[w]
<1>1. op'[w] \in Op /\ s \in Session
  BY CheckpointAssumption DEF Types, TypeOK, TypeOps
<1>2. op'[w].pc # "idle" /\ f \in File
  BY <1>1 DEF Done, Op
<1>3. turn'[s].at = "running"
  BY <1>2 DEF Types, WritersAreRunning
<1>4. CASE f \in Done(w)
  <2>1. op[w].pc # "idle" /\ Kept(s, f)
    BY <1>4 DEF Done, FiledFirst
  <2>2. turn[s].at = "running"
    BY <1>1, <2>1 DEF Types, WritersAreRunning
  <2>3. ~ BeginTurn(s)
    BY <2>2 DEF BeginTurn
  <2>4. GoesOnSo(s)
    BY <1>1, <1>3, <2>3, TurnGoesOn
  <2> QED
    BY <1>1, <1>2, <2>1, <2>4, KeptStays
<1>5. CASE op'[w] = op[w]
  BY <1>4, <1>5 DEF Done
<1>6. op'[w] # Idle
  BY <1>2 DEF Idle
<1>7. CASE Moves(w)
  BY <1>2, <1>4, <1>7, MovesDone, CapturedIsKept
<1> QED
  BY <1>5, <1>6, <1>7, WriterMoves

\* What FirstPreImage says of one file.
AsFound(s, f) ==
  IF Here(s, f) = None THEN disk[f] = turn[s].start[f] ELSE Here(s, f).pre = turn[s].start[f]

\* A turn begins with its books as they were, and the files in them lost to it.
LEMMA BeginsAsFound ==
  ASSUME Types, HoldersHold, NEW s \in Session, BeginTurn(s),
         NEW f \in File, f \notin turn'[s].lost
  PROVE  AsFound(s, f)'
<1> DEFINE n == turn[s].n
<1>1. /\ TypeDirs /\ TypeTurns /\ TypeUsed /\ turn \in [Session -> Turn]
      /\ n \in Number /\ held[s] # None /\ s \in Checkpointer
  BY DEF Types, TypeOK, TypeTurns, BeginTurn, HoldersHold, Checkpointer
<1>2. PICK ok \in BOOLEAN : WriteBack(s, s, n, ok)
  BY DEF BeginTurn
<1>3. /\ disk' = disk /\ turn'[s].n = n /\ turn'[s].start = disk
      /\ turn'[s].lost = Captured(DirOf(s, n).files) \cup Captured(held[s])
  BY <1>1 DEF BeginTurn, Turn
<1>4. DirOf(s, n).files[f] = None /\ held[s][f] = None
  BY <1>3 DEF Captured
<1>5. (ok => SetsFiles(s, n, held[s])) /\ (~ ok => SameFiles)
  BY <1>1, <1>2, WriteBackWrites
<1>6. Here(s, f)' = None
  BY <1>1, <1>3, <1>4, <1>5 DEF SetsFiles, SameFiles, Here, Entry
<1> QED
  BY <1>3, <1>6 DEF AsFound

\* The pre-images of a turn are what it found.
LEMMA FirstPreImageStep ==
  ASSUME Types, Types', HoldersHold, FiledFirst, FirstPreImage, HeldFollows, [Next]_vars
  PROVE  FirstPreImage'
<1> SUFFICES ASSUME NEW s \in Session, NEW f \in File, turn'[s].at = "running",
                    f \notin raced'[s] \cup turn'[s].lost
             PROVE  AsFound(s, f)'
  BY DEF FirstPreImage, AsFound, Here
<1>1. CASE BeginTurn(s)
  BY <1>1, BeginsAsFound
<1>2. CASE ~ BeginTurn(s)
  <2>1. GoesOnSo(s) /\ SameTurn(s)
    BY <1>2, TurnGoesOn DEF GoesOnSo
  <2>2. /\ turn[s].at = "running" /\ turn'[s].n = turn[s].n /\ turn'[s].start = turn[s].start
        /\ f \notin turn[s].lost
    BY <2>1 DEF SameTurn
  <2>3. s \in Actor /\ s \in Busy
    BY <2>2 DEF Actor, Busy
  <2>4. UNCHANGED fileVars => f \notin raced[s] /\ disk'[f] = disk[f]
    BY DEF fileVars
  <2>5. f \notin raced[s] => AsFound(s, f)
    BY <2>2 DEF FirstPreImage, AsFound, Here
  <2>6. CASE Here(s, f)' = Here(s, f)
    <3>1. f \notin raced[s] /\ (Here(s, f) = None => disk'[f] = disk[f])
      <4>1. CASE ~ Acts(s)
        BY <2>3, <4>1, OthersAreNoted DEF Undisturbed
      <4>2. CASE Acts(s)
        <5>1. PICK w \in Writer : SessionOf[w] = s /\ (ToolWrites(w) \/ AppliesNext(w) \/ RollsBackNext(w))
          BY <1>2, <4>2, CheckpointAssumption DEF Acts
        <5>2. UNCHANGED fileVars \/ \E g \in Done(w), v \in Content : Put(w, g, v)
          BY <5>1, WriterPuts
        <5>3. ASSUME NEW g \in Done(w), NEW v \in Content, Put(w, g, v)
              PROVE  f \notin raced[s] /\ (Here(s, f) = None => disk'[f] = disk[f])
          <6>1. TypeFiles /\ raced'[s] = raced[s]
            BY <2>3, <5>1, <5>3 DEF Put, Types, TypeOK
          <6>2. Here(s, f) = None => f # g
            BY <2>2, <5>1 DEF FiledFirst, Kept
          <6>3. f # g => disk'[f] = disk[f]
            BY <5>3, <6>1 DEF Put, TypeFiles
          <6> QED
            BY <6>1, <6>2, <6>3
        <5> QED
          BY <2>4, <5>2, <5>3
      <4> QED
        BY <4>1, <4>2
    <3> QED
      BY <2>2, <2>5, <2>6, <3>1 DEF AsFound
  <2>7. CASE Here(s, f)' # Here(s, f)
    <3>1. PICK w \in Writer : Returns(s, w)
      BY <2>1, <2>7 DEF GoesOnSo, Leaves, Takes
    <3>2. /\ Here(s, f)' = held[s][f] /\ held[s] # None /\ UNCHANGED fileVars
          /\ SessionOf[w] = s /\ Locks(w)
          /\ (op[w].pc = "files" /\ Min(op[w].todo) \notin turn'[s].lost) =>
                held[s][Min(op[w].todo)].pre # None
      BY <2>7, <3>1 DEF Returns
    <3>3. Follows(s, f)
      BY <2>2, <3>2 DEF HeldFollows
    <3>4. f \notin raced[s] /\ disk'[f] = disk[f] /\ AsFound(s, f)
      BY <2>4, <2>5, <3>2
    <3>5. CASE held[s][f] = None /\ Here(s, f) = None
      BY <2>7, <3>2, <3>5
    <3>6. CASE held[s][f] # None /\ Here(s, f) # None /\ held[s][f].pre = Here(s, f).pre
      BY <2>2, <3>2, <3>4, <3>6 DEF AsFound
    <3>7. CASE /\ held[s][f] # None /\ Here(s, f) = None
               /\ held[s][f].pre = None \/ f \in raced[s] \/ held[s][f].pre = turn[s].start[f]
               /\ \E v \in Writer : SessionOf[v] = s /\ op[v].pc = "files" /\ f = Min(op[v].todo)
      <4>1. PICK v \in Writer : SessionOf[v] = s /\ op[v].pc = "files" /\ f = Min(op[v].todo)
        BY <3>7
      <4>2. v = w
        BY <3>2, <4>1 DEF HoldersHold, Locks
      <4>3. held[s][f].pre # None
        BY <3>2, <4>1, <4>2
      <4> QED
        BY <2>2, <3>2, <3>4, <3>7, <4>3 DEF AsFound
    <3> QED
      BY <3>3, <3>5, <3>6, <3>7 DEF Follows
  <2> QED
    BY <2>6, <2>7
<1> QED
  BY <1>1, <1>2

\* What is about to be written has what is there by then.
LEMMA HeldFollowsStep ==
  ASSUME Types, Types', HoldersHold, FirstPreImage, HeldFollows, [Next]_vars
  PROVE  HeldFollows'
<1> SUFFICES ASSUME NEW s \in Session, turn'[s].at = "running", held'[s] # None,
                    NEW f \in File, f \notin turn'[s].lost
             PROVE  Follows(s, f)'
  BY DEF HeldFollows
<1>1. ~ BeginTurn(s)
  BY DEF BeginTurn, WriteBack, Types, TypeOK, TypeDirs, Checkpointer
<1>2. GoesOnSo(s) /\ SameTurn(s)
  BY <1>1, TurnGoesOn DEF GoesOnSo
<1>3. /\ turn[s].at = "running" /\ turn'[s].n = turn[s].n /\ turn'[s].start = turn[s].start
      /\ f \notin turn[s].lost
  BY <1>2 DEF SameTurn
<1>4. f \in raced[s] => f \in raced'[s]
  <2>1. s \in Actor /\ s \in Busy
    BY <1>3 DEF Actor, Busy
  <2>2. CASE ~ Acts(s)
    BY <2>1, <2>2, OthersAreNoted DEF Undisturbed
  <2>3. CASE Acts(s)
    <3>1. PICK w \in Writer : SessionOf[w] = s /\ (ToolWrites(w) \/ AppliesNext(w) \/ RollsBackNext(w))
      BY <1>1, <2>3, CheckpointAssumption DEF Acts
    <3>2. UNCHANGED fileVars \/ \E g \in Done(w), v \in Content : Put(w, g, v)
      BY <3>1, WriterPuts
    <3>3. raced'[s] = raced[s]
      BY <2>1, <3>1, <3>2 DEF Put, fileVars
    <3> QED
      BY <3>3
  <2> QED
    BY <2>2, <2>3
<1>5. CASE Leaves(s)
  <2>1. /\ held'[s] = held[s] /\ Here(s, f)' = Here(s, f)
        /\ \A w \in Writer : SessionOf[w] = s /\ op[w].pc = "files" => op'[w] = op[w]
    BY <1>5 DEF Leaves
  <2>2. Follows(s, f)
    BY <1>3, <2>1 DEF HeldFollows
  <2> QED
    BY <1>3, <1>4, <2>1, <2>2 DEF Follows
<1>6. ASSUME NEW w \in Writer, Takes(s, w) PROVE Follows(s, f)'
  <2>1. PICK g \in File, e \in FileEntry :
       /\ held'[s] = [DirOf(s, turn[s].n).files EXCEPT ![g] = e]
       /\ \/ /\ Here(s, g) = None /\ e.pre \in {disk[g], None}
             /\ op'[w].pc = "files" /\ g = Min(op'[w].todo)
          \/ Here(s, g) # None /\ e.pre = Here(s, g).pre
    BY <1>6 DEF Takes
  <2>2. SessionOf[w] = s /\ UNCHANGED fileVars /\ Here(s, f)' = Here(s, f)
    BY <1>6 DEF Takes
  <2>3. DirOf(s, turn[s].n).files \in Manifest /\ e # None
    BY <1>3, DirOfIsDir, NoneIsNoRecord DEF Types, TypeOK, TypeTurns
  <2>4. held'[s][f] = IF f = g THEN e ELSE Here(s, f)
    BY <2>1, <2>3, ManifestWith DEF Here, Entry
  <2>5. CASE f # g
    BY <2>2, <2>4, <2>5 DEF Follows
  <2>6. CASE f = g /\ Here(s, g) # None /\ e.pre = Here(s, g).pre
    BY <2>2, <2>3, <2>4, <2>6 DEF Follows
  <2>7. CASE /\ f = g /\ Here(s, g) = None /\ e.pre \in {disk[g], None}
             /\ op'[w].pc = "files" /\ g = Min(op'[w].todo)
    <3>1. f \notin raced[s] => disk[f] = turn[s].start[f]
      BY <1>3, <2>7 DEF FirstPreImage, Here
    <3>2. e.pre = None \/ f \in raced'[s] \/ e.pre = turn'[s].start[f]
      BY <1>3, <1>4, <2>7, <3>1
    <3>3. \E v \in Writer : SessionOf[v] = s /\ op'[v].pc = "files" /\ f = Min(op'[v].todo)
      BY <2>2, <2>7
    <3> QED
      BY <2>2, <2>3, <2>4, <2>7, <3>2, <3>3 DEF Follows
  <2> QED
    BY <2>1, <2>5, <2>6, <2>7
<1>7. \A w \in Writer : ~ Returns(s, w)
  BY DEF Returns
<1> QED
  BY <1>2, <1>5, <1>6, <1>7 DEF GoesOnSo

\* What a move makes of a batch's files.
LEMMA MovesUntouched ==
  ASSUME Types, Types', HoldersHold, UntouchedIsOriginal, NEW w \in Writer, Moves(w),
         NEW f \in Untouched(w)', f \notin raced'[w]
  PROVE  disk'[f] = op'[w].orig[f]
<1>1. /\ op \in [Writer -> Op] /\ op[w] \in Op /\ GoesOn(op[w])
      /\ TypeFiles /\ w \in Actor
  BY DEF Types, TypeOK, TypeOps, CallsGoOn, Actor
<1>2. /\ op'[w] \in Op /\ f \in File /\ op'[w].batch
      /\ op'[w].pc \in {"capture", "files", "apply", "rollback", "failed"}
  BY DEF Types, TypeOK, TypeOps, CallsGoOn, GoesOn, Op, Untouched
<1>3. ASSUME NEW g \in Paths, GuardedCall(w, g) PROVE FALSE
  <2>1. ~ op'[w].batch
    BY <1>1, <1>3 DEF GuardedCall, Idle
  <2> QED
    BY <1>2, <2>1
<1>4. ASSUME NEW files \in Batches, PlanBatch(w, files) PROVE disk'[f] = op'[w].orig[f]
  <2> DEFINE was == [g \in File |-> IF g \in files THEN disk[g] ELSE Absent]
             o == [Idle EXCEPT !.pc = "capture", !.batch = TRUE, !.files = files,
                               !.todo = files, !.orig = was]
  <2>1. disk' = disk /\ op' = [op EXCEPT ![w] = o]
    BY <1>4 DEF PlanBatch
  <2>2. o.pc = "capture" /\ o.files = files /\ o.orig = was
    BY DEF Idle
  <2>3. f \in files => was[f] = disk[f]
    BY <1>2
  <2> HIDE DEF o, was
  <2>4. op'[w] = o
    BY <1>1, <2>1
  <2> QED
    BY <1>2, <2>1, <2>2, <2>3, <2>4 DEF Untouched
<1>5. ASSUME ToolWrites(w) \/ ReadsAfter(w) \/ RecordAfter(w) PROVE FALSE
  <2>1. CASE ToolWrites(w)
    BY <1>1, <1>2, <2>1 DEF ToolWrites, Op, Idle, GoesOn
  <2>2. CASE ReadsAfter(w)
    BY <1>1, <1>2, <2>2 DEF ReadsAfter, Op
  <2>3. CASE RecordAfter(w)
    BY <1>1, <1>2, <2>3 DEF RecordAfter, Op, Idle
  <2> QED
    BY <1>5, <2>1, <2>2, <2>3
<1>6. CASE CapturesNext(w) \/ FilesCapture(w)
  <2>1. /\ op[w].pc \in {"capture", "files"} /\ UNCHANGED fileVars
        /\ \/ op' = [op EXCEPT ![w] = [op[w] EXCEPT !.pc = "files"]]
           \/ op' = [op EXCEPT ![w] = Onwards(op[w])]
    BY <1>6, CapturesNextDoes, FilesCaptureDoes
  <2>2. /\ Onwards(op[w]).files = op[w].files /\ Onwards(op[w]).orig = op[w].orig
        /\ Onwards(op[w]).batch = op[w].batch
        /\ \/ Onwards(op[w]).pc \in {"capture", "write"}
           \/ Onwards(op[w]).pc = "apply" /\ Onwards(op[w]).todo = op[w].files
    BY <1>1, <2>1, OnwardsGoesOn
  <2>3. /\ op'[w].files = op[w].files /\ op'[w].orig = op[w].orig /\ op'[w].batch = op[w].batch
        /\ \/ op'[w].pc \in {"capture", "files"}
           \/ op'[w].pc = "apply" /\ op'[w].todo = op[w].files
    <3>1. CASE op' = [op EXCEPT ![w] = [op[w] EXCEPT !.pc = "files"]]
      BY <1>1, <3>1 DEF Op
    <3>2. CASE op' = [op EXCEPT ![w] = Onwards(op[w])]
      <4>1. op'[w] = Onwards(op[w])
        BY <1>1, <3>2
      <4> QED
        BY <1>2, <2>2, <4>1
    <3> QED
      BY <2>1, <3>1, <3>2
  <2>4. f \in Untouched(w)
    BY <1>2, <2>1, <2>3 DEF Untouched
  <2> QED
    BY <2>1, <2>3, <2>4 DEF UntouchedIsOriginal, fileVars
<1>7. CASE AppliesNext(w)
  <2> DEFINE g == Min(op[w].todo)
             left == op[w].todo \ {g}
             written == op[w].files \ op[w].todo
             back == IF written = {} THEN "failed" ELSE "rollback"
  <2>1. /\ op[w].pc = "apply"
        /\ \/ /\ PutNew(w, g)
              /\ op' = IF left = {} THEN [op EXCEPT ![w] = Idle] ELSE [op EXCEPT ![w].todo = left]
           \/ /\ UNCHANGED fileVars
              /\ op' = [op EXCEPT ![w].todo = written, ![w].pc = back]
    BY <1>7 DEF AppliesNext
  <2>2. w \in Busy /\ Untouched(w) = op[w].todo /\ g \in File
    BY <1>1, <2>1, NextIsToDo DEF Busy, Untouched, Op, GoesOn
  <2>3. written \subseteq op[w].files /\ op[w].files \ written = op[w].todo
    BY <1>1 DEF GoesOn
  <2>4. back \in {"failed", "rollback"}
    OBVIOUS
  <2>5. left = op[w].todo \ {g}
    OBVIOUS
  <2> HIDE DEF g, left, written, back
  <2>6. CASE /\ PutNew(w, g)
             /\ op' = IF left = {} THEN [op EXCEPT ![w] = Idle] ELSE [op EXCEPT ![w].todo = left]
    <3>1. op' = [op EXCEPT ![w].todo = left]
      BY <1>1, <1>2, <2>6 DEF Idle
    <3>2. op'[w].pc = "apply" /\ op'[w].todo = left /\ op'[w].orig = op[w].orig
      BY <1>1, <2>1, <3>1 DEF Op
    <3>3. f \in op[w].todo /\ f # g
      BY <1>2, <2>5, <3>2 DEF Untouched
    <3>4. disk'[f] = disk[f] /\ raced'[w] = raced[w]
      BY <1>1, <1>2, <2>2, <2>6, <3>3 DEF PutNew, Put, TypeFiles
    <3> QED
      BY <2>2, <3>2, <3>3, <3>4 DEF UntouchedIsOriginal
  <2>7. CASE /\ UNCHANGED fileVars
             /\ op' = [op EXCEPT ![w].todo = written, ![w].pc = back]
    <3>1. /\ op'[w].pc = back /\ op'[w].todo = written
          /\ op'[w].orig = op[w].orig /\ op'[w].files = op[w].files
      BY <1>1, <2>7 DEF Op
    <3>2. f \in op[w].todo
      BY <1>2, <2>3, <2>4, <3>1 DEF Untouched
    <3> QED
      BY <2>2, <2>7, <3>1, <3>2 DEF UntouchedIsOriginal, fileVars
  <2> QED
    BY <2>1, <2>6, <2>7
<1>8. CASE RollsBackNext(w)
  <2> DEFINE g == Min(op[w].todo)
             left == op[w].todo \ {g}
             then == IF left = {} THEN "failed" ELSE "rollback"
  <2>1. /\ op[w].pc = "rollback"
        /\ \/ /\ Put(w, g, op[w].orig[g])
              /\ op' = [op EXCEPT ![w].todo = left, ![w].mixed = @ \/ FALSE, ![w].pc = then]
           \/ op' = [op EXCEPT ![w].todo = left, ![w].mixed = @ \/ TRUE, ![w].pc = then]
    BY <1>8 DEF RollsBackNext
  <2>2. w \in Busy /\ g \in File /\ op[w].batch
    BY <1>1, <2>1, NextIsToDo DEF Busy, Op, GoesOn
  <2>3. left = op[w].todo \ {g} /\ then \in {"failed", "rollback"}
    OBVIOUS
  <2> HIDE DEF g, left, then
  <2>4. CASE op' = [op EXCEPT ![w].todo = left, ![w].mixed = @ \/ TRUE, ![w].pc = then]
    <3>1. op'[w].mixed /\ op'[w].pc = then
      BY <1>1, <2>4 DEF Op
    <3> QED
      BY <2>3, <3>1 DEF Untouched
  <2>5. CASE /\ Put(w, g, op[w].orig[g])
             /\ op' = [op EXCEPT ![w].todo = left, ![w].mixed = @ \/ FALSE, ![w].pc = then]
    <3>1. /\ op'[w].pc = then /\ op'[w].todo = left /\ op'[w].mixed = (op[w].mixed \/ FALSE)
          /\ op'[w].orig = op[w].orig /\ op'[w].files = op[w].files
      BY <1>1, <2>5 DEF Op
    <3>2. ~ op[w].mixed /\ f \in op[w].files \ left
      BY <1>2, <2>3, <3>1 DEF Untouched
    <3>3. raced'[w] = raced[w] /\ disk'[g] = op[w].orig[g] /\ (f # g => disk'[f] = disk[f])
      BY <1>1, <1>2, <2>2, <2>5 DEF Put, TypeFiles
    <3>4. CASE f # g
      <4>1. f \in Untouched(w)
        BY <2>1, <2>2, <2>3, <3>2, <3>4 DEF Untouched
      <4> QED
        BY <3>1, <3>3, <3>4, <4>1 DEF UntouchedIsOriginal
    <3> QED
      BY <3>1, <3>3, <3>4
  <2> QED
    BY <2>1, <2>4, <2>5
<1> QED
  BY <1>3, <1>4, <1>5, <1>6, <1>7, <1>8 DEF Moves

\* A file of a batch it has not written, or has put back, is as it was.
LEMMA UntouchedIsOriginalStep ==
  ASSUME Types, Types', HoldersHold, UntouchedIsOriginal, [Next]_vars PROVE UntouchedIsOriginal'
<1> SUFFICES ASSUME NEW w \in Writer, NEW f \in Untouched(w)', f \notin raced'[w]
             PROVE  disk'[f] = op'[w].orig[f]
  BY DEF UntouchedIsOriginal
<1>1. CASE Moves(w)
  BY <1>1, MovesUntouched
<1>2. CASE ~ Moves(w)
  <2>1. op'[w] # Idle
    BY DEF Untouched, Idle
  <2>2. op'[w] = op[w]
    BY <1>2, <2>1, WriterMoves
  <2>3. f \in Untouched(w) /\ w \in Busy /\ w \in Actor
    BY <2>2 DEF Untouched, Busy, Actor
  <2>4. ~ Acts(w)
    BY <1>2, CheckpointAssumption DEF Acts, Moves
  <2>5. f \in File
    BY <2>3 DEF Types, TypeOK, TypeOps, Op, Untouched
  <2>6. f \notin raced[w] /\ disk'[f] = disk[f]
    BY <2>3, <2>4, <2>5, OthersAreNoted DEF Undisturbed
  <2> QED
    BY <2>2, <2>3, <2>6 DEF UntouchedIsOriginal
<1> QED
  BY <1>1, <1>2

\* At the start nothing runs.
LEMMA TurnInvInit == Init => TurnInv
<1> SUFFICES ASSUME Init PROVE TurnInv
  OBVIOUS
<1>1. \A s \in Session : turn[s].at = "none"
  BY DEF Init, NoTurn
<1>2. \A w \in Writer : op[w].pc = "idle" /\ ~ op[w].batch
  BY DEF Init, Idle
<1> QED
  BY <1>1, <1>2 DEF TurnInv, FiledFirst, FirstPreImage, HeldFollows, UntouchedIsOriginal,
                    Done, Untouched

\* Every step keeps what is known of turns and batches.
LEMMA TurnInvStep == Types /\ Types' /\ HoldersHold /\ TurnInv /\ [Next]_vars => TurnInv'
BY FiledFirstStep, FirstPreImageStep, HeldFollowsStep, UntouchedIsOriginalStep DEF TurnInv

\* What a turn's checkpoint gives back is what the turn found, unless somebody else
\* wrote the file or its record was lost: it is made the first time only (Capture,
\* checkpoint.go:238-307), each tool call captures before it writes
\* (turn.go:113-126, edit.go:453-478), and captures of one turn keep each other's
\* records, as they share a lock.
THEOREM GivesBackWhatWasFound == Spec => []FirstPreImage
<1>1. TurnInv => FirstPreImage
  BY DEF TurnInv
<1>2. Init => Types /\ HoldersHold /\ TurnInv
  BY TypesInit, HoldersInit, TurnInvInit
<1>3. Types /\ HoldersHold /\ TurnInv /\ [Next]_vars => Types' /\ HoldersHold' /\ TurnInv'
  BY TypesStep, HoldersStep, TurnInvStep
<1> QED
  BY <1>1, <1>2, <1>3, PTL DEF Spec

\* A batch that failed and could be rolled back left nothing behind: Apply captures
\* every file before it touches any, and goes back over those it wrote
\* (edit.go:453-532).
THEOREM BatchIsAllOrNothing == Spec => []AllOrNothing
<1>1. Types /\ TurnInv => AllOrNothing
  <2> SUFFICES ASSUME Types, TurnInv, NEW w \in Writer, op[w].pc = "failed", ~ op[w].mixed,
                      NEW f \in op[w].files \ raced[w]
               PROVE  disk[f] = op[w].orig[f]
    BY DEF AllOrNothing
  <2>1. op[w].todo = {} /\ op[w].batch
    BY DEF Types, CallsGoOn, GoesOn
  <2>2. f \in Untouched(w) \ raced[w]
    BY <2>1 DEF Untouched
  <2> QED
    BY <2>2 DEF TurnInv, UntouchedIsOriginal
<1>2. Init => Types /\ HoldersHold /\ TurnInv
  BY TypesInit, HoldersInit, TurnInvInit
<1>3. Types /\ HoldersHold /\ TurnInv /\ [Next]_vars => Types' /\ HoldersHold' /\ TurnInv'
  BY TypesStep, HoldersStep, TurnInvStep
<1> QED
  BY <1>1, <1>2, <1>3, PTL DEF Spec

-----------------------------------------------------------------------------
(* What a rollback overwrites.                                             *)

IsOld(m, now) ==
  \A f \in File : m[f] # None => (m[f].pre # None => m[f].pre <= now) /\ m[f].after <= now

IsOf(m, end) == end # None => \A f \in File : m[f] # None => m[f].after <= end

\* The directory a manifest about to be written is of.
Holding(a) ==
  IF a \in Session THEN turn[a].at \in {"opening", "running", "closing"} ELSE rest[a].pc = "copied"
BookS(a) == IF a \in Session THEN a ELSE rest[a].s
BookN(a) == IF a \in Session THEN turn[a].n ELSE rest[a].undo

\* No content is on disk, seen, kept or on record before it was written.
NothingIsNewer ==
  /\ \A f \in File : disk[f] <= clock
  /\ \A w \in Writer : op[w].saw <= clock /\ \A f \in File : op[w].orig[f] <= clock
  /\ \A s \in Session, n \in Number : IsOld(DirOf(s, n).files, clock)
  /\ \A a \in Checkpointer : Holding(a) /\ held[a] # None => IsOld(held[a], clock)
  /\ \A r \in Restorer : rest[r].pc # "idle" => IsOld(rest[r].m, clock)

OpenWhileRunning ==
  \A s \in Session :
    turn[s].at \in {"numbered", "opening", "running"} => ended[s][turn[s].n] = None

\* No hash is on record of a turn that is younger than its end.
RecordsAreOfTheTurn ==
  /\ \A s \in Session, n \in Number : IsOf(DirOf(s, n).files, ended[s][n])
  /\ \A a \in Checkpointer : Holding(a) /\ held[a] # None => IsOf(held[a], ended[BookS(a)][BookN(a)])
  /\ \A r \in Restorer : rest[r].pc # "idle" => IsOf(rest[r].m, ended[rest[r].s][rest[r].n])

\* A rollback decides to overwrite only what its turn wrote.
OverwritesItsOwn ==
  \A r \in Restorer :
    ~ rest[r].force =>
      \A f \in Captured(rest[r].plan) :
        \/ rest[r].plan[f] = Absent \/ rest[r].m[f].pre = Absent
        \/ rest[r].plan[f] = rest[r].m[f].after

RollbackInv == NothingIsNewer /\ OpenWhileRunning /\ RecordsAreOfTheTurn /\ OverwritesItsOwn

\* What a manifest about to be written has that the one on disk has not: a file as
\* it is now, or a hash of one while the turn runs.
Fresh(m, s, n) ==
  \/ m = DirOf(s, n).files
  \/ \E f \in File, e \in FileEntry :
       /\ m = [DirOf(s, n).files EXCEPT ![f] = e]
       /\ \/ e.pre \in {disk[f], None}
          \/ DirOf(s, n).files[f] # None /\ e.pre = DirOf(s, n).files[f].pre
       /\ \/ e.after = NoHash
          \/ /\ \E w \in Writer : e.after = op[w].saw
             /\ turn[s].at = "running" /\ turn[s].n = n

\* What a step makes of the manifest somebody is about to write, and of those on disk.
Keeps(a) ==
  /\ BookS(a)' = BookS(a) /\ BookN(a)' = BookN(a)
  /\ \/ held'[a] = held[a] /\ Holding(a)
     \/ BookS(a) \in Session /\ BookN(a) \in Number /\ Fresh(held'[a], BookS(a), BookN(a))

Written(s, n) ==
  \/ DirOf(s, n)'.files \in {DirOf(s, n).files, NoFiles}
  \/ \E a \in Checkpointer :
       /\ Holding(a) /\ held[a] # None /\ BookS(a) = s /\ BookN(a) = n
       /\ DirOf(s, n)'.files = held[a]

BooksStay ==
  /\ \A a \in Checkpointer : Holding(a)' /\ held'[a] # None => Keeps(a)
  /\ \A s \in Session, n \in Number : Written(s, n)

\* A step that reads and writes no manifest, and neither begins nor ends a turn.
LEMMA BooksAreLeft ==
  ASSUME SameFiles, UNCHANGED held,
         \A s \in Session : turn'[s].at \in {"opening", "running", "closing"} =>
            turn[s].at \in {"opening", "running", "closing"} /\ turn'[s].n = turn[s].n,
         \A r \in Restorer : rest'[r].pc = "copied" =>
            rest[r].pc = "copied" /\ rest'[r].s = rest[r].s /\ rest'[r].undo = rest[r].undo
  PROVE  BooksStay
<1>1. ASSUME NEW a \in Checkpointer, Holding(a)' PROVE Keeps(a)
  BY <1>1 DEF Holding, Keeps, BookS, BookN, Checkpointer
<1>2. \A s \in Session, n \in Number : Written(s, n)
  BY DEF Written, SameFiles
<1> QED
  BY <1>1, <1>2 DEF BooksStay

\* One reads a manifest ...
LEMMA BookIsRead ==
  ASSUME TypeDirs, SameFiles, NEW a \in Checkpointer, NEW m, held' = [held EXCEPT ![a] = m],
         BookS(a) \in Session, BookN(a) \in Number, Fresh(m, BookS(a), BookN(a)),
         \A s \in Session : turn'[s].n = turn[s].n /\ (s # a => turn'[s].at = turn[s].at),
         \A r \in Restorer : IF r # a THEN rest'[r] = rest[r]
                             ELSE rest'[r].s = rest[r].s /\
                                  (rest'[r].pc = "copied" => rest'[r].undo = rest[r].undo)
  PROVE  BooksStay
<1>1. ASSUME NEW b \in Checkpointer, Holding(b)' PROVE Keeps(b)
  <2>1. CASE b = a
    BY <1>1, <2>1 DEF TypeDirs, Holding, Keeps, BookS, BookN, Checkpointer
  <2>2. CASE b # a
    BY <1>1, <2>2 DEF TypeDirs, Holding, Keeps, BookS, BookN, Checkpointer
  <2> QED
    BY <2>1, <2>2
<1>2. \A s \in Session, n \in Number : Written(s, n)
  BY DEF Written, SameFiles
<1> QED
  BY <1>1, <1>2 DEF BooksStay

\* ... and writes it back.
LEMMA BookIsWritten ==
  ASSUME TypeDirs, TypeUsed, NEW a \in Checkpointer, Holding(a), held[a] # None,
         BookS(a) \in Session, BookN(a) \in Number,
         NEW ok \in BOOLEAN, WriteBack(a, BookS(a), BookN(a), ok),
         \A s \in Session : s # a => turn'[s].at = turn[s].at /\ turn'[s].n = turn[s].n,
         \A r \in Restorer : r # a => rest'[r] = rest[r]
  PROVE  BooksStay
<1>1. /\ held' = [held EXCEPT ![a] = None]
      /\ ok => SetsFiles(BookS(a), BookN(a), held[a])
      /\ ~ ok => SameFiles
  BY WriteBackWrites
<1>2. ASSUME NEW b \in Checkpointer, Holding(b)', held'[b] # None PROVE Keeps(b)
  <2>1. b # a /\ held'[b] = held[b]
    BY <1>1, <1>2 DEF TypeDirs
  <2> QED
    BY <1>2, <2>1 DEF Holding, Keeps, BookS, BookN, Checkpointer
<1>3. \A s \in Session, n \in Number : Written(s, n)
  BY <1>1 DEF Written, SameFiles, SetsFiles
<1> QED
  BY <1>2, <1>3 DEF BooksStay

LEMMA BooksStep ==
  ASSUME Types, HoldersHold, [Next]_vars
  PROVE  BooksStay
<1>0. /\ TypeDirs /\ TypeFiles /\ TypeTurns /\ TypeUsed
      /\ turn \in [Session -> Turn] /\ op \in [Writer -> Op] /\ rest \in [Restorer -> Rollback]
      /\ held \in [Checkpointer -> Manifest \cup {None}]
      /\ Session \subseteq Checkpointer /\ Restorer \subseteq Checkpointer
      /\ Session \cap Restorer = {}
      /\ \A s \in Session : turn[s].at # "none" => turn[s].n \in Number
  BY CheckpointAssumption
     DEF Types, TypeOK, TypeTurns, TypeOps, TypeRests, Checkpointer, TypeDirs
<1>1. UNCHANGED dirVars => SameFiles /\ UNCHANGED held
  BY DEF SameFiles, DirOf, dirVars
<1>2. UNCHANGED <<dirVars, turn, rest>> => BooksStay
  BY <1>1, BooksAreLeft
<1>3. ASSUME NEW s \in Session, NextTurn(s) PROVE BooksStay
  <2> DEFINE t == [NoTurn EXCEPT !.at = "numbered", !.n = Highest(s) + 1]
  <2>1. UNCHANGED <<dirVars, rest>> /\ turn' = [turn EXCEPT ![s] = t]
    BY <1>3 DEF NextTurn
  <2>2. t.at = "numbered"
    BY DEF NoTurn
  <2> HIDE DEF t
  <2>3. \A u \in Session : IF u = s THEN turn'[u].at = "numbered" ELSE turn'[u] = turn[u]
    BY <1>0, <2>1, <2>2
  <2> QED
    BY <1>1, <2>1, <2>3, BooksAreLeft
<1>4. ASSUME NEW s \in Session, OpensTurn(s) \/ ClosesTurn(s) PROVE BooksStay
  <2> DEFINE m == DirOf(s, turn[s].n).files
  <2>1. /\ turn[s].at \in {"numbered", "running"} /\ Holds(s, m) /\ UNCHANGED <<store, age, rest>>
        /\ turn' = [turn EXCEPT ![s].at = "opening"] \/ turn' = [turn EXCEPT ![s].at = "closing"]
    BY <1>4 DEF OpensTurn, ClosesTurn
  <2>2. \A u \in Session : turn'[u].n = turn[u].n /\ (u # s => turn'[u].at = turn[u].at)
    BY <1>0, <2>1 DEF Turn
  <2>3. turn[s].n \in Number /\ s \in Checkpointer /\ s \notin Restorer
    BY <1>0, <2>1
  <2>4. held' = [held EXCEPT ![s] = m] /\ SameFiles
    BY <2>1 DEF Holds, SameFiles, DirOf
  <2>5. BookS(s) = s /\ BookN(s) = turn[s].n /\ Fresh(m, s, turn[s].n)
    BY DEF BookS, BookN, Fresh
  <2>6. UNCHANGED rest
    BY <2>1
  <2> HIDE DEF m
  <2>7. \A r \in Restorer : IF r # s THEN rest'[r] = rest[r]
                            ELSE rest'[r].s = rest[r].s /\
                                 (rest'[r].pc = "copied" => rest'[r].undo = rest[r].undo)
    BY <2>6
  <2>8. BookS(s) \in Session /\ BookN(s) \in Number /\ Fresh(m, BookS(s), BookN(s))
    BY <2>3, <2>5
  <2> QED
    BY <1>0, <2>2, <2>3, <2>4, <2>7, <2>8, BookIsRead
<1>5. ASSUME NEW s \in Session, BeginTurn(s) \/ EndTurn(s) PROVE BooksStay
  <2>1. /\ turn[s].at \in {"opening", "closing"} /\ UNCHANGED rest
        /\ \E ok \in BOOLEAN : WriteBack(s, s, turn[s].n, ok)
    BY <1>5 DEF BeginTurn, EndTurn
  <2>2. \A u \in Session : u # s => turn'[u] = turn[u]
    BY <1>0, <1>5 DEF BeginTurn, EndTurn
  <2>3. turn[s].n \in Number /\ s \in Checkpointer /\ s \notin Restorer /\ held[s] # None
    BY <1>0, <2>1 DEF HoldersHold
  <2>4. BookS(s) = s /\ BookN(s) = turn[s].n /\ Holding(s)
    BY <2>1 DEF BookS, BookN, Holding
  <2> QED
    BY <1>0, <2>1, <2>2, <2>3, <2>4, BookIsWritten
<1>6. ASSUME NEW s \in Session, Prune(s) PROVE BooksStay
  <2>1. PICK doomed : Drops(s, doomed)
    BY <1>6, PruneDrops
  <2>2. UNCHANGED <<held, rest>>
    BY <1>6 DEF Prune
  <2>3. \A u \in Session : turn'[u].at = "none" \/ (turn'[u].at = turn[u].at /\ turn'[u].n = turn[u].n)
    BY <1>0, <2>1 DEF Drops, NoTurn, Turn
  <2>4. ASSUME NEW a \in Checkpointer, Holding(a)' PROVE Keeps(a)
    BY <2>2, <2>3, <2>4 DEF Holding, Keeps, BookS, BookN
  <2>5. ASSUME NEW u \in Session, NEW n \in Number PROVE Written(u, n)
    <3>1. store'[u][n] \in {None, store[u][n]}
      BY <2>1 DEF Drops
    <3>2. EmptyDir.files = NoFiles
      BY DEF EmptyDir
    <3> QED
      BY <3>1, <3>2 DEF Written, DirOf
  <2> QED
    BY <2>4, <2>5 DEF BooksStay
<1>7. ASSUME NEW w \in Writer,
             \/ \E f \in Paths : GuardedCall(w, f)
             \/ \E files \in Batches : PlanBatch(w, files)
             \/ ToolWrites(w) \/ ReadsAfter(w)
             \/ AppliesNext(w) \/ RollsBackNext(w) \/ BatchFails(w)
      PROVE  BooksStay
  BY <1>2, <1>7
     DEF GuardedCall, PlanBatch, ToolWrites, ReadsAfter, AppliesNext, RollsBackNext, BatchFails
<1>8. ASSUME NEW w \in Writer, CapturesNext(w) PROVE BooksStay
  <2> DEFINE s == SessionOf[w]
             n == turn[s].n
             f == Min(op[w].todo)
  <2>1. /\ turn[s].at = "running" /\ s \in Session /\ n \in Number /\ f \in File
        /\ SameFiles /\ UNCHANGED rest
        /\ \/ UNCHANGED turn /\ \E pre \in {disk[f], None} : HoldsWith(s, s, n, f, [pre |-> pre, after |-> NoHash])
           \/ UNCHANGED held /\ (UNCHANGED turn \/ Loses(s, {f}))
    BY <1>8, CapturesNextDoes
  <2>2. CASE UNCHANGED held /\ (UNCHANGED turn \/ Loses(s, {f}))
    <3>1. {f} \in SUBSET File
      BY <2>1
    <3>2. \A u \in Session : turn'[u].at = turn[u].at /\ turn'[u].n = turn[u].n
      <4>1. CASE UNCHANGED turn
        BY <4>1
      <4>2. CASE Loses(s, {f})
        BY <1>0, <2>1, <3>1, <4>2, LosesTypes
      <4> QED
        BY <2>2, <4>1, <4>2
    <3> QED
      BY <2>1, <2>2, <3>2, BooksAreLeft
  <2>3. CASE UNCHANGED turn /\ \E pre \in {disk[f], None} : HoldsWith(s, s, n, f, [pre |-> pre, after |-> NoHash])
    <3>1. PICK pre \in {disk[f], None} : HoldsWith(s, s, n, f, [pre |-> pre, after |-> NoHash])
      BY <2>3
    <3> DEFINE e == [pre |-> pre, after |-> NoHash]
               m == [DirOf(s, n).files EXCEPT ![f] = e]
    <3>2. e \in FileEntry /\ e.pre = pre /\ e.after = NoHash /\ held' = [held EXCEPT ![s] = m]
      BY <3>1 DEF HoldsWith
    <3> HIDE DEF e
    <3>3. Fresh(m, s, n)
      BY <2>1, <3>2 DEF Fresh
    <3>4. BookS(s) = s /\ BookN(s) = n
      BY <2>1 DEF BookS, BookN
    <3> HIDE DEF m
    <3> QED
      BY <1>0, <2>1, <2>3, <3>2, <3>3, <3>4, BookIsRead
  <2> QED
    BY <2>1, <2>2, <2>3
<1>9. ASSUME NEW w \in Writer, FilesCapture(w) PROVE BooksStay
  <2> DEFINE s == SessionOf[w]
             n == turn[s].n
             f == Min(op[w].todo)
  <2>1. /\ turn[s].at = "running" /\ s \in Session /\ n \in Number /\ f \in File
        /\ held[s] # None /\ UNCHANGED rest
    BY <1>9, FilesCaptureDoes
  <2>2. PICK ok \in BOOLEAN, X \in {{}, {f}} : WriteBack(s, s, n, ok) /\ Loses(s, X)
    BY <1>9, FilesCaptureDoes
  <2>3. X \in SUBSET File
    BY <2>1, <2>2
  <2>4. \A u \in Session : turn'[u].at = turn[u].at /\ turn'[u].n = turn[u].n
    BY <1>0, <2>1, <2>2, <2>3, LosesTypes
  <2>5. BookS(s) = s /\ BookN(s) = n /\ Holding(s)
    BY <2>1 DEF BookS, BookN, Holding
  <2> QED
    BY <1>0, <2>1, <2>2, <2>4, <2>5, BookIsWritten
<1>10. ASSUME NEW w \in Writer, RecordAfter(w) PROVE BooksStay
  <2> DEFINE s == SessionOf[w]
             n == turn[s].n
             m == DirOf(s, n).files
  <2>1. /\ turn[s].at = "running" /\ s \in Session /\ n \in Number
        /\ UNCHANGED <<store, age, turn, rest>>
        /\ \/ \E f \in File :
                /\ m[f] # None
                /\ HoldsWith(s, s, n, f, [m[f] EXCEPT !.after = op[w].saw])
           \/ UNCHANGED held
    BY <1>10, RecordAfterDoes
  <2>2. SameFiles
    BY <2>1 DEF SameFiles, DirOf
  <2>3. CASE UNCHANGED held
    BY <2>1, <2>2, <2>3, BooksAreLeft
  <2>4. CASE \E f \in File :
                /\ m[f] # None
                /\ HoldsWith(s, s, n, f, [m[f] EXCEPT !.after = op[w].saw])
    <3>1. PICK f \in File :
                /\ m[f] # None
                /\ HoldsWith(s, s, n, f, [m[f] EXCEPT !.after = op[w].saw])
      BY <2>4
    <3> DEFINE e == [m[f] EXCEPT !.after = op[w].saw]
               k == [m EXCEPT ![f] = e]
    <3>2. m \in Manifest
      BY <1>0, <2>1, DirOfIsDir
    <3>3. m[f] \in FileEntry
      BY <3>1, <3>2, RecordIsOne
    <3>4. e \in FileEntry /\ e.pre = m[f].pre /\ e.after = op[w].saw
      BY <3>1, <3>3 DEF FileEntry, HoldsWith
    <3>5. held' = [held EXCEPT ![s] = k]
      BY <3>1 DEF HoldsWith
    <3> HIDE DEF e
    <3>6. Fresh(k, s, n)
      BY <2>1, <3>1, <3>4 DEF Fresh
    <3>7. BookS(s) = s /\ BookN(s) = n
      BY <2>1 DEF BookS, BookN
    <3> HIDE DEF k
    <3> QED
      BY <1>0, <2>1, <2>2, <3>5, <3>6, <3>7, BookIsRead
  <2> QED
    BY <2>1, <2>3, <2>4
<1>11. ASSUME NEW w \in Writer, FilesAfter(w) PROVE BooksStay
  <2> DEFINE s == SessionOf[w]
             n == turn[s].n
  <2>1. /\ turn[s].at = "running" /\ s \in Session /\ n \in Number
        /\ held[s] # None /\ UNCHANGED <<turn, rest>>
    BY <1>0, <1>11, CheckpointAssumption
       DEF FilesAfter, Types, WritersAreRunning, HoldersHold, Locks
  <2>2. PICK ok \in BOOLEAN : WriteBack(s, s, n, ok)
    BY <1>11 DEF FilesAfter
  <2>3. BookS(s) = s /\ BookN(s) = n /\ Holding(s)
    BY <2>1 DEF BookS, BookN, Holding
  <2> QED
    BY <1>0, <2>1, <2>2, <2>3, BookIsWritten
<1>12. ASSUME NEW r \in Restorer, NEW s \in Session, NEW n \in Number, NEW force \in BOOLEAN,
              Restore(r, s, n, force)
       PROVE  BooksStay
  <2>1. UNCHANGED <<dirVars, turn>>
    BY <1>12 DEF Restore
  <2>2. \A q \in Restorer : IF q = r THEN rest'[q].pc = "number" ELSE rest'[q] = rest[q]
    BY <1>0, <1>12 DEF Restore, NoRollback
  <2> QED
    BY <1>1, <2>1, <2>2, BooksAreLeft
<1>13. ASSUME NEW r \in Restorer, NumbersUndo(r) \/ DecidesNext(r) \/ WritesNext(r)
       PROVE  BooksStay
  <2>1. UNCHANGED <<dirVars, turn>>
    BY <1>13 DEF NumbersUndo, DecidesNext, WritesNext
  <2>2. \A q \in Restorer : q # r => rest'[q] = rest[q]
    BY <1>0, <1>13 DEF NumbersUndo, DecidesNext, WritesNext
  <2>3. rest'[r].pc # "copied"
    BY <1>13, RollbackIsBack
  <2> QED
    BY <1>1, <2>1, <2>2, <2>3, BooksAreLeft
<1>14. ASSUME NEW r \in Restorer, CopiesNext(r) PROVE BooksStay
  <2> DEFINE q == rest[r]
             p == rest'[r]
             n == q.undo
  <2>1. /\ q.s \in Session /\ n \in Number /\ UNCHANGED turn /\ SameFiles
        /\ rest' = [rest EXCEPT ![r] = p]
        /\ \/ UNCHANGED held /\ p.pc # "copied"
           \/ /\ p.pc = "copied" /\ p.undo = n /\ held[r] = None /\ p # NoRollback
              /\ \/ held' = [held EXCEPT ![r] = DirOf(q.s, n).files]
                 \/ \E f \in File : \E pre \in {disk[f], None} :
                      HoldsWith(r, q.s, n, f, [pre |-> pre, after |-> NoHash])
        /\ p = NoRollback \/ p.s = q.s
    <3>1. NoRollback.pc = "idle"
      BY DEF NoRollback
    <3> QED
      BY <1>14, <3>1, CopiesNextDoes
  <2>2. \A v \in Restorer : v # r => rest'[v] = rest[v]
    BY <1>0, <2>1
  <2>3. CASE UNCHANGED held /\ p.pc # "copied"
    BY <2>1, <2>2, <2>3, BooksAreLeft
  <2>4. BookS(r) = q.s /\ BookN(r) = n /\ r \in Checkpointer /\ r \notin Session
    BY <1>0 DEF BookS, BookN
  <2>5. ASSUME NEW m, held' = [held EXCEPT ![r] = m], Fresh(m, q.s, n), p.pc = "copied",
               p.undo = n, p # NoRollback
        PROVE  BooksStay
    <3>1. /\ \A v \in Restorer : IF v # r THEN rest'[v] = rest[v]
                                 ELSE rest'[v].s = rest[v].s /\
                                      (rest'[v].pc = "copied" => rest'[v].undo = rest[v].undo)
      BY <2>1, <2>2, <2>5
    <3>2. \A s \in Session : turn'[s].n = turn[s].n /\ (s # r => turn'[s].at = turn[s].at)
      BY <2>1
    <3> HIDE DEF p, q
    <3>3. BookS(r) \in Session /\ BookN(r) \in Number /\ Fresh(m, BookS(r), BookN(r))
      BY <2>1, <2>4, <2>5 DEF q
    <3> QED
      BY <1>0, <2>1, <2>4, <2>5, <3>1, <3>2, <3>3, BookIsRead
  <2>6. ASSUME NEW f \in File, NEW pre \in {disk[f], None},
               HoldsWith(r, q.s, n, f, [pre |-> pre, after |-> NoHash])
        PROVE  \E m : held' = [held EXCEPT ![r] = m] /\ Fresh(m, q.s, n)
    <3> DEFINE e == [pre |-> pre, after |-> NoHash]
               m == [DirOf(q.s, n).files EXCEPT ![f] = e]
    <3>1. e \in FileEntry /\ e.pre = pre /\ e.after = NoHash /\ held' = [held EXCEPT ![r] = m]
      BY <2>6 DEF HoldsWith
    <3> HIDE DEF e
    <3>2. Fresh(m, q.s, n)
      BY <3>1 DEF Fresh
    <3> HIDE DEF m
    <3> QED
      BY <3>1, <3>2
  <2>7. Fresh(DirOf(q.s, n).files, q.s, n)
    BY DEF Fresh
  <2> QED
    BY <2>1, <2>3, <2>5, <2>6, <2>7
<1>15. ASSUME NEW r \in Restorer, FilesCopy(r) PROVE BooksStay
  <2> DEFINE q == rest[r]
             p == rest'[r]
  <2>1. /\ q.pc = "copied" /\ q.s \in Session /\ q.undo \in Number /\ held[r] # None
        /\ rest' = [rest EXCEPT ![r] = p]
    BY <1>15, FilesCopyDoes
  <2>2. PICK ok \in BOOLEAN, X \in SUBSET File :
          WriteBack(r, q.s, q.undo, ok) /\ (UNCHANGED turn \/ Loses(q.s, X))
    BY <1>15, FilesCopyDoes
  <2>3. \A u \in Session : turn'[u].at = turn[u].at /\ turn'[u].n = turn[u].n
    BY <1>0, <2>1, <2>2, LosesTypes
  <2>4. BookS(r) = q.s /\ BookN(r) = q.undo /\ Holding(r) /\ r \in Checkpointer
    BY <1>0, <2>1 DEF BookS, BookN, Holding
  <2>5. \A v \in Restorer : v # r => rest'[v] = rest[v]
    BY <1>0, <2>1
  <2> QED
    BY <1>0, <2>1, <2>2, <2>3, <2>4, <2>5, BookIsWritten
<1>16. ASSUME NEW f \in File, Outside(f) PROVE BooksStay
  BY <1>2, <1>16 DEF Outside
<1>17. ASSUME Crash PROVE BooksStay
  <2>1. /\ UNCHANGED store
        /\ \A a \in Checkpointer : held'[a] = None
    BY <1>17 DEF Crash
  <2> QED
    BY <2>1 DEF BooksStay, Written, DirOf
<1>18. ASSUME UNCHANGED vars PROVE BooksStay
  BY <1>2, <1>18 DEF vars, dirVars
<1> QED
  BY <1>3, <1>4, <1>5, <1>6, <1>7, <1>8, <1>9, <1>10, <1>11, <1>12, <1>13, <1>14, <1>15,
     <1>16, <1>17, <1>18 DEF Next

\* What a step may put on disk: what was there, a new content, nothing, or what a
\* batch or a rollback has kept.
Puts(f) ==
  \/ disk'[f] \in {disk[f], clock', Absent}
  \/ \E w \in Writer : disk'[f] = op[w].orig[f]
  \/ \E r \in Restorer :
       /\ rest[r].pc # "idle" /\ rest[r].m[f] # None /\ rest[r].m[f].pre # None
       /\ disk'[f] = rest[r].m[f].pre

\* The clock never goes back, and every step puts only such contents on disk.
LEMMA StepPuts ==
  ASSUME Types, [Next]_vars
  PROVE  clock \in Nat /\ clock' \in Nat /\ clock <= clock' /\ \A f \in File : Puts(f)
<1> DEFINE Writes == clock' \in Nat /\ clock <= clock' /\ \A f \in File : Puts(f)
<1>1. TypeFiles /\ clock \in Nat
  BY CheckpointAssumption DEF Types, TypeOK, TypeFiles, Content
<1>2. UNCHANGED <<disk, clock>> => Writes
  BY <1>1 DEF Puts
<1>3. ASSUME NEW who, NEW g \in File, PutNew(who, g) PROVE Writes
  BY <1>1, <1>3 DEF PutNew, Put, Puts, TypeFiles
<1>4. ASSUME NEW s \in Session,
             \/ NextTurn(s) \/ OpensTurn(s) \/ BeginTurn(s)
             \/ ClosesTurn(s) \/ EndTurn(s) \/ Prune(s)
      PROVE  UNCHANGED <<disk, clock>>
  BY <1>4 DEF NextTurn, OpensTurn, BeginTurn, ClosesTurn, EndTurn, Prune, fileVars
<1>5. ASSUME NEW w \in Writer, NEW f \in Paths, GuardedCall(w, f) PROVE UNCHANGED <<disk, clock>>
  BY <1>5 DEF GuardedCall, fileVars
<1>6. ASSUME NEW w \in Writer,
             \/ RecordAfter(w) \/ CapturesNext(w) \/ BatchFails(w)
             \/ FilesCapture(w) \/ FilesAfter(w) \/ ReadsAfter(w)
      PROVE  UNCHANGED <<disk, clock>>
  BY <1>6 DEF RecordAfter, CapturesNext, BatchFails, FilesCapture, FilesAfter, ReadsAfter, fileVars
<1>7. ASSUME NEW w \in Writer, NEW files \in Batches, PlanBatch(w, files)
      PROVE  UNCHANGED <<disk, clock>>
  BY <1>7 DEF PlanBatch
<1>8. ASSUME NEW w \in Writer, ToolWrites(w) PROVE Writes
  <2>1. UNCHANGED fileVars \/ \E f \in op[w].files : PutNew(w, f)
    BY <1>8 DEF ToolWrites
  <2>2. op[w].files \subseteq File
    BY DEF Types, TypeOK, TypeOps, Op
  <2> QED
    BY <1>2, <1>3, <2>1, <2>2 DEF fileVars
<1>9. ASSUME NEW w \in Writer, AppliesNext(w) PROVE Writes
  <2>1. op[w].pc = "apply" /\ (UNCHANGED fileVars \/ PutNew(w, Min(op[w].todo)))
    BY <1>9 DEF AppliesNext
  <2>2. Min(op[w].todo) \in File
    BY <2>1, NextIsToDo DEF Types, TypeOK, TypeOps, Op, CallsGoOn, GoesOn
  <2> QED
    BY <1>2, <1>3, <2>1, <2>2 DEF fileVars
<1>10. ASSUME NEW w \in Writer, RollsBackNext(w) PROVE Writes
  <2> DEFINE g == Min(op[w].todo)
  <2>1. /\ op[w].pc = "rollback"
        /\ UNCHANGED fileVars \/ (Put(w, g, op[w].orig[g]) /\ UNCHANGED clock)
    BY <1>10 DEF RollsBackNext
  <2>2. g \in File
    BY <2>1, NextIsToDo DEF Types, TypeOK, TypeOps, Op, CallsGoOn, GoesOn
  <2> HIDE DEF g
  <2>3. ASSUME Put(w, g, op[w].orig[g]), UNCHANGED clock PROVE Writes
    <3>1. \A f \in File : disk'[f] = IF f = g THEN op[w].orig[g] ELSE disk[f]
      BY <1>1, <2>2, <2>3 DEF Put, TypeFiles
    <3> QED
      BY <1>1, <2>3, <3>1 DEF Puts
  <2> QED
    BY <1>2, <2>1, <2>3 DEF fileVars
<1>11. ASSUME NEW r \in Restorer,
              NumbersUndo(r) \/ CopiesNext(r) \/ FilesCopy(r) \/ DecidesNext(r)
       PROVE  UNCHANGED <<disk, clock>>
  BY <1>11 DEF NumbersUndo, CopiesNext, FilesCopy, DecidesNext, fileVars
<1>12. ASSUME NEW r \in Restorer, WritesNext(r) PROVE Writes
  <2> DEFINE g == Min(rest[r].todo)
  <2>1. /\ rest[r].pc = "write" /\ g \in File
        /\ UNCHANGED fileVars \/ (Put(r, g, rest[r].m[g].pre) /\ UNCHANGED clock)
    BY <1>12, RollbackPuts DEF WritesNext
  <2>2. rest[r].m[g] # None /\ rest[r].m[g].pre # None
    BY <1>12, <2>1, RollbackPuts DEF Types, RollbacksGoOn, Goes, Captured, Covered
  <2> HIDE DEF g
  <2>3. ASSUME Put(r, g, rest[r].m[g].pre), UNCHANGED clock PROVE Writes
    <3>1. \A f \in File : disk'[f] = IF f = g THEN rest[r].m[g].pre ELSE disk[f]
      BY <1>1, <2>1, <2>3 DEF Put, TypeFiles
    <3> QED
      BY <1>1, <2>1, <2>2, <2>3, <3>1 DEF Puts
  <2> QED
    BY <1>2, <2>1, <2>3 DEF fileVars
<1>13. ASSUME NEW r \in Restorer, NEW s \in Session, NEW n \in Number, NEW force \in BOOLEAN,
              Restore(r, s, n, force)
       PROVE  UNCHANGED <<disk, clock>>
  BY <1>13 DEF Restore, fileVars
<1>14. ASSUME NEW f \in File, Outside(f) PROVE Writes
  <2>1. PutNew(None, f) \/ (Put(None, f, Absent) /\ UNCHANGED clock)
    BY <1>14 DEF Outside
  <2>2. ASSUME Put(None, f, Absent), UNCHANGED clock PROVE Writes
    BY <1>1, <2>2 DEF Put, Puts, TypeFiles
  <2> QED
    BY <1>3, <2>1, <2>2
<1>15. ASSUME Crash \/ UNCHANGED vars PROVE UNCHANGED <<disk, clock>>
  BY <1>15 DEF Crash, vars, fileVars
<1> HIDE DEF Writes
<1>16. Writes
  BY <1>2, <1>4, <1>5, <1>6, <1>7, <1>8, <1>9, <1>10, <1>11, <1>12, <1>13, <1>14, <1>15
     DEF Next
<1> QED
  BY <1>1, <1>16 DEF Writes

\* What a writer remembers of contents it has read off the disk.
LEMMA WriterRemembers ==
  ASSUME Types, [Next]_vars, NEW w \in Writer
  PROVE  /\ op'[w].saw \in {op[w].saw, Absent} \/ \E f \in File : op'[w].saw = disk[f]
         /\ \A f \in File : op'[w].orig[f] \in {op[w].orig[f], disk[f], Absent}
<1> DEFINE Remembers(o) ==
     /\ o.saw \in {op[w].saw, Absent} \/ \E f \in File : o.saw = disk[f]
     /\ \A f \in File : o.orig[f] \in {op[w].orig[f], disk[f], Absent}
<1>1. op \in [Writer -> Op] /\ op[w] \in Op
  BY DEF Types, TypeOK, TypeOps
<1>2. Remembers(op[w]) /\ Remembers(Idle)
  BY DEF Idle
<1>3. ASSUME NEW f \in Paths, GuardedCall(w, f) PROVE Remembers(op'[w])
  <2>1. op'[w] = [Idle EXCEPT !.pc = "capture", !.files = {f}, !.todo = {f}]
    BY <1>1, <1>3 DEF GuardedCall
  <2> QED
    BY <2>1 DEF Idle
<1>4. ASSUME NEW files \in Batches, PlanBatch(w, files) PROVE Remembers(op'[w])
  <2> DEFINE was == [g \in File |-> IF g \in files THEN disk[g] ELSE Absent]
             o == [Idle EXCEPT !.pc = "capture", !.batch = TRUE, !.files = files,
                               !.todo = files, !.orig = was]
  <2>1. op' = [op EXCEPT ![w] = o]
    BY <1>4 DEF PlanBatch
  <2>2. \A g \in File : was[g] \in {disk[g], Absent}
    OBVIOUS
  <2> HIDE DEF was
  <2>3. o.saw = Absent /\ o.orig = was
    BY DEF Idle
  <2> HIDE DEF o
  <2> QED
    BY <1>1, <2>1, <2>2, <2>3
<1>5. ASSUME NEW o, o.saw = op[w].saw, o.orig = op[w].orig PROVE Remembers(o)
  BY <1>5
<1>6. /\ \A p : [op[w] EXCEPT !.pc = p].saw = op[w].saw /\ [op[w] EXCEPT !.pc = p].orig = op[w].orig
      /\ Onwards(op[w]).saw = op[w].saw /\ Onwards(op[w]).orig = op[w].orig
  BY <1>1 DEF Op, Onwards
<1>7. ASSUME CapturesNext(w) \/ FilesCapture(w) PROVE Remembers(op'[w])
  <2>1. op'[w] \in {[op[w] EXCEPT !.pc = "files"], Onwards(op[w])}
    BY <1>1, <1>7 DEF CapturesNext, FilesCapture
  <2> HIDE DEF Remembers
  <2> QED
    BY <1>5, <1>6, <2>1
<1>8. ASSUME ToolWrites(w) \/ RecordAfter(w) PROVE Remembers(op'[w])
  <2>1. op'[w] \in {[op[w] EXCEPT !.pc = "hash"], [op[w] EXCEPT !.pc = "recording"], Idle}
    BY <1>1, <1>8 DEF ToolWrites, RecordAfter
  <2> HIDE DEF Remembers
  <2> QED
    BY <1>2, <1>5, <1>6, <2>1
<1>9. ASSUME ReadsAfter(w) PROVE Remembers(op'[w])
  <2>1. PICK g \in op[w].files : op' = [op EXCEPT ![w].pc = "record", ![w].saw = disk[g]]
    BY <1>9 DEF ReadsAfter
  <2>2. op'[w].saw = disk[g] /\ op'[w].orig = op[w].orig /\ g \in File
    BY <1>1, <2>1 DEF Op
  <2> QED
    BY <2>2
<1>10. ASSUME AppliesNext(w) \/ RollsBackNext(w) PROVE Remembers(op'[w])
  <2>1. op'[w] = Idle \/ (op'[w].saw = op[w].saw /\ op'[w].orig = op[w].orig)
    <3>1. CASE AppliesNext(w)
      BY <1>1, <3>1 DEF AppliesNext, Op
    <3>2. CASE RollsBackNext(w)
      BY <1>1, <3>2 DEF RollsBackNext, Op
    <3> QED
      BY <1>10, <3>1, <3>2
  <2> HIDE DEF Remembers
  <2> QED
    BY <1>2, <1>5, <2>1
<1>11. Remembers(op'[w])
  <2> HIDE DEF Remembers
  <2> QED
    BY <1>2, <1>3, <1>4, <1>7, <1>8, <1>9, <1>10, WriterMoves DEF Moves
<1> QED
  BY <1>11

\* A turn's end is noted as it is closed, and no later.
LEMMA EndIsNow ==
  ASSUME Types, [Next]_vars, NEW s \in Session, NEW n \in Number
  PROVE  ended'[s][n] \in {ended[s][n], None, clock}
<1>1. ended \in [Session -> [Number -> Content \cup {None}]]
  BY DEF Types, TypeOK, TypeEnded
<1>2. ASSUME NEW t \in Session, NextTurn(t) PROVE ended'[s][n] \in {ended[s][n], None}
  <2>1. ended' = [ended EXCEPT ![t] = [ended[t] EXCEPT ![Highest(t) + 1] = None]]
    BY <1>2 DEF NextTurn
  <2> QED
    BY <1>1, <2>1
<1>3. ASSUME NEW t \in Session, ClosesTurn(t) PROVE ended'[s][n] \in {ended[s][n], clock}
  <2>1. ended' = [ended EXCEPT ![t] = [ended[t] EXCEPT ![turn[t].n] = clock]]
    BY <1>3 DEF ClosesTurn
  <2> QED
    BY <1>1, <2>1
<1>4. ASSUME NEW t \in Session, OpensTurn(t) \/ BeginTurn(t) \/ EndTurn(t) \/ Prune(t)
      PROVE  ended' = ended
  BY <1>4 DEF OpensTurn, BeginTurn, EndTurn, Prune
<1>5. ASSUME NEW w \in Writer,
             \/ \E f \in Paths : GuardedCall(w, f)
             \/ \E files \in Batches : PlanBatch(w, files)
             \/ CapturesNext(w) \/ FilesCapture(w)
      PROVE  ended' = ended
  BY <1>5 DEF GuardedCall, PlanBatch, CapturesNext, FilesCapture
<1>6. ASSUME NEW w \in Writer,
             \/ ToolWrites(w) \/ ReadsAfter(w) \/ RecordAfter(w) \/ FilesAfter(w)
             \/ AppliesNext(w) \/ RollsBackNext(w) \/ BatchFails(w)
      PROVE  ended' = ended
  BY <1>6 DEF ToolWrites, ReadsAfter, RecordAfter, FilesAfter, AppliesNext, RollsBackNext, BatchFails
<1>7. ASSUME NEW r \in Restorer,
             \/ \E t \in Session, k \in Number, force \in BOOLEAN : Restore(r, t, k, force)
             \/ NumbersUndo(r) \/ CopiesNext(r) \/ FilesCopy(r) \/ DecidesNext(r) \/ WritesNext(r)
      PROVE  ended' = ended
  BY <1>7 DEF Restore, NumbersUndo, CopiesNext, FilesCopy, DecidesNext, WritesNext
<1>8. ASSUME (\E f \in File : Outside(f)) \/ Crash \/ UNCHANGED vars PROVE ended' = ended
  BY <1>8 DEF Outside, Crash, vars
<1> QED
  BY <1>2, <1>3, <1>4, <1>5, <1>6, <1>7, <1>8 DEF Next

\* A turn that goes on has not ended: its number was nobody's end when it was given.
LEMMA OpenWhileRunningStep ==
  ASSUME Types, Types', HoldersHold, OpenWhileRunning, [Next]_vars PROVE OpenWhileRunning'
<1> SUFFICES ASSUME NEW s \in Session, turn'[s].at \in {"numbered", "opening", "running"}
             PROVE  ended'[s][turn'[s].n] = None
  BY DEF OpenWhileRunning
<1> DEFINE Open(t) == t.at \in {"numbered", "opening", "running"}
           Same == turn'[s].n = turn[s].n /\ Open(turn[s])
<1>0. /\ TypeTurns /\ turn \in [Session -> Turn] /\ turn'[s].n \in Number
      /\ ended \in [Session -> [Number -> Content \cup {None}]]
  BY DEF Types, TypeOK, TypeTurns, TypeEnded
<1>1. Same => ended[s][turn'[s].n] = None
  BY DEF OpenWhileRunning
<1>2. UNCHANGED turn => Same
  OBVIOUS
<1>3. ASSUME NEW t \in Session, NextTurn(t) PROVE ended'[s][turn'[s].n] = None
  <2> DEFINE q == [NoTurn EXCEPT !.at = "numbered", !.n = Highest(t) + 1]
  <2>1. /\ turn' = [turn EXCEPT ![t] = q]
        /\ ended' = [ended EXCEPT ![t] = [ended[t] EXCEPT ![Highest(t) + 1] = None]]
    BY <1>3 DEF NextTurn
  <2>2. q.n = Highest(t) + 1
    BY DEF NoTurn
  <2> HIDE DEF q
  <2>3. CASE t = s
    BY <1>0, <2>1, <2>2, <2>3
  <2>4. CASE t # s
    <3>1. turn'[s] = turn[s] /\ ended'[s] = ended[s]
      BY <1>0, <2>1, <2>4
    <3> QED
      BY <1>1, <3>1
  <2> QED
    BY <2>3, <2>4
<1>4. ASSUME NEW t \in Session, ClosesTurn(t) PROVE ended'[s][turn'[s].n] = None
  <2>1. /\ turn' = [turn EXCEPT ![t].at = "closing"]
        /\ ended' = [ended EXCEPT ![t] = [ended[t] EXCEPT ![turn[t].n] = clock]]
    BY <1>4 DEF ClosesTurn
  <2>2. t # s
    BY <1>0, <2>1 DEF Turn
  <2>3. turn'[s] = turn[s] /\ ended'[s] = ended[s]
    BY <1>0, <2>1, <2>2
  <2> QED
    BY <1>1, <2>3
<1>5. ASSUME NEW t \in Session, OpensTurn(t) \/ BeginTurn(t) \/ EndTurn(t) PROVE Same /\ ended' = ended
  <2>1. CASE OpensTurn(t)
    BY <1>0, <2>1 DEF OpensTurn, Turn
  <2>2. CASE BeginTurn(t)
    BY <1>0, <2>2 DEF BeginTurn, Turn
  <2>3. CASE EndTurn(t)
    BY <1>0, <2>3 DEF EndTurn, Turn
  <2> QED
    BY <1>5, <2>1, <2>2, <2>3
<1>6. ASSUME NEW t \in Session, Prune(t) PROVE Same /\ ended' = ended
  <2>1. PICK doomed : Drops(t, doomed)
    BY <1>6, PruneDrops
  <2>2. turn'[s].at = "none" \/ (turn'[s].at = turn[s].at /\ turn'[s].n = turn[s].n)
    BY <1>0, <2>1 DEF Drops, NoTurn, Turn
  <2> QED
    BY <1>6, <2>2 DEF Prune
<1>7. ASSUME NEW w \in Writer, CapturesNext(w) \/ FilesCapture(w) PROVE Same /\ ended' = ended
  <2> DEFINE f == Min(op[w].todo)
  <2>1. /\ SessionOf[w] \in Session /\ f \in File
        /\ UNCHANGED turn \/ \E X \in {{}, {f}} : Loses(SessionOf[w], X)
    <3>1. CASE CapturesNext(w)
      BY <3>1, CapturesNextDoes
    <3>2. CASE FilesCapture(w)
      BY <3>2, FilesCaptureDoes
    <3> QED
      BY <1>7, <3>1, <3>2
  <2>2. \A X \in {{}, {f}} : X \in SUBSET File
    BY <2>1
  <2>3. ended' = ended
    BY <1>7 DEF CapturesNext, FilesCapture
  <2>4. UNCHANGED turn \/ (turn'[s].at = turn[s].at /\ turn'[s].n = turn[s].n)
    BY <1>0, <2>1, <2>2, LosesTypes
  <2> QED
    BY <2>3, <2>4
<1>8. ASSUME NEW w \in Writer,
             \/ \E f \in Paths : GuardedCall(w, f)
             \/ \E files \in Batches : PlanBatch(w, files)
             \/ ToolWrites(w) \/ ReadsAfter(w) \/ RecordAfter(w) \/ FilesAfter(w)
             \/ AppliesNext(w) \/ RollsBackNext(w) \/ BatchFails(w)
      PROVE  turn' = turn /\ ended' = ended
  BY <1>8 DEF GuardedCall, PlanBatch, ToolWrites, ReadsAfter, RecordAfter, FilesAfter,
              AppliesNext, RollsBackNext, BatchFails
<1>9. ASSUME NEW r \in Restorer,
             \/ \E t \in Session, k \in Number, force \in BOOLEAN : Restore(r, t, k, force)
             \/ NumbersUndo(r) \/ CopiesNext(r) \/ DecidesNext(r) \/ WritesNext(r)
      PROVE  turn' = turn /\ ended' = ended
  BY <1>9 DEF Restore, NumbersUndo, CopiesNext, DecidesNext, WritesNext
<1>10. ASSUME NEW r \in Restorer, FilesCopy(r) PROVE Same /\ ended' = ended
  <2>1. rest[r].s \in Session /\ ended' = ended
        /\ \E X \in SUBSET File : UNCHANGED turn \/ Loses(rest[r].s, X)
    BY <1>10, FilesCopyDoes
  <2>2. UNCHANGED turn \/ (turn'[s].at = turn[s].at /\ turn'[s].n = turn[s].n)
    BY <1>0, <2>1, LosesTypes
  <2> QED
    BY <2>1, <2>2
<1>11. ASSUME (\E f \in File : Outside(f)) \/ UNCHANGED vars PROVE turn' = turn /\ ended' = ended
  BY <1>11 DEF Outside, vars
<1>12. ~ Crash
  BY DEF Crash, NoTurn
<1> HIDE DEF Same
<1> QED
  BY <1>1, <1>2, <1>3, <1>4, <1>5, <1>6, <1>7, <1>8, <1>9, <1>10, <1>11, <1>12 DEF Next

\* A rollback's manifest is the one it read, and its plan what phase one found: it
\* has stayed where it is, is done, has just read one, or goes on with the same.
Rereads(r) ==
  \E s \in Session, n \in Number :
    /\ rest'[r].s = s /\ rest'[r].n = n /\ rest'[r].m = DirOf(s, n).files
    /\ \A f \in File : rest'[r].plan[f] = None

Same(p, q) == p.s = q.s /\ p.n = q.n /\ p.m = q.m /\ p.force = q.force

GoesBack(r) ==
  /\ rest[r].pc # "idle" /\ Same(rest'[r], rest[r])
  /\ \A f \in File :
       \/ rest'[r].plan[f] \in {None, rest[r].plan[f]}
       \/ PutsBack(r, f) /\ rest'[r].plan[f] = disk[f]

LEMMA RollbackReads ==
  ASSUME Types, HoldersHold, [Next]_vars, NEW r \in Restorer
  PROVE  rest'[r] = rest[r] \/ rest'[r] = NoRollback \/ Rereads(r) \/ GoesBack(r)
<1> DEFINE Ok == rest'[r] = rest[r] \/ rest'[r] = NoRollback \/ Rereads(r) \/ GoesBack(r)
<1>0. rest \in [Restorer -> Rollback] /\ rest[r] \in Rollback
  BY DEF Types, TypeOK, TypeRests
<1>1. rest' = rest => Ok
  OBVIOUS
<1>2. ASSUME NEW v \in Restorer, v # r, NEW q, rest' = [rest EXCEPT ![v] = q] PROVE Ok
  BY <1>0, <1>2
<1>3. ASSUME NEW v \in Restorer, NEW s \in Session, NEW n \in Number, NEW force \in BOOLEAN,
             Restore(v, s, n, force)
      PROVE  Ok
  <2> DEFINE q == [NoRollback EXCEPT !.pc = "number", !.s = s, !.n = n,
                                     !.force = force, !.m = store[s][n].files]
  <2>1. store[s][n] # None /\ rest' = [rest EXCEPT ![v] = q]
    BY <1>3 DEF Restore
  <2>2. q.s = s /\ q.n = n /\ q.m = store[s][n].files /\ q.plan = NoFiles
    BY DEF NoRollback
  <2> HIDE DEF q
  <2>3. CASE v = r
    <3>1. rest'[r] = q
      BY <1>0, <2>1, <2>3
    <3>2. q.m = DirOf(s, n).files /\ \A f \in File : q.plan[f] = None
      BY <2>1, <2>2 DEF DirOf, NoFiles
    <3>3. Rereads(r)
      BY <2>2, <3>1, <3>2 DEF Rereads
    <3> QED
      BY <3>3
  <2> QED
    BY <1>2, <2>1, <2>3
<1>4. ASSUME NEW v \in Restorer, NEW q, rest' = [rest EXCEPT ![v] = q], rest[v].pc # "idle",
             q = NoRollback \/ (Same(q, rest[v]) /\ q.plan = rest[v].plan)
      PROVE  Ok
  <2>1. CASE v = r
    <3>1. rest'[r] = q
      BY <1>0, <1>4, <2>1
    <3>2. q = NoRollback \/ GoesBack(r)
      BY <1>4, <2>1, <3>1 DEF GoesBack, Same
    <3> QED
      BY <3>1, <3>2
  <2> QED
    BY <1>2, <1>4, <2>1
<1>5. ASSUME NEW v \in Restorer, NumbersUndo(v) PROVE Ok
  <2> DEFINE q == [rest[v] EXCEPT !.pc = "copy", !.undo = Highest(rest[v].s) + 1,
                                  !.todo = Covered(rest[v].m)]
  <2>1. rest[v].pc = "number" /\ rest' = [rest EXCEPT ![v] = q]
    BY <1>5 DEF NumbersUndo
  <2>2. Same(q, rest[v]) /\ q.plan = rest[v].plan
    BY <1>0 DEF Rollback, Same
  <2> HIDE DEF q, Ok
  <2> QED
    BY <1>4, <2>1, <2>2
<1>6. ASSUME NEW v \in Restorer, CopiesNext(v) \/ FilesCopy(v) PROVE Ok
  <2> DEFINE q == rest'[v]
  <2>1. /\ rest[v].pc \in {"copy", "copied"} /\ rest' = [rest EXCEPT ![v] = q]
        /\ q = NoRollback \/ (Same(q, rest[v]) /\ q.plan = rest[v].plan)
    <3>1. CASE CopiesNext(v)
      BY <3>1, CopiesNextDoes DEF Same
    <3>2. CASE FilesCopy(v)
      BY <3>2, FilesCopyDoes DEF Same
    <3> QED
      BY <1>6, <3>1, <3>2
  <2>2. PICK p : p = rest'[v]
    OBVIOUS
  <2> HIDE DEF Ok
  <2> QED
    BY <1>4, <2>1, <2>2
<1>7. ASSUME NEW v \in Restorer, DecidesNext(v) PROVE Ok
  <2> DEFINE g == Min(rest[v].todo)
             left == rest[v].todo \ {g}
             was == IF PutsBack(v, g) THEN disk[g] ELSE None
             plan == [rest[v].plan EXCEPT ![g] = was]
             now == [rest[v] EXCEPT !.plan = plan, !.todo = left]
             on == [now EXCEPT !.pc = "write", !.todo = Captured(plan)]
             q == IF left # {} THEN now ELSE IF Captured(plan) = {} THEN NoRollback ELSE on
  <2>1. rest[v].pc = "decide" /\ rest' = [rest EXCEPT ![v] = q]
    BY <1>7 DEF DecidesNext
  <2>2. was = None \/ (PutsBack(v, g) /\ was = disk[g])
    OBVIOUS
  <2> HIDE DEF left, was
  <2>3. rest[v] \in Rollback
    BY <1>0
  <2>4. /\ now.s = rest[v].s /\ now.n = rest[v].n /\ now.m = rest[v].m
        /\ now.force = rest[v].force /\ now.plan = plan
    BY <2>3 DEF Rollback
  <2>5. /\ on.s = rest[v].s /\ on.n = rest[v].n /\ on.m = rest[v].m
        /\ on.force = rest[v].force /\ on.plan = plan
    BY <2>3 DEF Rollback
  <2>6. \A f \in File : plan[f] = IF f = g THEN was ELSE rest[v].plan[f]
    BY <2>3 DEF Rollback
  <2> HIDE DEF plan, now, on, g
  <2>7. \A f \in File : plan[f] \in {None, rest[v].plan[f]} \/ (PutsBack(v, f) /\ plan[f] = disk[f])
    BY <2>2, <2>6
  <2>8. q = NoRollback \/ (Same(q, rest[v]) /\ q.plan = plan)
    BY <2>4, <2>5 DEF Same
  <2> HIDE DEF q
  <2>9. CASE v = r
    <3>1. rest'[r] = q
      BY <1>0, <2>1, <2>9
    <3>2. q = NoRollback \/ GoesBack(r)
      BY <2>1, <2>7, <2>8, <2>9, <3>1 DEF GoesBack
    <3> QED
      BY <3>1, <3>2
  <2> QED
    BY <1>2, <2>1, <2>9
<1>8. ASSUME NEW v \in Restorer, WritesNext(v) PROVE Ok
  <2> DEFINE left == rest[v].todo \ {Min(rest[v].todo)}
             q == Step(v, left, NoRollback)
  <2>1. rest[v].pc = "write" /\ rest' = [rest EXCEPT ![v] = q]
    BY <1>8 DEF WritesNext
  <2> HIDE DEF left
  <2>2. q = NoRollback \/ (Same(q, rest[v]) /\ q.plan = rest[v].plan)
    BY <1>0 DEF Step, Rollback, Same
  <2> HIDE DEF q, Ok
  <2> QED
    BY <1>4, <2>1, <2>2
<1>9. ASSUME NEW s \in Session,
             \/ NextTurn(s) \/ OpensTurn(s) \/ BeginTurn(s)
             \/ ClosesTurn(s) \/ EndTurn(s) \/ Prune(s)
      PROVE  rest' = rest
  BY <1>9 DEF NextTurn, OpensTurn, BeginTurn, ClosesTurn, EndTurn, Prune
<1>10. ASSUME NEW w \in Writer,
              \/ \E f \in Paths : GuardedCall(w, f)
              \/ \E files \in Batches : PlanBatch(w, files)
              \/ CapturesNext(w) \/ FilesCapture(w)
       PROVE  rest' = rest
  BY <1>10 DEF GuardedCall, PlanBatch, CapturesNext, FilesCapture
<1>11. ASSUME NEW w \in Writer,
              \/ ToolWrites(w) \/ ReadsAfter(w) \/ RecordAfter(w) \/ FilesAfter(w)
              \/ AppliesNext(w) \/ RollsBackNext(w) \/ BatchFails(w)
       PROVE  rest' = rest
  BY <1>11 DEF ToolWrites, ReadsAfter, RecordAfter, FilesAfter, AppliesNext, RollsBackNext, BatchFails
<1>12. ASSUME (\E f \in File : Outside(f)) \/ UNCHANGED vars PROVE rest' = rest
  BY <1>12 DEF Outside, vars
<1>13. Crash => rest'[r] = NoRollback
  BY DEF Crash
<1> HIDE DEF Ok
<1>14. Ok
  <2>1. Crash => Ok
    BY <1>13 DEF Ok
  <2> QED
    BY <1>1, <1>3, <1>5, <1>6, <1>7, <1>8, <1>9, <1>10, <1>11, <1>12, <2>1 DEF Next
<1> QED
  BY <1>14 DEF Ok

\* What is old stays old, and what is of its turn stays so.
LEMMA OldStaysOld ==
  ASSUME Types, [Next]_vars, NEW m \in Manifest, IsOld(m, clock)
  PROVE  IsOld(m, clock')
<1>1. clock \in Nat /\ clock' \in Nat /\ clock <= clock'
  BY StepPuts
<1>2. ASSUME NEW f \in File, m[f] # None
      PROVE  (m[f].pre # None => m[f].pre <= clock') /\ m[f].after <= clock'
  <2>1. m[f].pre \in Nat \cup {None} /\ m[f].after \in Nat
    BY <1>2, RecordIsOne, CheckpointAssumption DEF FileEntry, Content
  <2> QED
    BY <1>1, <1>2, <2>1 DEF IsOld
<1> QED
  BY <1>2 DEF IsOld

LEMMA OfStaysOf ==
  ASSUME Types, [Next]_vars, NEW s \in Session, NEW n \in Number, NEW m \in Manifest,
         IsOld(m, clock), IsOf(m, ended[s][n])
  PROVE  IsOf(m, ended'[s][n])
BY EndIsNow DEF IsOf, IsOld

\* So is what is about to be written.
LEMMA FreshIsBoth ==
  ASSUME Types, NothingIsNewer, OpenWhileRunning, RecordsAreOfTheTurn,
         NEW s \in Session, NEW n \in Number, NEW m, Fresh(m, s, n)
  PROVE  m \in Manifest /\ IsOld(m, clock) /\ IsOf(m, ended[s][n])
<1> DEFINE d == DirOf(s, n).files
<1>1. d \in Manifest /\ IsOld(d, clock) /\ IsOf(d, ended[s][n])
  BY DirOfIsDir DEF Types, TypeOK, NothingIsNewer, RecordsAreOfTheTurn
<1>2. /\ clock \in Nat /\ \A f \in File : disk[f] \in Nat /\ disk[f] <= clock
      /\ \A w \in Writer : op[w].saw \in Nat /\ op[w].saw <= clock
      /\ ended[s][n] \in Nat \cup {None}
  BY CheckpointAssumption
     DEF Types, TypeOK, TypeFiles, TypeOps, TypeEnded, Op, Content, NothingIsNewer
<1> HIDE DEF d
<1>3. CASE m = d
  BY <1>1, <1>3
<1>4. ASSUME NEW f \in File, NEW e \in FileEntry, m = [d EXCEPT ![f] = e],
             e.pre \in {disk[f], None} \/ (d[f] # None /\ e.pre = d[f].pre),
             \/ e.after = NoHash
             \/ (\E w \in Writer : e.after = op[w].saw) /\ turn[s].at = "running" /\ turn[s].n = n
      PROVE  m \in Manifest /\ IsOld(m, clock) /\ IsOf(m, ended[s][n])
  <2>1. m \in Manifest /\ \A g \in File : m[g] = IF g = f THEN e ELSE d[g]
    <3>1. /\ [d EXCEPT ![f] = e] \in Manifest
          /\ \A g \in File : [d EXCEPT ![f] = e][g] = IF g = f THEN e ELSE d[g]
      BY <1>1, ManifestWith
    <3> QED
      BY <1>4, <3>1
  <2>2. e.pre # None => e.pre <= clock
    <3>1. CASE e.pre \in {disk[f], None}
      BY <1>2, <3>1
    <3>2. CASE d[f] # None /\ e.pre = d[f].pre
      BY <1>1, <3>2 DEF IsOld
    <3> QED
      BY <1>4, <3>1, <3>2
  <2>3. e.after <= clock /\ (ended[s][n] # None => e.after <= ended[s][n])
    <3>1. CASE e.after = NoHash
      BY <1>2, <3>1 DEF NoHash
    <3>2. CASE (\E w \in Writer : e.after = op[w].saw) /\ turn[s].at = "running" /\ turn[s].n = n
      BY <1>2, <3>2 DEF OpenWhileRunning
    <3> QED
      BY <1>4, <3>1, <3>2
  <2>4. IsOld(m, clock)
    BY <1>1, <2>1, <2>2, <2>3 DEF IsOld
  <2>5. IsOf(m, ended[s][n])
    BY <1>1, <2>1, <2>3 DEF IsOf
  <2> QED
    BY <2>1, <2>4, <2>5
<1> QED
  BY <1>3, <1>4 DEF Fresh, d

\* Whoever is about to write a manifest is about to write one of a turn.
LEMMA BookIsOne ==
  ASSUME Types, NEW a \in Checkpointer, Holding(a)
  PROVE  BookS(a) \in Session /\ BookN(a) \in Number
<1>1. CASE a \in Session
  BY <1>1 DEF Holding, BookS, BookN, Types, TypeOK, TypeTurns
<1>2. CASE a \notin Session
  BY <1>2 DEF Holding, BookS, BookN, Checkpointer, Types, RollbacksGoOn, Goes
<1> QED
  BY <1>1, <1>2

\* What every step makes of the three places there are manifests in.
LEMMA HeldIsBoth ==
  ASSUME Types, HoldersHold, RollbackInv, [Next]_vars,
         NEW a \in Checkpointer, Holding(a)', held'[a] # None
  PROVE  /\ IsOld(held'[a], clock')
         /\ IsOf(held'[a], ended'[BookS(a)'][BookN(a)'])
<1>1. Keeps(a)
  BY BooksStep DEF BooksStay
<1>2. PICK m, s, n : m = held'[a] /\ s = BookS(a) /\ n = BookN(a)
  OBVIOUS
<1>3. BookS(a)' = s /\ BookN(a)' = n
  BY <1>1, <1>2 DEF Keeps
<1>4. s \in Session /\ n \in Number /\ m \in Manifest /\ IsOld(m, clock) /\ IsOf(m, ended[s][n])
  <2>1. CASE held'[a] = held[a] /\ Holding(a)
    <3>1. m \in Manifest
      BY <1>2, <2>1 DEF Types, TypeOK, TypeDirs
    <3> QED
      BY <1>2, <2>1, <3>1, BookIsOne DEF RollbackInv, NothingIsNewer, RecordsAreOfTheTurn
  <2>2. CASE s \in Session /\ n \in Number /\ Fresh(m, s, n)
    BY <2>2, FreshIsBoth DEF RollbackInv
  <2> QED
    BY <1>1, <1>2, <2>1, <2>2 DEF Keeps
<1>5. IsOld(m, clock') /\ IsOf(m, ended'[s][n])
  BY <1>4, OldStaysOld, OfStaysOf
<1> QED
  BY <1>2, <1>3, <1>5

LEMMA DirIsBoth ==
  ASSUME Types, HoldersHold, RollbackInv, [Next]_vars, NEW s \in Session, NEW n \in Number
  PROVE  /\ IsOld(DirOf(s, n)'.files, clock')
         /\ IsOf(DirOf(s, n)'.files, ended'[s][n])
<1>1. Written(s, n)
  BY BooksStep DEF BooksStay
<1>2. PICK m : m = DirOf(s, n)'.files
  OBVIOUS
<1>3. m \in Manifest /\ IsOld(m, clock) /\ IsOf(m, ended[s][n])
  <2>1. CASE m = DirOf(s, n).files
    BY <2>1, DirOfIsDir DEF Types, TypeOK, RollbackInv, NothingIsNewer, RecordsAreOfTheTurn
  <2>2. CASE m = NoFiles
    BY <2>2 DEF NoFiles, Manifest, IsOld, IsOf
  <2>3. ASSUME NEW a \in Checkpointer, Holding(a), held[a] # None, BookS(a) = s, BookN(a) = n,
               m = held[a]
        PROVE  m \in Manifest /\ IsOld(m, clock) /\ IsOf(m, ended[s][n])
    BY <2>3 DEF Types, TypeOK, TypeDirs, RollbackInv, NothingIsNewer, RecordsAreOfTheTurn
  <2> QED
    BY <1>1, <1>2, <2>1, <2>2, <2>3 DEF Written
<1>4. IsOld(m, clock') /\ IsOf(m, ended'[s][n])
  BY <1>3, OldStaysOld, OfStaysOf
<1> QED
  BY <1>2, <1>4

LEMMA ReadIsBoth ==
  ASSUME Types, HoldersHold, RollbackInv, [Next]_vars, NEW r \in Restorer, rest'[r].pc # "idle"
  PROVE  /\ IsOld(rest'[r].m, clock')
         /\ IsOf(rest'[r].m, ended'[rest'[r].s][rest'[r].n])
<1>1. PICK m, s, n : m = rest'[r].m /\ s = rest'[r].s /\ n = rest'[r].n
  OBVIOUS
<1>2. s \in Session /\ n \in Number /\ m \in Manifest /\ IsOld(m, clock) /\ IsOf(m, ended[s][n])
  <2>1. CASE rest[r].pc # "idle" /\ Same(rest'[r], rest[r])
    <3>1. s = rest[r].s /\ n = rest[r].n /\ m = rest[r].m
      BY <1>1, <2>1 DEF Same
    <3>2. s \in Session /\ n \in Number /\ m \in Manifest
      BY <2>1, <3>1 DEF Types, TypeOK, TypeRests, Rollback, RollbacksGoOn, Goes
    <3> QED
      BY <2>1, <3>1, <3>2 DEF RollbackInv, NothingIsNewer, RecordsAreOfTheTurn
  <2>2. CASE Rereads(r)
    <3>1. s \in Session /\ n \in Number /\ m = DirOf(s, n).files
      BY <1>1, <2>2 DEF Rereads
    <3> QED
      BY <3>1, DirOfIsDir DEF Types, TypeOK, RollbackInv, NothingIsNewer, RecordsAreOfTheTurn
  <2>3. rest'[r] # NoRollback
    BY DEF NoRollback
  <2> QED
    BY <2>1, <2>2, <2>3, RollbackReads DEF GoesBack, Same
<1>3. IsOld(m, clock') /\ IsOf(m, ended'[s][n])
  BY <1>2, OldStaysOld, OfStaysOf
<1> QED
  BY <1>1, <1>3

LEMMA NothingIsNewerStep ==
  ASSUME Types, HoldersHold, RollbackInv, [Next]_vars PROVE NothingIsNewer'
<1>1. clock \in Nat /\ clock' \in Nat /\ clock <= clock'
  BY StepPuts
<1>2. /\ \A f \in File : disk[f] \in Nat /\ disk[f] <= clock
      /\ \A w \in Writer : /\ op[w].saw \in Nat /\ op[w].saw <= clock
                           /\ \A f \in File : op[w].orig[f] \in Nat /\ op[w].orig[f] <= clock
  BY CheckpointAssumption
     DEF Types, TypeOK, TypeFiles, TypeOps, Op, Content, RollbackInv, NothingIsNewer
<1>3. ASSUME NEW r \in Restorer, NEW f \in File, rest[r].pc # "idle", rest[r].m[f] # None,
             rest[r].m[f].pre # None
      PROVE  rest[r].m[f].pre \in Nat /\ rest[r].m[f].pre <= clock
  <2>1. rest[r].m[f] \in FileEntry
    BY <1>3 DEF Types, TypeOK, TypeRests, Rollback, Manifest
  <2> QED
    BY <1>3, <2>1, CheckpointAssumption DEF FileEntry, Content, RollbackInv, NothingIsNewer, IsOld
<1>4. Absent \in Nat /\ Absent <= clock
  BY <1>1 DEF Absent
<1>5. ASSUME NEW f \in File PROVE disk'[f] <= clock'
  <2>1. Puts(f)
    BY StepPuts
  <2>2. CASE disk'[f] = clock'
    BY <1>1, <2>2
  <2>3. CASE disk'[f] \in Nat /\ disk'[f] <= clock
    BY <1>1, <2>3
  <2> QED
    BY <1>2, <1>3, <1>4, <2>1, <2>2, <2>3 DEF Puts
<1>6. ASSUME NEW w \in Writer
      PROVE  op'[w].saw <= clock' /\ \A f \in File : op'[w].orig[f] <= clock'
  <2>1. /\ op'[w].saw \in {op[w].saw, Absent} \/ \E f \in File : op'[w].saw = disk[f]
        /\ \A f \in File : op'[w].orig[f] \in {op[w].orig[f], disk[f], Absent}
    BY WriterRemembers
  <2>2. op'[w].saw \in Nat /\ op'[w].saw <= clock
    BY <1>2, <1>4, <2>1
  <2>3. \A f \in File : op'[w].orig[f] \in Nat /\ op'[w].orig[f] <= clock
    BY <1>2, <1>4, <2>1
  <2> QED
    BY <1>1, <2>2, <2>3
<1>7. \A s \in Session, n \in Number : IsOld(DirOf(s, n)'.files, clock')
  BY DirIsBoth
<1>8. \A a \in Checkpointer : Holding(a)' /\ held'[a] # None => IsOld(held'[a], clock')
  BY HeldIsBoth
<1>9. \A r \in Restorer : rest'[r].pc # "idle" => IsOld(rest'[r].m, clock')
  BY ReadIsBoth
<1> QED
  BY <1>5, <1>6, <1>7, <1>8, <1>9 DEF NothingIsNewer

LEMMA RecordsAreOfTheTurnStep ==
  ASSUME Types, HoldersHold, RollbackInv, [Next]_vars PROVE RecordsAreOfTheTurn'
<1>1. \A s \in Session, n \in Number : IsOf(DirOf(s, n)'.files, ended'[s][n])
  BY DirIsBoth
<1>2. \A a \in Checkpointer :
        Holding(a)' /\ held'[a] # None => IsOf(held'[a], ended'[BookS(a)'][BookN(a)'])
  BY HeldIsBoth
<1>3. \A r \in Restorer :
        rest'[r].pc # "idle" => IsOf(rest'[r].m, ended'[rest'[r].s][rest'[r].n])
  BY ReadIsBoth
<1> QED
  BY <1>1, <1>2, <1>3 DEF RecordsAreOfTheTurn

\* A rollback decides to overwrite only what its turn wrote.
LEMMA OverwritesItsOwnStep ==
  ASSUME Types, HoldersHold, OverwritesItsOwn, [Next]_vars PROVE OverwritesItsOwn'
<1> SUFFICES ASSUME NEW r \in Restorer, NEW f \in File, ~ rest'[r].force,
                    rest'[r].plan[f] \notin {None, Absent}, rest'[r].m[f].pre # Absent
             PROVE  rest'[r].plan[f] = rest'[r].m[f].after
  BY DEF OverwritesItsOwn, Captured
<1>1. rest'[r] # NoRollback /\ ~ Rereads(r)
  BY DEF NoRollback, NoFiles, Rereads
<1>2. CASE rest'[r] = rest[r]
  BY <1>2 DEF OverwritesItsOwn, Captured
<1>3. CASE GoesBack(r)
  <2>1. Same(rest'[r], rest[r])
    BY <1>3 DEF GoesBack
  <2>2. CASE rest'[r].plan[f] = rest[r].plan[f]
    BY <2>1, <2>2 DEF OverwritesItsOwn, Captured, Same
  <2>3. CASE PutsBack(r, f) /\ rest'[r].plan[f] = disk[f]
    BY <2>1, <2>3 DEF PutsBack, Same
  <2> QED
    BY <1>3, <2>2, <2>3 DEF GoesBack
<1> QED
  BY <1>1, <1>2, <1>3, RollbackReads

\* At the start there is nothing to roll back.
LEMMA RollbackInvInit == Init => RollbackInv
<1> SUFFICES ASSUME Init PROVE RollbackInv
  OBVIOUS
<1>1. \A r \in Restorer : rest[r].pc = "idle" /\ \A f \in File : rest[r].plan[f] = None
  BY DEF Init, NoRollback, NoFiles
<1>2. \A s \in Session : turn[s].at = "none"
  BY DEF Init, NoTurn
<1>3. \A a \in Checkpointer : held[a] = None
  BY DEF Init
<1>4. \A s \in Session, n \in Number, f \in File : DirOf(s, n).files[f] = None
  BY DEF Init, DirOf, EmptyDir, NoFiles
<1>5. \A s \in Session, n \in Number :
        IsOld(DirOf(s, n).files, clock) /\ IsOf(DirOf(s, n).files, ended[s][n])
  BY <1>4 DEF IsOld, IsOf
<1>6. \A f \in File : disk[f] <= clock
  BY DEF Init, Absent
<1>7. \A w \in Writer : op[w].saw <= clock /\ \A f \in File : op[w].orig[f] <= clock
  BY DEF Init, Idle, Absent
<1> QED
  BY <1>1, <1>2, <1>3, <1>5, <1>6, <1>7
     DEF RollbackInv, NothingIsNewer, OpenWhileRunning, RecordsAreOfTheTurn, OverwritesItsOwn,
         Captured

\* Every step keeps what is known of rollbacks.
LEMMA RollbackInvStep ==
  Types /\ Types' /\ HoldersHold /\ RollbackInv /\ [Next]_vars => RollbackInv'
BY OpenWhileRunningStep, NothingIsNewerStep, RecordsAreOfTheTurnStep, OverwritesItsOwnStep
   DEF RollbackInv

\* Later work is lost to a rollback that was not told to only when it was written after
\* phase one had looked: phase one compares the file with the hash filed for the turn
\* (restore.go:117-182), no hash on record is newer than the turn's end, and phase two
\* writes without looking again (restore.go:199-228).
THEOREM LaterWorkIsLostUnseen == Spec => []LaterWorkIsLostOnlyUnseen
<1>1. Types /\ RollbackInv => LaterWorkIsLostOnlyUnseen
  <2> SUFFICES ASSUME Types, RollbackInv, NEW r \in Restorer, rest[r].pc = "write",
                      ~ rest[r].force, NEW f \in rest[r].todo,
                      disk[f] # Absent, rest[r].m[f].pre # Absent, disk[f] = rest[r].plan[f]
               PROVE  IsOfTheTurn(r, f)
    BY DEF LaterWorkIsLostOnlyUnseen
  <2>1. f \in File /\ rest[r].m[f] # None /\ disk[f] \in Content
    BY DEF Types, TypeOK, TypeRests, TypeFiles, Rollback, RollbacksGoOn, Goes, Covered, Captured
  <2>2. rest[r].plan[f] # None
    BY <2>1, CheckpointAssumption DEF Content
  <2>3. disk[f] = rest[r].m[f].after
    BY <2>1, <2>2 DEF RollbackInv, OverwritesItsOwn, Captured
  <2>4. IsOf(rest[r].m, ended[rest[r].s][rest[r].n])
    BY DEF RollbackInv, RecordsAreOfTheTurn
  <2> QED
    BY <2>1, <2>3, <2>4 DEF IsOf, IsOfTheTurn
<1>2. Init => Types /\ HoldersHold /\ RollbackInv
  BY TypesInit, HoldersInit, RollbackInvInit
<1>3. /\ Types /\ HoldersHold /\ RollbackInv /\ [Next]_vars
      => Types' /\ HoldersHold' /\ RollbackInv'
  BY TypesStep, HoldersStep, RollbackInvStep
<1> QED
  BY <1>1, <1>2, <1>3, PTL DEF Spec
=============================================================================
