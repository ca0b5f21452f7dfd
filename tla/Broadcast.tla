----------------------------- MODULE Broadcast -----------------------------
(***************************************************************************)
(* What attaching to a turn promises a reader, without logs, cursors and    *)
(* doorbells: there is one stream; a reader holds a prefix of it, which only *)
(* grows while the reader stays; it is told the stream is over only when it *)
(* holds all of it; a reader that leaves starts again from the beginning.   *)
(*                                                                          *)
(* "What a reader sees the second time is the same event stream, replayed    *)
(* from the beginning and then followed live" -- internal/server/turns.go,   *)
(* the comment of turnHub.                                                   *)
(***************************************************************************)
EXTENDS Naturals, Sequences, SequencesExt

CONSTANT Reader

VARIABLES stream, \* what has been said
          over,   \* whether anything more can be
          seen,   \* what each reader holds
          told    \* the readers that were told it is over

vars == <<stream, over, seen, told>>

Init ==
  /\ stream = <<>>
  /\ over = FALSE
  /\ seen = [r \in Reader |-> <<>>]
  /\ told = {}

Publish ==
  /\ ~over
  /\ stream' # <<>> /\ Front(stream') = stream
  /\ UNCHANGED <<over, seen, told>>

Close ==
  /\ over' = TRUE
  /\ UNCHANGED <<stream, seen, told>>

Read(r) ==
  /\ r \notin told
  /\ \E n \in Len(seen[r])..Len(stream) :
       seen' = [seen EXCEPT ![r] = SubSeq(stream, 1, n)]
  /\ UNCHANGED <<stream, over, told>>

Tell(r) ==
  /\ over
  /\ seen[r] = stream
  /\ told' = told \cup {r}
  /\ UNCHANGED <<stream, over, seen>>

Leave(r) ==
  /\ seen' = [seen EXCEPT ![r] = <<>>]
  /\ told' = told \ {r}
  /\ UNCHANGED <<stream, over>>

Next ==
  \/ Publish \/ Close
  \/ \E r \in Reader : Read(r) \/ Tell(r) \/ Leave(r)

Spec == Init /\ [][Next]_vars

=============================================================================
