---------------------------- MODULE Conversation ----------------------------
(***************************************************************************)
(* What the console is promised about a conversation, without the requests, *)
(* locks and timers that keep the promise: a conversation is idle or busy   *)
(* with one turn, an answer is stored only by the turn the conversation is  *)
(* busy with and only once, and the conversation stays busy until that turn *)
(* lets go of it.  A process that dies makes every conversation idle.       *)
(*                                                                          *)
(* "One turn per conversation is the contract the console is built on" --   *)
(* internal/server/turns.go, the comment of turnHub.begin.                  *)
(***************************************************************************)
CONSTANTS Session, Turn, None

VARIABLES busy,      \* the turn each conversation is answering, or None
          answered   \* the turns whose answer is stored

vars == <<busy, answered>>

Init ==
  /\ busy = [s \in Session |-> None]
  /\ answered = {}

Admit(s, t) ==
  /\ busy[s] = None
  /\ t \notin answered
  /\ busy' = [busy EXCEPT ![s] = t]
  /\ UNCHANGED answered

Answer(s) ==
  /\ busy[s] # None
  /\ busy[s] \notin answered
  /\ answered' = answered \cup {busy[s]}
  /\ UNCHANGED busy

Release(s) ==
  /\ busy[s] # None
  /\ busy' = [busy EXCEPT ![s] = None]
  /\ UNCHANGED answered

Crash ==
  /\ busy' = [s \in Session |-> None]
  /\ UNCHANGED answered

Next ==
  \/ \E s \in Session : \/ \E t \in Turn : Admit(s, t)
                        \/ Answer(s)
                        \/ Release(s)
  \/ Crash

Spec == Init /\ [][Next]_vars

=============================================================================
