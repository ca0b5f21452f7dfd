----------------------------- MODULE AnswerHub -----------------------------
(***************************************************************************)
(* The cards a running turn puts in front of a person: ask_user's questions *)
(* and the approvals of gated tools.  A card waits in a hub until a          *)
(* submission on another request takes it out, its timeout fires or its      *)
(* turn's context is cancelled.  An approval is put only after the gate has  *)
(* looked whether the tool is already allowed for the turn, and decides      *)
(* whether the tool runs; a question is put only when the turn has not       *)
(* answered it before.                                                       *)
(*                                                                           *)
(* A turn stands for its conversation too: the hub is addressed by both.     *)
(***************************************************************************)
EXTENDS Naturals, Sequences, FiniteSets

CONSTANTS Card,       \* questions and gated tool calls
          Question,   \* the cards that are questions
          Turn,
          Subject,    \* what a card is about: a question's identity, a tool's name
          Submission, \* requests that answer a question or decide an approval
          None,
          Remembered, \* how many answers a turn remembers (16 in the code)
          MaxCards    \* bound: cards put

ASSUME AnswerHubAssumption ==
         /\ Question \subseteq Card
         /\ None \notin Submission /\ None \notin Card /\ None \notin Turn
         /\ {Remembered, MaxCards} \subseteq Nat

VARIABLES
  \* the cards
  turnOf, about,  \* the turn a card belongs to and what it is about
  cpc,            \* how far each card has come
  box,            \* pendingQuestion.answers, pendingApproval.decisions
  verdict,        \* how the wait ended
  by,             \* history variable: the submission that ended it
  \* the hubs
  pending,        \* the cards that can be answered
  \* the turns
  cancelled,      \* the turns whose context is cancelled
  allowed,        \* turnAllowances.tools of each turn
  answered,       \* turnAsker.answered of each turn
  \* the submissions
  spc, target, kind

cardVars == <<turnOf, about>>
waitVars == <<cpc, box, verdict, by>>
turnVars == <<cancelled, allowed, answered>>
subVars  == <<spc, target, kind>>
vars == <<cardVars, waitVars, pending, turnVars, subVars>>

-----------------------------------------------------------------------------
Approval == Card \ Question

Allow == {"allow_once", "allow_turn"}

\* What a submission may say to a card, once validated.
Says(c) == IF c \in Question THEN {"answer"} ELSE Allow \cup {"deny"}

Over == {"ran", "refused", "replied"}

Goto(c, stage) == cpc' = [cpc EXCEPT ![c] = stage]

\* A question is a barrier among its turn's calls; approvals may overlap.
MayStart(c, t) ==
  \A d \in Card \ {c} :
     turnOf[d] = t /\ (c \in Question \/ d \in Question) => cpc[d] \in Over

\* A turn of the conversation calls ask_user or a gated tool.
Call(c, t, x) ==
  /\ cpc[c] = "idle" /\ MayStart(c, t)
  /\ Cardinality({d \in Card : cpc[d] # "idle"}) < MaxCards
  /\ turnOf' = [turnOf EXCEPT ![c] = t]
  /\ about' = [about EXCEPT ![c] = x]

Init ==
  /\ turnOf = [c \in Card |-> None]
  /\ about = [c \in Card |-> None]
  /\ cpc = [c \in Card |-> "idle"]
  /\ box = [c \in Card |-> <<>>]
  /\ verdict = [c \in Card |-> "none"]
  /\ by = [c \in Card |-> None]
  /\ pending = {}
  /\ cancelled = {}
  /\ allowed = [t \in Turn |-> {}]
  /\ answered = [t \in Turn |-> {}]
  /\ spc = [s \in Submission |-> "idle"]
  /\ target = [s \in Submission |-> None]
  /\ kind = [s \in Submission |-> "none"]

-----------------------------------------------------------------------------
(* Before the wait.                                                        *)

\* turnAsker.Ask: the turn's earlier answer, or a new card.
AskStart(c, t, x) ==
  /\ c \in Question /\ Call(c, t, x)
  /\ Goto(c, IF x \in answered[t] THEN "replied" ELSE "asking")
  /\ UNCHANGED <<box, verdict, by, pending, turnVars, subVars>>

\* ApprovalGate.InvokableRun, for a call that the policy gates and the allow-list
\* does not let through: the turn's allowances are a map without a lock, so
\* reading it takes a while.
GateLook(c, t, x) ==
  /\ c \in Approval /\ Call(c, t, x)
  /\ Goto(c, "looking")
  /\ UNCHANGED <<box, verdict, by, pending, turnVars, subVars>>

GateLooked(c) ==
  /\ cpc[c] = "looking"
  /\ Goto(c, IF about[c] \in allowed[turnOf[c]] THEN "ran" ELSE "asking")
  /\ UNCHANGED <<cardVars, box, verdict, by, pending, turnVars, subVars>>

\* Minting the card's id fails: an error for a question, a refusal for an approval.
NoId(c) ==
  /\ cpc[c] = "asking"
  /\ Goto(c, IF c \in Question THEN "replied" ELSE "refused")
  /\ UNCHANGED <<cardVars, box, verdict, by, pending, turnVars, subVars>>

\* register; the card is then put on the turn's stream.
Register(c) ==
  /\ cpc[c] = "asking"
  /\ pending' = pending \cup {c}
  /\ Goto(c, "announcing")
  /\ UNCHANGED <<cardVars, box, verdict, by, turnVars, subVars>>

-----------------------------------------------------------------------------
(* The wait: a select over the answer, the timer and the turn's context.    *)

Decide(c, how, who) ==
  /\ Goto(c, "decided")
  /\ verdict' = [verdict EXCEPT ![c] = how]
  /\ by' = [by EXCEPT ![c] = who]

\* The select is reached with something ready: any of what is ready is taken.
SelectReady(c) ==
  /\ cpc[c] = "announcing"
  /\ \/ /\ box[c] # <<>>
        /\ \/ Decide(c, kind[Head(box[c])], Head(box[c]))
           \/ Decide(c, "timeout", None)
     \/ turnOf[c] \in cancelled /\ Decide(c, "cancelled", None)
  /\ UNCHANGED <<cardVars, box, pending, turnVars, subVars>>

\* Nothing is ready: the waiter parks, and the first event from now on wins.
Park(c) ==
  /\ cpc[c] = "announcing"
  /\ box[c] = <<>> /\ turnOf[c] \notin cancelled
  /\ Goto(c, "parked")
  /\ UNCHANGED <<cardVars, box, verdict, by, pending, turnVars, subVars>>

Timeout(c) ==
  /\ cpc[c] = "parked"
  /\ Decide(c, "timeout", None)
  /\ UNCHANGED <<cardVars, box, pending, turnVars, subVars>>

\* The turn's context is cancelled: every parked waiter of it wakes.
Cancel(t) ==
  /\ t \notin cancelled
  /\ cancelled' = cancelled \cup {t}
  /\ LET woken == {c \in Card : turnOf[c] = t /\ cpc[c] = "parked"}
     IN  /\ cpc' = [c \in Card |-> IF c \in woken THEN "decided" ELSE cpc[c]]
         /\ verdict' = [c \in Card |-> IF c \in woken THEN "cancelled" ELSE verdict[c]]
  /\ UNCHANGED <<cardVars, box, by, pending, allowed, answered, subVars>>

-----------------------------------------------------------------------------
(* After the wait.                                                         *)

\* Mutant of Close: what a question was answered is not remembered.
CloseForgetting(c) ==
  /\ cpc[c] = "decided"
  /\ Goto(c, "closed")
  /\ UNCHANGED <<cardVars, box, verdict, by, pending, turnVars, subVars>>

\* The card is closed on the stream, and an answer remembered for the turn.
Close(c) ==
  /\ cpc[c] = "decided"
  /\ Goto(c, "closed")
  /\ LET t == turnOf[c]
     IN  answered' = IF verdict[c] = "answer" /\ Cardinality(answered[t]) < Remembered
                     THEN [answered EXCEPT ![t] = @ \cup {about[c]}]
                     ELSE answered
  /\ UNCHANGED <<cardVars, box, verdict, by, pending, cancelled, allowed, subVars>>

\* Mutant of Forget: whatever was not denied runs.
ForgetAndRun(c) ==
  /\ cpc[c] = "closed"
  /\ pending' = pending \ {c}
  /\ Goto(c, IF c \in Question THEN "replied"
             ELSE IF verdict[c] = "allow_turn" THEN "marking"
             ELSE IF verdict[c] # "deny" THEN "ran" ELSE "refused")
  /\ UNCHANGED <<cardVars, box, verdict, by, turnVars, subVars>>

\* The deferred forget, and what the caller makes of the verdict: only an explicit
\* allow runs the tool, and allow_turn first writes the turn's map.
Forget(c) ==
  /\ cpc[c] = "closed"
  /\ pending' = pending \ {c}
  /\ Goto(c, IF c \in Question THEN "replied"
             ELSE IF verdict[c] = "allow_turn" THEN "marking"
             ELSE IF verdict[c] \in Allow THEN "ran" ELSE "refused")
  /\ UNCHANGED <<cardVars, box, verdict, by, turnVars, subVars>>

\* markTurnAllowed, and the tool runs.
Marked(c) ==
  /\ cpc[c] = "marking"
  /\ allowed' = [allowed EXCEPT ![turnOf[c]] = @ \cup {about[c]}]
  /\ Goto(c, "ran")
  /\ UNCHANGED <<cardVars, box, verdict, by, pending, cancelled, answered, subVars>>

-----------------------------------------------------------------------------
(* A submission (handleAnswerQuestion, handleDecideApproval).              *)

\* peek and the validation: a card of another conversation is as good as gone.
Peek(s, c, t) ==
  /\ spc[s] = "idle"
  /\ IF c \in pending /\ turnOf[c] = t
     THEN /\ target' = [target EXCEPT ![s] = c]
          /\ \E said \in Says(c) : kind' = [kind EXCEPT ![s] = said]
          /\ spc' = [spc EXCEPT ![s] = "peeked"]
     ELSE /\ spc' = [spc EXCEPT ![s] = "gone"]
          /\ UNCHANGED <<target, kind>>
  /\ UNCHANGED <<cardVars, waitVars, pending, turnVars>>

\* Mutant of Take: the card is looked up and left in the hub.
TakeWithoutRemoving(s) ==
  /\ spc[s] = "peeked"
  /\ spc' = [spc EXCEPT ![s] = IF target[s] \in pending THEN "taken" ELSE "gone"]
  /\ UNCHANGED <<cardVars, waitVars, pending, turnVars, target, kind>>

\* resolve, under the hub's lock ...
Take(s) ==
  /\ spc[s] = "peeked"
  /\ IF target[s] \in pending
     THEN /\ pending' = pending \ {target[s]}
          /\ spc' = [spc EXCEPT ![s] = "taken"]
     ELSE /\ spc' = [spc EXCEPT ![s] = "gone"]
          /\ UNCHANGED pending
  /\ UNCHANGED <<cardVars, waitVars, turnVars, target, kind>>

\* ... and the send after it is released: a parked waiter gets the answer at once,
\* any other finds it in the channel or never looks.  The person is told 200.
Deliver(s) ==
  /\ spc[s] = "taken"
  /\ spc' = [spc EXCEPT ![s] = "accepted"]
  /\ IF cpc[target[s]] = "parked"
     THEN Decide(target[s], kind[s], s) /\ UNCHANGED box
     ELSE /\ box' = [box EXCEPT ![target[s]] = Append(@, s)]
          /\ UNCHANGED <<cpc, verdict, by>>
  /\ UNCHANGED <<cardVars, pending, turnVars, target, kind>>

-----------------------------------------------------------------------------
Next ==
  \/ \E c \in Card, t \in Turn, x \in Subject : AskStart(c, t, x) \/ GateLook(c, t, x)
  \/ \E c \in Card : \/ GateLooked(c) \/ NoId(c) \/ Register(c) \/ SelectReady(c)
                     \/ Park(c) \/ Timeout(c) \/ Close(c) \/ Forget(c) \/ Marked(c)
  \/ \E t \in Turn : Cancel(t)
  \/ \E s \in Submission : \/ \E c \in Card, t \in Turn : Peek(s, c, t)
                           \/ Take(s) \/ Deliver(s)

Spec == Init /\ [][Next]_vars

-----------------------------------------------------------------------------
Verdict == {"none", "timeout", "cancelled", "answer", "deny"} \cup Allow

TypeCards ==
  /\ turnOf \in [Card -> Turn \cup {None}]
  /\ about \in [Card -> Subject \cup {None}]
  /\ cpc \in [Card -> {"idle", "looking", "asking", "announcing", "parked",
                       "decided", "closed", "marking"} \cup Over]
  /\ verdict \in [Card -> Verdict]
  /\ by \in [Card -> Submission \cup {None}]

TypeTurns ==
  /\ pending \subseteq Card
  /\ cancelled \subseteq Turn
  /\ allowed \in [Turn -> SUBSET Subject]
  /\ answered \in [Turn -> SUBSET Subject]

TypeSubs ==
  /\ spc \in [Submission -> {"idle", "peeked", "taken", "accepted", "gone"}]
  /\ target \in [Submission -> Card \cup {None}]
  /\ kind \in [Submission -> Verdict]

\* A card's channel has room for one answer.
TypeBox == box \in [Card -> Seq(Submission)] /\ \A c \in Card : Len(box[c]) <= 1

\* Every variable has its type, and no channel holds more than it has room for, so
\* that delivering an answer never blocks.
TypeOK == TypeCards /\ TypeTurns /\ TypeSubs /\ TypeBox

-----------------------------------------------------------------------------
\* Submission s allows card c: it decided c itself, or it decided another call of
\* the same tool in the same turn, for the rest of the turn.
Allows(s, c) ==
  \E d \in Approval :
     /\ by[d] = s /\ target[s] = d
     /\ \/ d = c /\ kind[s] \in Allow
        \/ turnOf[d] = turnOf[c] /\ about[d] = about[c] /\ kind[s] = "allow_turn"

\* A gated tool runs only because a person allowed it: no timeout, no stop, no
\* failure and no decision about another turn or another tool lets it through.
NothingRunsUnallowed ==
  \A c \in Approval : cpc[c] = "ran" => \E s \in Submission : Allows(s, c)

\* A person who has answered a question is not asked it again in the same turn.
AnsweredOnce ==
  IsFiniteSet(Subject) /\ Cardinality(Subject) <= Remembered =>
     \A c, d \in Question :
        /\ by[c] # None /\ by[d] # None
        /\ turnOf[c] = turnOf[d] /\ about[c] = about[d]
        => c = d

-----------------------------------------------------------------------------
(* What comments of the code say and the code does not do.                 *)

\* "ParallelSafe means this call may overlap other ParallelSafe calls in the same
\* reply" (internal/tool/concurrency.go:41), which the gate declares for every
\* tool that does: two calls are never in the turn's map at once with one of them
\* writing it.
NoMapRace ==
  \A c, d \in Approval :
     cpc[c] = "marking" /\ cpc[d] \in {"marking", "looking"} /\ turnOf[c] = turnOf[d]
     => c = d

=============================================================================
