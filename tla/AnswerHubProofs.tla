-------------------------- MODULE AnswerHubProofs --------------------------
(***************************************************************************)
(* Proofs about AnswerHub, for any number of cards, turns and submissions.  *)
(***************************************************************************)
EXTENDS AnswerHub, FiniteSetTheorems, TLAPS

-----------------------------------------------------------------------------
(* The inductive invariant.                                                *)

\* The stages before a card is in the hub, and the submissions that have taken one.
Early == {"idle", "looking", "asking"}
Took  == {"taken", "accepted"}

\* Submission s ended the wait of card c.
Ended(s, c) == s \in Submission /\ spc[s] = "accepted" /\ target[s] = c

\* A card belongs to a turn once it is put, and questions have stages of their own.
PutIsPlaced ==
  \A c \in Card :
     /\ cpc[c] = "idle" <=> turnOf[c] = None
     /\ cpc[c] # "idle" => about[c] \in Subject
     /\ c \in Question => cpc[c] \notin {"looking", "marking", "ran", "refused"}

\* Before a card is in the hub nothing can be known of it.
EarlyIsUnknown ==
  \A c \in Card : cpc[c] \in Early =>
     /\ c \notin pending
     /\ box[c] = <<>>
     /\ \A s \in Submission : target[s] # c

\* A card still being waited for has no verdict.
WaitingIsOpen ==
  \A c \in Card : cpc[c] \in Early \cup {"announcing", "parked"} =>
     verdict[c] = "none" /\ by[c] = None

\* A submission that found a card says something such a card can be told.
SaysWhatItMay ==
  \A s \in Submission :
     /\ spc[s] = "idle" => target[s] = None
     /\ spc[s] \in {"peeked"} \cup Took => target[s] \in Card /\ kind[s] \in Says(target[s])

\* A card is taken once: it is out of the hub and no other submission has it.
TakenOnce ==
  \A s \in Submission : spc[s] \in Took =>
     /\ target[s] \notin pending
     /\ \A r \in Submission : spc[r] \in Took /\ target[r] = target[s] => r = s

\* A channel holds the answer of the submission that took its card, or nothing.
BoxIsTaken ==
  \A c \in Card :
     box[c] = <<>> \/ \E s \in Submission : box[c] = <<s>> /\ Ended(s, c)

\* A verdict that a person gives is that person's.
VerdictIsSaid ==
  \A c \in Card :
     /\ by[c] # None => Ended(by[c], c) /\ verdict[c] = kind[by[c]]
     /\ by[c] = None => verdict[c] \in {"none", "timeout", "cancelled"}

\* What is written to a turn's allowances was said by someone.
AllowedIsSaid ==
  /\ \A c \in Card : cpc[c] = "marking" => c \in Approval /\ verdict[c] = "allow_turn"
  /\ \A t \in Turn : \A x \in allowed[t] :
        \E d \in Approval :
           by[d] # None /\ kind[by[d]] = "allow_turn" /\ turnOf[d] = t /\ about[d] = x

\* A turn that puts a question puts nothing else.
QuestionsAreSerial ==
  \A c \in Question, d \in Card :
     c # d /\ turnOf[c] = turnOf[d] /\ turnOf[c] # None
     => cpc[c] \in Over \/ cpc[d] \in Over

\* What was answered is remembered, and what is remembered is not being asked.
AnswersAreKept ==
  IsFiniteSet(Subject) /\ Cardinality(Subject) <= Remembered =>
     \A c \in Question :
        /\ by[c] # None /\ cpc[c] # "decided" => about[c] \in answered[turnOf[c]]
        /\ cpc[c] \in {"asking", "announcing", "parked", "decided"}
              => about[c] \notin answered[turnOf[c]]

\* What holds of the hub and its submissions ...
HubInv ==
  /\ TypeCards /\ TypeTurns /\ TypeSubs /\ TypeBox
  /\ PutIsPlaced /\ EarlyIsUnknown /\ WaitingIsOpen
  /\ SaysWhatItMay /\ TakenOnce /\ BoxIsTaken /\ VerdictIsSaid

\* ... and, because of that, of the turns.
TurnInv ==
  /\ AllowedIsSaid /\ NothingRunsUnallowed
  /\ QuestionsAreSerial /\ AnswersAreKept /\ AnsweredOnce

-----------------------------------------------------------------------------
(* The end of a wait.                                                      *)

\* The wait of card c ends with a verdict: a person's, if who is a submission.
Wakes(c, how, who) ==
  /\ cpc[c] \in {"announcing", "parked"}
  /\ Decide(c, how, who)
  /\ IF who = None THEN how \in {"timeout", "cancelled"}
                   ELSE Ended(who, c)' /\ how = kind[who]
  /\ UNCHANGED <<cardVars, turnVars, target, kind>>
  /\ \A s \in Submission : spc[s] = "accepted" => spc'[s] = "accepted"

\* What SelectReady may take ends the wait.
LEMMA SelectWakes ==
  ASSUME TypeSubs, TypeBox, BoxIsTaken, NEW c \in Card, SelectReady(c)
  PROVE  \E how, who : Wakes(c, how, who)
<1>1. CASE box[c] # <<>> /\ Decide(c, kind[Head(box[c])], Head(box[c]))
  <2>1. PICK s \in Submission : box[c] = <<s>> /\ Ended(s, c)
    BY <1>1 DEF BoxIsTaken
  <2>2. Wakes(c, kind[s], s)
    BY <1>1, <2>1, AnswerHubAssumption DEF Wakes, SelectReady, Ended, subVars
  <2> QED
    BY <2>2
<1>2. CASE Decide(c, "timeout", None) \/ Decide(c, "cancelled", None)
  <2>1. Wakes(c, "timeout", None) \/ Wakes(c, "cancelled", None)
    BY <1>2 DEF Wakes, SelectReady, subVars
  <2> QED
    BY <2>1
<1> QED
  BY <1>1, <1>2 DEF SelectReady

\* So does the answer that finds the card parked.
LEMMA DeliverWakes ==
  ASSUME TypeSubs, NEW s \in Submission, Deliver(s), cpc[target[s]] = "parked"
  PROVE  Wakes(target[s], kind[s], s)
<1>1. Ended(s, target[s])'
  BY DEF Deliver, Ended, TypeSubs
<1>2. \A r \in Submission : spc[r] = "accepted" => spc'[r] = "accepted"
  BY DEF Deliver
<1> QED
  BY <1>1, AnswerHubAssumption DEF Deliver, Wakes

\* However the wait ends, the verdict is a person's if anyone's.
LEMMA WakeIsSaid ==
  ASSUME TypeCards, TypeSubs, VerdictIsSaid, NEW c \in Card, NEW how, NEW who,
         Wakes(c, how, who)
  PROVE  VerdictIsSaid'
<1>1. ASSUME NEW d \in Card, d # c
      PROVE  by'[d] = by[d] /\ verdict'[d] = verdict[d]
  BY <1>1 DEF Wakes, Decide
<1>2. by'[c] = who /\ verdict'[c] = how
  BY DEF Wakes, Decide, TypeCards
<1>3. \A d \in Card, r \in Submission : Ended(r, d) => Ended(r, d)'
  BY DEF Wakes, Ended
<1>4. UNCHANGED kind
  BY DEF Wakes
<1>5. ASSUME NEW d \in Card
      PROVE  /\ by'[d] # None => Ended(by[d], d)' /\ verdict'[d] = kind'[by'[d]]
             /\ by'[d] = None => verdict'[d] \in {"none", "timeout", "cancelled"}
  <2>1. CASE d # c
    BY <1>1, <1>3, <1>4, <2>1 DEF VerdictIsSaid, Ended
  <2>2. CASE d = c
    BY <1>2, <2>2 DEF Wakes
  <2> QED
    BY <2>1, <2>2
<1> QED
  BY <1>5 DEF VerdictIsSaid

\* However it ends, the turns keep what holds of them.
LEMMA WakeKeepsTurns ==
  ASSUME HubInv, TurnInv, NEW c \in Card, NEW how, NEW who, Wakes(c, how, who)
  PROVE  TurnInv'
<1>0. TypeCards /\ TypeTurns /\ PutIsPlaced /\ WaitingIsOpen
  BY DEF HubInv
<1>1. /\ cpc[c] \in {"announcing", "parked"} /\ cpc'[c] = "decided" /\ by[c] = None
      /\ \A d \in Card \ {c} : cpc'[d] = cpc[d] /\ by'[d] = by[d] /\ verdict'[d] = verdict[d]
      /\ UNCHANGED <<turnOf, about, allowed, answered, target, kind>>
  BY <1>0 DEF Wakes, Decide, Goto, TypeCards, WaitingIsOpen, cardVars, turnVars
<1>2. AllowedIsSaid'
  BY <1>1 DEF TurnInv, AllowedIsSaid, Approval
<1>3. NothingRunsUnallowed'
  <2>1. \A d \in Card, s \in Submission : Allows(s, d) => Allows(s, d)'
    BY <1>1, AnswerHubAssumption DEF Allows, Approval
  <2> QED
    BY <1>1, <2>1 DEF TurnInv, NothingRunsUnallowed, Approval
<1>4. QuestionsAreSerial'
  BY <1>1, AnswerHubAssumption DEF TurnInv, QuestionsAreSerial, Over
<1>5. AnswersAreKept'
  BY <1>1, AnswerHubAssumption DEF TurnInv, AnswersAreKept
<1>6. AnsweredOnce'
  <2> SUFFICES ASSUME IsFiniteSet(Subject), Cardinality(Subject) <= Remembered,
                      NEW d \in Question, NEW e \in Question,
                      by'[d] # None, by'[e] # None,
                      turnOf'[d] = turnOf'[e], about'[d] = about'[e], d # e
               PROVE  FALSE
    BY DEF AnsweredOnce
  <2>1. d \in Card /\ e \in Card /\ c \in {d, e}
    BY <1>1, AnswerHubAssumption DEF TurnInv, AnsweredOnce
  <2>2. \A q \in {d, e} : q # c => cpc[q] \in Over /\ about[q] \in answered[turnOf[q]]
    BY <1>0, <1>1, <2>1 DEF TurnInv, QuestionsAreSerial, AnswersAreKept,
       PutIsPlaced, Over
  <2>3. about[c] \notin answered[turnOf[c]]
    BY <1>1, <2>1 DEF TurnInv, AnswersAreKept
  <2> QED
    BY <1>1, <2>1, <2>2, <2>3
<1> QED
  BY <1>2, <1>3, <1>4, <1>5, <1>6 DEF TurnInv

-----------------------------------------------------------------------------
(* The hub.                                                                *)

\* No card is put and no submission sent.
LEMMA HubInit == Init => HubInv
  BY AnswerHubAssumption DEF Init, HubInv, TypeCards, TypeTurns, TypeSubs, TypeBox,
     PutIsPlaced, EarlyIsUnknown, WaitingIsOpen, SaysWhatItMay, TakenOnce,
     BoxIsTaken, VerdictIsSaid, Verdict, Took

\* Every step keeps what holds of the hub.
LEMMA HubStep == HubInv /\ [Next]_vars => HubInv'
<1> SUFFICES ASSUME HubInv, [Next]_vars PROVE HubInv'
  OBVIOUS
<1>0. TypeCards /\ TypeTurns /\ TypeSubs /\ TypeBox /\ PutIsPlaced /\
   EarlyIsUnknown /\ WaitingIsOpen /\ SaysWhatItMay /\ TakenOnce /\ BoxIsTaken /\
   VerdictIsSaid
  BY DEF HubInv
<1>1. ASSUME NEW c \in Card, NEW t \in Turn, NEW x \in Subject, AskStart(c, t, x)
   PROVE HubInv'
  <2>1. TypeCards'
    BY <1>0, <1>1 DEF TypeCards, Over, AskStart, Call, Goto
  <2>2. PutIsPlaced'
    BY <1>0, <1>1, AnswerHubAssumption DEF PutIsPlaced, TypeCards, AskStart, Call,
       Goto
  <2>3. EarlyIsUnknown'
    BY <1>0, <1>1 DEF EarlyIsUnknown, Early, AskStart, Call, Goto, subVars
  <2>4. WaitingIsOpen'
    BY <1>0, <1>1 DEF WaitingIsOpen, Early, AskStart, Call, Goto
  <2>5. TypeTurns' /\ TypeSubs' /\ TypeBox' /\ SaysWhatItMay' /\ TakenOnce' /\
     BoxIsTaken' /\ VerdictIsSaid'
    BY <1>0, <1>1 DEF TypeTurns, TypeSubs, TypeBox, SaysWhatItMay, TakenOnce,
       BoxIsTaken, VerdictIsSaid, Ended, AskStart, turnVars, subVars
  <2> QED
    BY <2>1, <2>2, <2>3, <2>4, <2>5 DEF HubInv
<1>2. ASSUME NEW c \in Card, NEW t \in Turn, NEW x \in Subject, GateLook(c, t, x)
   PROVE HubInv'
  <2>1. TypeCards'
    BY <1>0, <1>2 DEF TypeCards, GateLook, Call, Goto
  <2>2. PutIsPlaced'
    BY <1>0, <1>2, AnswerHubAssumption DEF PutIsPlaced, TypeCards, Approval,
       GateLook, Call, Goto
  <2>3. EarlyIsUnknown'
    BY <1>0, <1>2 DEF EarlyIsUnknown, Early, GateLook, Call, Goto, subVars
  <2>4. WaitingIsOpen'
    BY <1>0, <1>2 DEF WaitingIsOpen, Early, GateLook, Call, Goto
  <2>5. TypeTurns' /\ TypeSubs' /\ TypeBox' /\ SaysWhatItMay' /\ TakenOnce' /\
     BoxIsTaken' /\ VerdictIsSaid'
    BY <1>0, <1>2 DEF TypeTurns, TypeSubs, TypeBox, SaysWhatItMay, TakenOnce,
       BoxIsTaken, VerdictIsSaid, Ended, GateLook, turnVars, subVars
  <2> QED
    BY <2>1, <2>2, <2>3, <2>4, <2>5 DEF HubInv
<1>3. ASSUME NEW c \in Card, GateLooked(c) PROVE HubInv'
  <2>1. TypeCards'
    BY <1>0, <1>3 DEF TypeCards, Over, GateLooked, Goto, cardVars
  <2>2. PutIsPlaced'
    BY <1>0, <1>3 DEF PutIsPlaced, GateLooked, Goto, cardVars
  <2>3. EarlyIsUnknown'
    BY <1>0, <1>3 DEF EarlyIsUnknown, Early, GateLooked, Goto, subVars
  <2>4. WaitingIsOpen'
    BY <1>0, <1>3 DEF WaitingIsOpen, Early, GateLooked, Goto
  <2>5. TypeTurns' /\ TypeSubs' /\ TypeBox' /\ SaysWhatItMay' /\ TakenOnce' /\
     BoxIsTaken' /\ VerdictIsSaid'
    BY <1>0, <1>3 DEF TypeTurns, TypeSubs, TypeBox, SaysWhatItMay, TakenOnce,
       BoxIsTaken, VerdictIsSaid, Ended, GateLooked, turnVars, subVars
  <2> QED
    BY <2>1, <2>2, <2>3, <2>4, <2>5 DEF HubInv
<1>4. ASSUME NEW c \in Card, NoId(c) PROVE HubInv'
  <2>1. TypeCards'
    BY <1>0, <1>4 DEF TypeCards, Over, NoId, Goto, cardVars
  <2>2. PutIsPlaced'
    BY <1>0, <1>4 DEF PutIsPlaced, NoId, Goto, cardVars
  <2>3. EarlyIsUnknown'
    BY <1>0, <1>4 DEF EarlyIsUnknown, Early, NoId, Goto, subVars
  <2>4. WaitingIsOpen'
    BY <1>0, <1>4 DEF WaitingIsOpen, Early, NoId, Goto
  <2>5. TypeTurns' /\ TypeSubs' /\ TypeBox' /\ SaysWhatItMay' /\ TakenOnce' /\
     BoxIsTaken' /\ VerdictIsSaid'
    BY <1>0, <1>4 DEF TypeTurns, TypeSubs, TypeBox, SaysWhatItMay, TakenOnce,
       BoxIsTaken, VerdictIsSaid, Ended, NoId, turnVars, subVars
  <2> QED
    BY <2>1, <2>2, <2>3, <2>4, <2>5 DEF HubInv
<1>5. ASSUME NEW c \in Card, Register(c) PROVE HubInv'
  <2>1. TypeCards'
    BY <1>0, <1>5 DEF TypeCards, Register, Goto, cardVars
  <2>2. TypeTurns'
    BY <1>0, <1>5 DEF TypeTurns, Register, turnVars
  <2>3. PutIsPlaced'
    BY <1>0, <1>5 DEF PutIsPlaced, Register, Goto, cardVars
  <2>4. EarlyIsUnknown'
    BY <1>0, <1>5 DEF EarlyIsUnknown, TypeCards, Early, Register, Goto, subVars
  <2>5. WaitingIsOpen'
    BY <1>0, <1>5 DEF WaitingIsOpen, Early, Register, Goto
  <2>6. TakenOnce'
    BY <1>0, <1>5 DEF TakenOnce, Early, EarlyIsUnknown, Register, subVars
  <2>7. TypeSubs' /\ TypeBox' /\ SaysWhatItMay' /\ BoxIsTaken' /\ VerdictIsSaid'
    BY <1>0, <1>5 DEF TypeSubs, TypeBox, SaysWhatItMay, BoxIsTaken, VerdictIsSaid,
       Ended, Register, subVars
  <2> QED
    BY <2>1, <2>2, <2>3, <2>4, <2>5, <2>6, <2>7 DEF HubInv
<1>6. ASSUME NEW c \in Card, SelectReady(c) PROVE HubInv'
  <2>1. TypeCards'
    <3>1. ASSUME box[c] # <<>>
          PROVE  Head(box[c]) \in Submission /\ kind[Head(box[c])] \in Verdict
      BY <1>0, <3>1 DEF BoxIsTaken, TypeSubs
    <3> QED
      BY <1>0, <1>6, <3>1 DEF TypeCards, SelectReady, Decide, Goto, cardVars,
         Verdict
  <2>2. PutIsPlaced'
    BY <1>0, <1>6 DEF PutIsPlaced, TypeCards, SelectReady, Goto, Decide, cardVars
  <2>3. EarlyIsUnknown'
    BY <1>0, <1>6 DEF EarlyIsUnknown, TypeCards, Early, SelectReady, Goto, Decide,
       subVars
  <2>4. WaitingIsOpen'
    BY <1>0, <1>6 DEF WaitingIsOpen, TypeCards, Early, SelectReady, Goto, Decide
  <2>5. VerdictIsSaid'
    BY <1>0, <1>6, SelectWakes, WakeIsSaid
  <2>6. TypeTurns' /\ TypeSubs' /\ TypeBox' /\ SaysWhatItMay' /\ TakenOnce' /\
     BoxIsTaken'
    BY <1>0, <1>6 DEF TypeTurns, TypeSubs, TypeBox, SaysWhatItMay, TakenOnce,
       BoxIsTaken, Ended, SelectReady, turnVars, subVars
  <2> QED
    BY <2>1, <2>2, <2>3, <2>4, <2>5, <2>6 DEF HubInv
<1>7. ASSUME NEW c \in Card, Park(c) PROVE HubInv'
  <2>1. TypeCards'
    BY <1>0, <1>7 DEF TypeCards, Park, Goto, cardVars
  <2>2. PutIsPlaced'
    BY <1>0, <1>7 DEF PutIsPlaced, Park, Goto, cardVars
  <2>3. EarlyIsUnknown'
    BY <1>0, <1>7 DEF EarlyIsUnknown, Early, Park, Goto, subVars
  <2>4. WaitingIsOpen'
    BY <1>0, <1>7 DEF WaitingIsOpen, Park, Goto
  <2>5. TypeTurns' /\ TypeSubs' /\ TypeBox' /\ SaysWhatItMay' /\ TakenOnce' /\
     BoxIsTaken' /\ VerdictIsSaid'
    BY <1>0, <1>7 DEF TypeTurns, TypeSubs, TypeBox, SaysWhatItMay, TakenOnce,
       BoxIsTaken, VerdictIsSaid, Ended, Park, turnVars, subVars
  <2> QED
    BY <2>1, <2>2, <2>3, <2>4, <2>5 DEF HubInv
<1>8. ASSUME NEW c \in Card, Timeout(c) PROVE HubInv'
  <2>1. TypeCards'
    BY <1>0, <1>8 DEF TypeCards, Verdict, Timeout, Goto, Decide, cardVars
  <2>2. PutIsPlaced'
    BY <1>0, <1>8 DEF PutIsPlaced, Timeout, Goto, Decide, cardVars
  <2>3. EarlyIsUnknown'
    BY <1>0, <1>8 DEF EarlyIsUnknown, Early, Timeout, Goto, Decide, subVars
  <2>4. WaitingIsOpen'
    BY <1>0, <1>8 DEF WaitingIsOpen, TypeCards, Early, Timeout, Goto, Decide
  <2>5. VerdictIsSaid'
    BY <1>0, <1>8 DEF VerdictIsSaid, Ended, WaitingIsOpen, Timeout, Decide, subVars
  <2>6. TypeTurns' /\ TypeSubs' /\ TypeBox' /\ SaysWhatItMay' /\ TakenOnce' /\
     BoxIsTaken'
    BY <1>0, <1>8 DEF TypeTurns, TypeSubs, TypeBox, SaysWhatItMay, TakenOnce,
       BoxIsTaken, Ended, Timeout, turnVars, subVars
  <2> QED
    BY <2>1, <2>2, <2>3, <2>4, <2>5, <2>6 DEF HubInv
<1>9. ASSUME NEW t \in Turn, Cancel(t) PROVE HubInv'
  <2>1. TypeCards'
    BY <1>0, <1>9 DEF TypeCards, Verdict, Cancel, cardVars
  <2>2. TypeTurns'
    BY <1>0, <1>9 DEF TypeTurns, Cancel
  <2>3. PutIsPlaced'
    BY <1>0, <1>9 DEF PutIsPlaced, Cancel, cardVars
  <2>4. EarlyIsUnknown'
    BY <1>0, <1>9 DEF EarlyIsUnknown, Early, Cancel, subVars
  <2>5. WaitingIsOpen'
    BY <1>0, <1>9 DEF WaitingIsOpen, Early, Cancel
  <2>6. VerdictIsSaid'
    BY <1>0, <1>9 DEF VerdictIsSaid, Ended, WaitingIsOpen, Cancel, subVars
  <2>7. TypeSubs' /\ TypeBox' /\ SaysWhatItMay' /\ TakenOnce' /\ BoxIsTaken'
    BY <1>0, <1>9 DEF TypeSubs, TypeBox, SaysWhatItMay, TakenOnce, BoxIsTaken,
       Ended, Cancel, subVars
  <2> QED
    BY <2>1, <2>2, <2>3, <2>4, <2>5, <2>6, <2>7 DEF HubInv
<1>10. ASSUME NEW c \in Card, Close(c) PROVE HubInv'
  <2>1. TypeCards'
    BY <1>0, <1>10 DEF TypeCards, Close, Goto, cardVars
  <2>2. TypeTurns'
    <3> DEFINE t == turnOf[c]
    <3>1. t \in Turn /\ about[c] \in Subject
      BY <1>0, <1>10 DEF TypeCards, PutIsPlaced, Close
    <3>2. answered' \in [Turn -> SUBSET Subject]
      <4>1. [answered EXCEPT ![t] = @ \cup {about[c]}] \in [Turn -> SUBSET Subject]
        BY <1>0, <3>1 DEF TypeTurns
      <4> QED
        BY <1>10, <4>1 DEF Close
    <3> QED
      BY <1>0, <1>10, <3>2 DEF TypeTurns, Close
  <2>3. PutIsPlaced'
    BY <1>0, <1>10 DEF PutIsPlaced, Close, Goto, cardVars
  <2>4. EarlyIsUnknown'
    BY <1>0, <1>10 DEF EarlyIsUnknown, Early, Close, Goto, subVars
  <2>5. WaitingIsOpen'
    BY <1>0, <1>10 DEF WaitingIsOpen, Early, Close, Goto
  <2>6. TypeSubs' /\ TypeBox' /\ SaysWhatItMay' /\ TakenOnce' /\ BoxIsTaken' /\
     VerdictIsSaid'
    BY <1>0, <1>10 DEF TypeSubs, TypeBox, SaysWhatItMay, TakenOnce, BoxIsTaken,
       VerdictIsSaid, Ended, Close, subVars
  <2> QED
    BY <2>1, <2>2, <2>3, <2>4, <2>5, <2>6 DEF HubInv
<1>11. ASSUME NEW c \in Card, Forget(c) PROVE HubInv'
  <2>1. TypeCards'
    BY <1>0, <1>11 DEF TypeCards, Over, Forget, Goto, cardVars
  <2>2. TypeTurns'
    BY <1>0, <1>11 DEF TypeTurns, Forget, turnVars
  <2>3. PutIsPlaced'
    BY <1>0, <1>11 DEF PutIsPlaced, Forget, Goto, cardVars
  <2>4. EarlyIsUnknown'
    BY <1>0, <1>11 DEF EarlyIsUnknown, Early, Forget, Goto, subVars
  <2>5. WaitingIsOpen'
    BY <1>0, <1>11 DEF WaitingIsOpen, Early, Forget, Goto
  <2>6. TakenOnce'
    BY <1>0, <1>11 DEF TakenOnce, Forget, subVars
  <2>7. TypeSubs' /\ TypeBox' /\ SaysWhatItMay' /\ BoxIsTaken' /\ VerdictIsSaid'
    BY <1>0, <1>11 DEF TypeSubs, TypeBox, SaysWhatItMay, BoxIsTaken, VerdictIsSaid,
       Ended, Forget, subVars
  <2> QED
    BY <2>1, <2>2, <2>3, <2>4, <2>5, <2>6, <2>7 DEF HubInv
<1>12. ASSUME NEW c \in Card, Marked(c) PROVE HubInv'
  <2>1. TypeCards'
    BY <1>0, <1>12 DEF TypeCards, Over, Marked, Goto, cardVars
  <2>2. TypeTurns'
    <3>1. turnOf[c] \in Turn /\ about[c] \in Subject
      BY <1>0, <1>12 DEF TypeCards, PutIsPlaced, Marked
    <3> QED
      BY <1>0, <1>12, <3>1 DEF TypeTurns, Marked
  <2>3. PutIsPlaced'
    BY <1>0, <1>12 DEF PutIsPlaced, Marked, Goto, cardVars
  <2>4. EarlyIsUnknown'
    BY <1>0, <1>12 DEF EarlyIsUnknown, Early, Marked, Goto, subVars
  <2>5. WaitingIsOpen'
    BY <1>0, <1>12 DEF WaitingIsOpen, Early, Marked, Goto
  <2>6. TypeSubs' /\ TypeBox' /\ SaysWhatItMay' /\ TakenOnce' /\ BoxIsTaken' /\
     VerdictIsSaid'
    BY <1>0, <1>12 DEF TypeSubs, TypeBox, SaysWhatItMay, TakenOnce, BoxIsTaken,
       VerdictIsSaid, Ended, Marked, subVars
  <2> QED
    BY <2>1, <2>2, <2>3, <2>4, <2>5, <2>6 DEF HubInv
<1>13. ASSUME NEW s \in Submission, NEW c \in Card, NEW t \in Turn, Peek(s, c, t)
   PROVE HubInv'
  <2>1. TypeSubs'
    BY <1>0, <1>13 DEF TypeSubs, Says, Verdict, Peek
  <2>2. EarlyIsUnknown'
    BY <1>0, <1>13 DEF EarlyIsUnknown, TypeSubs, Peek, waitVars
  <2>3. SaysWhatItMay'
    BY <1>0, <1>13 DEF SaysWhatItMay, TypeSubs, Took, Peek
  <2>4. TakenOnce'
    BY <1>0, <1>13 DEF TakenOnce, TypeSubs, Took, Peek
  <2>5. BoxIsTaken'
    BY <1>0, <1>13 DEF BoxIsTaken, TypeSubs, Ended, Peek, waitVars
  <2>6. VerdictIsSaid'
    BY <1>0, <1>13 DEF VerdictIsSaid, TypeSubs, Ended, Peek, waitVars
  <2>7. TypeCards' /\ TypeTurns' /\ TypeBox' /\ PutIsPlaced' /\ WaitingIsOpen'
    BY <1>0, <1>13 DEF TypeCards, TypeTurns, TypeBox, PutIsPlaced, WaitingIsOpen,
       Peek, cardVars, waitVars, turnVars
  <2> QED
    BY <2>1, <2>2, <2>3, <2>4, <2>5, <2>6, <2>7 DEF HubInv
<1>14. ASSUME NEW s \in Submission, Take(s) PROVE HubInv'
  <2>1. TypeTurns'
    BY <1>0, <1>14 DEF TypeTurns, Take, turnVars
  <2>2. TypeSubs'
    BY <1>0, <1>14 DEF TypeSubs, Take
  <2>3. EarlyIsUnknown'
    BY <1>0, <1>14 DEF EarlyIsUnknown, Take, waitVars
  <2>4. SaysWhatItMay'
    BY <1>0, <1>14 DEF SaysWhatItMay, TypeSubs, Take
  <2>5. TakenOnce'
    BY <1>0, <1>14 DEF TakenOnce, TypeSubs, Took, Take
  <2>6. BoxIsTaken'
    BY <1>0, <1>14 DEF BoxIsTaken, TypeSubs, Ended, Take, waitVars
  <2>7. VerdictIsSaid'
    BY <1>0, <1>14 DEF VerdictIsSaid, TypeSubs, Ended, Take, waitVars
  <2>8. TypeCards' /\ TypeBox' /\ PutIsPlaced' /\ WaitingIsOpen'
    BY <1>0, <1>14 DEF TypeCards, TypeBox, PutIsPlaced, WaitingIsOpen, Take,
       cardVars, waitVars
  <2> QED
    BY <2>1, <2>2, <2>3, <2>4, <2>5, <2>6, <2>7, <2>8 DEF HubInv
<1>15. ASSUME NEW s \in Submission, Deliver(s) PROVE HubInv'
  <2>0. target[s] \in Card
    BY <1>0, <1>15 DEF Deliver, SaysWhatItMay, Took
  <2>1. TypeCards'
    <3> QED
      BY <1>0, <1>15 DEF TypeCards, TypeSubs, Deliver, Decide, Goto, cardVars
  <2>2. TypeSubs'
    BY <1>0, <1>15 DEF TypeSubs, Deliver
  <2>3. TypeBox'
    <3>2. box[target[s]] = <<>>
      BY <1>0, <1>15, <2>0 DEF Deliver, BoxIsTaken, Ended, TakenOnce, Took
    <3>3. Append(box[target[s]], s) = <<s>>
      BY <3>2
    <3>4. box' = box \/ box' = [box EXCEPT ![target[s]] = <<s>>]
      BY <1>15, <3>3 DEF Deliver
    <3>5. <<s>> \in Seq(Submission) /\ Len(<<s>>) = 1
      OBVIOUS
    <3>6. \A c \in Card : box'[c] = box[c] \/ box'[c] = <<s>>
      BY <1>0, <3>4 DEF TypeBox
    <3>7. box' \in [Card -> Seq(Submission)]
      BY <1>0, <3>4, <3>5 DEF TypeBox
    <3>8. ASSUME NEW d \in Card PROVE Len(box'[d]) <= 1
      <4>1. CASE box'[d] = <<s>>
        BY <4>1
      <4>2. CASE box'[d] = box[d]
        BY <1>0, <4>2 DEF TypeBox
      <4> QED
        BY <3>6, <4>1, <4>2
    <3> QED
      BY <3>7, <3>8 DEF TypeBox
  <2>4. PutIsPlaced'
    BY <1>0, <1>15 DEF PutIsPlaced, TypeCards, Deliver, Goto, Decide, cardVars
  <2>5. EarlyIsUnknown'
    <3>2. cpc[target[s]] \notin Early
      BY <1>0, <2>0 DEF EarlyIsUnknown
    <3>3. \A c \in Card : cpc'[c] \in Early => c # target[s] /\ cpc[c] \in Early
      BY <1>0, <1>15, <3>2 DEF Deliver, Decide, Goto, TypeCards, Early
    <3>4. \A c \in Card : c # target[s] => box'[c] = box[c]
      BY <1>0, <1>15 DEF Deliver, TypeBox
    <3> QED
      BY <1>0, <1>15, <3>3, <3>4 DEF EarlyIsUnknown, Deliver
  <2>6. WaitingIsOpen'
    BY <1>0, <1>15 DEF WaitingIsOpen, TypeCards, Early, Deliver, Goto, Decide
  <2>7. SaysWhatItMay'
    BY <1>0, <1>15 DEF SaysWhatItMay, Took, Deliver
  <2>8. TakenOnce'
    BY <1>0, <1>15 DEF TakenOnce, Took, Deliver
  <2>9. BoxIsTaken'
    BY <1>0, <1>15 DEF BoxIsTaken, TypeSubs, TypeBox, Ended, Took, TakenOnce,
       Deliver
  <2>10. VerdictIsSaid'
    <3>1. CASE cpc[target[s]] = "parked"
      BY <1>0, <1>15, <2>0, <3>1, DeliverWakes, WakeIsSaid
    <3>2. CASE cpc[target[s]] # "parked"
      BY <1>0, <1>15, <3>2 DEF VerdictIsSaid, Ended, Deliver
    <3> QED
      BY <3>1, <3>2
  <2>11. TypeTurns'
    BY <1>0, <1>15 DEF TypeTurns, Deliver, turnVars
  <2> QED
    BY <2>1, <2>2, <2>3, <2>4, <2>5, <2>6, <2>7, <2>8, <2>9, <2>10, <2>11 DEF HubInv
<1>16. CASE UNCHANGED vars
  BY <1>16 DEF HubInv, TypeCards, TypeTurns, TypeSubs, TypeBox, PutIsPlaced,
     EarlyIsUnknown, WaitingIsOpen, SaysWhatItMay, TakenOnce, BoxIsTaken,
     VerdictIsSaid, Ended, vars, cardVars, waitVars, turnVars, subVars
<1> QED
  BY <1>1, <1>2, <1>3, <1>4, <1>5, <1>6, <1>7, <1>8, <1>9, <1>10, <1>11, <1>12,
     <1>13, <1>14, <1>15, <1>16 DEF Next

-----------------------------------------------------------------------------
(* The turns.                                                              *)

\* Nothing is allowed and nothing answered.
LEMMA TurnInit == Init => TurnInv
  BY AnswerHubAssumption DEF Init, TurnInv, AllowedIsSaid, NothingRunsUnallowed,
     QuestionsAreSerial, AnswersAreKept, AnsweredOnce, Approval

\* Every step keeps what holds of the turns.
LEMMA TurnStep == HubInv /\ HubInv' /\ TurnInv /\ [Next]_vars => TurnInv'
<1> SUFFICES ASSUME HubInv, HubInv', TurnInv, [Next]_vars PROVE TurnInv'
  OBVIOUS
<1>0. TypeCards /\ TypeTurns /\ TypeSubs /\ TypeBox /\ PutIsPlaced /\
   EarlyIsUnknown /\ WaitingIsOpen /\ SaysWhatItMay /\ TakenOnce /\ BoxIsTaken /\
   VerdictIsSaid
  BY DEF HubInv
<1>1. ASSUME NEW c \in Card, NEW t \in Turn, NEW x \in Subject, AskStart(c, t, x)
   PROVE TurnInv'
  <2>1. AllowedIsSaid'
    BY <1>1 DEF TurnInv, AllowedIsSaid, Approval, AskStart, Call, Goto, turnVars,
       subVars
  <2>2. NothingRunsUnallowed'
    BY <1>1 DEF TurnInv, NothingRunsUnallowed, Allows, Approval, AskStart, Call,
       Goto, subVars
  <2>3. QuestionsAreSerial'
    BY <1>1, AnswerHubAssumption DEF TurnInv, QuestionsAreSerial, Over, MayStart,
       AskStart, Call, Goto
  <2>4. AnswersAreKept'
    BY <1>0, <1>1 DEF TurnInv, AnswersAreKept, TypeCards, WaitingIsOpen, Early,
       AskStart, Call, Goto, turnVars
  <2>5. AnsweredOnce'
    BY <1>0, <1>1 DEF TurnInv, AnsweredOnce, WaitingIsOpen, Early, AskStart, Call
  <2> QED
    BY <2>1, <2>2, <2>3, <2>4, <2>5 DEF TurnInv
<1>2. ASSUME NEW c \in Card, NEW t \in Turn, NEW x \in Subject, GateLook(c, t, x)
   PROVE TurnInv'
  <2>1. AllowedIsSaid'
    BY <1>0, <1>2 DEF TurnInv, AllowedIsSaid, Early, VerdictIsSaid, Ended,
       EarlyIsUnknown, GateLook, Call, Goto, turnVars, subVars
  <2>2. NothingRunsUnallowed'
    BY <1>0, <1>2 DEF TurnInv, NothingRunsUnallowed, PutIsPlaced, Allows, Approval,
       GateLook, Call, Goto, subVars
  <2>3. QuestionsAreSerial'
    BY <1>2, AnswerHubAssumption DEF TurnInv, QuestionsAreSerial, Over, MayStart,
       GateLook, Call, Goto
  <2>4. AnswersAreKept'
    BY <1>2 DEF TurnInv, AnswersAreKept, Approval, GateLook, Call, Goto, turnVars
  <2>5. AnsweredOnce'
    BY <1>2 DEF TurnInv, AnsweredOnce, Approval, GateLook, Call
  <2> QED
    BY <2>1, <2>2, <2>3, <2>4, <2>5 DEF TurnInv
<1>3. ASSUME NEW c \in Card, GateLooked(c) PROVE TurnInv'
  <2>1. AllowedIsSaid'
    BY <1>3 DEF TurnInv, AllowedIsSaid, GateLooked, Goto, cardVars, turnVars,
       subVars
  <2>2. NothingRunsUnallowed'
    BY <1>0, <1>3 DEF TurnInv, NothingRunsUnallowed, TypeCards, PutIsPlaced,
       VerdictIsSaid, Ended, Allows, Approval, AllowedIsSaid, GateLooked, Goto,
       cardVars, subVars
  <2>3. QuestionsAreSerial'
    BY <1>3 DEF TurnInv, QuestionsAreSerial, Over, GateLooked, Goto, cardVars
  <2>4. AnswersAreKept'
    BY <1>0, <1>3 DEF TurnInv, AnswersAreKept, PutIsPlaced, GateLooked, Goto,
       cardVars, turnVars
  <2>5. AnsweredOnce'
    BY <1>3 DEF TurnInv, AnsweredOnce, GateLooked, cardVars
  <2> QED
    BY <2>1, <2>2, <2>3, <2>4, <2>5 DEF TurnInv
<1>4. ASSUME NEW c \in Card, NoId(c) PROVE TurnInv'
  <2>1. AllowedIsSaid'
    BY <1>4 DEF TurnInv, AllowedIsSaid, NoId, Goto, cardVars, turnVars, subVars
  <2>2. NothingRunsUnallowed'
    BY <1>4 DEF TurnInv, NothingRunsUnallowed, Allows, NoId, Goto, cardVars, subVars
  <2>3. QuestionsAreSerial'
    BY <1>4 DEF TurnInv, QuestionsAreSerial, Over, NoId, Goto, cardVars
  <2>4. AnswersAreKept'
    BY <1>4 DEF TurnInv, AnswersAreKept, NoId, Goto, cardVars, turnVars
  <2>5. AnsweredOnce'
    BY <1>4 DEF TurnInv, AnsweredOnce, NoId, cardVars
  <2> QED
    BY <2>1, <2>2, <2>3, <2>4, <2>5 DEF TurnInv
<1>5. ASSUME NEW c \in Card, Register(c) PROVE TurnInv'
  <2>1. AllowedIsSaid'
    BY <1>5 DEF TurnInv, AllowedIsSaid, Register, Goto, cardVars, turnVars, subVars
  <2>2. NothingRunsUnallowed'
    BY <1>5 DEF TurnInv, NothingRunsUnallowed, Allows, Register, Goto, cardVars,
       subVars
  <2>3. QuestionsAreSerial'
    BY <1>5 DEF TurnInv, QuestionsAreSerial, Over, Register, Goto, cardVars
  <2>4. AnswersAreKept'
    BY <1>5 DEF TurnInv, AnswersAreKept, Register, Goto, cardVars, turnVars
  <2>5. AnsweredOnce'
    BY <1>5 DEF TurnInv, AnsweredOnce, Register, cardVars
  <2> QED
    BY <2>1, <2>2, <2>3, <2>4, <2>5 DEF TurnInv
<1>6. ASSUME NEW c \in Card, SelectReady(c) PROVE TurnInv'
  BY <1>0, <1>6, SelectWakes, WakeKeepsTurns
<1>7. ASSUME NEW c \in Card, Park(c) PROVE TurnInv'
  <2>1. AllowedIsSaid'
    BY <1>7 DEF TurnInv, AllowedIsSaid, Park, Goto, cardVars, turnVars, subVars
  <2>2. NothingRunsUnallowed'
    BY <1>7 DEF TurnInv, NothingRunsUnallowed, Allows, Park, Goto, cardVars, subVars
  <2>3. QuestionsAreSerial'
    BY <1>7 DEF TurnInv, QuestionsAreSerial, Over, Park, Goto, cardVars
  <2>4. AnswersAreKept'
    BY <1>7 DEF TurnInv, AnswersAreKept, Park, Goto, cardVars, turnVars
  <2>5. AnsweredOnce'
    BY <1>7 DEF TurnInv, AnsweredOnce, Park, cardVars
  <2> QED
    BY <2>1, <2>2, <2>3, <2>4, <2>5 DEF TurnInv
<1>8. ASSUME NEW c \in Card, Timeout(c) PROVE TurnInv'
  <2>1. AllowedIsSaid'
    BY <1>0, <1>8 DEF TurnInv, AllowedIsSaid, WaitingIsOpen, Timeout, Goto, Decide,
       cardVars, turnVars, subVars
  <2>2. NothingRunsUnallowed'
    BY <1>0, <1>8 DEF TurnInv, NothingRunsUnallowed, WaitingIsOpen, Allows, Timeout,
       Goto, Decide, cardVars, subVars
  <2>3. QuestionsAreSerial'
    BY <1>8 DEF TurnInv, QuestionsAreSerial, Over, Timeout, Goto, Decide, cardVars
  <2>4. AnswersAreKept'
    BY <1>8 DEF TurnInv, AnswersAreKept, Timeout, Goto, Decide, cardVars, turnVars
  <2>5. AnsweredOnce'
    BY <1>8 DEF TurnInv, AnsweredOnce, Timeout, Decide, cardVars
  <2> QED
    BY <2>1, <2>2, <2>3, <2>4, <2>5 DEF TurnInv
<1>9. ASSUME NEW t \in Turn, Cancel(t) PROVE TurnInv'
  <2>1. AllowedIsSaid'
    BY <1>9 DEF TurnInv, AllowedIsSaid, Cancel, cardVars, subVars
  <2>2. NothingRunsUnallowed'
    BY <1>9 DEF TurnInv, NothingRunsUnallowed, Allows, Approval, Cancel, cardVars,
       subVars
  <2>3. QuestionsAreSerial'
    BY <1>9, AnswerHubAssumption DEF TurnInv, QuestionsAreSerial, Over, Cancel,
       cardVars
  <2>4. AnswersAreKept'
    BY <1>9, AnswerHubAssumption DEF TurnInv, AnswersAreKept, Cancel, cardVars
  <2>5. AnsweredOnce'
    BY <1>9 DEF TurnInv, AnsweredOnce, Cancel, cardVars
  <2> QED
    BY <2>1, <2>2, <2>3, <2>4, <2>5 DEF TurnInv
<1>10. ASSUME NEW c \in Card, Close(c) PROVE TurnInv'
  <2>1. AllowedIsSaid'
    BY <1>10 DEF TurnInv, AllowedIsSaid, Close, Goto, cardVars, subVars
  <2>2. NothingRunsUnallowed'
    BY <1>10 DEF TurnInv, NothingRunsUnallowed, Allows, Close, Goto, cardVars,
       subVars
  <2>3. QuestionsAreSerial'
    BY <1>10 DEF TurnInv, QuestionsAreSerial, Over, Close, Goto, cardVars
  <2>4. AnswersAreKept'
    <3> SUFFICES ASSUME IsFiniteSet(Subject), Cardinality(Subject) <= Remembered,
                        NEW d \in Question
                 PROVE  /\ by'[d] # None /\ cpc'[d] # "decided"
                              => about'[d] \in answered'[turnOf'[d]]
                        /\ cpc'[d] \in {"asking", "announcing", "parked", "decided"}
                              => about'[d] \notin answered'[turnOf'[d]]
      BY DEF AnswersAreKept
    <3> DEFINE t == turnOf[c]
    <3>1. c \in Card /\ d \in Card /\ t \in Turn /\ about[c] \in Subject
      BY <1>0, <1>10, AnswerHubAssumption DEF TypeCards, PutIsPlaced, Close
    <3>2. verdict[c] = "answer" <=> c \in Question /\ by[c] # None
      BY <1>0 DEF VerdictIsSaid, Ended, SaysWhatItMay, Says, Took, Allow
    <3>3. answered[t] \subseteq Subject
      BY <1>0, <3>1 DEF TypeTurns
    <3>4. answered'[t] = IF verdict[c] = "answer" THEN answered[t] \cup {about[c]}
                         ELSE answered[t]
      <4>1. ASSUME ~(Cardinality(answered[t]) < Remembered)
            PROVE  answered[t] = Subject
        BY <3>3, <4>1, FS_Subset, FS_CardinalityType, AnswerHubAssumption
      <4> QED
        BY <1>0, <1>10, <3>1, <4>1 DEF Close, TypeTurns
    <3>5. \A u \in Turn \ {t} : answered'[u] = answered[u]
      BY <1>10 DEF Close
    <3>6. CASE d = c
      BY <1>0, <1>10, <3>2, <3>4, <3>6 DEF Close, Goto, TypeCards, cardVars
    <3>7. CASE d # c
      <4>1. /\ cpc'[d] = cpc[d] /\ by'[d] = by[d]
            /\ about'[d] = about[d] /\ turnOf'[d] = turnOf[d]
        BY <1>10, <3>7 DEF Close, Goto, cardVars
      <4>2. turnOf[d] = t /\ cpc[d] # "idle" => cpc[d] \in Over \/ c \notin Question
        BY <1>10, <3>1, <3>7, AnswerHubAssumption DEF TurnInv, QuestionsAreSerial,
           Close, Over
      <4>3. turnOf[d] = t \/ turnOf[d] \in Turn \ {t} \/ turnOf[d] = None
        BY <1>0, <3>1 DEF TypeCards
      <4> QED
        BY <1>0, <3>1, <3>2, <3>4, <3>5, <4>1, <4>2, <4>3 DEF TurnInv,
           AnswersAreKept, PutIsPlaced, WaitingIsOpen, Early, Over
    <3> QED
      BY <3>6, <3>7
  <2>5. AnsweredOnce'
    BY <1>10 DEF TurnInv, AnsweredOnce, Close, cardVars
  <2> QED
    BY <2>1, <2>2, <2>3, <2>4, <2>5 DEF TurnInv
<1>11. ASSUME NEW c \in Card, Forget(c) PROVE TurnInv'
  <2>1. AllowedIsSaid'
    BY <1>11 DEF TurnInv, AllowedIsSaid, Approval, Forget, Goto, cardVars, turnVars,
       subVars
  <2>2. NothingRunsUnallowed'
    BY <1>0, <1>11 DEF TurnInv, NothingRunsUnallowed, VerdictIsSaid, Ended, Allow,
       Allows, Forget, Goto, cardVars, subVars
  <2>3. QuestionsAreSerial'
    BY <1>11 DEF TurnInv, QuestionsAreSerial, Over, Forget, Goto, cardVars
  <2>4. AnswersAreKept'
    BY <1>11 DEF TurnInv, AnswersAreKept, Forget, Goto, cardVars, turnVars
  <2>5. AnsweredOnce'
    BY <1>11 DEF TurnInv, AnsweredOnce, Forget, cardVars
  <2> QED
    BY <2>1, <2>2, <2>3, <2>4, <2>5 DEF TurnInv
<1>12. ASSUME NEW c \in Card, Marked(c) PROVE TurnInv'
  <2>1. AllowedIsSaid'
    BY <1>0, <1>12 DEF TurnInv, AllowedIsSaid, VerdictIsSaid, Marked, Goto,
       cardVars, subVars
  <2>2. NothingRunsUnallowed'
    BY <1>0, <1>12 DEF TurnInv, NothingRunsUnallowed, VerdictIsSaid, Ended, Allows,
       AllowedIsSaid, Marked, Goto, cardVars, subVars
  <2>3. QuestionsAreSerial'
    BY <1>12 DEF TurnInv, QuestionsAreSerial, Over, Marked, Goto, cardVars
  <2>4. AnswersAreKept'
    BY <1>12 DEF TurnInv, AnswersAreKept, Marked, Goto, cardVars
  <2>5. AnsweredOnce'
    BY <1>12 DEF TurnInv, AnsweredOnce, Marked, cardVars
  <2> QED
    BY <2>1, <2>2, <2>3, <2>4, <2>5 DEF TurnInv
<1>13. ASSUME NEW s \in Submission, NEW c \in Card, NEW t \in Turn, Peek(s, c, t)
   PROVE TurnInv'
  <2>1. AllowedIsSaid'
    BY <1>0, <1>13 DEF TurnInv, AllowedIsSaid, TypeSubs, VerdictIsSaid, Ended,
       Approval, Peek, cardVars, waitVars, turnVars
  <2>2. NothingRunsUnallowed'
    <3>1. \A r \in Submission : spc[r] = "accepted" => target'[r] = target[r] /\ kind'[r] = kind[r]
      BY <1>0, <1>13 DEF Peek, TypeSubs
    <3>2. \A r \in Submission, d \in Approval : Allows(r, d) => Allows(r, d)'
      BY <1>0, <1>13, <3>1, AnswerHubAssumption DEF Allows, Approval, VerdictIsSaid,
         Ended, Peek, cardVars, waitVars
    <3> QED
      BY <1>13, <3>2 DEF TurnInv, NothingRunsUnallowed, Peek, waitVars
  <2>3. QuestionsAreSerial' /\ AnswersAreKept' /\ AnsweredOnce'
    BY <1>13 DEF TurnInv, QuestionsAreSerial, AnswersAreKept, AnsweredOnce, Peek,
       cardVars, waitVars, turnVars
  <2> QED
    BY <2>1, <2>2, <2>3 DEF TurnInv
<1>14. ASSUME NEW s \in Submission, Take(s) PROVE TurnInv'
  <2>1. AllowedIsSaid' /\ NothingRunsUnallowed' /\ QuestionsAreSerial' /\
     AnswersAreKept' /\ AnsweredOnce'
    BY <1>14 DEF TurnInv, AllowedIsSaid, NothingRunsUnallowed, QuestionsAreSerial,
       AnswersAreKept, AnsweredOnce, Allows, Take, cardVars, waitVars, turnVars
  <2> QED
    BY <2>1 DEF TurnInv
<1>15. ASSUME NEW s \in Submission, Deliver(s) PROVE TurnInv'
  <2>1. CASE cpc[target[s]] = "parked"
    <3>1. target[s] \in Card
      BY <1>0, <1>15 DEF Deliver, SaysWhatItMay, Took
    <3> QED
      BY <1>0, <1>15, <2>1, <3>1, DeliverWakes, WakeKeepsTurns
  <2>2. CASE cpc[target[s]] # "parked"
    BY <1>15, <2>2 DEF TurnInv, AllowedIsSaid, NothingRunsUnallowed, Allows,
       QuestionsAreSerial, AnswersAreKept, AnsweredOnce, Deliver, cardVars, turnVars
  <2> QED
    BY <2>1, <2>2
<1>16. CASE UNCHANGED vars
  BY <1>16 DEF TurnInv, AllowedIsSaid, NothingRunsUnallowed, QuestionsAreSerial,
     AnswersAreKept, AnsweredOnce, Allows, vars, cardVars, waitVars, turnVars,
     subVars
<1> QED
  BY <1>1, <1>2, <1>3, <1>4, <1>5, <1>6, <1>7, <1>8, <1>9, <1>10, <1>11, <1>12,
     <1>13, <1>14, <1>15, <1>16 DEF Next

-----------------------------------------------------------------------------
(* The theorems.                                                           *)

\* Both halves of the invariant hold in every reachable state.
LEMMA HubHolds == Spec => [](HubInv /\ TurnInv)
<1>1. Init => HubInv /\ TurnInv
  BY HubInit, TurnInit
<1>2. HubInv /\ TurnInv /\ [Next]_vars => (HubInv /\ TurnInv)'
  BY HubStep, TurnStep
<1> QED
  BY <1>1, <1>2, PTL DEF Spec

\* Every variable keeps its type, and the channel of a card never holds more than
\* the one answer it has room for: the request that delivers an answer never blocks.
THEOREM OneAnswerPerCard == Spec => []TypeOK
<1>1. HubInv => TypeOK
  BY DEF HubInv, TypeOK
<1> QED
  BY <1>1, HubHolds, PTL

\* A gated tool runs only if a person allowed this call, or this tool for the rest of
\* this turn: no timeout, stop, failure or decision about something else lets it run.
THEOREM RunsOnlyAllowed == Spec => []NothingRunsUnallowed
<1>1. TurnInv => NothingRunsUnallowed
  BY DEF TurnInv
<1> QED
  BY <1>1, HubHolds, PTL

\* As long as a turn can remember every answer, a question answered in it is not
\* answered again.
THEOREM AskedOnce == Spec => []AnsweredOnce
<1>1. TurnInv => AnsweredOnce
  BY DEF TurnInv
<1> QED
  BY <1>1, HubHolds, PTL

=============================================================================
