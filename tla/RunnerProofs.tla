---------------------------- MODULE RunnerProofs ----------------------------
(***************************************************************************)
(* Proofs about module Runner, for any replies, budgets, thresholds and    *)
(* bounds: its types, that a turn the guard stops was warned, that every   *)
(* window sent is well formed, and that a barrier runs alone.              *)
(*                                                                         *)
(* A window is built message by message and cut in the middle, so that     *)
(* what is kept of it must be true at every step: that results follow the  *)
(* call they answer (Whole), but for those of the step that is running     *)
(* (WindowIs), and that a window cut where no result stands is still so    *)
(* (CutIsSound).  That a stop was warned needs that a warning given is in  *)
(* the next window sent, or was heard, for as long as the guard takes it   *)
(* for given (WarningsAreTold).  Barriers need no more than that the       *)
(* groups of a reply part it (GroupsPart).  The types need that the gate   *)
(* lets in no more than it has places (GateHolds), and that what the guard *)
(* counts is counted over the calls of one step (ObservedIs).              *)
(***************************************************************************)
EXTENDS Runner, SequenceTheorems, FiniteSetTheorems, WellFoundedInduction, TLAPS

-----------------------------------------------------------------------------
(* Numbers.                                                                *)

\* A finite set of numbers that is not empty has a greatest one, which Max takes.
LEMMA GreatestIsOne ==
  ASSUME NEW S \in SUBSET Nat, IsFiniteSet(S), S # {}
  PROVE  Max(S) \in S /\ \A y \in S : y <= Max(S)
<1> DEFINE From(x) == {y \in S : x <= y}
           Sets == {From(x) : x \in S}
<1>1. Sets \subseteq FiniteSubsetsOf(S) /\ Sets # {}
  <2>1. \A x \in S : From(x) \subseteq S /\ IsFiniteSet(From(x))
    BY FS_Subset
  <2> QED
    BY <2>1 DEF FiniteSubsetsOf
<1>2. IsWellFoundedOn(StrictSubsetOrdering(S), FiniteSubsetsOf(S))
  BY FS_StrictSubsetOrderingWellFounded
<1> HIDE DEF Sets
<1>3. PICK d \in Sets : \A e \in Sets : <<e, d>> \notin StrictSubsetOrdering(S)
  BY <1>1, <1>2, WFMin
<1>4. PICK x \in S : d = From(x)
  BY DEF Sets
<1>5. ASSUME NEW y \in S, ~ (x >= y) PROVE FALSE
  <2>1. x \in Nat /\ y \in Nat /\ x < y
    BY <1>5
  <2>2. From(y) \subseteq From(x)
    <3>1. \A z \in S : y <= z => x <= z
      BY <2>1
    <3> QED
      BY <3>1
  <2>3. x \in From(x) /\ x \notin From(y)
    <3>1. ~ (y <= x) /\ x <= x
      BY <2>1
    <3> QED
      BY <3>1
  <2>4. <<From(y), From(x)>> \in StrictSubsetOrdering(S)
    BY <2>2, <2>3 DEF StrictSubsetOrdering
  <2>5. From(y) \in Sets
    BY DEF Sets
  <2> QED
    BY <1>3, <1>4, <2>4, <2>5
<1>6. \A y \in S : x >= y
  BY <1>5
<1>7. Max(S) \in S /\ \A y \in S : Max(S) >= y
  BY <1>6 DEF Max
<1> QED
  BY <1>7

\* The greatest of some numbers up to n.
LEMMA GreatestUpTo ==
  ASSUME NEW n \in Nat, NEW S \in SUBSET (0 .. n), S # {}
  PROVE  Max(S) \in S /\ \A y \in S : y <= Max(S)
<1>1. S \in SUBSET Nat /\ \A x \in S : x <= n
  OBVIOUS
<1>2. IsFiniteSet(S)
  BY <1>1, FS_BoundedSetOfNaturals
<1> QED
  BY <1>1, <1>2, GreatestIsOne

-----------------------------------------------------------------------------
(* Messages.                                                               *)

Roles == {"system", "user", "assistant", "tool"}

\* What the guard and the hooks speak of.
Spoken == Call \cup Path \cup {"idle", "hook"}

Messages ==
  {m \in [role : Roles, step : -Earlier .. MaxSteps, n : Nat,
          about : Spoken \cup {"rules", "ledger", "summary", "request", "reply", "result"}] :
     m.role = "system" /\ m.step >= 1 => m.about \in Spoken}

LEMMA StepsAre ==
  /\ Earlier \in Nat /\ MaxSteps \in Nat \ {0}
  /\ 0 .. MaxSteps \subseteq -Earlier .. MaxSteps
  /\ -Earlier .. MaxSteps \subseteq Int
<1> QED
  BY RunnerAssumption DEF RunnerAssumption

LEMMA MessagesAre ==
  ASSUME NEW m \in Messages
  PROVE  /\ m.role \in Roles /\ m.step \in -Earlier .. MaxSteps /\ m.step \in Int
         /\ m.n \in Nat
         /\ m.role = "system" /\ m.step >= 1 => m.about \in Spoken
<1> QED
  BY StepsAre DEF Messages

LEMMA SystemIsMessage ==
  /\ \A k \in 0 .. MaxSteps, x \in Spoken : System(k, x) \in Messages
  /\ \A x \in {"rules", "ledger", "summary"} : System(0, x) \in Messages
<1>1. ASSUME NEW k \in 0 .. MaxSteps, NEW x \in Spoken PROVE System(k, x) \in Messages
  BY StepsAre DEF System, Message, Messages, Roles
<1>2. ASSUME NEW x \in {"rules", "ledger", "summary"} PROVE System(0, x) \in Messages
  BY StepsAre DEF System, Message, Messages, Roles
<1> QED
  BY <1>1, <1>2

LEMMA OtherMessages ==
  ASSUME NEW k \in -Earlier .. MaxSteps, NEW n \in Nat
  PROVE  User(k) \in Messages /\ Assistant(k, n) \in Messages /\ ToolResult(k, n) \in Messages
<1> QED
  BY StepsAre DEF User, Assistant, ToolResult, Message, Messages, Roles

LEMMA MostCalls ==
  /\ MaxCalls \in Nat
  /\ \A calls \in Replies : calls \in Seq(Call) /\ Len(calls) \in 1 .. MaxCalls
<1> DEFINE L == {Len(calls) : calls \in Replies}
<1>1. IsFiniteSet(L)
  <2> DEFINE f == [calls \in Replies |-> Len(calls)]
  <2>1. f \in Surjection(Replies, L)
    BY DEF Surjection
  <2> QED
    BY <2>1, RunnerAssumption, FS_Surjection DEF RunnerAssumption
<1>2. IsFiniteSet(L \cup {0})
  BY <1>1, FS_AddElement
<1>3. \A calls \in Replies : calls \in Seq(Call) /\ calls # <<>>
  BY RunnerAssumption DEF RunnerAssumption
<1>4. \A calls \in Replies : Len(calls) \in Nat \ {0}
  BY <1>3, EmptySeq
<1>5. {0} \cup L \in SUBSET Nat /\ {0} \cup L # {} /\ IsFiniteSet({0} \cup L)
  <2>1. {0} \cup L = L \cup {0}
    OBVIOUS
  <2>2. L \subseteq Nat
    BY <1>4
  <2> HIDE DEF L
  <2> QED
    BY <1>2, <2>1, <2>2
<1>6. MaxCalls \in {0} \cup L /\ \A y \in {0} \cup L : y <= MaxCalls
  BY <1>5, GreatestIsOne DEF MaxCalls
<1>7. MaxCalls \in Nat
  BY <1>5, <1>6
<1> QED
  BY <1>3, <1>4, <1>6, <1>7

-----------------------------------------------------------------------------
(* Windows.                                                                *)

\* A result and the reply that asked for it are together, with the results between them.
Whole(msgs) ==
  \A i \in 1 .. Len(msgs) :
    /\ msgs[i].role = "tool" =>
         /\ msgs[i].n \in 1 .. i - 1
         /\ msgs[i - msgs[i].n].role = "assistant"
         /\ msgs[i - msgs[i].n].step = msgs[i].step
         /\ msgs[i].n <= msgs[i - msgs[i].n].n
    /\ msgs[i].role = "assistant" =>
         /\ msgs[i].n <= MaxCalls
         /\ \A n \in 1 .. msgs[i].n : i + n <= Len(msgs) /\ msgs[i + n] = ToolResult(msgs[i].step, n)

\* The request of the turn is the last the user said.
Asks(msgs) ==
  \E u \in 1 .. Len(msgs) :
    msgs[u] = User(0) /\ \A k \in u + 1 .. Len(msgs) : msgs[k].role # "user"

Sound(msgs) ==
  /\ msgs \in Seq(Messages)
  /\ Len(msgs) >= 1 /\ msgs[1] = System(0, "rules")
  /\ Asks(msgs) /\ Whole(msgs)

LEMMA SoundElements ==
  ASSUME NEW msgs, Sound(msgs)
  PROVE  /\ Len(msgs) \in Nat /\ Len(msgs) >= 2
         /\ \A i \in 1 .. Len(msgs) : msgs[i] \in Messages /\ msgs[i].n \in Nat
         /\ msgs[1].role = "system" /\ msgs[2].role # "tool"
<1>1. msgs \in Seq(Messages) /\ Len(msgs) \in Nat /\ Len(msgs) >= 1
  BY LenProperties DEF Sound
<1>2. \A i \in 1 .. Len(msgs) : msgs[i] \in Messages /\ msgs[i].n \in Nat
  <2> TAKE i \in 1 .. Len(msgs)
  <2>1. msgs[i] \in Messages
    BY <1>1, ElementOfSeq
  <2> QED
    BY <2>1, MessagesAre
<1>3. msgs[1].role = "system"
  BY DEF Sound, System, Message
<1>4. Len(msgs) >= 2
  <2>1. PICK u \in 1 .. Len(msgs) : msgs[u] = User(0)
    BY DEF Sound, Asks
  <2>2. msgs[u].role = "user"
    BY <2>1 DEF User, Message
  <2> QED
    BY <1>1, <1>3, <2>2
<1>5. msgs[2].role # "tool"
  <2> SUFFICES ASSUME msgs[2].role = "tool" PROVE FALSE
    OBVIOUS
  <2>1. msgs[2].n \in 1 .. 1 /\ msgs[2 - msgs[2].n].role = "assistant"
    BY <1>1, <1>4 DEF Sound, Whole
  <2>2. 2 - msgs[2].n = 1
    BY <2>1
  <2> QED
    BY <1>3, <2>1, <2>2
<1> QED
  BY <1>1, <1>2, <1>3, <1>4, <1>5

\* A message that no result belongs to may follow.
LEMMA AppendIsSound ==
  ASSUME NEW msgs, Sound(msgs), NEW m \in Messages,
         m.role = "system" \/ (m.role = "assistant" /\ m.n = 0)
  PROVE  Sound(Append(msgs, m))
<1> DEFINE out == Append(msgs, m)
<1>1. msgs \in Seq(Messages) /\ Len(msgs) \in Nat /\ Len(msgs) >= 2
  BY SoundElements DEF Sound
<1>2. /\ out \in Seq(Messages) /\ Len(out) = Len(msgs) + 1
      /\ \A i \in 1 .. Len(msgs) : out[i] = msgs[i]
      /\ out[Len(msgs) + 1] = m
  BY <1>1, AppendProperties
<1> HIDE DEF out
<1>3. Asks(out)
  <2>1. PICK u \in 1 .. Len(msgs) :
          msgs[u] = User(0) /\ \A k \in u + 1 .. Len(msgs) : msgs[k].role # "user"
    BY DEF Sound, Asks
  <2>2. u \in 1 .. Len(out) /\ out[u] = User(0)
    BY <1>1, <1>2, <2>1
  <2>3. \A k \in u + 1 .. Len(out) : out[k].role # "user"
    <3> TAKE k \in u + 1 .. Len(out)
    <3>1. CASE k = Len(msgs) + 1
      BY <1>2, <3>1
    <3>2. CASE k # Len(msgs) + 1
      <4>1. k \in u + 1 .. Len(msgs) /\ k \in 1 .. Len(msgs)
        BY <1>1, <1>2, <3>2
      <4> QED
        BY <1>2, <2>1, <4>1
    <3> QED
      BY <3>1, <3>2
  <2> QED
    BY <2>2, <2>3 DEF Asks
<1>4. Whole(out)
  <2> SUFFICES ASSUME NEW i \in 1 .. Len(out)
               PROVE  /\ out[i].role = "tool" =>
                           /\ out[i].n \in 1 .. i - 1
                           /\ out[i - out[i].n].role = "assistant"
                           /\ out[i - out[i].n].step = out[i].step
                           /\ out[i].n <= out[i - out[i].n].n
                      /\ out[i].role = "assistant" =>
                           /\ out[i].n <= MaxCalls
                           /\ \A n \in 1 .. out[i].n :
                                i + n <= Len(out) /\ out[i + n] = ToolResult(out[i].step, n)
    BY DEF Whole
  <2>1. CASE i = Len(msgs) + 1
    <3>1. m.role = "assistant" => m.n = 0 /\ m.n <= MaxCalls
      BY MostCalls
    <3>2. out[i] = m
      BY <1>2, <2>1
    <3> QED
      BY <3>1, <3>2
  <2>2. CASE i # Len(msgs) + 1
    <3>1. i \in 1 .. Len(msgs) /\ out[i] = msgs[i]
      BY <1>1, <1>2, <2>2
    <3>2. msgs[i].n \in Nat
      BY <3>1, SoundElements
    <3>3. ASSUME msgs[i].role = "tool"
          PROVE  /\ out[i].n \in 1 .. i - 1
                 /\ out[i - out[i].n].role = "assistant"
                 /\ out[i - out[i].n].step = out[i].step
                 /\ out[i].n <= out[i - out[i].n].n
      <4>1. /\ msgs[i].n \in 1 .. i - 1
            /\ msgs[i - msgs[i].n].role = "assistant"
            /\ msgs[i - msgs[i].n].step = msgs[i].step
            /\ msgs[i].n <= msgs[i - msgs[i].n].n
        BY <3>1, <3>3 DEF Sound, Whole
      <4>2. i - msgs[i].n \in 1 .. Len(msgs)
        BY <1>1, <3>1, <4>1
      <4>3. out[i - msgs[i].n] = msgs[i - msgs[i].n]
        BY <1>2, <4>2
      <4> QED
        BY <3>1, <4>1, <4>3
    <3>4. ASSUME msgs[i].role = "assistant"
          PROVE  /\ out[i].n <= MaxCalls
                 /\ \A n \in 1 .. out[i].n :
                      i + n <= Len(out) /\ out[i + n] = ToolResult(out[i].step, n)
      <4>1. /\ msgs[i].n <= MaxCalls
            /\ \A n \in 1 .. msgs[i].n :
                 i + n <= Len(msgs) /\ msgs[i + n] = ToolResult(msgs[i].step, n)
        BY <3>1, <3>4 DEF Sound, Whole
      <4>2. ASSUME NEW n \in 1 .. msgs[i].n
            PROVE  i + n <= Len(out) /\ out[i + n] = ToolResult(msgs[i].step, n)
        <5>1. i + n <= Len(msgs) /\ msgs[i + n] = ToolResult(msgs[i].step, n)
          BY <4>1
        <5>2. i + n \in 1 .. Len(msgs) /\ i + n <= Len(out)
          BY <1>1, <1>2, <3>1, <3>2, <5>1
        <5> QED
          BY <1>2, <5>1, <5>2
      <4> QED
        BY <3>1, <4>1, <4>2
    <3> QED
      BY <3>1, <3>3, <3>4
  <2> QED
    BY <2>1, <2>2
<1>5. Len(out) >= 1 /\ out[1] = System(0, "rules")
  BY <1>1, <1>2 DEF Sound
<1> QED
  BY <1>2, <1>3, <1>4, <1>5 DEF Sound, out

\* A reply of n calls may follow, with its results.
LEMMA ReplyIsSound ==
  ASSUME NEW msgs, Sound(msgs), NEW k \in 1 .. MaxSteps, NEW n \in 1 .. MaxCalls
  PROVE  Sound(Append(msgs, Assistant(k, n)) \o [i \in 1 .. n |-> ToolResult(k, i)])
<1> DEFINE m == Assistant(k, n)
           results == [i \in 1 .. n |-> ToolResult(k, i)]
           said == Append(msgs, m)
           out == said \o results
<1>0. n \in Nat /\ n <= MaxCalls /\ k \in -Earlier .. MaxSteps
  BY MostCalls, StepsAre
<1>1. msgs \in Seq(Messages) /\ Len(msgs) \in Nat /\ Len(msgs) >= 2
  BY SoundElements DEF Sound
<1>2. /\ said \in Seq(Messages) /\ Len(said) = Len(msgs) + 1
      /\ \A i \in 1 .. Len(msgs) : said[i] = msgs[i]
      /\ said[Len(msgs) + 1] = m
  <2>1. m \in Messages
    BY <1>0, OtherMessages
  <2> QED
    BY <1>1, <2>1, AppendProperties
<1>3. results \in Seq(Messages) /\ Len(results) = n
  <2>1. \A i \in 1 .. n : ToolResult(k, i) \in Messages
    BY <1>0, OtherMessages
  <2>2. results \in [1 .. n -> Messages]
    BY <2>1
  <2> QED
    BY <1>0, <2>2
<1>4. \A i \in 1 .. n : results[i] = ToolResult(k, i)
  OBVIOUS
<1>5. m.role = "assistant" /\ m.n = n /\ m.step = k
  BY DEF Assistant, Message
<1>6. \A i : LET r == ToolResult(k, i) IN r.role = "tool" /\ r.n = i /\ r.step = k
  BY DEF ToolResult, Message
<1> HIDE DEF m, results, said
<1>7. /\ out \in Seq(Messages) /\ Len(out) = Len(msgs) + 1 + n
      /\ \A i \in 1 .. Len(msgs) : out[i] = msgs[i]
      /\ out[Len(msgs) + 1] = m
      /\ \A i \in 1 .. n : out[Len(msgs) + 1 + i] = ToolResult(k, i)
  <2>0. /\ out \in Seq(Messages) /\ Len(out) = Len(said) + Len(results)
        /\ \A i \in 1 .. Len(said) + Len(results) : out[i] =
              IF i <= Len(said) THEN said[i] ELSE results[i - Len(said)]
    BY <1>2, <1>3, ConcatProperties
  <2>1. /\ out \in Seq(Messages) /\ Len(out) = Len(msgs) + 1 + n
        /\ \A i \in 1 .. Len(msgs) + 1 + n : out[i] =
              IF i <= Len(msgs) + 1 THEN said[i] ELSE results[i - (Len(msgs) + 1)]
    BY <1>2, <1>3, <2>0
  <2>2. \A i \in 1 .. Len(msgs) : out[i] = msgs[i]
    BY <1>0, <1>1, <1>2, <2>1
  <2>3. out[Len(msgs) + 1] = m
    BY <1>0, <1>1, <1>2, <2>1
  <2>4. ASSUME NEW i \in 1 .. n PROVE out[Len(msgs) + 1 + i] = ToolResult(k, i)
    <3>1. /\ Len(msgs) + 1 + i \in 1 .. Len(msgs) + 1 + n
          /\ ~ (Len(msgs) + 1 + i <= Len(msgs) + 1)
          /\ (Len(msgs) + 1 + i) - (Len(msgs) + 1) = i
      BY <1>0, <1>1
    <3> QED
      BY <1>4, <2>1, <3>1
  <2> QED
    BY <2>1, <2>2, <2>3, <2>4
<1> HIDE DEF out
<1>8. \A i \in 1 .. Len(out) :
        i \in 1 .. Len(msgs) \/ i = Len(msgs) + 1 \/ \E j \in 1 .. n : i = Len(msgs) + 1 + j
  <2> TAKE i \in 1 .. Len(out)
  <2>0. Len(out) = Len(msgs) + 1 + n /\ Len(msgs) \in Nat /\ n \in Nat
    BY <1>0, <1>1, <1>7
  <2>1. CASE i > Len(msgs) + 1
    <3>1. i - (Len(msgs) + 1) \in 1 .. n /\ i = Len(msgs) + 1 + (i - (Len(msgs) + 1))
      BY <2>0, <2>1
    <3> QED
      BY <3>1
  <2>2. CASE ~ (i > Len(msgs) + 1)
    BY <2>0, <2>2
  <2> QED
    BY <2>1, <2>2
<1>9. Asks(out)
  <2>1. PICK u \in 1 .. Len(msgs) :
          msgs[u] = User(0) /\ \A j \in u + 1 .. Len(msgs) : msgs[j].role # "user"
    BY DEF Sound, Asks
  <2>2. u \in 1 .. Len(out) /\ out[u] = User(0)
    BY <1>0, <1>1, <1>7, <2>1
  <2>3. \A j \in u + 1 .. Len(out) : out[j].role # "user"
    <3> TAKE i \in u + 1 .. Len(out)
    <3>0. i \in 1 .. Len(out)
      OBVIOUS
    <3>1. CASE i = Len(msgs) + 1
      BY <1>5, <1>7, <3>1
    <3>2. CASE \E j \in 1 .. n : i = Len(msgs) + 1 + j
      <4>1. PICK j \in 1 .. n : i = Len(msgs) + 1 + j
        BY <3>2
      <4>2. out[i] = ToolResult(k, j)
        BY <1>7, <4>1
      <4> QED
        BY <1>6, <4>2
    <3>3. CASE i \in 1 .. Len(msgs)
      <4>1. i \in u + 1 .. Len(msgs)
        BY <1>1, <3>3
      <4> QED
        BY <1>7, <2>1, <3>3, <4>1
    <3> QED
      BY <1>8, <3>0, <3>1, <3>2, <3>3
  <2> QED
    BY <2>2, <2>3 DEF Asks
<1>10. Whole(out)
  <2> SUFFICES ASSUME NEW i \in 1 .. Len(out)
               PROVE  /\ out[i].role = "tool" =>
                           /\ out[i].n \in 1 .. i - 1
                           /\ out[i - out[i].n].role = "assistant"
                           /\ out[i - out[i].n].step = out[i].step
                           /\ out[i].n <= out[i - out[i].n].n
                      /\ out[i].role = "assistant" =>
                           /\ out[i].n <= MaxCalls
                           /\ \A j \in 1 .. out[i].n :
                                i + j <= Len(out) /\ out[i + j] = ToolResult(out[i].step, j)
    BY DEF Whole
  <2>1. CASE i = Len(msgs) + 1
    BY <1>0, <1>1, <1>5, <1>7, <2>1
  <2>2. CASE \E j \in 1 .. n : i = Len(msgs) + 1 + j
    <3>1. PICK j \in 1 .. n : i = Len(msgs) + 1 + j
      BY <2>2
    <3>2. out[i].role = "tool" /\ out[i].n = j /\ out[i].step = k
      BY <1>6, <1>7, <3>1
    <3>3. i - j = Len(msgs) + 1 /\ j \in 1 .. i - 1 /\ j <= n
      BY <1>0, <1>1, <3>1
    <3> QED
      BY <1>5, <1>7, <3>2, <3>3
  <2>3. CASE i \in 1 .. Len(msgs)
    <3>1. out[i] = msgs[i]
      BY <1>7, <2>3
    <3>2. msgs[i].n \in Nat
      BY <2>3, SoundElements
    <3>3. ASSUME msgs[i].role = "tool"
          PROVE  /\ out[i].n \in 1 .. i - 1
                 /\ out[i - out[i].n].role = "assistant"
                 /\ out[i - out[i].n].step = out[i].step
                 /\ out[i].n <= out[i - out[i].n].n
      <4>1. /\ msgs[i].n \in 1 .. i - 1
            /\ msgs[i - msgs[i].n].role = "assistant"
            /\ msgs[i - msgs[i].n].step = msgs[i].step
            /\ msgs[i].n <= msgs[i - msgs[i].n].n
        BY <2>3, <3>3 DEF Sound, Whole
      <4>2. i - msgs[i].n \in 1 .. Len(msgs)
        <5>1. msgs[i].n \in 1 .. i - 1 /\ Len(msgs) \in Nat
          BY <1>1, <4>1
        <5> QED
          BY <2>3, <5>1
      <4>3. out[i - msgs[i].n] = msgs[i - msgs[i].n]
        BY <1>7, <4>2
      <4> QED
        BY <3>1, <4>1, <4>3
    <3>4. ASSUME msgs[i].role = "assistant"
          PROVE  /\ out[i].n <= MaxCalls
                 /\ \A j \in 1 .. out[i].n :
                      i + j <= Len(out) /\ out[i + j] = ToolResult(out[i].step, j)
      <4>1. /\ msgs[i].n <= MaxCalls
            /\ \A j \in 1 .. msgs[i].n :
                 i + j <= Len(msgs) /\ msgs[i + j] = ToolResult(msgs[i].step, j)
        BY <2>3, <3>4 DEF Sound, Whole
      <4>2. ASSUME NEW j \in 1 .. msgs[i].n
            PROVE  i + j <= Len(out) /\ out[i + j] = ToolResult(msgs[i].step, j)
        <5>1. i + j <= Len(msgs) /\ msgs[i + j] = ToolResult(msgs[i].step, j)
          BY <4>1
        <5>2. i + j \in 1 .. Len(msgs) /\ i + j <= Len(out)
          BY <1>0, <1>1, <1>7, <2>3, <3>2, <5>1
        <5> QED
          BY <1>7, <5>1, <5>2
      <4> QED
        BY <3>1, <4>1, <4>2
    <3> QED
      BY <3>1, <3>3, <3>4
  <2> QED
    BY <1>8, <2>1, <2>2, <2>3
<1>11. Len(out) >= 1 /\ out[1] = System(0, "rules")
  BY <1>0, <1>1, <1>7 DEF Sound
<1>12. Sound(out)
  BY <1>7, <1>9, <1>10, <1>11 DEF Sound
<1> QED
  BY <1>12 DEF out, said, m, results

\* Messages that are nobody's results may take the place of those before one that is
\* not a result, when the last the user said there is the last of them.
LEMMA CutIsSound ==
  ASSUME NEW msgs, Sound(msgs), NEW p \in Seq(Messages), NEW f \in 2 .. Len(msgs),
         Len(p) >= 1, p[1] = msgs[1],
         \A i \in 1 .. Len(p) : p[i].role \in {"system", "user"},
         msgs[f].role # "tool",
         \A u \in 2 .. f - 1 :
           (msgs[u].role = "user" /\ \A k \in u + 1 .. f - 1 : msgs[k].role # "user")
             => p[Len(p)] = msgs[u]
  PROVE  LET out == p \o SubSeq(msgs, f, Len(msgs))
         IN  /\ Sound(out)
             /\ Len(out) = Len(p) + Len(msgs) - f + 1
             /\ out[Len(out)] = msgs[Len(msgs)]
<1> DEFINE tail == SubSeq(msgs, f, Len(msgs))
           out == p \o tail
           d == f - 1 - Len(p)
<1>1. /\ msgs \in Seq(Messages) /\ Len(msgs) \in Nat /\ Len(msgs) >= 2
      /\ \A i \in 1 .. Len(msgs) : msgs[i] \in Messages /\ msgs[i].n \in Nat
      /\ msgs[1].role = "system"
  BY SoundElements DEF Sound
<1>2. Len(p) \in Nat /\ f \in Nat /\ f >= 2 /\ f <= Len(msgs) /\ d \in Int /\ d = f - 1 - Len(p)
  BY <1>1, LenProperties
<1>n. /\ Len(msgs) \in Nat /\ Len(p) \in Nat /\ Len(p) >= 1 /\ d \in Int /\ d = f - 1 - Len(p)
      /\ f \in Nat /\ f >= 2 /\ f <= Len(msgs)
  BY <1>1, <1>2
<1>3. /\ tail \in Seq(Messages) /\ Len(tail) = Len(msgs) - f + 1
      /\ \A i \in 1 .. Len(msgs) - f + 1 : tail[i] = msgs[f + i - 1]
  <2>1. \A i \in f .. Len(msgs) : msgs[i] \in Messages
    BY <1>1, <1>2
  <2> QED
    BY <1>1, <1>2, <2>1, SubSeqProperties
<1> HIDE DEF tail, d
<1>4. /\ out \in Seq(Messages) /\ Len(out) = Len(p) + Len(msgs) - f + 1
      /\ \A i \in 1 .. Len(p) : out[i] = p[i]
      /\ \A i \in Len(p) + 1 .. Len(out) :
           i + d \in f .. Len(msgs) /\ out[i] = msgs[i + d]
  <2>0. /\ out \in Seq(Messages) /\ Len(out) = Len(p) + Len(tail)
        /\ \A i \in 1 .. Len(p) + Len(tail) : out[i] =
              IF i <= Len(p) THEN p[i] ELSE tail[i - Len(p)]
    BY <1>3, ConcatProperties
  <2> HIDE DEF out
  <2>1. /\ out \in Seq(Messages) /\ Len(out) = Len(p) + (Len(msgs) - f + 1)
        /\ \A i \in 1 .. Len(p) + (Len(msgs) - f + 1) : out[i] =
              IF i <= Len(p) THEN p[i] ELSE tail[i - Len(p)]
    BY <1>3, <2>0
  <2>2. \A i \in 1 .. Len(p) : out[i] = p[i]
    <3> TAKE i \in 1 .. Len(p)
    <3>1. i \in 1 .. Len(p) + (Len(msgs) - f + 1) /\ i <= Len(p)
      BY <1>n
    <3> QED
      BY <2>1, <3>1
  <2>3. ASSUME NEW i \in Len(p) + 1 .. Len(out)
        PROVE  i + d \in f .. Len(msgs) /\ out[i] = msgs[i + d]
    <3>1. /\ i \in 1 .. Len(p) + (Len(msgs) - f + 1) /\ ~ (i <= Len(p))
          /\ i - Len(p) \in 1 .. Len(msgs) - f + 1
          /\ f + (i - Len(p)) - 1 = i + d
          /\ i + d \in f .. Len(msgs)
      BY <1>1, <1>2, <2>1
    <3> QED
      BY <1>3, <2>1, <3>1
  <2>4. Len(out) = Len(p) + Len(msgs) - f + 1
    BY <1>1, <1>2, <2>1
  <2> QED
    BY <2>1, <2>2, <2>3, <2>4
<1> HIDE DEF out
<1>o. Len(out) \in Nat /\ Len(out) = Len(p) + Len(msgs) - f + 1
  BY <1>n, <1>4
<1>5. \A i \in f .. Len(msgs) : i - d \in Len(p) + 1 .. Len(out) /\ out[i - d] = msgs[i]
  <2> TAKE i \in f .. Len(msgs)
  <2>1. i - d \in Len(p) + 1 .. Len(out) /\ (i - d) + d = i
    BY <1>1, <1>2, <1>4
  <2> QED
    BY <1>4, <2>1
<1>6. \A i \in 1 .. Len(out) : i \in 1 .. Len(p) \/ i \in Len(p) + 1 .. Len(out)
  BY <1>1, <1>2, <1>4
<1>7. Asks(out)
  <2>1. PICK u \in 1 .. Len(msgs) :
          msgs[u] = User(0) /\ \A k \in u + 1 .. Len(msgs) : msgs[k].role # "user"
    BY DEF Sound, Asks
  <2>2. msgs[u].role = "user" /\ u # 1
    BY <1>1, <2>1 DEF User, Message
  <2>3. CASE u >= f
    <3>1. u - d \in Len(p) + 1 .. Len(out) /\ out[u - d] = User(0)
      <4>1. u \in f .. Len(msgs)
        BY <1>n, <2>1, <2>3
      <4> QED
        BY <1>5, <2>1, <4>1
    <3>2. \A k \in u - d + 1 .. Len(out) : out[k].role # "user"
      <4> TAKE k \in u - d + 1 .. Len(out)
      <4>1. k \in Len(p) + 1 .. Len(out) /\ k + d \in u + 1 .. Len(msgs)
        <5>1. u - d \in Len(p) + 1 .. Len(out) /\ u \in Int
          BY <3>1
        <5> QED
          BY <1>n, <1>o, <5>1
      <4> QED
        BY <1>4, <2>1, <4>1
    <3>3. u - d \in 1 .. Len(out)
      BY <1>2, <3>1
    <3> QED
      BY <3>1, <3>2, <3>3 DEF Asks
  <2>4. CASE u < f
    <3>1. u \in 2 .. f - 1 /\ \A k \in u + 1 .. f - 1 : msgs[k].role # "user"
      BY <1>1, <1>2, <2>1, <2>2, <2>4
    <3>2. p[Len(p)] = User(0)
      BY <2>1, <2>2, <3>1
    <3>3. Len(p) \in 1 .. Len(out) /\ out[Len(p)] = User(0)
      BY <1>1, <1>2, <1>4, <3>2
    <3>4. \A k \in Len(p) + 1 .. Len(out) : out[k].role # "user"
      <4> TAKE k \in Len(p) + 1 .. Len(out)
      <4>1. k + d \in f .. Len(msgs) /\ out[k] = msgs[k + d]
        BY <1>4
      <4>2. k + d \in u + 1 .. Len(msgs)
        BY <1>1, <1>2, <2>4, <4>1
      <4> QED
        BY <2>1, <4>1, <4>2
    <3> QED
      BY <3>3, <3>4 DEF Asks
  <2> QED
    BY <1>1, <1>2, <2>1, <2>3, <2>4
<1>8. Whole(out)
  <2> SUFFICES ASSUME NEW i \in 1 .. Len(out)
               PROVE  /\ out[i].role = "tool" =>
                           /\ out[i].n \in 1 .. i - 1
                           /\ out[i - out[i].n].role = "assistant"
                           /\ out[i - out[i].n].step = out[i].step
                           /\ out[i].n <= out[i - out[i].n].n
                      /\ out[i].role = "assistant" =>
                           /\ out[i].n <= MaxCalls
                           /\ \A j \in 1 .. out[i].n :
                                i + j <= Len(out) /\ out[i + j] = ToolResult(out[i].step, j)
    BY DEF Whole
  <2>1. CASE i \in 1 .. Len(p)
    BY <1>4, <2>1
  <2>2. CASE i \in Len(p) + 1 .. Len(out)
    <3> DEFINE h == i + d
    <3>1. h \in f .. Len(msgs) /\ out[i] = msgs[h] /\ h \in 1 .. Len(msgs) /\ h = i + d
      BY <1>1, <1>2, <1>4, <2>2
    <3> HIDE DEF h
    <3>2. msgs[h].n \in Nat
      BY <1>1, <3>1
    <3>3. ASSUME msgs[h].role = "tool"
          PROVE  /\ out[i].n \in 1 .. i - 1
                 /\ out[i - out[i].n].role = "assistant"
                 /\ out[i - out[i].n].step = out[i].step
                 /\ out[i].n <= out[i - out[i].n].n
      <4> DEFINE g == h - msgs[h].n
      <4>1. /\ msgs[h].n \in 1 .. h - 1
            /\ msgs[g].role = "assistant"
            /\ msgs[g].step = msgs[h].step
            /\ msgs[h].n <= msgs[g].n
        <5>1. Whole(msgs) /\ h \in 1 .. Len(msgs)
          BY <3>1 DEF Sound
        <5> QED
          BY <3>3, <5>1 DEF Whole
      <4>2. g \in 1 .. Len(msgs) /\ g = h - msgs[h].n
        BY <1>1, <3>1, <4>1
      <4> HIDE DEF g
      <4>3. g >= f
        <5> SUFFICES ASSUME g < f PROVE FALSE
          BY <1>2, <4>2
        <5>1. f - g \in 1 .. msgs[g].n
          <6>1. msgs[g].n \in Nat
            BY <1>1, <4>2
          <6>2. msgs[h].n \in Nat /\ msgs[h].n <= msgs[g].n /\ h \in Nat /\ f <= h
            BY <1>n, <3>1, <3>2, <4>1
          <6>3. \A a, b \in Nat : a <= b /\ g = h - a => f - g \in 1 .. b
            <7> TAKE a, b \in Nat
            <7>1. g \in Int /\ f \in Int /\ h \in Int /\ f <= h /\ g < f
              BY <1>n, <4>2, <6>2
            <7> QED
              BY <7>1
          <6> QED
            BY <4>2, <6>1, <6>2, <6>3
        <5>2. msgs[g + (f - g)] = ToolResult(msgs[g].step, f - g)
          BY <4>1, <4>2, <5>1 DEF Sound, Whole
        <5>3. g + (f - g) = f
          BY <1>2, <4>2
        <5>4. msgs[f].role = "tool"
          BY <5>2, <5>3 DEF ToolResult, Message
        <5> QED
          BY <5>4
      <4>4. g \in f .. Len(msgs)
        BY <1>1, <1>2, <4>2, <4>3
      <4>5. out[g - d] = msgs[g] /\ g - d \in Len(p) + 1 .. Len(out)
        BY <1>5, <4>4
      <4>6. g - d = i - msgs[h].n /\ msgs[h].n \in 1 .. i - 1
        <5> DEFINE m == msgs[h].n
        <5>1. /\ m \in Nat /\ m >= 1 /\ m = msgs[h].n /\ h = i + d /\ g = h - m
              /\ h \in Int /\ g \in Int
          BY <1>n, <3>1, <3>2, <4>1, <4>2
        <5>2. i \in Int /\ Len(p) \in Nat /\ g - d >= Len(p) + 1
          BY <1>n, <2>2, <4>5
        <5> HIDE DEF m
        <5>3. g - d = i - m
          <6>1. d \in Int /\ i \in Int /\ m \in Int
            BY <1>n, <5>1, <5>2
          <6>2. ((i + d) - m) - d = i - m
            BY <6>1
          <6> QED
            BY <5>1, <6>2
        <5>4. m \in 1 .. i - 1
          BY <5>1, <5>2, <5>3
        <5> QED
          BY <5>1, <5>3, <5>4
      <4> QED
        BY <3>1, <4>1, <4>5, <4>6
    <3>4. ASSUME msgs[h].role = "assistant"
          PROVE  /\ out[i].n <= MaxCalls
                 /\ \A j \in 1 .. out[i].n :
                      i + j <= Len(out) /\ out[i + j] = ToolResult(out[i].step, j)
      <4>1. /\ msgs[h].n <= MaxCalls
            /\ \A j \in 1 .. msgs[h].n :
                 h + j <= Len(msgs) /\ msgs[h + j] = ToolResult(msgs[h].step, j)
        BY <3>1, <3>4 DEF Sound, Whole
      <4>2. ASSUME NEW j \in 1 .. msgs[h].n
            PROVE  i + j <= Len(out) /\ out[i + j] = ToolResult(msgs[h].step, j)
        <5>1. h + j <= Len(msgs) /\ msgs[h + j] = ToolResult(msgs[h].step, j)
          BY <4>1
        <5>2. h + j \in f .. Len(msgs) /\ (h + j) - d = i + j
          <6>1. h \in Int /\ h >= f /\ h = i + d /\ j \in Nat /\ i \in Int
            BY <1>n, <2>2, <3>1, <3>2
          <6>2. h + j >= f /\ h + j \in Int
            BY <1>n, <6>1
          <6>3. h + j \in f .. Len(msgs)
            BY <1>n, <5>1, <6>2
          <6>4. (h + j) - d = i + j
            BY <1>n, <6>1
          <6> QED
            BY <6>3, <6>4
        <5>3. out[i + j] = msgs[h + j] /\ i + j \in Len(p) + 1 .. Len(out)
          BY <1>5, <5>2
        <5> QED
          BY <1>1, <1>2, <1>4, <5>1, <5>3
      <4> QED
        BY <3>1, <4>1, <4>2
    <3> QED
      BY <3>1, <3>3, <3>4
  <2> QED
    BY <1>6, <2>1, <2>2
<1>9. Len(out) >= 1 /\ out[1] = System(0, "rules")
  BY <1>1, <1>2, <1>4 DEF Sound
<1>10. Sound(out)
  BY <1>4, <1>7, <1>8, <1>9 DEF Sound
<1>11. out[Len(out)] = msgs[Len(msgs)]
  <2>1. Len(msgs) \in f .. Len(msgs) /\ Len(msgs) - d = Len(out)
    BY <1>1, <1>2, <1>4
  <2> QED
    BY <1>5, <2>1
<1> QED
  BY <1>4, <1>10, <1>11 DEF out, tail

-----------------------------------------------------------------------------
(* What condensing keeps.                                                  *)

LEMMA KeptIs == Kept \in Nat \ {0}
<1> QED
  BY WindowAssumption DEF WindowAssumption, Kept

\* The kept tail begins at something that is not a result, and no earlier than the
\* latest messages and the rest of one exchange make it.
LEMMA TailIs ==
  ASSUME NEW msgs, Sound(msgs),
         ~ (Kept >= Len(SubSeq(msgs, 2, Len(msgs))))
  PROVE  LET from == KeptFrom(SubSeq(msgs, 2, Len(msgs)))
         IN  /\ from \in 1 .. Len(msgs) - 1
             /\ msgs[from + 1].role # "tool"
             /\ Len(msgs) - from <= Kept + MaxCalls
<1> DEFINE rest == SubSeq(msgs, 2, Len(msgs))
           last == Len(msgs) - Kept
           S == {1} \cup {k \in 1 .. Len(rest) - Kept + 1 : rest[k].role # "tool"}
<1>1. /\ msgs \in Seq(Messages) /\ Len(msgs) \in Nat /\ Len(msgs) >= 2
      /\ \A i \in 1 .. Len(msgs) : msgs[i] \in Messages /\ msgs[i].n \in Nat
      /\ msgs[1].role = "system" /\ msgs[2].role # "tool"
  BY SoundElements DEF Sound
<1>2. /\ rest \in Seq(Messages) /\ Len(rest) = Len(msgs) - 1
      /\ \A i \in 1 .. Len(msgs) - 1 : rest[i] = msgs[i + 1]
  <2>1. \A i \in 2 .. Len(msgs) : msgs[i] \in Messages
    BY <1>1
  <2>2. /\ rest \in Seq(Messages)
        /\ Len(rest) = IF 2 <= Len(msgs) THEN Len(msgs) - 2 + 1 ELSE 0
        /\ \A i \in 1 .. Len(msgs) - 2 + 1 : rest[i] = msgs[2 + i - 1]
    BY <1>1, <2>1, SubSeqProperties
  <2> HIDE DEF rest
  <2>3. Len(rest) = Len(msgs) - 1
    BY <1>1, <2>2
  <2>4. ASSUME NEW i \in 1 .. Len(msgs) - 1 PROVE rest[i] = msgs[i + 1]
    <3>1. i \in 1 .. Len(msgs) - 2 + 1 /\ 2 + i - 1 = i + 1
      BY <1>1
    <3> QED
      BY <2>2, <3>1
  <2> QED
    BY <2>2, <2>3, <2>4
<1>3. Kept \in Nat \ {0} /\ MaxCalls \in Nat
  BY KeptIs, MostCalls
<1>4. Kept < Len(msgs) - 1 /\ last \in Int /\ last = Len(msgs) - Kept
  <2>1. ~ (Kept >= Len(rest))
    OBVIOUS
  <2> HIDE DEF rest
  <2> QED
    BY <1>1, <1>2, <1>3, <2>1
<1> HIDE DEF rest, last
<1>5. S = {1} \cup {k \in 1 .. last : rest[k].role # "tool"}
  <2>1. Len(rest) - Kept + 1 = last
    BY <1>1, <1>2, <1>3, <1>4
  <2> QED
    BY <2>1
<1> HIDE DEF S
<1>6. S \in SUBSET (0 .. last) /\ 1 \in S /\ last \in Nat
  BY <1>1, <1>3, <1>4, <1>5
<1>7. Max(S) \in S /\ \A y \in S : y <= Max(S)
  BY <1>6, GreatestUpTo
<1> DEFINE from == Max(S)
<1>8. from \in 1 .. Len(msgs) - 1 /\ from \in Nat /\ from <= last
  <2>1. from \in 1 .. last
    BY <1>5, <1>6, <1>7
  <2> HIDE DEF from
  <2> QED
    BY <1>1, <1>3, <1>4, <2>1
<1>9. msgs[from + 1].role # "tool"
  <2>1. CASE from = 1
    BY <1>1, <2>1
  <2>2. CASE from # 1
    <3>1. rest[from].role # "tool"
      BY <1>5, <1>7, <2>2
    <3> QED
      BY <1>2, <1>8, <3>1
  <2> QED
    BY <2>1, <2>2
<1>10. Len(msgs) - from <= Kept + MaxCalls
  <2>1. last \in 1 .. Len(msgs) - 1 /\ rest[last] = msgs[last + 1] /\ last + 1 \in 1 .. Len(msgs)
    <3>1. last \in 1 .. Len(msgs) - 1
      BY <1>1, <1>3, <1>4
    <3> QED
      BY <1>1, <1>2, <3>1
  <2>2. CASE msgs[last + 1].role # "tool"
    <3>1. last \in S
      BY <1>5, <2>1, <2>2
    <3>2. last <= from
      BY <1>7, <3>1
    <3> QED
      BY <1>1, <1>3, <1>4, <1>8, <3>2
  <2>3. CASE msgs[last + 1].role = "tool"
    <3> DEFINE m == msgs[last + 1].n
               g == last + 1 - m
    <3>1. /\ m \in 1 .. last + 1 - 1 /\ msgs[g].role = "assistant" /\ m <= msgs[g].n
      <4>1. \A i \in 1 .. Len(msgs) :
              msgs[i].role = "tool" =>
                /\ msgs[i].n \in 1 .. i - 1
                /\ msgs[i - msgs[i].n].role = "assistant"
                /\ msgs[i].n <= msgs[i - msgs[i].n].n
        BY DEF Sound, Whole
      <4> QED
        BY <2>1, <2>3, <4>1
    <3>2. m \in Nat /\ m >= 1 /\ m <= last /\ g = last + 1 - m
      <4>1. m \in 1 .. last + 1 - 1
        BY <3>1
      <4> HIDE DEF m
      <4> QED
        BY <1>4, <4>1
    <3>3. msgs[g].role = "assistant" /\ m <= msgs[g].n
      BY <3>1
    <3> HIDE DEF m, g
    <3>4. g \in 1 .. Len(msgs) /\ g # 1
      <4>1. g \in 1 .. Len(msgs)
        <5>1. last + 1 <= Len(msgs) /\ last \in Nat /\ Len(msgs) \in Nat
          BY <1>1, <1>6, <2>1
        <5> HIDE DEF last
        <5> QED
          BY <3>2, <5>1
      <4>2. g # 1
        BY <1>1, <3>3
      <4> QED
        BY <4>1, <4>2
    <3>5. m <= MaxCalls
      <4>1. msgs[g].n <= MaxCalls /\ msgs[g].n \in Nat
        BY <1>1, <3>3, <3>4 DEF Sound, Whole
      <4> DEFINE c == msgs[g].n
      <4>2. c <= MaxCalls /\ c \in Nat /\ m <= c
        BY <3>3, <4>1
      <4> HIDE DEF c
      <4> QED
        BY <1>3, <3>2, <4>2
    <3>6. g - 1 \in 1 .. last /\ g - 1 \in 1 .. Len(msgs) - 1 /\ (g - 1) + 1 = g
      BY <2>1, <3>2, <3>4
    <3>7. g - 1 \in S
      <4>1. rest[g - 1] = msgs[g]
        BY <1>2, <3>6
      <4>2. rest[g - 1].role # "tool"
        BY <3>3, <4>1
      <4> QED
        BY <1>5, <3>6, <4>2
    <3>8. g - 1 <= from
      BY <1>7, <3>7
    <3>9. from \in Nat /\ Len(msgs) \in Nat
      BY <1>1, <1>8
    <3> HIDE DEF from
    <3> QED
      BY <1>3, <1>4, <3>2, <3>5, <3>8, <3>9
  <2> QED
    BY <2>2, <2>3
<1> QED
  BY <1>8, <1>9, <1>10 DEF KeptFrom, S, rest

\* The last thing the user said, and where; nowhere is 0.
LEMMA LastUserIs ==
  ASSUME NEW msgs \in Seq(Messages)
  PROVE  LET u == LastUser(msgs)
         IN  /\ u \in 0 .. Len(msgs)
             /\ u # 0 => msgs[u].role = "user"
             /\ \A k \in u + 1 .. Len(msgs) : msgs[k].role # "user"
<1> DEFINE S == {0} \cup {k \in DOMAIN msgs : msgs[k].role = "user"}
           u == Max(S)
<1>1. Len(msgs) \in Nat /\ DOMAIN msgs = 1 .. Len(msgs)
  BY LenProperties
<1>2. S = {0} \cup {k \in 1 .. Len(msgs) : msgs[k].role = "user"}
  BY <1>1
<1> HIDE DEF S
<1>3. S \in SUBSET (0 .. Len(msgs)) /\ S # {}
  BY <1>1, <1>2
<1>4. u \in S /\ \A y \in S : y <= u
  BY <1>1, <1>3, GreatestUpTo
<1>5. u \in 0 .. Len(msgs) /\ (u # 0 => msgs[u].role = "user")
  BY <1>2, <1>3, <1>4
<1> HIDE DEF u
<1>6. ASSUME NEW k \in u + 1 .. Len(msgs) PROVE msgs[k].role # "user"
  <2>1. k \in 1 .. Len(msgs) /\ ~ (k <= u)
    BY <1>1, <1>5
  <2>2. k \notin S
    BY <1>4, <2>1
  <2> QED
    BY <1>2, <2>1, <2>2
<1> QED
  BY <1>5, <1>6 DEF LastUser, u, S

LEMMA ShortSequences ==
  ASSUME NEW S, NEW a \in S, NEW s \in S
  PROVE  /\ <<a>> \o <<>> \o <<>> = <<a>>
         /\ <<a>> \o <<s>> \o <<>> = <<a, s>>
         /\ \A u \in S : <<a>> \o <<>> \o <<u>> = <<a, u>> /\ <<a>> \o <<s>> \o <<u>> = <<a, s, u>>
<1>1. /\ <<a>> \in Seq(S) /\ <<s>> \in Seq(S) /\ <<a, s>> \in Seq(S) /\ <<>> \in Seq(S)
      /\ \A u \in S : <<u>> \in Seq(S)
  OBVIOUS
<1>2. <<a>> \o <<>> = <<a>> /\ <<a, s>> \o <<>> = <<a, s>>
  BY <1>1, ConcatEmptySeq
<1>3. ASSUME NEW u \in S PROVE <<a>> \o <<u>> = <<a, u>>
  <2> DEFINE o == <<a>> \o <<u>>
             t == <<a, u>>
  <2>1. Len(<<a>>) = 1 /\ Len(<<u>>) = 1 /\ <<a>>[1] = a /\ <<u>>[1] = u
    OBVIOUS
  <2>2. /\ o \in Seq(S) /\ Len(o) = 1 + 1
        /\ \A i \in 1 .. 1 + 1 : o[i] = IF i <= 1 THEN <<a>>[i] ELSE <<u>>[i - 1]
    BY <1>1, <2>1, ConcatProperties
  <2>3. t \in Seq(S) /\ Len(t) = 2 /\ t[1] = a /\ t[2] = u
    OBVIOUS
  <2> HIDE DEF o, t
  <2>4. Len(o) = Len(t) /\ \A i \in 1 .. Len(o) : o[i] = t[i]
    BY <2>1, <2>2, <2>3
  <2>5. o = t
    BY <2>2, <2>3, <2>4, SeqEqual
  <2> QED
    BY <2>5 DEF o, t
<1>4. ASSUME NEW u \in S PROVE <<a, s>> \o <<u>> = <<a, s, u>>
  <2> DEFINE o == <<a, s>> \o <<u>>
             t == <<a, s, u>>
  <2>1. /\ Len(<<a, s>>) = 2 /\ Len(<<u>>) = 1
        /\ <<a, s>>[1] = a /\ <<a, s>>[2] = s /\ <<u>>[1] = u
    OBVIOUS
  <2>2. /\ o \in Seq(S) /\ Len(o) = 2 + 1
        /\ \A i \in 1 .. 2 + 1 : o[i] = IF i <= 2 THEN <<a, s>>[i] ELSE <<u>>[i - 2]
    BY <1>1, <2>1, ConcatProperties
  <2>3. t \in Seq(S) /\ Len(t) = 3 /\ t[1] = a /\ t[2] = s /\ t[3] = u
    OBVIOUS
  <2> HIDE DEF o, t
  <2>4. Len(o) = Len(t) /\ \A i \in 1 .. Len(o) : o[i] = t[i]
    BY <2>1, <2>2, <2>3
  <2>5. o = t
    BY <2>2, <2>3, <2>4, SeqEqual
  <2> QED
    BY <2>5 DEF o, t
<1>5. <<a>> \o <<s>> = <<a, s>>
  BY <1>3
<1> QED
  BY <1>2, <1>3, <1>4, <1>5

LEMMA FirstAlone ==
  ASSUME NEW S, NEW seq \in Seq(S), Len(seq) >= 1
  PROVE  SubSeq(seq, 1, 1) = <<seq[1]>>
<1>1. Len(seq) \in Nat /\ 1 \in 1 .. Len(seq) /\ seq[1] \in S /\ 1 \in 1 .. Len(seq)
  BY LenProperties, ElementOfSeq
<1>2. SubSeq(seq, 1, 1) = <<seq[1]>> \o SubSeq(seq, 1 + 1, 1)
  BY <1>1, SubSeqRecursiveFirst
<1>3. SubSeq(seq, 1 + 1, 1) = <<>>
  <2>1. 1 + 1 \in Int /\ 1 \in Int /\ 1 < 1 + 1
    OBVIOUS
  <2> QED
    BY <2>1, SubSeqEmpty
<1>4. <<seq[1]>> \in Seq(S)
  BY <1>1
<1> QED
  BY <1>2, <1>3, <1>4, ConcatEmptySeq

\* Over its budget, a window keeps its rules, its request and its exchanges, and no more
\* than a bound when it is condensed at all.
LEMMA CondenseIsSound ==
  ASSUME NEW msgs, Sound(msgs), NEW summarized \in BOOLEAN
  PROVE  LET out == Condense(msgs, HeadLength, summarized)
         IN  /\ Sound(out)
             /\ out[Len(out)] = msgs[Len(msgs)]
             /\ Len(out) <= HeadLength + 2 + Kept + MaxCalls
<1> DEFINE rest == SubSeq(msgs, HeadLength + 1, Len(msgs))
           from == KeptFrom(rest)
           middle == SubSeq(rest, 1, from - 1)
           pin == LastUser(middle)
           folded == IF pin = 0 THEN middle ELSE RemoveAt(middle, pin)
           summary == IF folded # <<>> /\ summarized THEN <<System(0, "summary")>> ELSE <<>>
           pinned == IF pin = 0 THEN <<>> ELSE <<middle[pin]>>
           head == SubSeq(msgs, 1, HeadLength)
           tail == SubSeq(rest, from, Len(rest))
           p == head \o summary \o pinned
           out == Condense(msgs, HeadLength, summarized)
<1>1. /\ msgs \in Seq(Messages) /\ Len(msgs) \in Nat /\ Len(msgs) >= 2
      /\ \A i \in 1 .. Len(msgs) : msgs[i] \in Messages /\ msgs[i].n \in Nat
      /\ msgs[1].role = "system" /\ msgs[2].role # "tool"
  BY SoundElements DEF Sound
<1>2. Kept \in Nat \ {0} /\ MaxCalls \in Nat /\ HeadLength = 1
  BY KeptIs, MostCalls DEF HeadLength
<1>3. out = IF Kept >= Len(rest) THEN msgs ELSE p \o tail
  BY DEF Condense
<1>4. rest = SubSeq(msgs, 2, Len(msgs))
  BY <1>2
<1> HIDE DEF rest, out
<1>5. /\ rest \in Seq(Messages) /\ Len(rest) = Len(msgs) - 1
      /\ \A i \in 1 .. Len(msgs) - 1 : rest[i] = msgs[i + 1]
  <2>1. \A i \in 2 .. Len(msgs) : msgs[i] \in Messages
    BY <1>1
  <2>2. /\ rest \in Seq(Messages)
        /\ Len(rest) = IF 2 <= Len(msgs) THEN Len(msgs) - 2 + 1 ELSE 0
        /\ \A i \in 1 .. Len(msgs) - 2 + 1 : rest[i] = msgs[2 + i - 1]
    BY <1>1, <1>4, <2>1, SubSeqProperties
  <2> HIDE DEF rest
  <2>3. Len(rest) = Len(msgs) - 1
    BY <1>1, <2>2
  <2>4. ASSUME NEW i \in 1 .. Len(msgs) - 1 PROVE rest[i] = msgs[i + 1]
    <3>1. i \in 1 .. Len(msgs) - 2 + 1 /\ 2 + i - 1 = i + 1
      BY <1>1
    <3> QED
      BY <2>2, <3>1
  <2> QED
    BY <2>2, <2>3, <2>4
<1>6. CASE Kept >= Len(rest)
  <2>1. out = msgs
    BY <1>3, <1>6
  <2>2. Len(msgs) <= HeadLength + 2 + Kept + MaxCalls
    BY <1>1, <1>2, <1>5, <1>6
  <2> QED
    BY <2>1, <2>2 DEF out
<1>7. CASE ~ (Kept >= Len(rest))
  <2> DEFINE f == from + 1
  <2>1. /\ from \in 1 .. Len(msgs) - 1
        /\ msgs[f].role # "tool"
        /\ Len(msgs) - from <= Kept + MaxCalls
    BY <1>4, <1>7, TailIs
  <2> HIDE DEF from
  <2>2. from \in Nat /\ from >= 1 /\ from <= Len(msgs) - 1 /\ f = from + 1 /\ f \in 2 .. Len(msgs)
    BY <1>1, <2>1
  <2>3. tail = SubSeq(msgs, f, Len(msgs))
    <3>1. \A i \in from .. Len(rest) : rest[i] \in Messages
      <4> TAKE i \in from .. Len(rest)
      <4>1. i \in 1 .. Len(msgs) - 1 /\ i + 1 \in 1 .. Len(msgs)
        BY <1>1, <1>5, <2>2
      <4> QED
        BY <1>1, <1>5, <4>1
    <3>2. \A i \in f .. Len(msgs) : msgs[i] \in Messages
      BY <1>1, <2>2
    <3> DEFINE t == SubSeq(msgs, f, Len(msgs))
    <3>3. /\ tail \in Seq(Messages)
          /\ Len(tail) = IF from <= Len(rest) THEN Len(rest) - from + 1 ELSE 0
          /\ \A i \in 1 .. Len(rest) - from + 1 : tail[i] = rest[from + i - 1]
      <4>1. from \in Int /\ Len(rest) \in Int
        BY <1>1, <1>5, <2>2
      <4> QED
        BY <3>1, <4>1, SubSeqProperties
    <3>4. /\ t \in Seq(Messages)
          /\ Len(t) = IF f <= Len(msgs) THEN Len(msgs) - f + 1 ELSE 0
          /\ \A i \in 1 .. Len(msgs) - f + 1 : t[i] = msgs[f + i - 1]
      <4>1. f \in Int /\ Len(msgs) \in Int
        BY <1>1, <2>2
      <4> QED
        BY <3>2, <4>1, SubSeqProperties
    <3> HIDE DEF tail, t, f
    <3>5. Len(tail) = Len(t) /\ Len(tail) = Len(msgs) - from
      BY <1>1, <1>5, <2>2, <3>3, <3>4
    <3>6. ASSUME NEW i \in 1 .. Len(tail) PROVE tail[i] = t[i]
      <4>1. /\ i \in 1 .. Len(rest) - from + 1 /\ i \in 1 .. Len(msgs) - f + 1
            /\ from + i - 1 \in 1 .. Len(msgs) - 1
            /\ (from + i - 1) + 1 = f + i - 1
        BY <1>1, <1>5, <2>2, <3>5
      <4> QED
        BY <1>5, <3>3, <3>4, <4>1
    <3>7. tail = t
      BY <3>3, <3>4, <3>5, <3>6, SeqEqual
    <3> QED
      BY <3>7 DEF t
  <2>4. /\ middle \in Seq(Messages) /\ Len(middle) = from - 1
        /\ \A i \in 1 .. from - 1 : middle[i] = msgs[i + 1]
    <3>1. \A i \in 1 .. from - 1 : rest[i] = msgs[i + 1] /\ rest[i] \in Messages
      <4> TAKE i \in 1 .. from - 1
      <4>1. i \in 1 .. Len(msgs) - 1 /\ i + 1 \in 1 .. Len(msgs)
        BY <1>1, <2>2
      <4> QED
        BY <1>1, <1>5, <4>1
    <3>2. /\ middle \in Seq(Messages)
          /\ Len(middle) = IF 1 <= from - 1 THEN (from - 1) - 1 + 1 ELSE 0
          /\ \A i \in 1 .. (from - 1) - 1 + 1 : middle[i] = rest[1 + i - 1]
      <4>1. 1 \in Int /\ from - 1 \in Int
        BY <2>2
      <4> QED
        BY <3>1, <4>1, SubSeqProperties
    <3> HIDE DEF middle
    <3>3. Len(middle) = from - 1
      BY <2>2, <3>2
    <3>4. ASSUME NEW i \in 1 .. from - 1 PROVE middle[i] = msgs[i + 1]
      <4>1. i \in 1 .. (from - 1) - 1 + 1 /\ 1 + i - 1 = i
        BY <2>2
      <4> QED
        BY <3>1, <3>2, <4>1
    <3> QED
      BY <3>2, <3>3, <3>4
  <2> HIDE DEF middle, tail
  <2>5. /\ pin \in 0 .. from - 1
        /\ pin # 0 => middle[pin].role = "user"
        /\ \A k \in pin + 1 .. from - 1 : middle[k].role # "user"
    BY <2>4, LastUserIs
  <2> HIDE DEF pin, folded
  <2>6. head = <<msgs[1]>> /\ msgs[1] \in Messages
    <3>1. msgs[1] \in Messages /\ 1 \in 1 .. Len(msgs)
      BY <1>1
    <3>2. head = SubSeq(msgs, 1, 1)
      BY <1>2
    <3> HIDE DEF head
    <3>3. Len(msgs) >= 1
      BY <1>1
    <3>4. SubSeq(msgs, 1, 1) = <<msgs[1]>>
      BY <1>1, <3>3, FirstAlone
    <3> QED
      BY <3>1, <3>2, <3>4
  <2> HIDE DEF head
  <2>7. System(0, "summary") \in Messages /\ System(0, "summary").role = "system"
    BY SystemIsMessage DEF System, Message
  <2>8. /\ p \in Seq(Messages) /\ Len(p) \in 1 .. 3 /\ p[1] = msgs[1]
        /\ \A i \in 1 .. Len(p) : p[i].role \in {"system", "user"}
        /\ pin # 0 => p[Len(p)] = middle[pin]
    <3>1. pin # 0 => middle[pin] \in Messages
      <4>1. pin # 0 => pin \in 1 .. Len(middle)
        BY <2>4, <2>5
      <4> QED
        BY <2>4, <4>1, ElementOfSeq
    <3> DEFINE s == System(0, "summary")
               u == middle[pin]
               a == msgs[1]
    <3>2. s \in Messages /\ s.role = "system" /\ a \in Messages /\ a.role = "system"
      BY <1>1, <2>6, <2>7
    <3>3. pin # 0 => u \in Messages /\ u.role = "user"
      BY <2>5, <3>1
    <3>4. \/ p = <<a>> /\ pin = 0
          \/ p = <<a, s>> /\ pin = 0
          \/ p = <<a, u>> /\ pin # 0
          \/ p = <<a, s, u>> /\ pin # 0
      <4>1. head = <<a>> /\ (summary = <<s>> \/ summary = <<>>)
        BY <2>6
      <4>2. CASE pin = 0
        <5>1. pinned = <<>>
          BY <4>2
        <5> HIDE DEF pinned, summary, a, s, u
        <5>2. p = <<a>> \/ p = <<a, s>>
          BY <3>2, <4>1, <5>1, ShortSequences
        <5> QED
          BY <4>2, <5>2
      <4>3. CASE pin # 0
        <5>1. pinned = <<u>>
          BY <4>3
        <5> HIDE DEF pinned, summary, a, s, u
        <5>2. p = <<a, u>> \/ p = <<a, s, u>>
          BY <3>2, <3>3, <4>1, <4>3, <5>1, ShortSequences
        <5> QED
          BY <4>3, <5>2
      <4> QED
        BY <4>2, <4>3
    <3> HIDE DEF p, a, s, u
    <3>5. CASE p = <<a>> /\ pin = 0
      BY <3>2, <3>5 DEF a
    <3>6. CASE p = <<a, s>> /\ pin = 0
      BY <3>2, <3>6 DEF a
    <3>7. CASE p = <<a, u>> /\ pin # 0
      BY <3>2, <3>3, <3>7 DEF a, u
    <3>8. CASE p = <<a, s, u>> /\ pin # 0
      BY <3>2, <3>3, <3>8 DEF a, u
    <3> QED
      BY <3>4, <3>5, <3>6, <3>7, <3>8
  <2> HIDE DEF p
  <2>9. ASSUME NEW u \in 2 .. f - 1, msgs[u].role = "user",
               \A k \in u + 1 .. f - 1 : msgs[k].role # "user"
        PROVE  p[Len(p)] = msgs[u]
    <3>1. u - 1 \in 1 .. from - 1 /\ (u - 1) + 1 = u
      BY <2>2
    <3>2. middle[u - 1] = msgs[u]
      BY <2>4, <3>1
    <3>3. ~ (u - 1 > pin)
      <4> SUFFICES ASSUME u - 1 > pin PROVE FALSE
        OBVIOUS
      <4>1. u - 1 \in pin + 1 .. from - 1
        BY <2>5, <3>1
      <4> QED
        BY <2>5, <2>9, <3>2, <4>1
    <3>4. pin # 0 /\ pin \in 1 .. from - 1 /\ pin + 1 >= u
      BY <2>5, <3>1, <3>3
    <3>5. pin + 1 = u
      <4> SUFFICES ASSUME pin + 1 > u PROVE FALSE
        BY <3>4
      <4>1. pin + 1 \in u + 1 .. f - 1
        BY <2>2, <3>4
      <4>2. middle[pin] = msgs[pin + 1]
        BY <2>4, <3>4
      <4> QED
        BY <2>5, <2>9, <3>4, <4>1, <4>2
    <3>6. pin = u - 1
      BY <2>5, <3>5
    <3> QED
      BY <2>8, <3>2, <3>4, <3>6
  <2> DEFINE o == p \o SubSeq(msgs, f, Len(msgs))
  <2> HIDE DEF f
  <2>10. /\ Sound(o) /\ Len(o) = Len(p) + Len(msgs) - f + 1
         /\ o[Len(o)] = msgs[Len(msgs)]
    <3>1. Len(p) >= 1 /\ f \in 2 .. Len(msgs)
      BY <2>2, <2>8
    <3> HIDE DEF o
    <3> QED
      BY <2>1, <2>8, <2>9, <3>1, CutIsSound DEF o
  <2>11. out = o
    BY <1>3, <1>7, <2>3
  <2>12. Len(o) <= HeadLength + 2 + Kept + MaxCalls
    <3>1. Len(p) \in Nat /\ Len(p) <= 3
      BY <2>8
    <3>2. Len(o) = Len(p) + Len(msgs) - f + 1
      BY <2>10
    <3>3. Len(msgs) - from <= Kept + MaxCalls
      BY <2>1
    <3> HIDE DEF o
    <3> QED
      BY <1>1, <1>2, <2>2, <3>1, <3>2, <3>3
  <2> QED
    BY <2>10, <2>11, <2>12 DEF out
<1> QED
  BY <1>6, <1>7

\* The ledger takes its place after the rules, and nothing else moves.
LEMMA LedgerIsSound ==
  ASSUME NEW msgs, Sound(msgs)
  PROVE  LET out == WithLedger(msgs, HeadLength)
         IN  /\ Sound(out)
             /\ out[Len(out)] = msgs[Len(msgs)]
             /\ Len(out) = Len(msgs) + 1
<1> DEFINE a == msgs[1]
           l == System(0, "ledger")
           p == <<a, l>>
           o == p \o SubSeq(msgs, 2, Len(msgs))
           out == WithLedger(msgs, HeadLength)
<1>1. /\ msgs \in Seq(Messages) /\ Len(msgs) \in Nat /\ Len(msgs) >= 2
      /\ \A i \in 1 .. Len(msgs) : msgs[i] \in Messages /\ msgs[i].n \in Nat
      /\ a.role = "system" /\ msgs[2].role # "tool"
  BY SoundElements DEF Sound
<1>2. a \in Messages /\ l \in Messages /\ l.role = "system"
  <2>1. 1 \in 1 .. Len(msgs)
    BY <1>1
  <2> QED
    BY <1>1, <2>1, SystemIsMessage DEF System, Message
<1>3. out = SubSeq(msgs, 1, 1) \o <<l>> \o SubSeq(msgs, 2, Len(msgs))
  BY DEF WithLedger, HeadLength
<1>4. SubSeq(msgs, 1, 1) = <<a>>
  <2>1. Len(msgs) >= 1
    BY <1>1
  <2> QED
    BY <1>1, <2>1, FirstAlone
<1> HIDE DEF out, l
<1>5. <<a>> \o <<l>> = p
  <2> HIDE DEF a
  <2>1. <<a>> \o <<l>> \o <<>> = <<a, l>>
    BY <1>2, ShortSequences
  <2>2. <<a>> \o <<l>> \in Seq(Messages)
    <3>1. <<a>> \in Seq(Messages) /\ <<l>> \in Seq(Messages)
      BY <1>2
    <3> QED
      BY <3>1, ConcatProperties
  <2>3. <<a>> \o <<l>> \o <<>> = <<a>> \o <<l>>
    BY <2>2, ConcatEmptySeq
  <2> QED
    BY <2>1, <2>3
<1>6. out = o
  BY <1>3, <1>4, <1>5
<1>7. /\ p \in Seq(Messages) /\ Len(p) = 2 /\ p[1] = a
      /\ \A i \in 1 .. Len(p) : p[i].role \in {"system", "user"}
  <2> HIDE DEF a
  <2>1. p \in Seq(Messages) /\ Len(p) = 2 /\ p[1] = a /\ p[2] = l
    BY <1>2
  <2> HIDE DEF p
  <2> QED
    BY <1>1, <1>2, <2>1
<1> HIDE DEF p
<1>8. /\ Sound(o) /\ Len(o) = Len(p) + Len(msgs) - 2 + 1
      /\ o[Len(o)] = msgs[Len(msgs)]
  <2> DEFINE f == 2
  <2>1. f \in 2 .. Len(msgs) /\ Len(p) >= 1 /\ msgs[f].role # "tool" /\ p[1] = msgs[1]
    BY <1>1, <1>7
  <2>2. \A u \in 2 .. f - 1 :
          (msgs[u].role = "user" /\ \A k \in u + 1 .. f - 1 : msgs[k].role # "user")
            => p[Len(p)] = msgs[u]
    <3>1. 2 .. f - 1 = {}
      OBVIOUS
    <3> QED
      BY <3>1
  <2>3. o = p \o SubSeq(msgs, f, Len(msgs))
    OBVIOUS
  <2> HIDE DEF o, f
  <2>4. Sound(o) /\ Len(o) = Len(p) + Len(msgs) - f + 1 /\ o[Len(o)] = msgs[Len(msgs)]
    BY <1>7, <2>1, <2>2, <2>3, CutIsSound
  <2> QED
    BY <2>4 DEF f
<1>9. Len(o) = Len(msgs) + 1
  <2> HIDE DEF o
  <2> QED
    BY <1>1, <1>7, <1>8
<1> QED
  BY <1>6, <1>8, <1>9 DEF out

\* The window of the next model call: sound, ending as it did, and within its bound.
LEMMA CondensedIsSound ==
  ASSUME NEW msgs, Sound(msgs), NEW summarized \in BOOLEAN
  PROVE  LET out == Condensed(msgs, HeadLength, summarized)
         IN  /\ Sound(out)
             /\ out[Len(out)] = msgs[Len(msgs)]
             /\ Len(out) <= HeadLength + 3 + Kept + MaxCalls
<1> DEFINE c == Condense(msgs, HeadLength, summarized)
           w == WithLedger(c, HeadLength)
           out == Condensed(msgs, HeadLength, summarized)
<1>1. Sound(c) /\ c[Len(c)] = msgs[Len(msgs)] /\ Len(c) <= HeadLength + 2 + Kept + MaxCalls
  BY CondenseIsSound
<1>2. out = IF c = msgs THEN msgs ELSE w
  BY DEF Condensed
<1> HIDE DEF c, out
<1>3. Len(c) \in Nat /\ Kept \in Nat /\ MaxCalls \in Nat /\ HeadLength = 1
  BY <1>1, SoundElements, KeptIs, MostCalls DEF HeadLength
<1>4. Sound(w) /\ w[Len(w)] = c[Len(c)] /\ Len(w) = Len(c) + 1
  BY <1>1, LedgerIsSound
<1> HIDE DEF w
<1>5. CASE c = msgs
  BY <1>1, <1>2, <1>3, <1>5 DEF out
<1>6. CASE c # msgs
  BY <1>1, <1>2, <1>3, <1>4, <1>6 DEF out
<1> QED
  BY <1>5, <1>6

-----------------------------------------------------------------------------
(* The loop guard.                                                         *)

Run == [call : Call, ok : BOOLEAN]

LEMMA CallsAre ==
  /\ IsFiniteSet(Call) /\ None \notin Call \cup Path
  /\ "idle" \notin Call \cup Path
  /\ None \notin {"loop", "idle"}
<1> QED
  BY GuardAssumption, NoneIsNoOutcome DEF GuardAssumption, NoneIsNoOutcome, Outcome

LEMMA CountsAre ==
  ASSUME NEW n \in Nat, NEW S \in SUBSET (1 .. n)
  PROVE  IsFiniteSet(S) /\ Cardinality(S) \in Nat
<1>1. IsFiniteSet(1 .. n)
  <2>1. 1 \in Int /\ n \in Int
    OBVIOUS
  <2> QED
    BY <2>1, FS_Interval
<1>2. IsFiniteSet(S)
  BY <1>1, FS_Subset
<1> QED
  BY <1>2, FS_CardinalityType

\* What observing a step does to the guard: its types, and what it does to the warnings.
LEMMA ObservedIs ==
  ASSUME NEW g \in Guard, NEW n \in Nat, NEW runs \in [1 .. n -> Run]
  PROVE  LET seen == Observed(g, runs)
         IN  /\ seen \in Guard
             /\ seen.warned = g.warned \ (g.stale \cap CountedIn(runs))
             /\ seen.stale = IF ChangedWorld(runs) THEN Call ELSE g.stale \ CountedIn(runs)
             /\ seen.idleWarned = "yes" => g.idleWarned = "yes" /\ seen.idle # 0
<1> DEFINE C == CountedIn(runs)
           g1 == NoteCalls(g, runs)
           g2 == NoteReads(g1, runs)
           g3 == Streak(g2, runs)
           g4 == Age(g3, runs)
<1>1. \A c \in Call : Times(runs, c) \in Nat
  <2> TAKE c \in Call
  <2> DEFINE S == {i \in DOMAIN runs : runs[i].call = c}
  <2>1. S \in SUBSET (1 .. n)
    OBVIOUS
  <2> HIDE DEF S
  <2>2. Cardinality(S) \in Nat
    BY <2>1, CountsAre
  <2> QED
    BY <2>2 DEF Times, S
<1>2. /\ g.count \in [Call -> Nat] /\ g.stale \in SUBSET Call /\ g.warned \in SUBSET Call
      /\ g.reads \in [Path -> Nat] /\ g.told \in SUBSET Path
      /\ g.idle \in Nat /\ g.idleWarned \in {"no", "yes"} /\ g.steers \in Nat
  BY DEF Guard
<1>3. /\ g1 \in Guard /\ g1.warned = g.warned \ (g.stale \cap C) /\ g1.stale = g.stale \ C
      /\ g1.idleWarned = g.idleWarned /\ g1.idle = g.idle
  <2> DEFINE count == [c \in Call |-> (IF c \in g.stale \cap C THEN 0 ELSE g.count[c])
                                        + (IF Counted(c) THEN Times(runs, c) ELSE 0)]
  <2>1. count \in [Call -> Nat]
    <3>1. ASSUME NEW c \in Call
          PROVE  (IF c \in g.stale \cap C THEN 0 ELSE g.count[c])
                   + (IF Counted(c) THEN Times(runs, c) ELSE 0) \in Nat
      <4>1. Times(runs, c) \in Nat /\ g.count[c] \in Nat
        BY <1>1, <1>2
      <4> QED
        BY <4>1
    <3> QED
      BY <3>1
  <2>2. g1 = [g EXCEPT !.count = count, !.warned = g.warned \ (g.stale \cap C), !.stale = g.stale \ C]
    BY <1>2 DEF NoteCalls, Guard
  <2> HIDE DEF count, g1, C
  <2> QED
    BY <1>2, <2>1, <2>2 DEF Guard
<1> HIDE DEF g1
<1>4. /\ g2 \in Guard /\ g2.warned = g1.warned /\ g2.stale = g1.stale
      /\ g2.idleWarned = g1.idleWarned /\ g2.idle = g1.idle
  <2> DEFINE Reads(p) == {i \in DOMAIN runs : /\ EffectOf(runs[i].call) = "read"
                                              /\ p \in ReadsOf[runs[i].call]}
             reads == [p \in Path |-> g1.reads[p] + Cardinality(Reads(p))]
  <2>1. reads \in [Path -> Nat]
    <3>1. ASSUME NEW p \in Path PROVE g1.reads[p] + Cardinality(Reads(p)) \in Nat
      <4>1. Reads(p) \in SUBSET (1 .. n)
        OBVIOUS
      <4> HIDE DEF Reads
      <4>2. Cardinality(Reads(p)) \in Nat
        BY <4>1, CountsAre
      <4>3. g1.reads[p] \in Nat
        BY <1>3 DEF Guard
      <4> QED
        BY <4>2, <4>3
    <3> HIDE DEF Reads
    <3> QED
      BY <3>1
  <2>2. g2 = [g1 EXCEPT !.reads = reads]
    BY <1>3 DEF NoteReads, Guard
  <2> HIDE DEF reads, g2
  <2> QED
    BY <1>3, <2>1, <2>2 DEF Guard
<1> HIDE DEF g2
<1>5. /\ g3 \in Guard /\ g3.warned = g2.warned /\ g3.stale = g2.stale
      /\ g3.idleWarned = "yes" => g2.idleWarned = "yes" /\ g3.idle # 0
  <2>1. CASE \E i \in DOMAIN runs : EffectOf(runs[i].call) # "read"
    <3>1. g3 = [g2 EXCEPT !.idle = 0, !.idleWarned = "no"]
      BY <2>1 DEF Streak
    <3> HIDE DEF g3
    <3> QED
      BY <1>4, <3>1 DEF Guard
  <2>2. CASE ~ \E i \in DOMAIN runs : EffectOf(runs[i].call) # "read"
    <3>1. g3 = [g2 EXCEPT !.idle = g2.idle + 1]
      BY <1>4, <2>2 DEF Streak, Guard
    <3>2. g2.idle \in Nat /\ g2.idle + 1 \in Nat /\ g2.idle + 1 # 0
      BY <1>4 DEF Guard
    <3> HIDE DEF g3
    <3> QED
      BY <1>4, <3>1, <3>2 DEF Guard
  <2> QED
    BY <2>1, <2>2
<1> HIDE DEF g3
<1>6. /\ g4 \in Guard /\ g4.warned = g3.warned
      /\ g4.stale = IF ChangedWorld(runs) THEN Call ELSE g3.stale
      /\ g4.idleWarned = g3.idleWarned /\ g4.idle = g3.idle
  <2>1. CASE ChangedWorld(runs)
    BY <1>5, <2>1 DEF Age, Guard
  <2>2. CASE ~ ChangedWorld(runs)
    BY <1>5, <2>2 DEF Age
  <2> QED
    BY <2>1, <2>2
<1>7. Observed(g, runs) = g4
  BY DEF Observed, g1, g2, g3
<1> HIDE DEF g4
<1> QED
  BY <1>3, <1>4, <1>5, <1>6, <1>7

\* The most repeated call of a step is one that was counted in it, if any was.
LEMMA MostRepeatedIs ==
  ASSUME NEW g \in Guard, NEW n \in Nat, NEW runs \in [1 .. n -> Run]
  PROVE  MostRepeated(g, runs) \in CountedIn(runs) \cup {None}
<1> DEFINE C == CountedIn(runs)
           before(c, d) == \/ g.count[c] > g.count[d]
                           \/ g.count[c] = g.count[d] /\ LastAt(runs, c) <= LastAt(runs, d)
<1>1. C \subseteq Call /\ IsFiniteSet(C)
  <2>1. C \subseteq Call
    BY DEF CountedIn
  <2> QED
    BY <2>1, CallsAre, FS_Subset
<1>2. \A c \in C : g.count[c] \in Nat
  BY <1>1 DEF Guard
<1>3. \A c \in C : LastAt(runs, c) \in 1 .. n
  <2> TAKE c \in C
  <2> DEFINE S == {i \in 1 .. n : runs[i].call = c}
  <2>1. S \in SUBSET (0 .. n) /\ S # {}
    BY DEF CountedIn
  <2> HIDE DEF S
  <2>2. Max(S) \in S /\ \A y \in S : y <= Max(S)
    BY <2>1, GreatestUpTo
  <2>3. DOMAIN runs = 1 .. n
    OBVIOUS
  <2>4. \E i \in DOMAIN runs : runs[i].call = c /\ \A j \in DOMAIN runs : runs[j].call = c => j <= i
    BY <2>2, <2>3 DEF S
  <2> QED
    BY <2>3, <2>4 DEF LastAt
<1> HIDE DEF C
<1>4. CASE C = {}
  BY <1>4 DEF MostRepeated, C
<1>5. CASE C # {}
  <2> DEFINE K == {g.count[c] : c \in C}
             m == Max(K)
             D == {c \in C : g.count[c] = m}
             L == {n - LastAt(runs, c) : c \in D}
             q == Max(L)
  <2>1. K \in SUBSET Nat /\ K # {} /\ IsFiniteSet(K)
    <3>1. K \in SUBSET Nat /\ K # {}
      BY <1>2, <1>5
    <3> DEFINE f == [c \in C |-> g.count[c]]
    <3>2. f \in Surjection(C, K)
      BY DEF Surjection
    <3> HIDE DEF f, K
    <3>3. IsFiniteSet(K)
      BY <1>1, <3>2, FS_Surjection
    <3> QED
      BY <3>1, <3>3
  <2> HIDE DEF K
  <2>2. m \in K /\ \A y \in K : y <= m
    BY <2>1, GreatestIsOne
  <2> HIDE DEF m
  <2>3. D # {} /\ D \subseteq C
    BY <2>2 DEF K
  <2>4. L \in SUBSET (0 .. n) /\ L # {}
    <3>1. \A c \in D : n - LastAt(runs, c) \in 0 .. n
      <4> TAKE c \in D
      <4>1. LastAt(runs, c) \in 1 .. n
        BY <1>3
      <4> QED
        BY <4>1
    <3> QED
      BY <2>3, <3>1
  <2> HIDE DEF L, D
  <2>5. q \in L /\ \A y \in L : y <= q
    BY <2>4, GreatestUpTo
  <2> HIDE DEF q
  <2>6. PICK c \in D : q = n - LastAt(runs, c)
    BY <2>5 DEF L
  <2>7. c \in C /\ g.count[c] = m
    BY <2>3 DEF D
  <2>8. ASSUME NEW d \in C PROVE before(c, d)
    <3>1. g.count[d] \in Nat /\ g.count[c] \in Nat /\ g.count[d] <= g.count[c]
      BY <1>2, <2>2, <2>7 DEF K
    <3>2. CASE g.count[d] = g.count[c]
      <4>1. d \in D
        BY <2>7, <3>2 DEF D
      <4>2. n - LastAt(runs, d) <= n - LastAt(runs, c)
        BY <2>5, <2>6, <4>1 DEF L
      <4>3. LastAt(runs, d) \in 1 .. n /\ LastAt(runs, c) \in 1 .. n
        BY <1>3, <2>7
      <4>4. LastAt(runs, c) <= LastAt(runs, d)
        BY <4>2, <4>3
      <4> QED
        BY <3>2, <4>4
    <3>3. CASE g.count[d] # g.count[c]
      <4>1. g.count[c] > g.count[d]
        BY <3>1, <3>3
      <4> QED
        BY <4>1
    <3> QED
      BY <3>2, <3>3
  <2> HIDE DEF before
  <2>9. MostRepeated(g, runs) = CHOOSE x \in C : \A d \in C : before(x, d)
    BY <1>5 DEF MostRepeated, C, before
  <2> QED
    BY <2>7, <2>8, <2>9 DEF C
<1> QED
  BY <1>4, <1>5

\* What the guard may say, and that it stops a turn only for what it has warned of.
LEMMA VerdictIs ==
  ASSUME NEW g \in Guard, NEW hit \in Call \cup {None}
  PROVE  LET v == Verdict(g, hit)
         IN  /\ v.kind # "none" => v.about \in Call \cup Path \cup {"idle"}
             /\ v.kind = "repeat" => v.about \in Call
             /\ v.kind = "idle" => v.about = "idle"
             /\ v.kind = "reread" => v.about \in Path
             /\ v.kind \in {"none", "repeat", "idle", "reread"}
             /\ \/ v.stop = None
                \/ v.stop = "loop" /\ v.about = hit /\ hit \in g.warned
                \/ v.stop = "idle" /\ v.about = "idle" /\ g.idleWarned = "yes"
<1> DEFINE v == Verdict(g, hit)
<1>1. \/ v = Say("idle", "idle")
      \/ v = Stop("repeat", hit, "loop") /\ hit \in Call /\ hit \in g.warned
      \/ v = Say("repeat", hit) /\ hit \in Call
      \/ v = Stop("idle", "idle", "idle") /\ g.idleWarned = "yes"
      \/ v = Silent
      \/ \E p \in Path : v = Say("reread", p)
  <2>1. MostRead(g) # {} => (CHOOSE p \in MostRead(g) : TRUE) \in Path
    BY DEF MostRead
  <2> QED
    BY <2>1 DEF Verdict, MayStop
<1> HIDE DEF v
<1> QED
  BY <1>1 DEF Say, Stop, Silent, v

\* What saying it does to the guard.
LEMMA SaidIs ==
  ASSUME NEW g \in Guard, NEW hit \in Call \cup {None}
  PROVE  LET v == Verdict(g, hit)
             said == Said(g, v)
         IN  /\ said \in Guard
             /\ said.stale = g.stale
             /\ said.warned \subseteq g.warned \cup (IF v.kind = "repeat" THEN {v.about} ELSE {})
             /\ said.idleWarned = "yes" => g.idleWarned = "yes" \/ v.kind = "idle"
<1> DEFINE v == Verdict(g, hit)
           said == Said(g, v)
<1>1. /\ v.kind \in {"none", "repeat", "idle", "reread"}
      /\ v.kind = "repeat" => v.about \in Call
      /\ v.kind = "reread" => v.about \in Path
  BY VerdictIs
<1> HIDE DEF v
<1>2. /\ g.stale \in SUBSET Call /\ g.warned \in SUBSET Call /\ g.told \in SUBSET Path
      /\ g.idleWarned \in {"no", "yes"} /\ g.steers \in Nat
  BY DEF Guard
<1>3. CASE v.kind = "none" \/ v.stop # None
  <2>1. said = g
    BY <1>3 DEF Said
  <2> HIDE DEF said
  <2> QED
    BY <2>1 DEF said, v
<1>4. CASE ~ (v.kind = "none" \/ v.stop # None)
  <2> DEFINE idleWarned == IF v.kind = "idle" THEN "yes" ELSE g.idleWarned
             warned == IF v.kind = "repeat" THEN g.warned \cup {v.about} ELSE g.warned
             told == IF v.kind = "reread" THEN g.told \cup {v.about} ELSE g.told
             steers == g.steers + 1
  <2>1. said = [g EXCEPT !.steers = steers, !.idleWarned = idleWarned,
                         !.warned = warned, !.told = told]
    BY <1>4 DEF Said, Guard
  <2>2. /\ steers \in Nat /\ idleWarned \in {"no", "yes"}
        /\ warned \in SUBSET Call /\ told \in SUBSET Path
    BY <1>1, <1>2
  <2> HIDE DEF steers, idleWarned, warned, told, said
  <2>3. /\ said \in Guard /\ said.stale = g.stale /\ said.warned = warned
        /\ said.idleWarned = idleWarned
    BY <2>1, <2>2 DEF Guard
  <2> QED
    BY <2>3 DEF warned, idleWarned, said, v
<1> QED
  BY <1>3, <1>4

-----------------------------------------------------------------------------
(* The types.                                                              *)

TurnTypes ==
  /\ pc \in {"top", "model", "tools", "done"}
  /\ step \in 1 .. MaxSteps /\ attempt \in 0 .. MaxAttempts
  /\ outcome \in Outcome \cup {None} /\ (outcome = None <=> pc # "done")

CallTypes ==
  /\ asked \in Replies \cup {<<>>}
  /\ state \in [Calls -> State] /\ nested \in [Calls -> Call \cup {None}]

GateHolds == Cardinality(InGate) <= MaxConcurrent

GuardTypes ==
  /\ guard \in Guard
  /\ heard \subseteq Spoken /\ blamed \in Call \cup {None, "idle"}

FlagTypes ==
  /\ spent \subseteq {"deadline", "tokens"} /\ cancelled \in BOOLEAN
  /\ squeezed \in BOOLEAN

\* What the window is to the calls of a step that is under way, it is with their
\* results to come.
WindowIs ==
  /\ window \in Seq(Messages)
  /\ pc \in {"top", "model"} => Sound(window)
  /\ pc = "tools" => Sound(window \o Results)
  /\ pc = "model" /\ squeezed => Len(window) <= HeadLength + 3 + Kept + MaxCalls

\* The model was told of it in a window it was sent, or is about to be.
Told(x) ==
  \/ x \in heard
  \/ pc = "top" /\ step > 1 /\ window[Len(window)] = System(step - 1, x)

\* The guard holds nothing for warned of that the model is not told.
WarningsAreTold ==
  pc # "done" =>
    /\ \A c \in guard.warned \ guard.stale : Told(c)
    /\ guard.idleWarned = "yes" => Told("idle")

Types == TurnTypes /\ CallTypes /\ GuardTypes /\ FlagTypes /\ WindowIs

LEMMA NumbersAre ==
  {MaxSteps, MaxAttempts, MaxParallel, MaxConcurrent} \subseteq Nat \ {0}
<1> QED
  BY RunnerAssumption DEF RunnerAssumption

LEMMA CallsAreNumbered ==
  ASSUME asked \in Replies \cup {<<>>}
  PROVE  /\ asked \in Seq(Call) /\ Len(asked) \in Nat /\ Len(asked) \in 0 .. MaxCalls
         /\ Calls = 1 .. Len(asked)
         /\ \A i \in Calls : asked[i] \in Call
<1>1. asked \in Seq(Call) /\ Len(asked) \in 0 .. MaxCalls
  <2>1. CASE asked \in Replies
    BY <2>1, MostCalls
  <2>2. CASE asked = <<>>
    BY <2>2, MostCalls, EmptySeq
  <2> QED
    BY <2>1, <2>2
<1>2. Len(asked) \in Nat /\ Calls = 1 .. Len(asked)
  BY <1>1, LenProperties DEF Calls
<1> QED
  BY <1>1, <1>2, ElementOfSeq

LEMMA RunsAre ==
  ASSUME CallTypes
  PROVE  Runs \in [1 .. Len(asked) -> Run] /\ Len(asked) \in Nat
<1>1. /\ Calls = 1 .. Len(asked) /\ Len(asked) \in Nat
      /\ \A i \in Calls : asked[i] \in Call
  BY CallsAreNumbered DEF CallTypes
<1> QED
  BY <1>1 DEF Runs, Run

\* The end of a step: what the guard observed, and what it made of it.
LEMMA CloseStepIs ==
  ASSUME CallTypes, guard \in Guard, CloseStep
  PROVE  \E seen \in Guard, hit \in CountedIn(Runs) \cup {None} :
           /\ hit \in Call \cup {None}
           /\ seen = Observed(guard, Runs)
           /\ guard' = Said(seen, Verdict(seen, hit))
           /\ \/ GuardStops(Verdict(seen, hit))
              \/ \E noted \in {FALSE, Hooks} : GoOn(seen, Verdict(seen, hit), noted)
           /\ UNCHANGED <<spent, cancelled, squeezed>>
<1> DEFINE seen == Observed(guard, Runs)
           hit == MostRepeated(seen, Runs)
<1>1. Runs \in [1 .. Len(asked) -> Run] /\ Len(asked) \in Nat
  BY RunsAre
<1>2. seen \in Guard
  BY <1>1, ObservedIs
<1> HIDE DEF seen
<1>3. hit \in CountedIn(Runs) \cup {None}
  BY <1>1, <1>2, MostRepeatedIs
<1>4. hit \in Call \cup {None}
  BY <1>3 DEF CountedIn
<1>5. /\ guard' = Said(seen, Verdict(seen, hit))
      /\ \/ GuardStops(Verdict(seen, hit))
         \/ \E noted \in {FALSE, Hooks} : GoOn(seen, Verdict(seen, hit), noted)
      /\ UNCHANGED <<spent, cancelled, squeezed>>
  BY DEF CloseStep, seen, hit
<1> HIDE DEF hit
<1> QED
  BY <1>2, <1>3, <1>4, <1>5 DEF seen

LEMMA InitTypes ==
  ASSUME Init
  PROVE  TurnTypes /\ CallTypes /\ GuardTypes /\ FlagTypes /\ GateHolds
<1>1. TurnTypes
  BY NumbersAre, NoneIsNoOutcome DEF Init, TurnTypes, NoneIsNoOutcome
<1>2. CallTypes
  BY DEF Init, CallTypes, Calls
<1>3. GuardTypes
  BY DEF Init, GuardTypes, NewGuard, Guard
<1>4. FlagTypes
  BY DEF Init, FlagTypes
<1>5. GateHolds
  <2>1. InGate = {}
    BY DEF Init, InGate, Calls
  <2> QED
    BY <2>1, NumbersAre, FS_EmptySet DEF GateHolds
<1> QED
  BY <1>1, <1>2, <1>3, <1>4, <1>5

LEMMA StepOnIs ==
  ASSUME TurnTypes, StepOn, pc # "done"
  PROVE  /\ TurnTypes'
         /\ \/ pc' = "top" /\ step' = step + 1 /\ step < MaxSteps /\ outcome' = outcome
            \/ pc' = "done" /\ step' = step /\ outcome' = "steps"
<1>1. step \in Nat /\ MaxSteps \in Nat
  BY NumbersAre DEF TurnTypes
<1>2. CASE step < MaxSteps
  <2>1. /\ pc' = "top" /\ step' = step + 1 /\ attempt' = attempt /\ outcome' = outcome
    BY <1>2 DEF StepOn
  <2>2. step + 1 \in 1 .. MaxSteps
    BY <1>1, <1>2
  <2> QED
    BY <1>2, <2>1, <2>2 DEF TurnTypes
<1>3. CASE ~ (step < MaxSteps)
  BY <1>3, NoneIsNoOutcome DEF StepOn, End, TurnTypes, Outcome, NoneIsNoOutcome
<1> QED
  BY <1>2, <1>3

LEMMA TurnTypesKept ==
  ASSUME Types, [Next]_vars
  PROVE  TurnTypes'
<1> USE DEF Types
<1>0. ASSUME NEW how \in Outcome, End(how) PROVE TurnTypes'
  BY <1>0, NoneIsNoOutcome DEF TurnTypes, End, NoneIsNoOutcome
<1>1. CASE UNCHANGED turnVars
  BY <1>1 DEF TurnTypes, turnVars
<1>2. CASE StopAtTop
  <2>1. "cancelled" \in Outcome /\ "deadline" \in Outcome /\ "tokens" \in Outcome
    BY DEF Outcome
  <2> QED
    BY <1>0, <1>2, <2>1 DEF StopAtTop
<1>3. ASSUME NEW over \in BOOLEAN, NEW summarized \in BOOLEAN, Send(over, summarized)
      PROVE  TurnTypes'
  <2>1. 1 \in 0 .. MaxAttempts
    BY NumbersAre
  <2> QED
    BY <1>3, <2>1 DEF Send, TurnTypes
<1>4. ASSUME NEW calls \in Replies, Reply(calls) PROVE TurnTypes'
  BY <1>4 DEF Reply, TurnTypes
<1>5. CASE Answer
  BY <1>0, <1>5 DEF Answer, Outcome
<1>6. CASE HookRefusesAnswer
  BY <1>6, StepOnIs DEF HookRefusesAnswer
<1>7. CASE Retry
  <2>1. attempt + 1 \in 0 .. MaxAttempts
    BY <1>7, NumbersAre DEF Retry, TurnTypes
  <2> QED
    BY <1>7, <2>1 DEF Retry, TurnTypes
<1>8. CASE ModelFails
  <2>1. PICK how \in {"failed", "cancelled"} : End(how)
    BY <1>8 DEF ModelFails
  <2> QED
    BY <1>0, <2>1 DEF Outcome
<1>9. CASE CloseStep
  <2>1. PICK seen \in Guard, hit \in CountedIn(Runs) \cup {None} :
           /\ hit \in Call \cup {None}
           /\ \/ GuardStops(Verdict(seen, hit))
              \/ \E noted \in {FALSE, Hooks} : GoOn(seen, Verdict(seen, hit), noted)
    BY <1>9, CloseStepIs DEF GuardTypes
  <2> DEFINE v == Verdict(seen, hit)
  <2>2. v.stop \in {None, "loop", "idle"}
    BY <2>1, VerdictIs
  <2> HIDE DEF v
  <2>3. CASE GuardStops(v)
    <3>1. v.stop \in Outcome /\ End(v.stop)
      BY <2>2, <2>3 DEF GuardStops, Outcome
    <3> QED
      BY <1>0, <3>1
  <2>4. ASSUME NEW noted \in {FALSE, Hooks}, GoOn(seen, v, noted) PROVE TurnTypes'
    BY <1>9, <2>4, StepOnIs DEF GoOn, CloseStep, StepsOver
  <2> QED
    BY <2>1, <2>3, <2>4 DEF v
<1>10. ASSUME NEW i \in Calls, CallStep(i) PROVE TurnTypes'
  <2>1. UNCHANGED turnVars
    BY <1>10 DEF CallStep, StartCall, HookBlocksCall, EndCall, EnterGate, LeaveGateQueue,
                 NestedCall, SubagentReports, Becomes
  <2> QED
    BY <1>1, <2>1
<1>11. CASE Expire \/ Cancel
  BY <1>1, <1>11 DEF Expire, Cancel
<1> QED
  BY <1>1, <1>2, <1>3, <1>4, <1>5, <1>6, <1>7, <1>8, <1>9, <1>10, <1>11
  DEF Next, Loop, vars

\* A call that becomes something else takes no place in the gate unless it is let in.
LEMMA GateKept ==
  ASSUME Types, GateHolds, [Next]_vars
  PROVE  GateHolds'
<1> USE DEF Types
<1>0. /\ Calls = 1 .. Len(asked) /\ Len(asked) \in Nat
      /\ IsFiniteSet(InGate) /\ Cardinality(InGate) \in Nat
      /\ MaxConcurrent \in Nat \ {0} /\ Cardinality(InGate) <= MaxConcurrent
  <2>1. Calls = 1 .. Len(asked) /\ Len(asked) \in Nat
    BY CallsAreNumbered DEF CallTypes
  <2>2. InGate \in SUBSET (1 .. Len(asked))
    BY <2>1 DEF InGate
  <2> QED
    BY <2>1, <2>2, CountsAre, NumbersAre DEF GateHolds
<1>1. ASSUME InGate' \subseteq InGate PROVE GateHolds'
  <2>1. Cardinality(InGate') <= Cardinality(InGate) /\ Cardinality(InGate') \in Nat
    BY <1>0, <1>1, FS_Subset, FS_CardinalityType
  <2> QED
    BY <1>0, <2>1 DEF GateHolds
<1>2. CASE UNCHANGED <<asked, state>>
  BY <1>1, <1>2 DEF InGate, Calls
<1>3. ASSUME NEW i \in Calls, NEW how \in State \ {"nested"}, Becomes(i, how) PROVE GateHolds'
  <2>1. InGate' \subseteq InGate
    BY <1>3 DEF InGate, Calls, Becomes, CallTypes
  <2> QED
    BY <1>1, <2>1
<1>4. CASE StopAtTop \/ Answer \/ HookRefusesAnswer \/ Retry \/ ModelFails \/ Expire \/ Cancel
  BY <1>2, <1>4 DEF StopAtTop, Answer, HookRefusesAnswer, Retry, ModelFails, Expire, Cancel, callVars
<1>5. ASSUME NEW over \in BOOLEAN, NEW summarized \in BOOLEAN, Send(over, summarized)
      PROVE  GateHolds'
  BY <1>2, <1>5 DEF Send, callVars
<1>6. ASSUME NEW calls \in Replies, Reply(calls) PROVE GateHolds'
  <2>1. InGate' = {}
    BY <1>6 DEF Reply, InGate, Calls
  <2> QED
    BY <1>1, <2>1
<1>7. CASE CloseStep
  <2>1. UNCHANGED <<asked, state>> \/ (asked' = <<>> /\ state' = <<>>)
    BY <1>7 DEF CloseStep, GuardStops, GoOn, callVars
  <2>2. CASE asked' = <<>> /\ state' = <<>>
    <3>1. InGate' = {}
      BY <2>2 DEF InGate, Calls
    <3> QED
      BY <1>1, <3>1
  <2> QED
    BY <1>2, <2>1, <2>2
<1>8. ASSUME NEW i \in Calls, EnterGate(i) PROVE GateHolds'
  <2>1. InGate' = InGate \cup {i} /\ i \notin InGate
    BY <1>8 DEF InGate, Calls, EnterGate, Becomes, CallTypes
  <2>2. Cardinality(InGate') = Cardinality(InGate) + 1
    BY <1>0, <2>1, FS_AddElement
  <2>3. Cardinality(InGate) < MaxConcurrent
    BY <1>8 DEF EnterGate
  <2> QED
    BY <1>0, <2>2, <2>3 DEF GateHolds
<1>9. ASSUME NEW i \in Calls, CallStep(i) PROVE GateHolds'
  <2>1. CASE StartCall(i)
    <3>1. PICK how \in {"failed", "running", "waits"} : Becomes(i, how)
      BY <2>1 DEF StartCall
    <3> QED
      BY <1>3, <3>1 DEF State
  <2>2. CASE HookBlocksCall(i) \/ LeaveGateQueue(i) \/ SubagentReports(i)
    BY <1>3, <2>2 DEF HookBlocksCall, LeaveGateQueue, SubagentReports, State
  <2>3. ASSUME NEW how \in {"ok", "failed"}, EndCall(i, how) PROVE GateHolds'
    BY <1>3, <2>3 DEF EndCall, State
  <2>4. ASSUME NEW c \in Call, NestedCall(i, c) PROVE GateHolds'
    BY <1>2, <2>4 DEF NestedCall
  <2> QED
    BY <1>8, <1>9, <2>1, <2>2, <2>3, <2>4 DEF CallStep
<1> QED
  BY <1>2, <1>4, <1>5, <1>6, <1>7, <1>9 DEF Next, Loop, vars, callVars

LEMMA CallTypesKept ==
  ASSUME Types, [Next]_vars
  PROVE  CallTypes'
<1> USE DEF Types
<1>0. Calls = 1 .. Len(asked) /\ Len(asked) \in Nat
  BY CallsAreNumbered DEF CallTypes
<1>2. CASE UNCHANGED <<asked, state, nested>>
  BY <1>2 DEF CallTypes, Calls
<1>3. ASSUME NEW i \in Calls, NEW how \in State, Becomes(i, how), UNCHANGED nested
      PROVE  CallTypes'
  BY <1>3 DEF Becomes, CallTypes, Calls
<1>4. CASE StopAtTop \/ Answer \/ HookRefusesAnswer \/ Retry \/ ModelFails \/ Expire \/ Cancel
  BY <1>2, <1>4 DEF StopAtTop, Answer, HookRefusesAnswer, Retry, ModelFails, Expire, Cancel, callVars
<1>5. ASSUME NEW over \in BOOLEAN, NEW summarized \in BOOLEAN, Send(over, summarized)
      PROVE  CallTypes'
  BY <1>2, <1>5 DEF Send, callVars
<1>6. ASSUME NEW calls \in Replies, Reply(calls) PROVE CallTypes'
  BY <1>6 DEF Reply, CallTypes, Calls, State
<1>7. CASE CloseStep
  <2>1. UNCHANGED <<asked, state, nested>> \/ (asked' = <<>> /\ state' = <<>> /\ nested' = <<>>)
    BY <1>7 DEF CloseStep, GuardStops, GoOn, callVars
  <2>2. CASE asked' = <<>> /\ state' = <<>> /\ nested' = <<>>
    BY <2>2 DEF CallTypes, Calls
  <2> QED
    BY <1>2, <2>1, <2>2
<1>9. ASSUME NEW i \in Calls, CallStep(i) PROVE CallTypes'
  <2>1. CASE StartCall(i)
    <3>1. PICK how \in {"failed", "running", "waits"} : Becomes(i, how) /\ UNCHANGED nested
      BY <2>1 DEF StartCall
    <3> QED
      BY <1>3, <3>1 DEF State
  <2>2. CASE HookBlocksCall(i) \/ LeaveGateQueue(i) \/ SubagentReports(i) \/ EnterGate(i)
    BY <1>3, <2>2 DEF HookBlocksCall, LeaveGateQueue, SubagentReports, EnterGate, State
  <2>3. ASSUME NEW how \in {"ok", "failed"}, EndCall(i, how) PROVE CallTypes'
    BY <1>3, <2>3 DEF EndCall, State
  <2>4. ASSUME NEW c \in Call, NestedCall(i, c) PROVE CallTypes'
    BY <2>4 DEF NestedCall, CallTypes, Calls
  <2> QED
    BY <1>9, <2>1, <2>2, <2>3, <2>4 DEF CallStep
<1> QED
  BY <1>2, <1>4, <1>5, <1>6, <1>7, <1>9 DEF Next, Loop, vars, callVars

LEMMA FlagTypesKept ==
  ASSUME Types, [Next]_vars
  PROVE  FlagTypes'
<1> USE DEF Types
<1>1. ASSUME spent' \subseteq {"deadline", "tokens"}, cancelled' \in BOOLEAN, squeezed' \in BOOLEAN
      PROVE  FlagTypes'
  BY <1>1 DEF FlagTypes
<1>2. CASE UNCHANGED <<spent, cancelled, squeezed>>
  BY <1>2 DEF FlagTypes
<1>3. CASE StopAtTop \/ Retry \/ ModelFails
  BY <1>2, <1>3 DEF StopAtTop, Retry, ModelFails, historyVars
<1>4. ASSUME NEW over \in BOOLEAN, NEW summarized \in BOOLEAN, Send(over, summarized)
      PROVE  FlagTypes'
  BY <1>1, <1>4 DEF Send, FlagTypes
<1>5. ASSUME Pay, UNCHANGED <<cancelled, squeezed>> PROVE FlagTypes'
  <2>1. spent' = spent \/ spent' = spent \cup {"tokens"}
    BY <1>5 DEF Pay
  <2> QED
    BY <1>1, <1>5, <2>1 DEF FlagTypes
<1>6. ASSUME NEW calls \in Replies, Reply(calls) PROVE FlagTypes'
  BY <1>5, <1>6 DEF Reply, historyVars
<1>7. CASE Answer \/ HookRefusesAnswer
  BY <1>5, <1>7 DEF Answer, HookRefusesAnswer, historyVars
<1>8. CASE CloseStep
  BY <1>2, <1>8 DEF CloseStep
<1>9. ASSUME NEW i \in Calls, CallStep(i) PROVE FlagTypes'
  <2>1. UNCHANGED <<spent, cancelled, squeezed>>
    BY <1>9 DEF CallStep, StartCall, HookBlocksCall, EndCall, EnterGate, LeaveGateQueue,
                NestedCall, SubagentReports, Becomes, historyVars
  <2> QED
    BY <1>2, <2>1
<1>10. CASE Expire
  BY <1>1, <1>10 DEF Expire, FlagTypes, historyVars
<1>11. CASE Cancel
  BY <1>1, <1>11 DEF Cancel, FlagTypes, historyVars
<1> QED
  BY <1>2, <1>3, <1>4, <1>6, <1>7, <1>8, <1>9, <1>10, <1>11 DEF Next, Loop, vars, historyVars

\* One more message for the model, or none.
LEMMA NoteIsSound ==
  ASSUME NEW msgs, Sound(msgs), NEW m \in Messages, m.role = "system"
  PROVE  /\ Sound(msgs \o <<>>) /\ msgs \o <<>> = msgs
         /\ Sound(msgs \o <<m>>)
         /\ (msgs \o <<m>>)[Len(msgs \o <<m>>)] = m
<1>1. msgs \in Seq(Messages) /\ Len(msgs) \in Nat
  BY SoundElements DEF Sound
<1>2. msgs \o <<>> = msgs
  BY <1>1, ConcatEmptySeq
<1>3. Append(msgs, m) = msgs \o <<m>>
  BY <1>1, AppendIsConcat
<1>4. Sound(Append(msgs, m))
  BY AppendIsSound
<1>5. Append(msgs, m)[Len(Append(msgs, m))] = m
  <2>1. Len(Append(msgs, m)) = Len(msgs) + 1 /\ Append(msgs, m)[Len(msgs) + 1] = m
    BY <1>1, AppendProperties
  <2> QED
    BY <2>1
<1> QED
  BY <1>2, <1>3, <1>4, <1>5

\* An answer that a hook refuses stays, with what the hook says.
LEMMA RefusalIsSound ==
  ASSUME NEW msgs, Sound(msgs), NEW k \in 1 .. MaxSteps
  PROVE  Sound(msgs \o <<Assistant(k, 0), System(k, "hook")>>)
<1> DEFINE a == Assistant(k, 0)
           h == System(k, "hook")
<1>1. a \in Messages /\ a.role = "assistant" /\ a.n = 0
  <2>1. k \in -Earlier .. MaxSteps /\ 0 \in Nat
    BY StepsAre
  <2> QED
    BY <2>1, OtherMessages DEF Assistant, Message
<1>2. h \in Messages /\ h.role = "system"
  <2>1. k \in 0 .. MaxSteps /\ "hook" \in Spoken
    BY StepsAre DEF Spoken
  <2> QED
    BY <2>1, SystemIsMessage DEF System, Message
<1> HIDE DEF a, h
<1>3. Sound(Append(Append(msgs, a), h))
  <2>1. Sound(Append(msgs, a))
    BY <1>1, AppendIsSound
  <2> QED
    BY <1>2, <2>1, AppendIsSound
<1>4. msgs \in Seq(Messages) /\ <<a>> \in Seq(Messages) /\ <<h>> \in Seq(Messages)
  BY <1>1, <1>2 DEF Sound
<1>5. Append(msgs, a) = msgs \o <<a>> /\ msgs \o <<a>> \in Seq(Messages)
  BY <1>1, <1>4, AppendIsConcat, AppendProperties
<1>6. Append(msgs \o <<a>>, h) = (msgs \o <<a>>) \o <<h>>
  BY <1>2, <1>5, AppendIsConcat
<1>7. (msgs \o <<a>>) \o <<h>> = msgs \o (<<a>> \o <<h>>)
  BY <1>4, ConcatAssociative
<1>8. <<a>> \o <<h>> = <<a, h>>
  <2>1. <<a>> \o <<h>> \o <<>> = <<a, h>>
    BY <1>1, <1>2, ShortSequences
  <2>2. <<a>> \o <<h>> \in Seq(Messages)
    BY <1>4, ConcatProperties
  <2>3. <<a>> \o <<h>> \o <<>> = <<a>> \o <<h>>
    BY <2>2, ConcatEmptySeq
  <2> QED
    BY <2>1, <2>3
<1>9. Append(Append(msgs, a), h) = msgs \o <<a, h>>
  BY <1>5, <1>6, <1>7, <1>8
<1> QED
  BY <1>3, <1>9 DEF a, h

\* What the guard and the hooks say at the end of a step, after its results.
LEMMA GoOnIs ==
  ASSUME Types, CloseStep, NEW seen \in Guard, NEW hit \in Call \cup {None},
         NEW noted \in BOOLEAN, GoOn(seen, Verdict(seen, hit), noted)
  PROVE  /\ Sound(window')
         /\ Verdict(seen, hit).kind # "none" =>
              window'[Len(window')] = System(step, Verdict(seen, hit).about)
<1> DEFINE v == Verdict(seen, hit)
           w == window \o Results
           h == System(step, "hook")
           g == System(step, v.about)
           w1 == w \o (IF noted THEN <<h>> ELSE <<>>)
           w2 == w1 \o (IF v.kind # "none" THEN <<g>> ELSE <<>>)
<1>1. Sound(w)
  BY DEF CloseStep, StepsOver, Types, WindowIs
<1>2. step \in 0 .. MaxSteps
  BY NumbersAre DEF Types, TurnTypes
<1>3. h \in Messages /\ h.role = "system"
  <2>1. "hook" \in Spoken
    BY DEF Spoken
  <2> QED
    BY <1>2, <2>1, SystemIsMessage DEF System, Message
<1>4. v.kind # "none" => g \in Messages /\ g.role = "system"
  <2>1. v.kind # "none" => v.about \in Spoken
    BY VerdictIs DEF Spoken
  <2> HIDE DEF v
  <2> QED
    BY <1>2, <2>1, SystemIsMessage DEF System, Message
<1>5. window' = w2
  BY DEF GoOn
<1> HIDE DEF v, w, g, h
<1>6. Sound(w1)
  BY <1>1, <1>3, NoteIsSound
<1> HIDE DEF w1
<1>7. CASE v.kind # "none"
  <2>1. w2 = w1 \o <<g>>
    BY <1>7
  <2>2. Sound(w2) /\ w2[Len(w2)] = g
    BY <1>4, <1>6, <1>7, <2>1, NoteIsSound
  <2> QED
    BY <1>5, <2>2 DEF v, g
<1>8. CASE ~ (v.kind # "none")
  <2>1. w2 = w1 \o <<>>
    BY <1>8
  <2>2. Sound(w2)
    BY <1>3, <1>6, <2>1, NoteIsSound
  <2> QED
    BY <1>5, <1>8, <2>2 DEF v
<1> QED
  BY <1>7, <1>8

LEMMA SendIs ==
  ASSUME Types, NEW over \in BOOLEAN, NEW summarized \in BOOLEAN, Send(over, summarized)
  PROVE  /\ Sound(window')
         /\ window'[Len(window')] = window[Len(window)]
         /\ squeezed' => Len(window') <= HeadLength + 3 + Kept + MaxCalls
<1>1. Sound(window)
  BY DEF Send, Types, WindowIs
<1>2. CASE over
  <2> DEFINE out == Condensed(window, HeadLength, summarized)
  <2>1. window' = out
    BY <1>2 DEF Send
  <2>2. /\ Sound(out) /\ out[Len(out)] = window[Len(window)]
        /\ Len(out) <= HeadLength + 3 + Kept + MaxCalls
    BY <1>1, CondensedIsSound
  <2> HIDE DEF out
  <2> QED
    BY <2>1, <2>2
<1>3. CASE ~ over
  <2>1. window' = window /\ squeezed' = FALSE
    BY <1>3 DEF Send
  <2> QED
    BY <1>1, <2>1
<1> QED
  BY <1>2, <1>3

LEMMA WindowKept ==
  ASSUME Types, [Next]_vars
  PROVE  WindowIs'
<1> USE DEF Types
<1>0. step \in 1 .. MaxSteps /\ step \in -Earlier .. MaxSteps
  BY StepsAre DEF TurnTypes
<1>1. CASE UNCHANGED <<pc, step, window, asked, squeezed>>
  <2>1. Results' = Results
    BY <1>1 DEF Results, Calls
  <2> QED
    BY <1>1, <2>1 DEF WindowIs
<1>2. ASSUME window' \in Seq(Messages), pc' = "done" PROVE WindowIs'
  BY <1>2 DEF WindowIs
<1>3. ASSUME Sound(window'), pc' \in {"top", "done"} PROVE WindowIs'
  BY <1>3 DEF WindowIs, Sound
<1>4. CASE StopAtTop \/ ModelFails
  BY <1>2, <1>4 DEF StopAtTop, ModelFails, End, WindowIs
<1>5. ASSUME NEW over \in BOOLEAN, NEW summarized \in BOOLEAN, Send(over, summarized)
      PROVE  WindowIs'
  <2>1. /\ Sound(window')
        /\ squeezed' => Len(window') <= HeadLength + 3 + Kept + MaxCalls
    BY <1>5, SendIs
  <2>2. pc' = "model" /\ window' \in Seq(Messages)
    BY <1>5, <2>1 DEF Send, Sound
  <2> QED
    BY <2>1, <2>2 DEF WindowIs
<1>6. ASSUME NEW calls \in Replies, Reply(calls) PROVE WindowIs'
  <2> DEFINE n == Len(calls)
             results == [i \in 1 .. n |-> ToolResult(step, i)]
             said == Append(window, Assistant(step, n))
  <2>1. n \in 1 .. MaxCalls /\ n \in Nat /\ DOMAIN calls = 1 .. n
    BY MostCalls, LenProperties
  <2>2. window' = said /\ pc' = "tools" /\ Results' = results
    BY <1>6, <2>1 DEF Reply, Results, Calls
  <2>3. Sound(window)
    BY <1>6 DEF Reply, WindowIs
  <2> HIDE DEF n
  <2>4. Sound(said \o results)
    BY <1>0, <2>1, <2>3, ReplyIsSound
  <2>5. said \in Seq(Messages)
    <3>1. Assistant(step, n) \in Messages
      BY <1>0, <2>1, OtherMessages
    <3> QED
      BY <2>3, <3>1, AppendProperties DEF Sound
  <2> HIDE DEF said, results
  <2> QED
    BY <2>2, <2>4, <2>5 DEF WindowIs
<1>7. CASE Answer
  <2>1. Assistant(step, 0) \in Messages
    BY <1>0, OtherMessages
  <2>2. Append(window, Assistant(step, 0)) \in Seq(Messages)
    BY <2>1, AppendProperties DEF WindowIs
  <2> QED
    BY <1>2, <1>7, <2>2 DEF Answer, End
<1>8. CASE HookRefusesAnswer
  <2>1. Sound(window)
    BY <1>8 DEF HookRefusesAnswer, WindowIs
  <2>2. Sound(window')
    BY <1>0, <1>8, <2>1, RefusalIsSound DEF HookRefusesAnswer
  <2>3. pc' \in {"top", "done"}
    BY <1>8 DEF HookRefusesAnswer, StepOn, End
  <2> QED
    BY <1>3, <2>2, <2>3
<1>9. CASE CloseStep
  <2>1. PICK seen \in Guard, hit \in CountedIn(Runs) \cup {None} :
           /\ hit \in Call \cup {None}
           /\ \/ GuardStops(Verdict(seen, hit))
              \/ \E noted \in {FALSE, Hooks} : GoOn(seen, Verdict(seen, hit), noted)
    BY <1>9, CloseStepIs DEF GuardTypes
  <2>2. CASE GuardStops(Verdict(seen, hit))
    <3>1. Sound(window \o Results)
      BY <1>9 DEF CloseStep, StepsOver, WindowIs
    <3>2. window' = window \o Results /\ pc' = "done"
      BY <2>2 DEF GuardStops, End
    <3> QED
      BY <1>2, <3>1, <3>2 DEF Sound
  <2>3. ASSUME NEW noted \in {FALSE, Hooks}, GoOn(seen, Verdict(seen, hit), noted) PROVE WindowIs'
    <3>1. noted \in BOOLEAN
      BY RunnerAssumption DEF RunnerAssumption
    <3>2. Sound(window')
      BY <1>9, <2>1, <2>3, <3>1, GoOnIs
    <3>3. pc' \in {"top", "done"}
      BY <2>3 DEF GoOn, StepOn, End
    <3> QED
      BY <1>3, <3>2, <3>3
  <2> QED
    BY <2>1, <2>2, <2>3
<1>10. ASSUME NEW i \in Calls, CallStep(i) PROVE WindowIs'
  <2>1. UNCHANGED <<pc, step, window, asked, squeezed>>
    BY <1>10 DEF CallStep, StartCall, HookBlocksCall, EndCall, EnterGate, LeaveGateQueue,
                 NestedCall, SubagentReports, Becomes, historyVars, turnVars
  <2> QED
    BY <1>1, <2>1
<1>11. CASE Retry \/ Expire \/ Cancel
  BY <1>1, <1>11 DEF Retry, Expire, Cancel, turnVars, callVars, historyVars
<1> QED
  BY <1>1, <1>4, <1>5, <1>6, <1>7, <1>8, <1>9, <1>10, <1>11
  DEF Next, Loop, vars, turnVars, callVars, historyVars

LEMMA GuardTypesKept ==
  ASSUME Types, [Next]_vars
  PROVE  GuardTypes'
<1> USE DEF Types
<1>1. CASE UNCHANGED <<guard, heard, blamed>>
  BY <1>1 DEF GuardTypes
<1>2. ASSUME NEW over \in BOOLEAN, NEW summarized \in BOOLEAN, Send(over, summarized)
      PROVE  GuardTypes'
  <2>1. Sound(window')
    BY <1>2, SendIs
  <2>2. ToldBy(window') \subseteq Spoken
    <3> SUFFICES ASSUME NEW x \in ToldBy(window') PROVE x \in Spoken
      OBVIOUS
    <3>1. PICK i \in DOMAIN window' : /\ x = window'[i].about /\ window'[i].role = "system"
                                      /\ window'[i].step = step - 1 /\ step > 1
      BY DEF ToldBy
    <3>2. DOMAIN window' = 1 .. Len(window')
      BY <2>1, LenProperties DEF Sound
    <3>3. window'[i] \in Messages
      BY <2>1, <3>1, <3>2, SoundElements
    <3>4. window'[i].step >= 1
      BY <3>1, NumbersAre DEF TurnTypes
    <3> QED
      BY <3>1, <3>3, <3>4, MessagesAre
  <2> QED
    BY <1>2, <2>2 DEF Send, GuardTypes
<1>3. CASE CloseStep
  <2>1. PICK seen \in Guard, hit \in CountedIn(Runs) \cup {None} :
           /\ hit \in Call \cup {None}
           /\ guard' = Said(seen, Verdict(seen, hit))
           /\ \/ GuardStops(Verdict(seen, hit))
              \/ \E noted \in {FALSE, Hooks} : GoOn(seen, Verdict(seen, hit), noted)
    BY <1>3, CloseStepIs DEF GuardTypes
  <2>2. guard' \in Guard
    BY <2>1, SaidIs
  <2>3. CASE GuardStops(Verdict(seen, hit))
    <3>1. blamed' = Verdict(seen, hit).about /\ heard' = heard /\ Verdict(seen, hit).stop # None
      BY <2>3 DEF GuardStops
    <3>2. blamed' \in Call \cup {"idle"}
      <4>1. seen.warned \subseteq Call
        BY DEF Guard
      <4> QED
        BY <2>1, <3>1, <4>1, VerdictIs
    <3> QED
      BY <2>2, <3>1, <3>2 DEF GuardTypes
  <2>4. ASSUME NEW noted \in {FALSE, Hooks}, GoOn(seen, Verdict(seen, hit), noted)
        PROVE  GuardTypes'
    <3>1. heard' \subseteq heard /\ blamed' = blamed
      BY <2>4 DEF GoOn, StillHeard
    <3> QED
      BY <2>2, <3>1 DEF GuardTypes
  <2> QED
    BY <2>1, <2>3, <2>4
<1>4. ASSUME NEW i \in Calls, CallStep(i) PROVE GuardTypes'
  <2>1. UNCHANGED <<guard, heard, blamed>>
    BY <1>4 DEF CallStep, StartCall, HookBlocksCall, EndCall, EnterGate, LeaveGateQueue,
                NestedCall, SubagentReports, Becomes, historyVars
  <2> QED
    BY <1>1, <2>1
<1>5. ASSUME NEW calls \in Replies, Reply(calls) PROVE GuardTypes'
  BY <1>1, <1>5 DEF Reply, historyVars
<1>6. CASE StopAtTop \/ Answer \/ HookRefusesAnswer \/ Retry \/ ModelFails \/ Expire \/ Cancel
  BY <1>1, <1>6 DEF StopAtTop, Answer, HookRefusesAnswer, Retry, ModelFails, Expire, Cancel, historyVars
<1> QED
  BY <1>1, <1>2, <1>3, <1>4, <1>5, <1>6 DEF Next, Loop, vars, historyVars

-----------------------------------------------------------------------------
(* A turn that is stopped was warned.                                      *)

\* What the model is sent, it has heard.
LEMMA SentIsHeard ==
  ASSUME Types, NEW over \in BOOLEAN, NEW summarized \in BOOLEAN, Send(over, summarized), NEW x,
         Told(x)
  PROVE  x \in heard'
<1>1. heard' = heard \cup ToldBy(window')
  BY DEF Send
<1>2. CASE x \in heard
  BY <1>1, <1>2
<1>3. CASE step > 1 /\ window[Len(window)] = System(step - 1, x)
  <2>1. Sound(window') /\ window'[Len(window')] = window[Len(window)]
    BY SendIs
  <2>2. Len(window') \in DOMAIN window'
    <3>1. DOMAIN window' = 1 .. Len(window') /\ Len(window') \in Nat /\ Len(window') >= 2
      BY <2>1, LenProperties, SoundElements DEF Sound
    <3> QED
      BY <3>1
  <2> DEFINE m == window'[Len(window')]
  <2>3. m.role = "system" /\ m.step = step - 1 /\ m.about = x
    BY <1>3, <2>1 DEF System, Message
  <2>4. x \in ToldBy(window')
    BY <1>3, <2>2, <2>3 DEF ToldBy
  <2> QED
    BY <1>1, <2>4
<1> QED
  BY <1>2, <1>3 DEF Told

\* At the end of a step, what the guard holds to be warned of and not stale was heard,
\* or is said in the last message; and so for the idle streak.
LEMMA GoOnTells ==
  ASSUME Types, WarningsAreTold, CloseStep,
         NEW hit \in Call \cup {None}, NEW noted \in BOOLEAN,
         guard' = Said(Observed(guard, Runs), Verdict(Observed(guard, Runs), hit)),
         GoOn(Observed(guard, Runs), Verdict(Observed(guard, Runs), hit), noted)
  PROVE  WarningsAreTold'
<1> DEFINE seen == Observed(guard, Runs)
           v == Verdict(seen, hit)
<1>1. pc = "tools" /\ guard \in Guard /\ step \in Nat /\ step >= 1
  BY NumbersAre DEF CloseStep, StepsOver, Types, TurnTypes, GuardTypes
<1>2. Runs \in [1 .. Len(asked) -> Run] /\ Len(asked) \in Nat
  BY RunsAre DEF Types
<1>3. /\ seen \in Guard
      /\ seen.warned = guard.warned \ (guard.stale \cap CountedIn(Runs))
      /\ seen.stale = IF ChangedWorld(Runs) THEN Call ELSE guard.stale \ CountedIn(Runs)
      /\ seen.idleWarned = "yes" => guard.idleWarned = "yes" /\ seen.idle # 0
  BY <1>1, <1>2, ObservedIs
<1> HIDE DEF seen
<1>4. /\ guard' \in Guard
      /\ guard'.stale = seen.stale
      /\ guard'.warned \subseteq seen.warned \cup (IF v.kind = "repeat" THEN {v.about} ELSE {})
      /\ guard'.idleWarned = "yes" => seen.idleWarned = "yes" \/ v.kind = "idle"
  <2>1. guard' = Said(seen, v)
    BY DEF seen
  <2> QED
    BY <1>3, <2>1, SaidIs
<1>5. /\ v.kind = "idle" => v.about = "idle"
      /\ v.kind # "none" => window'[Len(window')] = System(step, v.about)
  <2>1. GoOn(seen, v, noted)
    BY DEF seen
  <2>2. v.kind = "idle" => v.about = "idle"
    BY <1>3, VerdictIs
  <2>3. v.kind # "none" => window'[Len(window')] = System(step, v.about)
    BY <1>3, <2>1, GoOnIs
  <2> QED
    BY <2>2, <2>3
<1>6. heard' = StillHeard(seen) /\ StepOn
  BY DEF GoOn, seen
<1> HIDE DEF v
<1>7. SUFFICES ASSUME pc' # "done"
               PROVE  /\ \A c \in guard'.warned \ guard'.stale : Told(c)'
                      /\ guard'.idleWarned = "yes" => Told("idle")'
  BY DEF WarningsAreTold
<1>8. pc' = "top" /\ step' = step + 1 /\ step' > 1 /\ step' - 1 = step
  BY <1>1, <1>6, <1>7 DEF StepOn, End
<1>9. ASSUME NEW x, window'[Len(window')] = System(step, x) PROVE Told(x)'
  BY <1>8, <1>9 DEF Told
<1>10. ASSUME NEW c \in guard'.warned, c \notin guard'.stale PROVE Told(c)'
  <2>1. CASE c \in seen.warned
    <3>1. c \in Call
      BY <1>3, <2>1 DEF Guard
    <3>2. ~ ChangedWorld(Runs) /\ c \notin guard.stale \ CountedIn(Runs)
      BY <1>3, <1>4, <1>10, <3>1
    <3>3. c \in guard.warned \ guard.stale
      BY <1>3, <2>1, <3>2
    <3>4. c \in heard
      BY <1>1, <3>3 DEF WarningsAreTold, Told
    <3>5. c # "idle"
      BY <3>1, CallsAre
    <3>6. c \in heard'
      BY <1>6, <3>2, <3>4, <3>5 DEF StillHeard
    <3> QED
      BY <3>6 DEF Told
  <2>2. CASE c \notin seen.warned
    <3>1. v.kind = "repeat" /\ c = v.about
      BY <1>4, <1>10, <2>2
    <3>2. window'[Len(window')] = System(step, c)
      BY <1>5, <3>1
    <3> QED
      BY <1>9, <3>2
  <2> QED
    BY <2>1, <2>2
<1>11. ASSUME guard'.idleWarned = "yes" PROVE Told("idle")'
  <2>1. CASE v.kind = "idle"
    <3>1. window'[Len(window')] = System(step, "idle")
      BY <1>5, <2>1
    <3> QED
      BY <1>9, <3>1
  <2>2. CASE v.kind # "idle"
    <3>1. guard.idleWarned = "yes" /\ seen.idle # 0
      BY <1>3, <1>4, <1>11, <2>2
    <3>2. "idle" \in heard
      BY <1>1, <3>1 DEF WarningsAreTold, Told
    <3>3. "idle" \in heard'
      BY <1>6, <3>1, <3>2, CallsAre DEF StillHeard
    <3> QED
      BY <3>3 DEF Told
  <2> QED
    BY <2>1, <2>2
<1> QED
  BY <1>10, <1>11

LEMMA WarningsKept ==
  ASSUME Types, WarningsAreTold, [Next]_vars
  PROVE  WarningsAreTold'
<1> USE DEF Types
<1>1. CASE UNCHANGED <<pc, step, window, guard, heard>>
  BY <1>1 DEF WarningsAreTold, Told
<1>2. CASE pc' = "done"
  BY <1>2 DEF WarningsAreTold
<1>3. ASSUME NEW over \in BOOLEAN, NEW summarized \in BOOLEAN, Send(over, summarized)
      PROVE  WarningsAreTold'
  <2>1. pc # "done" /\ guard' = guard
    BY <1>3 DEF Send
  <2>2. ASSUME NEW x, Told(x) PROVE Told(x)'
    <3>1. x \in heard'
      BY <1>3, <2>2, SentIsHeard
    <3> QED
      BY <3>1 DEF Told
  <2> QED
    BY <2>1, <2>2 DEF WarningsAreTold
<1>4. ASSUME pc = "model", UNCHANGED <<guard, heard>> PROVE WarningsAreTold'
  <2>1. \A x : Told(x) => x \in heard
    BY <1>4 DEF Told
  <2>2. \A x : x \in heard => Told(x)'
    BY <1>4 DEF Told
  <2> QED
    BY <1>4, <2>1, <2>2 DEF WarningsAreTold
<1>5. ASSUME NEW calls \in Replies, Reply(calls) PROVE WarningsAreTold'
  BY <1>4, <1>5 DEF Reply, historyVars
<1>6. CASE Answer \/ HookRefusesAnswer \/ Retry \/ ModelFails
  BY <1>4, <1>6 DEF Answer, HookRefusesAnswer, Retry, ModelFails, historyVars
<1>7. CASE StopAtTop
  BY <1>2, <1>7 DEF StopAtTop, End
<1>8. CASE CloseStep
  <2>1. PICK hit \in Call \cup {None} :
           LET seen == Observed(guard, Runs)
           IN  /\ guard' = Said(seen, Verdict(seen, hit))
               /\ \/ GuardStops(Verdict(seen, hit))
                  \/ \E noted \in {FALSE, Hooks} : GoOn(seen, Verdict(seen, hit), noted)
    BY <1>8, CloseStepIs DEF GuardTypes
  <2> DEFINE seen == Observed(guard, Runs)
  <2>2. CASE GuardStops(Verdict(seen, hit))
    BY <1>2, <2>2 DEF GuardStops, End
  <2>3. ASSUME NEW noted \in {FALSE, Hooks}, GoOn(seen, Verdict(seen, hit), noted)
        PROVE  WarningsAreTold'
    <3>1. noted \in BOOLEAN
      BY RunnerAssumption DEF RunnerAssumption
    <3> QED
      BY <1>8, <2>1, <2>3, <3>1, GoOnTells
  <2> QED
    BY <2>1, <2>2, <2>3
<1>9. ASSUME NEW i \in Calls, CallStep(i) PROVE WarningsAreTold'
  <2>1. UNCHANGED <<pc, step, window, guard, heard>>
    BY <1>9 DEF CallStep, StartCall, HookBlocksCall, EndCall, EnterGate, LeaveGateQueue,
                NestedCall, SubagentReports, Becomes, historyVars, turnVars
  <2> QED
    BY <1>1, <2>1
<1>10. CASE Expire \/ Cancel
  BY <1>1, <1>10 DEF Expire, Cancel, turnVars, callVars, historyVars
<1> QED
  BY <1>1, <1>3, <1>5, <1>6, <1>7, <1>8, <1>9, <1>10
  DEF Next, Loop, vars, turnVars, callVars, historyVars

LEMMA StopIsWarnedKept ==
  ASSUME Types, WarningsAreTold, StopIsWarned, [Next]_vars
  PROVE  StopIsWarned'
<1> USE DEF Types
<1>1. CASE UNCHANGED <<outcome, blamed, heard>>
  BY <1>1 DEF StopIsWarned
<1>2. CASE outcome' \notin {"loop", "idle"}
  BY <1>2 DEF StopIsWarned
<1>3. ASSUME UNCHANGED outcome, pc # "done" PROVE StopIsWarned'
  <2>1. outcome' \notin {"loop", "idle"}
    BY <1>3, CallsAre DEF TurnTypes
  <2> QED
    BY <1>2, <2>1
<1>4. CASE StopAtTop \/ Answer \/ ModelFails
  BY <1>2, <1>4 DEF StopAtTop, Answer, ModelFails, End
<1>5. CASE Retry \/ Expire \/ Cancel
  BY <1>3, <1>5 DEF Retry, Expire, Cancel, turnVars
<1>6. ASSUME NEW over \in BOOLEAN, NEW summarized \in BOOLEAN, Send(over, summarized)
      PROVE  StopIsWarned'
  BY <1>3, <1>6 DEF Send
<1>7. ASSUME NEW calls \in Replies, Reply(calls) PROVE StopIsWarned'
  BY <1>3, <1>7 DEF Reply
<1>8. ASSUME StepOn, pc # "done" PROVE StopIsWarned'
  <2>1. outcome' = outcome \/ outcome' = "steps"
    BY <1>8 DEF StepOn, End
  <2> QED
    BY <1>2, <1>3, <1>8, <2>1
<1>9. CASE HookRefusesAnswer
  BY <1>8, <1>9 DEF HookRefusesAnswer
<1>10. CASE CloseStep
  <2>1. PICK hit \in CountedIn(Runs) \cup {None} :
           LET seen == Observed(guard, Runs)
           IN  /\ hit \in Call \cup {None} /\ seen \in Guard
               /\ \/ GuardStops(Verdict(seen, hit))
                  \/ \E noted \in {FALSE, Hooks} : GoOn(seen, Verdict(seen, hit), noted)
    BY <1>10, CloseStepIs DEF GuardTypes
  <2> DEFINE seen == Observed(guard, Runs)
             v == Verdict(seen, hit)
  <2>2. pc = "tools" /\ guard \in Guard
    BY <1>10 DEF CloseStep, StepsOver, GuardTypes
  <2>3. \A noted \in {FALSE, Hooks} : GoOn(seen, v, noted) => StopIsWarned'
    BY <1>8, <2>2 DEF GoOn
  <2>4. CASE GuardStops(v)
    <3>1. /\ seen.warned = guard.warned \ (guard.stale \cap CountedIn(Runs))
          /\ seen.idleWarned = "yes" => guard.idleWarned = "yes"
      BY <2>2, RunsAre, ObservedIs
    <3> HIDE DEF seen
    <3>2. \/ v.stop = None
          \/ v.stop = "loop" /\ v.about = hit /\ hit \in seen.warned
          \/ v.stop = "idle" /\ v.about = "idle" /\ seen.idleWarned = "yes"
      BY <2>1, VerdictIs DEF seen
    <3> HIDE DEF v
    <3>3. v.stop # None /\ outcome' = v.stop /\ blamed' = v.about /\ heard' = heard
      BY <2>4 DEF GuardStops, End
    <3>4. \A x : Told(x) => x \in heard
      BY <2>2 DEF Told
    <3>5. CASE v.stop = "loop" /\ v.about = hit /\ hit \in seen.warned
      <4>1. hit \in Call
        BY <3>1, <3>5, <2>2 DEF Guard
      <4>2. hit \in CountedIn(Runs)
        BY <2>1, <4>1, CallsAre
      <4>3. hit \in guard.warned \ guard.stale
        BY <3>1, <3>5, <4>2
      <4>4. hit \in heard
        BY <2>2, <3>4, <4>3 DEF WarningsAreTold
      <4> QED
        BY <3>3, <3>5, <4>4 DEF StopIsWarned
    <3>6. CASE v.stop = "idle" /\ v.about = "idle" /\ seen.idleWarned = "yes"
      <4>1. "idle" \in heard
        BY <2>2, <3>1, <3>4, <3>6 DEF WarningsAreTold
      <4> QED
        BY <3>3, <3>6, <4>1 DEF StopIsWarned
    <3> QED
      BY <3>2, <3>3, <3>5, <3>6
  <2> QED
    BY <2>1, <2>3, <2>4
<1>11. ASSUME NEW i \in Calls, CallStep(i) PROVE StopIsWarned'
  <2>1. UNCHANGED <<outcome, blamed, heard>>
    BY <1>11 DEF CallStep, StartCall, HookBlocksCall, EndCall, EnterGate, LeaveGateQueue,
                NestedCall, SubagentReports, Becomes, historyVars, turnVars
  <2> QED
    BY <1>1, <2>1
<1> QED
  BY <1>1, <1>4, <1>5, <1>6, <1>7, <1>9, <1>10, <1>11
  DEF Next, Loop, vars, turnVars, callVars, historyVars

-----------------------------------------------------------------------------
(* Calls that must run alone.                                              *)

\* The group of a call opens no later than the call.
LEMMA GroupIs ==
  ASSUME NEW j \in Nat \ {0}
  PROVE  /\ GroupOf(j) \in 1 .. j
         /\ \A k \in 1 .. j : OpensGroup(k) => k <= GroupOf(j)
<1> DEFINE S == {k \in 1 .. j : OpensGroup(k)}
<1>1. OpensGroup(1)
  BY DEF OpensGroup
<1>2. S \in SUBSET (0 .. j) /\ 1 \in S /\ j \in Nat
  <2>1. 1 \in 1 .. j
    OBVIOUS
  <2> QED
    BY <1>1, <2>1
<1>3. \A k \in S : k \in 1 .. j
  OBVIOUS
<1>4. GroupOf(j) = Max(S)
  BY DEF GroupOf
<1>5. \A k \in 1 .. j : OpensGroup(k) => k \in S
  OBVIOUS
<1> HIDE DEF S
<1>6. Max(S) \in S /\ \A y \in S : y <= Max(S)
  BY <1>2, GreatestUpTo
<1> QED
  BY <1>3, <1>4, <1>5, <1>6

\* A call that must run alone shares its group with none before or after it.
LEMMA GroupsPart ==
  ASSUME NEW i \in Nat \ {0}, NEW j \in Nat \ {0}, i < j, Serial(i) \/ Serial(j)
  PROVE  GroupOf(i) # GroupOf(j)
<1>1. GroupOf(i) \in 1 .. i /\ GroupOf(j) \in 1 .. j
  BY GroupIs
<1>2. CASE Serial(j)
  <2>1. OpensGroup(j) /\ j \in 1 .. j
    BY <1>2 DEF OpensGroup
  <2>2. j <= GroupOf(j)
    BY <2>1, GroupIs
  <2> QED
    BY <1>1, <2>2
<1>3. CASE Serial(i)
  <2>1. i + 1 \in 1 .. j /\ (i + 1) - 1 = i
    OBVIOUS
  <2>2. OpensGroup(i + 1)
    BY <1>3, <2>1 DEF OpensGroup
  <2>3. i + 1 <= GroupOf(j)
    BY <2>1, <2>2, GroupIs
  <2> QED
    BY <1>1, <2>3
<1> QED
  BY <1>2, <1>3

LEMMA AsIfSerialKept ==
  ASSUME Types, AsIfSerial, [Next]_vars
  PROVE  AsIfSerial'
<1> USE DEF Types
<1>0. Calls = 1 .. Len(asked) /\ Len(asked) \in Nat
  BY CallsAreNumbered DEF CallTypes
<1>1. CASE UNCHANGED <<asked, state>>
  BY <1>1 DEF AsIfSerial, Calls, Started, Finished, Serial
<1>2. ASSUME NEW n \in Calls, NEW how \in State \ {"new"}, Becomes(n, how),
             state[n] \notin {"ok", "failed"},
             Started(n) \/ CanStart(n)
      PROVE  AsIfSerial'
  <2>1. /\ asked' = asked /\ Calls' = Calls
        /\ state' = [state EXCEPT ![n] = how]
    BY <1>2 DEF Becomes, Calls
  <2>2. \A k \in Calls : k # n => state'[k] = state[k]
    BY <2>1 DEF CallTypes
  <2> SUFFICES ASSUME NEW i \in Calls, NEW j \in Calls, i < j, Started(j)',
                      Serial(i) \/ Serial(j)
               PROVE  Finished(i)'
    BY <2>1 DEF AsIfSerial, Serial
  <2>3. Finished(i) => i # n /\ Finished(i)'
    BY <1>2, <2>2 DEF Finished
  <2>4. CASE Started(j)
    BY <2>3, <2>4 DEF AsIfSerial
  <2>5. CASE ~ Started(j)
    <3>1. j = n
      BY <2>2, <2>5 DEF Started
    <3>2. i \in 1 .. j - 1 /\ i \in Nat \ {0} /\ j \in Nat \ {0}
      BY <1>0
    <3>3. GroupOf(i) # GroupOf(j)
      BY <3>2, GroupsPart
    <3>4. Finished(i)
      BY <1>2, <2>5, <3>1, <3>2, <3>3 DEF CanStart
    <3> QED
      BY <2>3, <3>4
  <2> QED
    BY <2>4, <2>5
<1>3. CASE StopAtTop \/ Answer \/ HookRefusesAnswer \/ Retry \/ ModelFails \/ Expire \/ Cancel
  BY <1>1, <1>3 DEF StopAtTop, Answer, HookRefusesAnswer, Retry, ModelFails, Expire, Cancel, callVars
<1>4. ASSUME NEW over \in BOOLEAN, NEW summarized \in BOOLEAN, Send(over, summarized)
      PROVE  AsIfSerial'
  BY <1>1, <1>4 DEF Send, callVars
<1>5. ASSUME NEW calls \in Replies, Reply(calls) PROVE AsIfSerial'
  <2>1. asked' = calls /\ state' = [i \in DOMAIN calls |-> "new"]
    BY <1>5 DEF Reply
  <2>2. \A j \in Calls' : state'[j] = "new"
    BY <2>1 DEF Calls
  <2> QED
    BY <2>2 DEF AsIfSerial, Started
<1>6. CASE CloseStep
  <2>1. UNCHANGED <<asked, state>> \/ asked' = <<>>
    BY <1>6 DEF CloseStep, GuardStops, GoOn, callVars
  <2>2. CASE asked' = <<>>
    <3>1. Calls' = {}
      BY <2>2 DEF Calls
    <3> QED
      BY <3>1 DEF AsIfSerial
  <2> QED
    BY <1>1, <2>1, <2>2
<1>7. ASSUME NEW n \in Calls, CallStep(n) PROVE AsIfSerial'
  <2>1. CASE StartCall(n)
    <3>1. PICK how \in {"failed", "running", "waits"} : Becomes(n, how) /\ CanStart(n)
      BY <2>1 DEF StartCall
    <3>2. state[n] = "new"
      BY <3>1 DEF CanStart, Started
    <3> QED
      BY <1>2, <3>1, <3>2 DEF State
  <2>2. CASE HookBlocksCall(n)
    <3>1. Becomes(n, "failed") /\ CanStart(n) /\ state[n] = "new"
      BY <2>2 DEF HookBlocksCall, CanStart, Started
    <3> QED
      BY <1>2, <3>1 DEF State
  <2>3. CASE EnterGate(n) \/ LeaveGateQueue(n) \/ SubagentReports(n)
    <3>1. PICK how \in {"nested", "failed", "ok"} : Becomes(n, how)
      BY <2>3 DEF EnterGate, LeaveGateQueue, SubagentReports
    <3>2. state[n] \in {"waits", "nested"} /\ Started(n)
      BY <2>3 DEF EnterGate, LeaveGateQueue, SubagentReports, Started
    <3> QED
      BY <1>2, <3>1, <3>2 DEF State
  <2>4. ASSUME NEW how \in {"ok", "failed"}, EndCall(n, how) PROVE AsIfSerial'
    <3>1. Becomes(n, how) /\ state[n] = "running" /\ Started(n)
      BY <2>4 DEF EndCall, Started
    <3> QED
      BY <1>2, <3>1 DEF State
  <2>5. ASSUME NEW c \in Call, NestedCall(n, c) PROVE AsIfSerial'
    BY <1>1, <2>5 DEF NestedCall
  <2> QED
    BY <1>7, <2>1, <2>2, <2>3, <2>4, <2>5 DEF CallStep
<1> QED
  BY <1>1, <1>3, <1>4, <1>5, <1>6, <1>7 DEF Next, Loop, vars, callVars

-----------------------------------------------------------------------------
(* The window a turn begins with.                                          *)

LEMMA InitWindow ==
  ASSUME Init
  PROVE  WindowIs
<1> DEFINE e == Exchanges
           rules == System(0, "rules")
           request == User(0)
           r == <<rules>>
           u == <<request>>
           w == r \o e
           n == 2 * Earlier
<1>1. n \in Nat /\ Earlier \in Nat /\ 0 \in -Earlier .. MaxSteps
  BY StepsAre
<1>2. \A k \in 1 .. n :
        /\ e[k] \in Messages
        /\ e[k].role = "user" \/ (e[k].role = "assistant" /\ e[k].n = 0)
  <2> TAKE k \in 1 .. n
  <2> DEFINE i == (k + 1) \div 2
  <2>1. i \in Nat /\ i <= Earlier
    BY <1>1
  <2>2. -i \in -Earlier .. MaxSteps
    <3> HIDE DEF i
    <3> QED
      BY <2>1, StepsAre
  <2>3. e[k] = IF k % 2 = 1 THEN User(-i) ELSE Assistant(-i, 0)
    BY DEF Exchanges
  <2> HIDE DEF i, e
  <2>4. User(-i) \in Messages /\ Assistant(-i, 0) \in Messages
    <3>1. 0 \in Nat
      OBVIOUS
    <3> QED
      BY <2>2, <3>1, OtherMessages
  <2>5. User(-i).role = "user" /\ Assistant(-i, 0).role = "assistant" /\ Assistant(-i, 0).n = 0
    BY DEF User, Assistant, Message
  <2> QED
    BY <2>3, <2>4, <2>5
<1>3. e \in Seq(Messages) /\ Len(e) = n
  <2>1. DOMAIN e = 1 .. n /\ e \in [1 .. n -> Messages]
    <3>1. e = [k \in 1 .. n |-> e[k]]
      BY DEF Exchanges
    <3> HIDE DEF e, n
    <3>2. \A k \in 1 .. n : e[k] \in Messages
      BY <1>2
    <3> QED
      BY <3>1, <3>2
  <2> HIDE DEF e
  <2> QED
    BY <1>1, <2>1
<1>4. /\ rules \in Messages /\ rules.role = "system"
      /\ request \in Messages /\ request.role = "user"
  <2>1. 0 \in Nat
    OBVIOUS
  <2> QED
    BY <1>1, <2>1, SystemIsMessage, OtherMessages DEF System, User, Message
<1> HIDE DEF e, rules, request
<1>5. /\ r \in Seq(Messages) /\ Len(r) = 1 /\ r[1] = rules
      /\ u \in Seq(Messages) /\ Len(u) = 1 /\ u[1] = request
  BY <1>4
<1> HIDE DEF r, u
<1>6. /\ w \in Seq(Messages) /\ Len(w) = 1 + n
      /\ w[1] = rules /\ \A k \in 1 .. n : w[1 + k] = e[k]
  <2>0. /\ w \in Seq(Messages) /\ Len(w) = Len(r) + Len(e)
        /\ \A k \in 1 .. Len(r) + Len(e) : w[k] = IF k <= Len(r) THEN r[k] ELSE e[k - Len(r)]
    BY <1>3, <1>5, ConcatProperties
  <2> HIDE DEF w, n
  <2>1. /\ w \in Seq(Messages) /\ Len(w) = 1 + n
        /\ \A k \in 1 .. 1 + n : w[k] = IF k <= 1 THEN r[k] ELSE e[k - 1]
    BY <1>3, <1>5, <2>0
  <2>2. w[1] = rules
    BY <1>1, <1>5, <2>1
  <2>3. ASSUME NEW k \in 1 .. n PROVE w[1 + k] = e[k]
    <3>1. 1 + k \in 1 .. 1 + n /\ ~ (1 + k <= 1) /\ (1 + k) - 1 = k
      BY <1>1
    <3> QED
      BY <2>1, <3>1
  <2> QED
    BY <2>1, <2>2, <2>3
<1> DEFINE out == w \o u
<1> HIDE DEF w, n
<1>7. /\ out \in Seq(Messages) /\ Len(out) = 2 + n
      /\ \A k \in 1 .. 1 + n : out[k] = w[k]
      /\ out[2 + n] = request
  <2>0. /\ out \in Seq(Messages) /\ Len(out) = Len(w) + Len(u)
        /\ \A k \in 1 .. Len(w) + Len(u) : out[k] = IF k <= Len(w) THEN w[k] ELSE u[k - Len(w)]
    BY <1>5, <1>6, ConcatProperties
  <2> HIDE DEF out
  <2>1. Len(w) + Len(u) = 2 + n /\ Len(w) = 1 + n
    BY <1>1, <1>5, <1>6
  <2>2. \A k \in 1 .. 2 + n : out[k] = IF k <= 1 + n THEN w[k] ELSE u[k - (1 + n)]
    BY <2>0, <2>1
  <2>3. ASSUME NEW k \in 1 .. 1 + n PROVE out[k] = w[k]
    <3>1. k \in 1 .. 2 + n /\ k <= 1 + n
      BY <1>1
    <3> QED
      BY <2>2, <3>1
  <2>4. out[2 + n] = request
    <3>1. 2 + n \in 1 .. 2 + n /\ ~ (2 + n <= 1 + n) /\ (2 + n) - (1 + n) = 1
      BY <1>1
    <3> QED
      BY <1>5, <2>2, <3>1
  <2> QED
    BY <2>0, <2>1, <2>3, <2>4
<1> HIDE DEF out
<1>8. ASSUME NEW k \in 1 .. Len(out)
      PROVE  /\ out[k].role # "tool"
             /\ out[k].role = "assistant" => out[k].n = 0
  <2>1. CASE k = 1
    <3>1. out[k] = rules
      BY <1>1, <1>6, <1>7, <2>1
    <3> QED
      BY <1>4, <3>1
  <2>2. CASE k = 2 + n
    BY <1>4, <1>7, <2>2
  <2>3. CASE k # 1 /\ k # 2 + n
    <3>1. k - 1 \in 1 .. n /\ k \in 1 .. 1 + n /\ 1 + (k - 1) = k
      BY <1>1, <1>7, <2>3
    <3>2. out[k] = e[k - 1]
      BY <1>6, <1>7, <3>1
    <3> QED
      BY <1>2, <3>1, <3>2 DEF n
  <2> QED
    BY <2>1, <2>2, <2>3
<1>9. Whole(out)
  <2>1. ASSUME NEW k \in 1 .. Len(out), out[k].role = "assistant"
        PROVE  /\ out[k].n <= MaxCalls
               /\ 1 .. out[k].n = {}
    BY <1>8, <2>1, MostCalls
  <2> QED
    BY <1>8, <2>1 DEF Whole
<1>10. Asks(out)
  <2>1. 2 + n \in 1 .. Len(out) /\ (2 + n) + 1 .. Len(out) = {}
    BY <1>1, <1>7
  <2> QED
    BY <1>7, <2>1 DEF Asks, request
<1>11. Len(out) >= 1 /\ out[1] = rules
  BY <1>1, <1>6, <1>7
<1>12. Sound(out)
  BY <1>7, <1>9, <1>10, <1>11 DEF Sound, rules
<1>13. window = out /\ pc = "top"
  BY DEF Init, out, w, r, u, e, rules, request
<1> QED
  BY <1>7, <1>12, <1>13 DEF WindowIs

-----------------------------------------------------------------------------
(* The theorems.                                                           *)

LEMMA Typed == Spec => [](Types /\ GateHolds)
<1>1. Init => Types /\ GateHolds
  BY InitTypes, InitWindow DEF Types
<1>2. Types /\ GateHolds /\ [Next]_vars => Types' /\ GateHolds'
  BY TurnTypesKept, CallTypesKept, GateKept, GuardTypesKept, FlagTypesKept, WindowKept DEF Types
<1> QED
  BY <1>1, <1>2, PTL DEF Spec

\* Every variable holds what its type says, and the subagents that run at once are no
\* more than the gate lets in, for any replies, budgets and bounds (Runner.Run in
\* runner.go, Runner.Spawn in subagent/runner.go).
THEOREM TypesHold == Spec => []TypeOK
<1>1. Types /\ GateHolds => TypeOK
  <2> SUFFICES ASSUME Types, GateHolds PROVE TypeOK
    OBVIOUS
  <2>1. ASSUME NEW i \in DOMAIN window
        PROVE  /\ window[i].role \in {"system", "user", "assistant", "tool"}
               /\ window[i].step \in -Earlier .. MaxSteps
    <3>1. window \in Seq(Messages)
      BY DEF Types, WindowIs
    <3>2. window[i] \in Messages
      BY <3>1, LenProperties, ElementOfSeq
    <3> QED
      BY <3>2, MessagesAre DEF Roles
  <2>2. TurnTypes /\ CallTypes /\ GuardTypes /\ FlagTypes
    BY DEF Types
  <2> QED
    BY <2>1, <2>2 DEF TypeOK, TurnTypes, CallTypes, GuardTypes, FlagTypes, GateHolds, Spoken
<1> QED
  BY <1>1, Typed, PTL

\* A turn the loop guard ends is one whose model was told so in a window it was sent and
\* has made no progress since, whatever the thresholds are and however often the window
\* was condensed in between (progressGuard.verdict in progress.go).
THEOREM NoStopUnwarned == Spec => []StopIsWarned
<1>1. Init => WarningsAreTold /\ StopIsWarned
  <2> SUFFICES ASSUME Init PROVE WarningsAreTold /\ StopIsWarned
    OBVIOUS
  <2>1. guard.warned = {} /\ guard.idleWarned = "no" /\ outcome = None
    BY DEF Init, NewGuard
  <2> QED
    BY <2>1, CallsAre DEF WarningsAreTold, StopIsWarned
<1>2. Types /\ WarningsAreTold /\ StopIsWarned /\ [Next]_vars => WarningsAreTold' /\ StopIsWarned'
  BY WarningsKept, StopIsWarnedKept
<1> QED
  BY <1>1, <1>2, Typed, PTL DEF Spec

\* However often a turn is condensed, the window of its next model call has the rules
\* first, the request and each reply with its results, and where it was over its budget
\* it has no more messages than its bound (Manager.compress in context.go).
THEOREM WindowsAreSendable == Spec => []WindowIsSendable
<1>1. Types => WindowIsSendable
  <2> SUFFICES ASSUME Types, pc = "model"
               PROVE  /\ window[1] = System(0, "rules") /\ User(0) \in Range(window)
                      /\ ResultsFollowReplies(window)
                      /\ squeezed => Len(window) <= HeadLength + 3 + Kept + MaxCalls
    BY DEF WindowIsSendable
  <2>1. /\ Sound(window)
        /\ squeezed => Len(window) <= HeadLength + 3 + Kept + MaxCalls
    BY DEF Types, WindowIs
  <2>2. DOMAIN window = 1 .. Len(window)
    BY <2>1, LenProperties DEF Sound
  <2>3. window[1] = System(0, "rules") /\ User(0) \in Range(window)
    <3>1. PICK u \in 1 .. Len(window) : window[u] = User(0)
      BY <2>1 DEF Sound, Asks
    <3> QED
      BY <2>1, <2>2, <3>1 DEF Sound, Range
  <2>4. ResultsFollowReplies(window)
    <3> SUFFICES ASSUME NEW i \in 1 .. Len(window)
                 PROVE  /\ window[i].role = "tool" =>
                             LET k == i - window[i].n
                             IN  /\ k >= 1 /\ window[k].role = "assistant"
                                 /\ window[k].step = window[i].step
                        /\ window[i].role = "assistant" =>
                             \A n \in 1 .. window[i].n :
                               /\ i + n <= Len(window)
                               /\ window[i + n] = ToolResult(window[i].step, n)
      BY <2>2 DEF ResultsFollowReplies
    <3>1. ASSUME window[i].role = "tool"
          PROVE  LET k == i - window[i].n
                 IN  /\ k >= 1 /\ window[k].role = "assistant"
                     /\ window[k].step = window[i].step
      <4>1. window[i].n \in 1 .. i - 1
        BY <2>1, <3>1 DEF Sound, Whole
      <4>2. i - window[i].n >= 1
        BY <4>1
      <4> QED
        BY <2>1, <3>1, <4>2 DEF Sound, Whole
    <3>2. ASSUME window[i].role = "assistant"
          PROVE  \A n \in 1 .. window[i].n :
                   /\ i + n <= Len(window)
                   /\ window[i + n] = ToolResult(window[i].step, n)
      BY <2>1, <3>2 DEF Sound, Whole
    <3> QED
      BY <3>1, <3>2
  <2> QED
    BY <2>1, <2>3, <2>4
<1> QED
  BY <1>1, Typed, PTL

\* A call that must run alone starts when those before it have ended, and those after it
\* when it has, in a reply of any length and under any bound on what runs at once
\* (Segment in tool/concurrency.go).
THEOREM CallsAreAsIfSerial == Spec => []AsIfSerial
<1>1. Init => AsIfSerial
  <2> SUFFICES ASSUME Init PROVE AsIfSerial
    OBVIOUS
  <2>1. Calls = {}
    BY DEF Init, Calls
  <2> QED
    BY <2>1 DEF AsIfSerial
<1>2. Types /\ AsIfSerial /\ [Next]_vars => AsIfSerial'
  BY AsIfSerialKept
<1> QED
  BY <1>1, <1>2, Typed, PTL DEF Spec

=============================================================================
