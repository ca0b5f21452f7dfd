------------------------------- MODULE Window -------------------------------
(***************************************************************************)
(* The messages a turn sends to the model, and how they are condensed      *)
(* (compress in internal/context/context.go, leadingSystem in budget.go,   *)
(* withLedger in progress.go of internal/chat).                            *)
(*                                                                         *)
(* A message is its role and what tells it from the others: the step it is *)
(* of, the number n of an assistant's calls or of a result among them, and *)
(* what a system message is about.                                         *)
(***************************************************************************)
EXTENDS Integers, Sequences, FiniteSets, SequencesExt, FiniteSetsExt

CONSTANTS KeepRecent     \* how many of the latest messages are kept

ASSUME WindowAssumption == KeepRecent \in Nat

Message(role, step, n, about) == [role |-> role, step |-> step, n |-> n, about |-> about]
System(step, about) == Message("system", step, 0, about)
User(step) == Message("user", step, 0, "request")
Assistant(step, n) == Message("assistant", step, n, "reply")
ToolResult(step, n) == Message("tool", step, n, "result")

LeadingSystem(msgs) ==
  LET others == {i \in DOMAIN msgs : msgs[i].role # "system"}
  IN  IF others = {} THEN Len(msgs) ELSE Min(others) - 1

Kept == IF KeepRecent <= 0 THEN 1 ELSE KeepRecent

\* Mutant of KeptFrom: the boundary falls inside an exchange.
KeptFromBoundary(rest) == Max({1, Len(rest) - Kept + 1})

\* Where the kept tail of rest begins: its last Kept messages, widened while it opens
\* with a tool result. (No assistant message is in the head, so that such a result is
\* always without its call there.)
KeptFrom(rest) ==
  Max({1} \cup {k \in 1 .. Len(rest) - Kept + 1 : rest[k].role # "tool"})

LastUser(msgs) == Max({0} \cup {k \in DOMAIN msgs : msgs[k].role = "user"})

\* compress over its budget, pinning head messages and the last user message of the
\* middle. The summarizer may have nothing to say of the middle.
Condense(msgs, head, summarized) ==
  LET rest == SubSeq(msgs, head + 1, Len(msgs))
      from == KeptFrom(rest)
      middle == SubSeq(rest, 1, from - 1)
      pin == LastUser(middle)
      folded == IF pin = 0 THEN middle ELSE RemoveAt(middle, pin)
      summary == IF folded # <<>> /\ summarized THEN <<System(0, "summary")>> ELSE <<>>
      pinned == IF pin = 0 THEN <<>> ELSE <<middle[pin]>>
  IN  IF Kept >= Len(rest) THEN msgs
      ELSE SubSeq(msgs, 1, head) \o summary \o pinned \o SubSeq(rest, from, Len(rest))

WithLedger(msgs, head) ==
  SubSeq(msgs, 1, head) \o <<System(0, "ledger")>> \o SubSeq(msgs, head + 1, Len(msgs))

\* The window of the next model call: the ledger goes back in when something was folded.
Condensed(msgs, head, summarized) ==
  LET out == Condense(msgs, head, summarized)
  IN  IF out = msgs THEN msgs ELSE WithLedger(out, head)
=============================================================================
