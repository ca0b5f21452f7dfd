-------------------------- MODULE ClaudeCodeProofs --------------------------
(***************************************************************************)
(* Theorems about module ClaudeCode, for any sets of requests, any         *)
(* settings files and any number of hooks in them.                         *)
(*                                                                         *)
(* What the hooks say together is a function computed over a list of any   *)
(* length.  That it exists, and what it comes to, is shown by the least    *)
(* number of hooks for which it would not be so.                           *)
(***************************************************************************)
EXTENDS ClaudeCode, FiniteSetTheorems, WellFoundedInduction, TLAPS

(* Counting up to the number of hooks.                                     *)

\* Among some of the numbers up to m there is a least one.
LEMMA LeastUpTo ==
  ASSUME NEW m \in Nat, NEW S \in SUBSET (0 .. m), S # {}
  PROVE  \E x \in S : \A y \in S : x <= y
<1> DEFINE Upto(x) == {y \in S : y <= x}
           Sets == {Upto(x) : x \in S}
<1>0. IsFiniteSet(S)
  <2>1. S \in SUBSET Nat /\ \A x \in S : x <= m
    OBVIOUS
  <2> QED
    BY <2>1, FS_BoundedSetOfNaturals
<1>1. Sets \subseteq FiniteSubsetsOf(S) /\ Sets # {}
  <2>1. \A x \in S : Upto(x) \subseteq S /\ IsFiniteSet(Upto(x))
    BY <1>0, FS_Subset
  <2> QED
    BY <2>1 DEF FiniteSubsetsOf
<1>2. IsWellFoundedOn(StrictSubsetOrdering(S), FiniteSubsetsOf(S))
  BY FS_StrictSubsetOrderingWellFounded
<1> HIDE DEF Sets
<1>3. PICK d \in Sets : \A e \in Sets : <<e, d>> \notin StrictSubsetOrdering(S)
  BY <1>1, <1>2, WFMin
<1>4. PICK x \in S : d = Upto(x)
  BY DEF Sets
<1>5. ASSUME NEW y \in S, ~ (x <= y) PROVE FALSE
  <2>1. x \in Nat /\ y \in Nat /\ y < x
    BY <1>5
  <2>2. Upto(y) \subseteq Upto(x)
    <3>1. \A z \in S : z <= y => z <= x
      BY <2>1
    <3> QED
      BY <3>1
  <2>3. x \in Upto(x) /\ x \notin Upto(y)
    <3>1. ~ (x <= y) /\ x <= x
      BY <2>1
    <3> QED
      BY <3>1
  <2>4. <<Upto(y), Upto(x)>> \in StrictSubsetOrdering(S)
    BY <2>2, <2>3 DEF StrictSubsetOrdering
  <2>5. Upto(y) \in Sets
    BY DEF Sets
  <2> QED
    BY <1>3, <1>4, <2>4, <2>5
<1> QED
  BY <1>5

\* What holds of 0, and of a number if of the one before it, holds of all up to m.
LEMMA AllUpTo ==
  ASSUME NEW m \in Nat, NEW S \in SUBSET (0 .. m), 0 \in S,
         \A n \in 1 .. m : n - 1 \in S => n \in S
  PROVE  S = 0 .. m
<1> DEFINE Rest == (0 .. m) \ S
<1>1. SUFFICES ASSUME Rest # {} PROVE FALSE
  <2>1. Rest = {} => \A x \in 0 .. m : x \in S
    OBVIOUS
  <2> QED
    BY <2>1
<1>2. PICK x \in Rest : \A y \in Rest : x <= y
  <2>1. Rest \in SUBSET (0 .. m)
    OBVIOUS
  <2> HIDE DEF Rest
  <2> QED
    BY <1>1, <2>1, LeastUpTo
<1>3. x \in 0 .. m /\ x # 0 /\ x \notin S
  OBVIOUS
<1>4. x \in 1 .. m /\ x - 1 \in 0 .. m /\ ~ (x <= x - 1)
  BY <1>3, SMT
<1>5. x - 1 \in S
  BY <1>2, <1>4
<1> QED
  BY <1>3, <1>4, <1>5

-----------------------------------------------------------------------------
(* The verdict.                                                            *)

\* The step of the recursion, as a function of what came of the fewer.
Step(outs, v) ==
  [n \in 0 .. Len(outs) |-> IF n = 0 THEN Nobody ELSE Judge(v[n - 1], n, outs[n])]

\* There is a verdict on every list of outcomes, and it is that of all but the last one
\* with the last one judged.
LEMMA VerdictIsDefined ==
  ASSUME NEW X, NEW outs \in Seq(X)
  PROVE  VerdictsOf(outs) = Step(outs, VerdictsOf(outs))
<1> DEFINE N == Len(outs)
           Good(g, m) == \A n \in 0 .. m :
             g[n] = IF n = 0 THEN Nobody ELSE Judge(g[n - 1], n, outs[n])
           S == {m \in 0 .. N : \E g : Good(g, m)}
<1>0. N \in Nat
  OBVIOUS
<1>1. 0 \in S
  <2>1. \A n \in 0 .. 0 : n = 0
    OBVIOUS
  <2> DEFINE g == [n \in {0} |-> Nobody]
  <2>2. g[0] = Nobody
    OBVIOUS
  <2>3. Good(g, 0)
    <3> HIDE DEF g
    <3> QED
      BY <2>1, <2>2
  <2>4. 0 \in 0 .. N
    BY <1>0
  <2> HIDE DEF g, Good, N
  <2> QED
    BY <2>3, <2>4
<1>2. ASSUME NEW n \in 1 .. N, n - 1 \in S PROVE n \in S
  <2>1. PICK g : Good(g, n - 1)
    BY <1>2
  <2> DEFINE h == [k \in 0 .. n |-> IF k = n THEN Judge(g[n - 1], n, outs[n]) ELSE g[k]]
  <2>2. n \in Nat /\ n # 0 /\ n - 1 \in 0 .. n /\ n - 1 # n
    BY <1>0
  <2>3. h[n] = Judge(h[n - 1], n, outs[n])
    <3>1. h[n - 1] = g[n - 1] /\ h[n] = Judge(g[n - 1], n, outs[n])
      BY <2>2
    <3> QED
      BY <3>1
  <2>4. ASSUME NEW k \in 0 .. n, k # n
        PROVE  h[k] = IF k = 0 THEN Nobody ELSE Judge(h[k - 1], k, outs[k])
    <3>1. k \in 0 .. n - 1 /\ h[k] = g[k]
      BY <2>2, <2>4
    <3>2. k # 0 => (k - 1 \in 0 .. n /\ k - 1 # n)
      BY <2>2, <2>4
    <3>3. k # 0 => h[k - 1] = g[k - 1]
      BY <3>2
    <3> HIDE DEF h
    <3> QED
      BY <2>1, <3>1, <3>3
  <2>5. Good(h, n)
    <3> HIDE DEF h
    <3> QED
      BY <2>2, <2>3, <2>4
  <2> HIDE DEF h, Good
  <2> QED
    BY <2>5, <1>0
<1>3. S = 0 .. N
  <2>1. S \in SUBSET (0 .. N)
    OBVIOUS
  <2> HIDE DEF S, N
  <2> QED
    BY <1>0, <1>1, <1>2, <2>1, AllUpTo
<1>4. PICK g : Good(g, N)
  <2>1. N \in S
    BY <1>3, <1>0
  <2> QED
    BY <2>1
<1> DEFINE f == [n \in 0 .. N |-> g[n]]
<1>5. f = Step(outs, f)
  <2>1. \A n \in 0 .. N : f[n] = IF n = 0 THEN Nobody ELSE Judge(f[n - 1], n, outs[n])
    <3>1. \A n \in 0 .. N : f[n] = g[n]
      OBVIOUS
    <3>2. \A n \in 0 .. N : n # 0 => n - 1 \in 0 .. N
      BY <1>0
    <3> HIDE DEF f
    <3> QED
      BY <1>4, <3>1, <3>2
  <2>2. f = [n \in 0 .. N |-> f[n]]
    OBVIOUS
  <2> HIDE DEF f
  <2> QED
    BY <2>1, <2>2 DEF Step
<1>6. VerdictsOf(outs) = CHOOSE v : v = Step(outs, v)
  BY DEF VerdictsOf, Step
<1> HIDE DEF f
<1> QED
  BY <1>5, <1>6

\* The handlers among the first n that ran.
Ran(outs, n) == {k \in 1 .. n : outs[k].ran}

Verdict(n) == [ran : BOOLEAN, block : BOOLEAN, permission : Permission, input : 0 .. n,
               continue : BOOLEAN]

\* The verdict v is the strictest of what the first n handlers said.
IsStrictest(outs, n, v) ==
  /\ v.ran <=> Ran(outs, n) # {}
  /\ v.block <=> \E k \in Ran(outs, n) : outs[k].block
  /\ v.continue <=> \A k \in Ran(outs, n) : outs[k].continue
  /\ \A k \in Ran(outs, n) : DecisionRank(outs[k].permission) <= DecisionRank(v.permission)
  /\ v.permission # "none" => \E k \in Ran(outs, n) : outs[k].permission = v.permission
  /\ v.input # NoInput =>
       /\ v.permission \in {"allow", "ask"}
       /\ outs[v.input].permission \in {"allow", "ask"} /\ outs[v.input].input

\* A refusal is a block too: what parseOutput and applyOutput make of a reply.
Consistent(out) == out \in Outcome /\ (out.permission = "deny" => out.block)

LEMMA RepliesAreConsistent ==
  ASSUME NEW e \in SupportedEvents, NEW r \in Reply
  PROVE  /\ Consistent(ApplyOutput(e, r))
         /\ (r.exit = "block" /\ e \in Blockable) => ApplyOutput(e, r).ran /\ ApplyOutput(e, r).block
<1> DEFINE said == ParseOutput(r.says)
<1>1. ASSUME NEW s \in Saying PROVE Consistent(ParseOutput(s)) /\ ParseOutput(s).ran
  <2> DEFINE p == IF s.permission # "none" THEN s.permission
                  ELSE IF s.top \in {"allow", "deny"} THEN s.top ELSE "none"
  <2>1. p \in Permission
    BY DEF Permission, Saying
  <2>2. s.input \in BOOLEAN /\ s.continue \in BOOLEAN
    BY DEF Saying
  <2>3. ParseOutput(s) = [ran |-> TRUE, block |-> s.top \in {"block", "deny"} \/ p = "deny",
                          permission |-> p, input |-> s.input, continue |-> s.continue]
    BY DEF ParseOutput
  <2> DEFINE o == ParseOutput(s)
  <2> HIDE DEF p
  <2>4. o \in Outcome /\ o.ran
    BY <2>1, <2>2, <2>3 DEF Outcome
  <2>5. o.permission = "deny" => o.block
    <3> DEFINE b == s.top \in {"block", "deny"} \/ p = "deny"
    <3>1. p = "deny" => b
      OBVIOUS
    <3>2. o = [ran |-> TRUE, block |-> b, permission |-> p, input |-> s.input,
               continue |-> s.continue]
      BY <2>3
    <3> HIDE DEF b, o
    <3>3. o.permission = p /\ o.block = b
      BY <3>2
    <3> QED
      BY <3>1, <3>3
  <2> QED
    BY <2>4, <2>5 DEF Consistent
<1>2. Silence \in Saying
  BY DEF Silence, Saying, Permission
<1>3. r.says \in Saying /\ r.exit \in {"ok", "block", "error", "lost", "skipped"}
  BY DEF Reply
<1>4. Consistent(said) /\ said.ran
  BY <1>1, <1>3
<1>5. Consistent(ParseOutput(Silence)) /\ ParseOutput(Silence).permission = "none"
  <2>1. ParseOutput(Silence).permission = "none"
    BY DEF ParseOutput, Silence
  <2> QED
    BY <1>1, <1>2, <2>1
<1> HIDE DEF said
<1>6. CASE r.exit = "ok"
  <2>1. ApplyOutput(e, r) = said
    BY <1>6 DEF ApplyOutput, said
  <2> QED
    BY <1>4, <1>6, <2>1
<1>7. CASE r.exit = "block"
  <2>1. ApplyOutput(e, r) = IF e \in Blockable
                            THEN [said EXCEPT !.block = TRUE, !.permission = "deny"] ELSE said
    BY <1>7 DEF ApplyOutput, said
  <2>2. CASE e \in Blockable
    <3>1. said \in Outcome /\ "deny" \in Permission
      BY <1>4 DEF Consistent, Permission
    <3>2. ApplyOutput(e, r) = [said EXCEPT !.block = TRUE, !.permission = "deny"]
      BY <2>1, <2>2
    <3>3. /\ ApplyOutput(e, r) \in Outcome /\ ApplyOutput(e, r).block
          /\ ApplyOutput(e, r).ran = said.ran
      BY <3>1, <3>2 DEF Outcome
    <3> QED
      BY <1>4, <3>3 DEF Consistent
  <2>3. CASE e \notin Blockable
    BY <1>4, <2>1, <2>3
  <2> QED
    BY <2>2, <2>3
<1>8. CASE r.exit \notin {"ok", "block"}
  <2>1. ApplyOutput(e, r) = [ParseOutput(Silence) EXCEPT !.ran = r.exit # "skipped"]
    BY <1>8 DEF ApplyOutput
  <2> DEFINE o == ParseOutput(Silence)
  <2>2. o \in Outcome /\ o.permission = "none"
    BY <1>5 DEF Consistent
  <2> HIDE DEF o
  <2>3. [o EXCEPT !.ran = r.exit # "skipped"] \in Outcome
    BY <2>2 DEF Outcome
  <2>4. [o EXCEPT !.ran = r.exit # "skipped"].permission = "none"
    BY <2>2 DEF Outcome
  <2> QED
    BY <1>8, <2>1, <2>3, <2>4 DEF Consistent, o
<1> QED
  BY <1>6, <1>7, <1>8

\* One more outcome keeps the verdict the strictest.
LEMMA JudgeKeepsStrictest ==
  ASSUME NEW X, NEW outs \in Seq(X), NEW n \in 1 .. Len(outs),
         \A k \in 1 .. n : Consistent(outs[k]),
         NEW v \in Verdict(n - 1), IsStrictest(outs, n - 1, v)
  PROVE  /\ Judge(v, n, outs[n]) \in Verdict(n)
         /\ IsStrictest(outs, n, Judge(v, n, outs[n]))
<1> DEFINE out == outs[n]
<1>0. n \in Nat /\ n # 0 /\ 0 .. n - 1 \subseteq 0 .. n /\ n \in 0 .. n /\ 0 \in 0 .. n
  OBVIOUS
<1>1. out \in Outcome /\ (out.permission = "deny" => out.block)
  BY DEF Consistent
<1>2. Ran(outs, n) = IF out.ran THEN Ran(outs, n - 1) \cup {n} ELSE Ran(outs, n - 1)
  BY DEF Ran
<1>3. /\ DecisionRank("none") = 0 /\ DecisionRank("allow") = 1 /\ DecisionRank("ask") = 2
      /\ DecisionRank("defer") = 3 /\ DecisionRank("deny") = 4
  BY DEF DecisionRank
<1>4. v \in [ran : BOOLEAN, block : BOOLEAN, permission : Permission, input : 0 .. n - 1,
             continue : BOOLEAN]
  BY DEF Verdict
<1>5. /\ v.ran \in BOOLEAN /\ v.block \in BOOLEAN /\ v.continue \in BOOLEAN
      /\ v.permission \in {"none", "allow", "ask", "defer", "deny"} /\ v.input \in 0 .. n
      /\ out.ran \in BOOLEAN /\ out.block \in BOOLEAN /\ out.continue \in BOOLEAN
      /\ out.input \in BOOLEAN
      /\ out.permission \in {"none", "allow", "ask", "defer", "deny"}
  BY <1>0, <1>1, <1>4 DEF Outcome, Permission
\* A verdict that hears the last handler, whose permission and input are to be settled.
<1>6. ASSUME NEW p \in Permission, NEW i \in 0 .. n, NEW b \in BOOLEAN, out.ran,
             b <=> v.block \/ out.block,
             DecisionRank(v.permission) <= DecisionRank(p),
             DecisionRank(out.permission) <= DecisionRank(p),
             p # "none" => p \in {v.permission, out.permission},
             i # NoInput =>
               /\ p \in {"allow", "ask"}
               /\ i = v.input \/ (i = n /\ out.permission = p /\ out.input)
      PROVE  LET w == [ran |-> TRUE, block |-> b, permission |-> p, input |-> i,
                       continue |-> v.continue /\ out.continue]
             IN  w \in Verdict(n) /\ IsStrictest(outs, n, w)
  <2> DEFINE w == [ran |-> TRUE, block |-> b, permission |-> p, input |-> i,
                   continue |-> v.continue /\ out.continue]
  <2>1. w \in Verdict(n)
    BY <1>5 DEF Verdict
  <2>2. /\ w.ran = TRUE /\ w.block = b /\ w.permission = p /\ w.input = i
        /\ w.continue = (v.continue /\ out.continue)
    OBVIOUS
  <2> HIDE DEF w
  <2>3. Ran(outs, n) = Ran(outs, n - 1) \cup {n}
    BY <1>2, <1>6
  <2>4. w.block <=> \E k \in Ran(outs, n) : outs[k].block
    BY <1>5, <1>6, <2>2, <2>3 DEF IsStrictest
  <2>5. w.continue <=> \A k \in Ran(outs, n) : outs[k].continue
    BY <1>5, <1>6, <2>2, <2>3 DEF IsStrictest
  <2>6. ASSUME NEW k \in Ran(outs, n)
        PROVE  DecisionRank(outs[k].permission) <= DecisionRank(w.permission)
    <3>1. CASE k = n
      BY <1>6, <2>2, <3>1
    <3>2. CASE k \in Ran(outs, n - 1)
      <4>1. DecisionRank(outs[k].permission) <= DecisionRank(v.permission)
        BY <3>2 DEF IsStrictest
      <4>2. outs[k].permission \in Permission
        <5>1. k \in 1 .. n
          BY <1>0, <3>2 DEF Ran
        <5> QED
          BY <5>1 DEF Consistent, Outcome
      <4>3. \A q \in Permission : DecisionRank(q) \in Nat
        BY <1>3 DEF Permission
      <4>4. v.permission \in Permission
        BY <1>5 DEF Permission
      <4> QED
        BY <1>6, <2>2, <4>1, <4>2, <4>3, <4>4
    <3> QED
      BY <2>3, <3>1, <3>2
  <2>7. w.permission # "none" => \E k \in Ran(outs, n) : outs[k].permission = w.permission
    <3>1. ASSUME p # "none", p = out.permission PROVE \E k \in Ran(outs, n) : outs[k].permission = p
      BY <2>3, <3>1
    <3>2. ASSUME p # "none", p = v.permission PROVE \E k \in Ran(outs, n) : outs[k].permission = p
      BY <2>3, <3>2 DEF IsStrictest
    <3> QED
      BY <1>6, <2>2, <3>1, <3>2
  <2>8. w.input # NoInput =>
           /\ w.permission \in {"allow", "ask"}
           /\ outs[w.input].permission \in {"allow", "ask"} /\ outs[w.input].input
    <3>1. v.input # NoInput =>
             outs[v.input].permission \in {"allow", "ask"} /\ outs[v.input].input
      BY DEF IsStrictest
    <3> QED
      BY <1>6, <2>2, <3>1
  <2>9. w.ran <=> Ran(outs, n) # {}
    BY <2>2, <2>3
  <2>10. IsStrictest(outs, n, w)
    BY <2>4, <2>5, <2>6, <2>7, <2>8, <2>9 DEF IsStrictest
  <2> QED
    BY <2>1, <2>10 DEF w
<1>7. IsStrictest(outs, n - 1, v)
  OBVIOUS
<1> USE DEF NoInput
<1> DEFINE c == v.continue /\ out.continue
           b == v.block \/ out.block
           w == Judge(v, n, out)
<1>10. CASE ~ out.ran
  <2>1. w = v
    BY <1>10 DEF Judge
  <2>2. v \in Verdict(n)
    BY <1>0, <1>4 DEF Verdict
  <2>3. Ran(outs, n) = Ran(outs, n - 1)
    BY <1>2, <1>10
  <2>4. IsStrictest(outs, n, v)
    BY <1>7, <2>3 DEF IsStrictest
  <2> QED
    BY <2>1, <2>2, <2>4
<1>11. CASE out.ran /\ out.permission = "deny"
  <2>1. w = [ran |-> TRUE, block |-> TRUE, permission |-> "deny", input |-> NoInput, continue |-> c]
    BY <1>4, <1>11 DEF Judge
  <2>2. TRUE <=> v.block \/ out.block
    BY <1>1, <1>11
  <2>3. "deny" \in Permission
    BY DEF Permission
  <2>4. DecisionRank(v.permission) <= DecisionRank("deny")
    BY <1>3, <1>5
  <2>5. DecisionRank(out.permission) <= DecisionRank("deny")
    BY <1>3, <1>11
  <2>6. TRUE \in BOOLEAN /\ NoInput \in 0 .. n
    BY <1>0
  <2> QED
    BY <1>6, <1>11, <2>1, <2>2, <2>3, <2>4, <2>5, <2>6
<1>12. CASE /\ out.ran /\ out.permission # "deny"
            /\ DecisionRank(out.permission) > DecisionRank(v.permission)
  <2> DEFINE i == IF out.permission = "defer" THEN NoInput ELSE IF out.input THEN n ELSE v.input
  <2>1. w = [ran |-> TRUE, block |-> b, permission |-> out.permission, input |-> i, continue |-> c]
    BY <1>4, <1>12 DEF Judge
  <2>2. i \in 0 .. n
    BY <1>0, <1>5
  <2>3. i # NoInput => out.permission \in {"allow", "ask"}
    BY <1>3, <1>5, <1>12
  <2>4. i # NoInput => i = v.input \/ (i = n /\ out.input)
    OBVIOUS
  <2>5. DecisionRank(v.permission) <= DecisionRank(out.permission)
    BY <1>3, <1>5, <1>12
  <2>6. DecisionRank(out.permission) <= DecisionRank(out.permission)
    BY <1>3, <1>5
  <2>7. out.permission \in Permission
    BY <1>5 DEF Permission
  <2> HIDE DEF i
  <2> QED
    BY <1>6, <1>12, <2>1, <2>2, <2>3, <2>4, <2>5, <2>6, <2>7
<1>13. CASE /\ out.ran /\ out.permission # "deny"
            /\ ~ (DecisionRank(out.permission) > DecisionRank(v.permission))
  <2>1. w = [ran |-> TRUE, block |-> b, permission |-> v.permission, input |-> v.input,
             continue |-> c]
    BY <1>4, <1>13 DEF Judge
  <2>2. DecisionRank(out.permission) <= DecisionRank(v.permission)
    BY <1>3, <1>5, <1>13
  <2>3. DecisionRank(v.permission) <= DecisionRank(v.permission)
    BY <1>3, <1>5
  <2>4. v.permission \in Permission
    BY <1>5 DEF Permission
  <2>5. v.input # NoInput => v.permission \in {"allow", "ask"}
    BY <1>7 DEF IsStrictest
  <2> QED
    BY <1>5, <1>6, <1>13, <2>1, <2>2, <2>3, <2>4, <2>5
<1> QED
  BY <1>10, <1>11, <1>12, <1>13

\* What aggregate returns is the strictest of all, however many handlers there are.
LEMMA AggregateIsStrictest ==
  ASSUME NEW X, NEW outs \in Seq(X), \A k \in 1 .. Len(outs) : Consistent(outs[k])
  PROVE  /\ Aggregate(outs) \in Verdict(Len(outs))
         /\ IsStrictest(outs, Len(outs), Aggregate(outs))
<1> DEFINE N == Len(outs)
           v == VerdictsOf(outs)
           S == {m \in 0 .. N : v[m] \in Verdict(m) /\ IsStrictest(outs, m, v[m])}
<1>1. N \in Nat /\ S \in SUBSET (0 .. N) /\ 0 \in 0 .. N
  OBVIOUS
<1>2. \A m \in 0 .. N : v[m] = IF m = 0 THEN Nobody ELSE Judge(v[m - 1], m, outs[m])
  <2>1. v = Step(outs, v)
    BY VerdictIsDefined
  <2> HIDE DEF v
  <2>2. \A m \in 0 .. N : Step(outs, v)[m] = IF m = 0 THEN Nobody
                                            ELSE Judge(v[m - 1], m, outs[m])
    BY DEF Step
  <2> QED
    BY <2>1, <2>2
<1>3. 0 \in S
  <2>1. v[0] = Nobody
    BY <1>1, <1>2
  <2>2. Nobody \in Verdict(0)
    BY DEF Nobody, Verdict, Permission, NoInput
  <2>3. Ran(outs, 0) = {}
    BY DEF Ran
  <2>4. IsStrictest(outs, 0, Nobody)
    BY <2>3 DEF IsStrictest, Nobody
  <2> HIDE DEF v
  <2> QED
    BY <1>1, <2>1, <2>2, <2>4
<1>4. ASSUME NEW m \in 1 .. N, m - 1 \in S PROVE m \in S
  <2> HIDE DEF v
  <2>1. v[m - 1] \in Verdict(m - 1) /\ IsStrictest(outs, m - 1, v[m - 1])
    BY <1>4
  <2>2. v[m] = Judge(v[m - 1], m, outs[m]) /\ m \in 0 .. N
    BY <1>1, <1>2
  <2>3. \A k \in 1 .. m : Consistent(outs[k])
    BY <1>1
  <2>4. v[m] \in Verdict(m) /\ IsStrictest(outs, m, v[m])
    BY <2>1, <2>2, <2>3, JudgeKeepsStrictest
  <2> QED
    BY <2>2, <2>4
<1>5. S = 0 .. N
  <2> HIDE DEF S, N
  <2> QED
    BY <1>1, <1>3, <1>4, AllUpTo
<1>6. N \in S
  BY <1>1, <1>5
<1> HIDE DEF v
<1>7. v[N] \in Verdict(N) /\ IsStrictest(outs, N, v[N])
  BY <1>6
<1> QED
  BY <1>7 DEF Aggregate, v

-----------------------------------------------------------------------------
(* The invariant.                                                          *)

\* The replies are a list of what its handlers have answered so far.
RepliesAreLists == replies \in [Caller -> Seq(Replies \cup {None})]

\* A verdict is given when all have answered, and it is on what they answered.
VerdictIsOfReplies ==
  /\ verdict = [c \in Caller |-> verdict[c]]
  /\ \A c \in Caller : pc[c] = "judged" /\ running[c] # None =>
        /\ \A n \in DOMAIN replies[c] : replies[c][n] # None
        /\ verdict[c] = Aggregate(Outs(c))

IInv == TypeOK /\ RepliesAreLists /\ VerdictIsOfReplies

\* What that says: the verdict is the strictest.
LEMMA InvariantSuffices == IInv => VerdictIsTheStrictest
<1> SUFFICES ASSUME IInv, NEW c \in Caller, pc[c] = "judged", running[c] # None
             PROVE  LET v == verdict[c]
                        outs == Outs(c)
                        heard == {n \in DOMAIN outs : outs[n].ran}
                    IN  /\ v.block <=> \E n \in heard :
                              \/ outs[n].block
                              \/ replies[c][n].exit = "block" /\ event[c] \in Blockable
                        /\ v.continue <=> \A n \in heard : outs[n].continue
                        /\ \A n \in heard :
                             DecisionRank(outs[n].permission) <= DecisionRank(v.permission)
                        /\ v.permission # "none" =>
                             \E n \in heard : outs[n].permission = v.permission
                        /\ v.input # NoInput =>
                             /\ v.permission \in {"allow", "ask"}
                             /\ outs[v.input].permission \in {"allow", "ask"}
                             /\ outs[v.input].input
                        /\ Refuses(event[c], v) <=>
                             \/ v.block /\ event[c] \in Blockable
                             \/ ~v.continue /\ event[c] = "UserPromptSubmit"
  BY DEF VerdictIsTheStrictest
<1> DEFINE outs == Outs(c)
           N == Len(outs)
           v == verdict[c]
           e == event[c]
           heard == {n \in DOMAIN outs : outs[n].ran}
<1>1. e \in SupportedEvents
  BY DEF IInv, TypeOK
<1>2. replies[c] \in Seq(Replies \cup {None})
  BY DEF IInv, RepliesAreLists
<1>3. \A n \in 1 .. Len(replies[c]) : replies[c][n] \in Reply
  <2>1. \A n \in DOMAIN replies[c] : replies[c][n] # None
    BY DEF IInv, VerdictIsOfReplies
  <2> QED
    BY <1>2, <2>1, ClaudeCodeAssumption DEF ClaudeCodeAssumption
<1>4. outs = [n \in 1 .. Len(replies[c]) |-> ApplyOutput(e, replies[c][n])]
  BY <1>2 DEF Outs
<1>5. \A n \in 1 .. Len(replies[c]) :
        /\ Consistent(outs[n])
        /\ (replies[c][n].exit = "block" /\ e \in Blockable) => outs[n].ran /\ outs[n].block
  BY <1>1, <1>3, <1>4, RepliesAreConsistent
<1>6. outs \in Seq(Outcome) /\ N = Len(replies[c])
  <2>1. Len(replies[c]) \in Nat
    BY <1>2
  <2>2. \A n \in 1 .. Len(replies[c]) : ApplyOutput(e, replies[c][n]) \in Outcome
    BY <1>4, <1>5 DEF Consistent
  <2> QED
    BY <1>4, <2>1, <2>2
<1>7. v = Aggregate(outs)
  BY DEF IInv, VerdictIsOfReplies
<1> HIDE DEF outs, v, e
<1>8. v \in Verdict(N) /\ IsStrictest(outs, N, v)
  BY <1>5, <1>6, <1>7, AggregateIsStrictest
<1>9. heard = Ran(outs, N)
  BY <1>6 DEF Ran
<1>10. v.block <=> \E n \in heard :
                      \/ outs[n].block
                      \/ replies[c][n].exit = "block" /\ e \in Blockable
  <2>1. v.block <=> \E n \in heard : outs[n].block
    BY <1>8, <1>9 DEF IsStrictest
  <2>2. \A n \in heard : n \in 1 .. Len(replies[c])
    BY <1>6
  <2>3. \A n \in heard : (replies[c][n].exit = "block" /\ e \in Blockable) => outs[n].block
    BY <1>5, <2>2
  <2> HIDE DEF heard
  <2> QED
    BY <2>1, <2>3
<1>11. v.permission = "deny" => v.block
  <2>1. SUFFICES ASSUME v.permission = "deny" PROVE v.block
    OBVIOUS
  <2>2. PICK n \in heard : outs[n].permission = "deny"
    BY <1>8, <1>9, <2>1 DEF IsStrictest
  <2>3. outs[n].block
    BY <1>5, <1>6, <2>2 DEF Consistent
  <2> HIDE DEF heard
  <2> QED
    BY <1>10, <2>3
<1>12. (v.block => v.ran) /\ (~ v.continue => v.ran)
  BY <1>8 DEF IsStrictest
<1>13. Refuses(e, v) <=> \/ v.block /\ e \in Blockable
                         \/ ~v.continue /\ e = "UserPromptSubmit"
  <2>1. CASE e = "PreToolUse"
    BY <1>11, <1>12, <2>1 DEF Refuses, Blockable
  <2>2. CASE e = "UserPromptSubmit"
    BY <1>11, <1>12, <2>2 DEF Refuses, Blockable
  <2>3. CASE e = "Stop"
    BY <1>11, <1>12, <2>3 DEF Refuses, Blockable
  <2>4. CASE e \notin Blockable
    BY <2>4 DEF Refuses, Blockable
  <2> QED
    BY <2>1, <2>2, <2>3, <2>4 DEF Blockable
<1> QED
  BY <1>8, <1>9, <1>10, <1>13 DEF IsStrictest, outs, v, e

-----------------------------------------------------------------------------
(* It is invariant.                                                        *)

Places == {"idle", "look", "stat", "compare", "load", "read", "install",
           "switch", "engine", "running", "judged"}

LEMMA EngineTypes ==
  ASSUME NEW on \in BOOLEAN, NEW content \in Content \cup {None}
  PROVE  EngineOf(on, content) \in Content \cup {None}
BY DEF EngineOf

LEMMA InitInvariant == Init => IInv
<1> SUFFICES ASSUME Init PROVE IInv
  OBVIOUS
<1>1. MaxEdits \in Nat /\ 1 \in 1 .. MaxEdits + 1 /\ {0, 1} \subseteq 0 .. MaxEdits + 1
  BY ClaudeCodeAssumption DEF ClaudeCodeAssumption
<1>2. file \in [edits : 1 .. MaxEdits + 1, content : Content \cup {None}]
  BY <1>1 DEF Init
<1>3. Current \in Copies /\ NotFound \in Copies
  <2>1. MTime \in 0 .. MaxEdits + 1
    BY <1>1 DEF Init, MTime, NoTime
  <2>2. file.content \in Content \cup {None}
    BY <1>2
  <2> QED
    BY <1>1, <2>1, <2>2 DEF Current, NotFound, Copy, Copies, NoTime
<1>4. "PreToolUse" \in SupportedEvents
  BY DEF SupportedEvents, Blockable
<1>5. running \in [Caller -> Content \cup {None}]
  BY DEF Init
<1>6. \A c \in Caller : replies[c] = <<>>
  BY DEF Init
<1>7. TypeOK
  <2>1. /\ {stored, compat, due} \subseteq BOOLEAN
        /\ settings \in Copies /\ engine = EngineOf(compat, settings.content)
    <3>1. engine = EngineOf(stored, file.content) /\ compat = stored /\ settings = Current
      BY DEF Init
    <3>2. Current.content = file.content
      BY DEF Current, Copy
    <3> QED
      BY <1>3, <3>1, <3>2 DEF Init
  <2>2. pc \in [Process -> {"idle", "look", "stat", "compare", "load", "read", "install",
                            "switch", "engine", "running", "judged"}]
    BY DEF Init
  <2>3. /\ seen \in [Process -> Copies] /\ want \in [Console -> BOOLEAN]
        /\ event \in [Caller -> SupportedEvents]
    BY <1>3, <1>4 DEF Init
  <2>4. \A c \in Caller : \A n \in DOMAIN replies[c] : replies[c][n] \in Replies \cup {None}
    BY <1>6
  <2> QED
    BY <1>2, <1>5, <2>1, <2>2, <2>3, <2>4 DEF TypeOK
<1>8. RepliesAreLists
  BY DEF Init, RepliesAreLists
<1>9. VerdictIsOfReplies
  BY DEF Init, VerdictIsOfReplies, Process
<1> QED
  BY <1>7, <1>8, <1>9 DEF IInv

\* A step that leaves a dispatch alone and judges nobody keeps its verdict.
LEMMA VerdictStays ==
  ASSUME IInv, UNCHANGED <<dispatchVars>>,
         \A c \in Caller : pc'[c] = "judged" => pc[c] = "judged"
  PROVE  RepliesAreLists' /\ VerdictIsOfReplies' /\ (event \in [Caller -> SupportedEvents])'
         /\ (running \in [Caller -> Content \cup {None}])'
         /\ (\A c \in Caller : \A n \in DOMAIN replies[c] : replies[c][n] \in Replies \cup {None})'
<1>1. event' = event /\ running' = running /\ replies' = replies /\ verdict' = verdict
  BY DEF dispatchVars
<1>2. \A c \in Caller : Outs(c)' = Outs(c)
  BY <1>1 DEF Outs
<1>3. VerdictIsOfReplies'
  BY <1>1, <1>2 DEF IInv, VerdictIsOfReplies
<1> QED
  BY <1>1, <1>3 DEF IInv, TypeOK, RepliesAreLists

\* Requests that look at the file and read it.
LEMMA ReloadingKeeps ==
  ASSUME IInv, NEW p \in Process, Reloading(p)
  PROVE  IInv'
<1>0. p \in Process /\ pc \in [Process -> Places] /\ seen \in [Process -> Copies]
  BY DEF IInv, TypeOK, Places
<1>1. MTime \in 0 .. MaxEdits + 1 /\ file.content \in Content \cup {None}
  <2>1. MaxEdits \in Nat
    BY ClaudeCodeAssumption DEF ClaudeCodeAssumption
  <2> QED
    BY <2>1 DEF IInv, TypeOK, MTime, NoTime
<1>2. NotFound \in Copies
  BY ClaudeCodeAssumption DEF ClaudeCodeAssumption, NotFound, Copy, Copies, NoTime
<1>3. /\ file' = file /\ stored' = stored /\ compat' = compat /\ want' = want
      /\ UNCHANGED dispatchVars
  BY DEF Reloading, Look, Stat, Compare, LoadTime, LoadContent, Install, serviceVars
<1>4. \A q \in Places \ {"judged"} : Goto(p, q) => /\ pc' \in [Process -> Places]
                                               /\ \A c \in Caller : pc'[c] = "judged" => pc[c] = "judged"
  BY <1>0 DEF Goto, Process
<1>5. GoOn(p) => \E q \in Places \ {"judged"} : Goto(p, q)
  BY DEF GoOn, Places
<1>6. \E q \in Places \ {"judged"} : Goto(p, q)
  BY <1>5 DEF Reloading, Look, Stat, Compare, LoadTime, LoadContent, Install, Places
<1>7. /\ pc' \in [Process -> Places]
      /\ \A c \in Caller : pc'[c] = "judged" => pc[c] = "judged"
  BY <1>4, <1>6
<1>8. GoOn(p) => seen' \in [Process -> Copies]
  BY <1>0, <1>2 DEF GoOn
<1>9. seen' \in [Process -> Copies]
  <2>1. CASE Look(p) \/ Compare(p) \/ Install(p)
    BY <1>0, <1>8, <2>1 DEF Look, Compare, Install
  <2>2. CASE Stat(p) \/ LoadTime(p)
    <3>1. Copy(MTime, None) \in Copies
      BY <1>1 DEF Copy, Copies
    <3> QED
      BY <1>0, <2>2, <3>1 DEF Stat, LoadTime
  <2>3. CASE LoadContent(p)
    <3>1. Copy(seen[p].mtime, file.content) \in Copies
      BY <1>0, <1>1 DEF Copy, Copies
    <3> QED
      BY <1>0, <1>2, <2>3, <3>1 DEF LoadContent
  <2> QED
    BY <2>1, <2>2, <2>3 DEF Reloading
<1>10. /\ due' \in BOOLEAN
       /\ settings' \in Copies /\ engine' = EngineOf(compat, settings'.content)
  <2>1. CASE Install(p)
    BY <1>0, <2>1 DEF Install
  <2>2. CASE Compare(p)
    BY <2>2 DEF Compare, IInv, TypeOK
  <2>3. CASE Look(p) \/ Stat(p) \/ LoadTime(p) \/ LoadContent(p)
    BY <2>3 DEF Look, Stat, LoadTime, LoadContent, serviceVars, IInv, TypeOK
  <2> QED
    BY <2>1, <2>2, <2>3 DEF Reloading
<1>11. TypeOK'
  <2>1. /\ file \in [edits : 1 .. MaxEdits + 1, content : Content \cup {None}]
        /\ stored \in BOOLEAN /\ compat \in BOOLEAN /\ want \in [Console -> BOOLEAN]
    BY DEF IInv, TypeOK
  <2> QED
    BY <1>3, <1>7, <1>9, <1>10, <2>1, VerdictStays DEF TypeOK, Places
<1> QED
  BY <1>3, <1>7, <1>11, VerdictStays DEF IInv

\* The world and the console.
LEMMA OutsideKeeps ==
  ASSUME IInv,
         \/ \E content \in Content \cup {None} : Edit(content)
         \/ Elapse
         \/ \E k \in Console : AskReload(k) \/ Switch(k) \/ \E on \in BOOLEAN : AskSwitch(k, on)
  PROVE  IInv'
<1>0. /\ pc \in [Process -> Places] /\ Console \subseteq Process /\ Caller \subseteq Process
      /\ want \in [Console -> BOOLEAN] /\ MaxEdits \in Nat
      /\ file \in [edits : 1 .. MaxEdits + 1, content : Content \cup {None}]
      /\ stored \in BOOLEAN /\ compat \in BOOLEAN /\ due \in BOOLEAN
      /\ settings \in Copies /\ engine = EngineOf(compat, settings.content)
      /\ seen \in [Process -> Copies]
  BY ClaudeCodeAssumption DEF IInv, TypeOK, Process, ClaudeCodeAssumption, Places
<1>1. UNCHANGED dispatchVars
  BY DEF Edit, Elapse, AskReload, Switch, AskSwitch
<1>2. /\ pc' \in [Process -> Places]
      /\ \A c \in Caller : pc'[c] = "judged" => pc[c] = "judged"
  BY <1>0 DEF Edit, Elapse, AskReload, Switch, AskSwitch, Goto, Places
<1>3. file' \in [edits : 1 .. MaxEdits + 1, content : Content \cup {None}]
  <2>1. CASE \E content \in Content \cup {None} : Edit(content)
    <3>1. PICK content \in Content \cup {None} : Edit(content)
      BY <2>1
    <3>2. file.edits + 1 \in 1 .. MaxEdits + 1
      BY <1>0, <3>1 DEF Edit
    <3> QED
      BY <3>1, <3>2 DEF Edit
  <2>2. CASE ~ \E content \in Content \cup {None} : Edit(content)
    BY <1>0, <2>2 DEF Elapse, AskReload, Switch, AskSwitch
  <2> QED
    BY <2>1, <2>2
<1>4. /\ stored' \in BOOLEAN /\ compat' \in BOOLEAN /\ due' \in BOOLEAN
      /\ want' \in [Console -> BOOLEAN]
  BY <1>0 DEF Edit, Elapse, AskReload, Switch, AskSwitch, serviceVars
<1>5. /\ settings' = settings /\ seen' = seen
      /\ engine' = EngineOf(compat', settings'.content)
  BY <1>0 DEF Edit, Elapse, AskReload, Switch, AskSwitch, serviceVars
<1>6. TypeOK'
  BY <1>0, <1>1, <1>2, <1>3, <1>4, <1>5, VerdictStays DEF TypeOK, Places
<1> QED
  BY <1>1, <1>2, <1>6, VerdictStays DEF IInv

LEMMA RestartKeeps ==
  ASSUME IInv, Restart
  PROVE  IInv'
<1>0. /\ MaxEdits \in Nat
      /\ file \in [edits : 1 .. MaxEdits + 1, content : Content \cup {None}]
      /\ stored \in BOOLEAN /\ file' = file /\ stored' = stored
  BY ClaudeCodeAssumption DEF IInv, TypeOK, Restart, ClaudeCodeAssumption
<1>1. MTime \in 0 .. MaxEdits + 1
  BY <1>0 DEF MTime, NoTime
<1>2. Current \in Copies /\ NotFound \in Copies
  BY <1>0, <1>1 DEF Current, NotFound, Copy, Copies, NoTime
<1>3. /\ settings' = Current /\ compat' = stored /\ engine' = EngineOf(stored, file.content)
      /\ due' = TRUE
  BY DEF Restart, Begins
<1>4. Current.content = file.content
  BY DEF Current, Copy
<1>5. /\ pc' \in [Process -> Places] /\ seen' \in [Process -> Copies]
      /\ want' \in [Console -> BOOLEAN]
  BY <1>2 DEF Restart, Begins, Places
<1>6. /\ event' \in [Caller -> SupportedEvents] /\ running' \in [Caller -> Content \cup {None}]
      /\ replies' = [c \in Caller |-> <<>>] /\ verdict' = [c \in Caller |-> Nobody]
      /\ \A c \in Caller : pc'[c] # "judged"
  BY DEF Restart, Begins, SupportedEvents, Blockable, Process
<1>7. RepliesAreLists' /\ VerdictIsOfReplies'
  <2>1. verdict' = [c \in Caller |-> verdict'[c]]
    BY <1>6
  <2>2. <<>> \in Seq(Replies \cup {None})
    OBVIOUS
  <2> QED
    BY <1>6, <2>1, <2>2 DEF RepliesAreLists, VerdictIsOfReplies
<1>8. \A c \in Caller : \A n \in DOMAIN replies'[c] : replies'[c][n] \in Replies \cup {None}
  BY <1>6
<1>9. TypeOK'
  BY <1>0, <1>2, <1>3, <1>4, <1>5, <1>6, <1>8 DEF TypeOK, Places
<1> QED
  BY <1>7, <1>9 DEF IInv

\* What a step of the dispatch of caller c has to show: it moves nothing else, and the
\* dispatch of c is in order after it.
LEMMA DispatchKeeps ==
  ASSUME IInv, NEW c \in Caller,
         UNCHANGED <<file, stored, serviceVars, seen, want>>,
         NEW q \in Places, pc' = [pc EXCEPT ![c] = q],
         NEW e \in SupportedEvents, event' = [event EXCEPT ![c] = e],
         NEW x \in Content \cup {None}, running' = [running EXCEPT ![c] = x],
         NEW r \in Seq(Replies \cup {None}), replies' = [replies EXCEPT ![c] = r],
         NEW v, verdict' = [verdict EXCEPT ![c] = v],
         (q = "judged" /\ x # None) =>
            /\ \A n \in DOMAIN r : r[n] # None
            /\ v = Aggregate([n \in DOMAIN r |-> ApplyOutput(e, r[n])])
  PROVE  IInv'
<1>0. /\ c \in Process /\ pc \in [Process -> Places] /\ Caller \subseteq Process
      /\ event \in [Caller -> SupportedEvents] /\ running \in [Caller -> Content \cup {None}]
      /\ replies \in [Caller -> Seq(Replies \cup {None})] /\ verdict = [d \in Caller |-> verdict[d]]
  BY DEF IInv, TypeOK, Process, Places, RepliesAreLists, VerdictIsOfReplies
<1>1. /\ pc' \in [Process -> Places] /\ event' \in [Caller -> SupportedEvents]
      /\ running' \in [Caller -> Content \cup {None}]
      /\ replies' \in [Caller -> Seq(Replies \cup {None})]
  BY <1>0
<1>2. \A d \in Caller : \A n \in DOMAIN replies'[d] : replies'[d][n] \in Replies \cup {None}
  <2>1. \A s \in Seq(Replies \cup {None}) : \A n \in DOMAIN s : s[n] \in Replies \cup {None}
    OBVIOUS
  <2> QED
    BY <1>1, <2>1
<1>3. TypeOK'
  BY <1>1, <1>2 DEF IInv, TypeOK, serviceVars, Places
<1>4. verdict' = [d \in Caller |-> verdict'[d]]
  BY <1>0
<1>5. ASSUME NEW d \in Caller, pc'[d] = "judged", running'[d] # None
      PROVE  /\ \A n \in DOMAIN replies'[d] : replies'[d][n] # None
             /\ verdict'[d] = Aggregate(Outs(d)')
  <2>1. CASE d = c
    <3>1. /\ pc'[d] = q /\ running'[d] = x /\ replies'[d] = r /\ event'[d] = e /\ verdict'[d] = v
      BY <1>0, <2>1
    <3>2. Outs(d)' = [n \in DOMAIN r |-> ApplyOutput(e, r[n])]
      BY <3>1 DEF Outs
    <3> QED
      BY <1>5, <3>1, <3>2
  <2>2. CASE d # c
    <3>1. /\ pc'[d] = pc[d] /\ running'[d] = running[d] /\ replies'[d] = replies[d]
          /\ event'[d] = event[d] /\ verdict'[d] = verdict[d]
      BY <1>0, <2>2
    <3>2. Outs(d)' = Outs(d)
      BY <3>1 DEF Outs
    <3> QED
      BY <1>5, <3>1, <3>2 DEF IInv, VerdictIsOfReplies
  <2> QED
    BY <2>1, <2>2
<1> QED
  BY <1>1, <1>3, <1>4, <1>5 DEF IInv, RepliesAreLists, VerdictIsOfReplies

\* Where caller c's dispatch stands.
LEMMA DispatchStands ==
  ASSUME IInv, NEW c \in Caller
  PROVE  /\ pc[c] \in Places /\ event[c] \in SupportedEvents /\ running[c] \in Content \cup {None}
         /\ replies[c] \in Seq(Replies \cup {None})
         /\ pc = [pc EXCEPT ![c] = pc[c]] /\ event = [event EXCEPT ![c] = event[c]]
         /\ running = [running EXCEPT ![c] = running[c]]
         /\ replies = [replies EXCEPT ![c] = replies[c]]
         /\ verdict = [verdict EXCEPT ![c] = verdict[c]]
         /\ engine \in Content \cup {None}
<1>1. /\ pc \in [Process -> Places] /\ c \in Process
      /\ event \in [Caller -> SupportedEvents] /\ running \in [Caller -> Content \cup {None}]
      /\ replies \in [Caller -> Seq(Replies \cup {None})] /\ verdict = [d \in Caller |-> verdict[d]]
  BY DEF IInv, TypeOK, Process, Places, RepliesAreLists, VerdictIsOfReplies
<1>2. verdict = [verdict EXCEPT ![c] = verdict[c]]
  BY <1>1
<1>3. compat \in BOOLEAN /\ settings.content \in Content \cup {None}
      /\ engine = EngineOf(compat, settings.content)
  BY DEF IInv, TypeOK, Copies
<1> QED
  BY <1>1, <1>2, <1>3, EngineTypes

\* An event occurs.
LEMMA AskKeeps ==
  ASSUME IInv, NEW c \in Caller, NEW e \in Events, Ask(c, e)
  PROVE  IInv'
<1> DEFINE r == <<>>
           x == running[c]
           q == "look"
<1>1. /\ e \in SupportedEvents /\ r \in Seq(Replies \cup {None})
      /\ q \in Places /\ x \in Content \cup {None}
  BY DispatchStands, ClaudeCodeAssumption DEF ClaudeCodeAssumption, Places
<1>2. UNCHANGED <<file, stored, serviceVars, seen, want>>
  BY DEF Ask
<1>3. /\ pc' = [pc EXCEPT ![c] = q] /\ event' = [event EXCEPT ![c] = e]
      /\ running' = [running EXCEPT ![c] = x]
      /\ replies' = [replies EXCEPT ![c] = r] /\ verdict' = [verdict EXCEPT ![c] = Nobody]
  BY DispatchStands DEF Ask, Goto
<1>4. q # "judged"
  OBVIOUS
<1> HIDE DEF r, x, q
<1> QED
  BY <1>1, <1>2, <1>3, <1>4, DispatchKeeps

\* The engine of the moment is taken, with as many slots as it has handlers.
LEMMA TakeEngineKeeps ==
  ASSUME IInv, NEW c \in Caller, TakeEngine(c)
  PROVE  IInv'
<1>1. {"judged", "running"} \subseteq Places
  BY DEF Places
<1>2. /\ UNCHANGED <<file, stored, serviceVars, seen, want>>
      /\ event' = [event EXCEPT ![c] = event[c]]
      /\ running' = [running EXCEPT ![c] = engine]
      /\ verdict' = [verdict EXCEPT ![c] = verdict[c]]
  BY DispatchStands DEF TakeEngine
<1>3. CASE engine = None
  <2>1. pc' = [pc EXCEPT ![c] = "judged"] /\ replies' = [replies EXCEPT ![c] = replies[c]]
    BY <1>3, DispatchStands DEF TakeEngine, Goto
  <2> QED
    BY <1>1, <1>2, <1>3, <2>1, DispatchStands, DispatchKeeps
<1>4. CASE engine # None
  <2> DEFINE r == [n \in 1 .. HandlersOf[engine] |-> None]
  <2>1. HandlersOf[engine] \in Nat
    BY <1>4, DispatchStands, ClaudeCodeAssumption DEF ClaudeCodeAssumption
  <2>2. r \in Seq(Replies \cup {None})
    BY <2>1
  <2>3. pc' = [pc EXCEPT ![c] = "running"] /\ replies' = [replies EXCEPT ![c] = r]
    BY <1>4 DEF TakeEngine, Goto
  <2> HIDE DEF r
  <2> QED
    BY <1>1, <1>2, <2>2, <2>3, DispatchStands, DispatchKeeps
<1> QED
  BY <1>3, <1>4

\* A handler fills its slot.
LEMMA HandlerEndsKeeps ==
  ASSUME IInv, NEW c \in Caller, NEW n \in 1 .. Len(replies[c]), HandlerEnds(c, n)
  PROVE  IInv'
<1>1. PICK reply \in Replies : replies' = [replies EXCEPT ![c][n] = reply]
  BY DEF HandlerEnds
<1> DEFINE r == [replies[c] EXCEPT ![n] = reply]
<1>2. r \in Seq(Replies \cup {None})
  BY DispatchStands
<1>3. replies' = [replies EXCEPT ![c] = r]
  BY <1>1
<1> HIDE DEF r
<1>4. /\ UNCHANGED <<file, stored, serviceVars, seen, want>>
      /\ pc' = [pc EXCEPT ![c] = pc[c]] /\ event' = [event EXCEPT ![c] = event[c]]
      /\ running' = [running EXCEPT ![c] = running[c]]
      /\ verdict' = [verdict EXCEPT ![c] = verdict[c]] /\ pc[c] # "judged"
  BY DispatchStands DEF HandlerEnds
<1> QED
  BY <1>2, <1>3, <1>4, DispatchStands, DispatchKeeps

\* The last one has ended.
LEMMA AllEndKeeps ==
  ASSUME IInv, NEW c \in Caller, AllEnd(c)
  PROVE  IInv'
<1> DEFINE v == Aggregate(Outs(c))
           r == replies[c]
           e == event[c]
           x == running[c]
           q == "judged"
<1>1. /\ e \in SupportedEvents /\ r \in Seq(Replies \cup {None})
      /\ q \in Places /\ x \in Content \cup {None}
  BY DispatchStands DEF Places
<1>2. UNCHANGED <<file, stored, serviceVars, seen, want>>
  BY DEF AllEnd
<1>3. /\ pc' = [pc EXCEPT ![c] = q] /\ event' = [event EXCEPT ![c] = e]
      /\ running' = [running EXCEPT ![c] = x]
      /\ replies' = [replies EXCEPT ![c] = r] /\ verdict' = [verdict EXCEPT ![c] = v]
  BY DispatchStands DEF AllEnd, Goto
<1>4. \A n \in DOMAIN r : r[n] # None
  BY DEF AllEnd
<1>5. v = Aggregate([n \in DOMAIN r |-> ApplyOutput(e, r[n])])
  BY DEF Outs
<1> HIDE DEF v, r, e, x, q
<1> QED
  BY <1>1, <1>2, <1>3, <1>4, <1>5, DispatchKeeps

LEMMA NextKeeps == IInv /\ [Next]_vars => IInv'
<1> SUFFICES ASSUME IInv, [Next]_vars PROVE IInv'
  OBVIOUS
<1>1. CASE UNCHANGED vars
  <2>1. UNCHANGED <<file, stored, settings, compat, engine, due, pc, seen, want>>
    BY <1>1 DEF vars, serviceVars
  <2>2. UNCHANGED dispatchVars
    BY <1>1 DEF vars
  <2>3. RepliesAreLists' /\ VerdictIsOfReplies'
    BY <2>1, <2>2, VerdictStays
  <2>4. TypeOK'
    BY <2>1, <2>2 DEF dispatchVars, IInv, TypeOK
  <2> QED
    BY <2>3, <2>4 DEF IInv
<1>2. CASE \/ \E content \in Content \cup {None} : Edit(content)
           \/ Elapse
           \/ \E k \in Console : AskReload(k) \/ Switch(k) \/ \E on \in BOOLEAN : AskSwitch(k, on)
  BY <1>2, OutsideKeeps
<1>3. CASE Restart
  BY <1>3, RestartKeeps
<1>4. CASE \E p \in Process : Reloading(p)
  BY <1>4, ReloadingKeeps
<1>5. ASSUME NEW c \in Caller, Dispatching(c) PROVE IInv'
  BY <1>5, TakeEngineKeeps, HandlerEndsKeeps, AllEndKeeps DEF Dispatching
<1>6. ASSUME NEW c \in Caller, NEW e \in Events, Ask(c, e) PROVE IInv'
  BY <1>6, AskKeeps
<1> QED
  BY <1>1, <1>2, <1>3, <1>4, <1>5, <1>6 DEF Next

LEMMA Invariant == Spec => []IInv
BY InitInvariant, NextKeeps, PTL DEF Spec

-----------------------------------------------------------------------------
(* The theorems.                                                           *)

\* The engine is always the one of the mode and the settings, whoever of the requests
\* that look at the file, reload it or switch the mode has changed which (newEngineLocked
\* under the lock of Install and SetCompat), and every variable has its type.
THEOREM EngineIsOfTheSettings == Spec => []TypeOK
<1>1. IInv => TypeOK
  BY DEF IInv
<1> QED
  BY <1>1, Invariant, PTL

\* The verdict on an event is the strictest of what the handlers said, however many there
\* are and in whatever order they end (aggregate).
THEOREM StrictestIsHonoured == Spec => []VerdictIsTheStrictest
BY Invariant, InvariantSuffices, PTL
=============================================================================
