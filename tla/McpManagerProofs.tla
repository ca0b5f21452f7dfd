-------------------------- MODULE McpManagerProofs --------------------------
(***************************************************************************)
(* Theorems about module McpManager, for any servers, definitions, tool    *)
(* names, requests and probes and any number of failures.                  *)
(*                                                                         *)
(* That as many connections are open as servers and probes hold is kept as *)
(* what makes it so: every one of them has a connection of its own.        *)
(***************************************************************************)
EXTENDS McpManager, FunctionTheorems, FiniteSetTheorems, WellFoundedInduction, TLAPS

(* What is typed beside the type invariant.                                *)

Asked == [id : Id, row : Row \cup {None}]
Listed == [specs : Seq(ServerSpec), of : Nat \cup {None}]

Types ==
  /\ TypeOK
  /\ asked \in [Editor -> Asked \cup {None}]
  /\ list \in [Editor -> Listed]
  /\ applied \in Nat \cup {None}

(* Connections and names.                                                  *)

Open == {i \in Id : servers[i] # None /\ servers[i].conn # None}
Probing == {p \in Prober : probe[p] # None}

\* No two of those that hold a connection hold the same one.
OneEach ==
  /\ \A i, j \in Open : servers[i].conn = servers[j].conn => i = j
  /\ \A p, q \in Probing : probe[p] = probe[q] => p = q
  /\ \A i \in Open, p \in Probing : servers[i].conn # probe[p]

IsUsed(c) == (\E i \in Open : servers[i].conn = c) \/ (\E p \in Probing : probe[p] = c)

OpenIsUsed == \A c \in Conn : c \in conns <=> IsUsed(c)

NamesLead ==
  /\ \A i \in Id : servers[i] # None => \A t \in servers[i].tools :
        servers[i].conn # None /\ registry[t] = servers[i].conn
  /\ \A t \in Tool : registry[t] \in Conn =>
        \E i \in Open : servers[i].conn = registry[t] /\ t \in servers[i].tools
  /\ \A t \in Builtin : registry[t] = Own

\* Close waits for the reconciliation under way, and what is dialed has been let go.
ClosedIsEmpty == closed => owner = None /\ \A i \in Id : servers[i] = None
DialingIsGone == dialing # None => servers[dialing.id] = None

Holds == OneEach /\ OpenIsUsed /\ NamesLead /\ ClosedIsEmpty /\ DialingIsGone

(* Rows and what is reconciled with them.                                  *)

\* Nothing is of a version the table has not had.
VersionsAreHad ==
  /\ applied # None => applied <= version
  /\ \A e \in Editor : list[e].of # None => list[e].of <= version

\* A spec the table asks for as it is.
IsAsked(spec) == Enabled(rows, spec.id) /\ spec.def = rows[spec.id].def

Describes(specs) ==
  /\ \A k \in DOMAIN specs : IsAsked(specs[k])
  /\ \A i \in Id : Enabled(rows, i) => i \in Wanted(specs)

ListsDescribe == \A e \in Editor : ~closed /\ list[e].of = version => Describes(list[e].specs)

\* What the manager has and what it has still to do come to what the table asks for.
AppliedComesTo ==
  (~closed /\ applied = version) =>
    /\ \A k \in DOMAIN todo : IsAsked(todo[k])
    /\ dialing # None => IsAsked(dialing)
    /\ \A i \in Id : servers[i] # None =>
          Enabled(rows, i) /\ (servers[i].def = rows[i].def \/ i \in Wanted(todo))
    /\ \A i \in Id : Enabled(rows, i) =>
          servers[i] # None \/ i \in Wanted(todo) \/ (dialing # None /\ dialing.id = i)

Follows == VersionsAreHad /\ ListsDescribe /\ AppliedComesTo

IInv == Types /\ Holds /\ Follows

-----------------------------------------------------------------------------
(* The order of the ids.                                                   *)

\* A finite set of numbers that is not empty has a greatest one.
LEMMA GreatestIsOne ==
  ASSUME NEW S \in SUBSET Nat, IsFiniteSet(S), S # {}
  PROVE  \E x \in S : \A y \in S : y <= x
<1> DEFINE From(x) == {y \in S : x <= y}
           Sets == {From(x) : x \in S}
<1>1. Sets \subseteq FiniteSubsetsOf(S) /\ Sets # {}
  <2>1. \A x \in S : From(x) \subseteq S /\ IsFiniteSet(From(x))
    BY FS_Subset
  <2> QED
    BY <2>1 DEF FiniteSubsetsOf
<1>2. IsWellFoundedOn(StrictSubsetOrdering(S), FiniteSubsetsOf(S))
  BY FS_StrictSubsetOrderingWellFounded
<1> HIDE DEF Sets
<1>3. PICK d \in Sets : \A e \in Sets : <<e, d>> \notin StrictSubsetOrdering(S)
  BY <1>1, <1>2, WFMin
<1>4. PICK x \in S : d = From(x)
  BY DEF Sets
<1>5. ASSUME NEW y \in S, ~ (y <= x) PROVE FALSE
  <2>1. x \in Nat /\ y \in Nat /\ x < y
    BY <1>5
  <2>2. From(y) \subseteq From(x)
    <3>1. \A z \in S : y <= z => x <= z
      BY <2>1
    <3> QED
      BY <3>1
  <2>3. x \in From(x) /\ x \notin From(y)
    <3>1. ~ (y <= x) /\ x <= x
      BY <2>1
    <3> QED
      BY <3>1
  <2>4. <<From(y), From(x)>> \in StrictSubsetOrdering(S)
    BY <2>2, <2>3 DEF StrictSubsetOrdering
  <2>5. From(y) \in Sets
    BY DEF Sets
  <2> QED
    BY <1>3, <1>4, <2>4, <2>5
<1> QED
  BY <1>5

Increasing(order) == \A j, k \in DOMAIN order : j < k => order[j] < order[k]

\* Every set of ids has an order.
LEMMA OrderExists ==
  ASSUME NEW ids \in SUBSET Id
  PROVE  \E order \in SetToSeqs(ids) : Increasing(order)
<1> DEFINE Ordered(S) == \E order \in SetToSeqs(S) : Increasing(order)
           Bad == {S \in SUBSET Id : ~ Ordered(S)}
<1>1. SUFFICES ASSUME Bad # {} PROVE FALSE
  OBVIOUS
<1>2. Id \subseteq Nat /\ IsFiniteSet(Id)
  BY McpManagerAssumption DEF McpManagerAssumption
<1>3. FiniteSubsetsOf(Id) = SUBSET Id
  BY <1>2, FS_FiniteSubsetsOfFinite
<1>4. PICK S \in Bad : \A T \in Bad : <<T, S>> \notin StrictSubsetOrdering(Id)
  <2>1. Bad \subseteq SUBSET Id
    OBVIOUS
  <2> HIDE DEF Bad
  <2> QED
    BY <1>1, <1>3, <2>1, FS_StrictSubsetOrderingWellFounded, WFMin
<1>5. S \subseteq Id /\ IsFiniteSet(S) /\ S \subseteq Nat /\ Cardinality(S) \in Nat
  BY <1>2, FS_Subset, FS_CardinalityType
<1>6. CASE S = {}
  <2>1. Cardinality(S) = 0
    BY <1>6, FS_EmptySet
  <2>2. 1 .. Cardinality(S) = {}
    BY <2>1
  <2> DEFINE f == [k \in 1 .. Cardinality(S) |-> 0]
  <2>3. f \in SetToSeqs(S) /\ Increasing(f)
    BY <2>2 DEF SetToSeqs, Increasing
  <2> QED
    BY <1>4, <2>3
<1>7. CASE S # {}
  <2>1. PICK m \in S : \A y \in S : y <= m
    BY <1>5, <1>7, GreatestIsOne
  <2> DEFINE T == S \ {m}
             n == Cardinality(S)
  <2>2. <<T, S>> \in StrictSubsetOrdering(Id)
    BY <1>5 DEF StrictSubsetOrdering
  <2>3. T \in SUBSET Id
    BY <1>5
  <2>4. PICK g \in SetToSeqs(T) : Increasing(g)
    BY <1>4, <2>2, <2>3
  <2>5. Cardinality(T) = n - 1 /\ n \in Nat
    BY <1>5, FS_RemoveElement
  <2>6. n >= 1
    <3>1. IsFiniteSet(T)
      BY <1>5, FS_RemoveElement
    <3>2. Cardinality(T) \in Nat
      BY <3>1, FS_CardinalityType
    <3> QED
      BY <2>5, <3>2
  <2> HIDE DEF n
  <2>7. g \in [1 .. n - 1 -> T] /\ \A j, k \in 1 .. n - 1 : j # k => g[j] # g[k]
    BY <2>4, <2>5 DEF SetToSeqs
  <2> DEFINE f == [k \in 1 .. n |-> IF k = n THEN m ELSE g[k]]
  <2>8. \A k \in 1 .. n : k # n => k \in 1 .. n - 1
    BY <2>5
  <2>9. f \in [1 .. n -> S]
    BY <2>7, <2>8
  <2>10. \A k \in 1 .. n : IF k = n THEN f[k] = m ELSE f[k] = g[k] /\ g[k] \in T
    BY <2>7, <2>8
  <2> HIDE DEF f
  <2>11. \A j, k \in 1 .. n : j # k => f[j] # f[k]
    BY <2>7, <2>8, <2>10
  <2>12. f \in SetToSeqs(S)
    BY <2>9, <2>11 DEF SetToSeqs, n
  <2>13. ASSUME NEW j \in 1 .. n, NEW k \in 1 .. n, j < k PROVE f[j] < f[k]
    <3>1. j # n /\ j \in 1 .. n - 1 /\ f[j] = g[j]
      BY <2>5, <2>8, <2>10, <2>13
    <3>2. CASE k = n
      <4>1. g[j] \in S /\ g[j] # m
        BY <2>7, <3>1
      <4>2. g[j] \in Nat /\ m \in Nat /\ g[j] <= m
        BY <1>5, <2>1, <4>1
      <4> QED
        BY <2>10, <3>1, <3>2, <4>1, <4>2
    <3>3. CASE k # n
      <4>1. k \in 1 .. n - 1 /\ f[k] = g[k]
        BY <2>8, <2>10, <3>3
      <4>2. DOMAIN g = 1 .. n - 1
        BY <2>7
      <4> QED
        BY <2>4, <2>13, <3>1, <4>1, <4>2 DEF Increasing
    <3> QED
      BY <3>2, <3>3
  <2>14. Increasing(f)
    BY <2>9, <2>13 DEF Increasing
  <2> QED
    BY <1>4, <2>12, <2>14
<1> QED
  BY <1>6, <1>7

\* A list of a set of ids has each of them.
LEMMA ListsAreComplete ==
  ASSUME NEW ids \in SUBSET Id, NEW order \in SetToSeqs(ids)
  PROVE  /\ order \in Seq(ids) /\ \A i \in ids : \E k \in DOMAIN order : order[k] = i
<1>1. IsFiniteSet(ids) /\ Cardinality(ids) \in Nat
  BY McpManagerAssumption, FS_Subset, FS_CardinalityType DEF McpManagerAssumption
<1> DEFINE n == Cardinality(ids)
<1>2. order \in [1 .. n -> ids] /\ \A j, k \in 1 .. n : j # k => order[j] # order[k]
  BY DEF SetToSeqs
<1>3. order \in Injection(1 .. n, ids)
  BY <1>2 DEF Injection, IsInjective
<1>4. Cardinality(1 .. n) = n
  BY <1>1, FS_Interval
<1>5. order \in Surjection(1 .. n, ids)
  BY <1>1, <1>3, <1>4, FS_Injection
<1>6. order \in Seq(ids)
  BY <1>1, <1>2
<1> QED
  BY <1>2, <1>5, <1>6 DEF Surjection

LEMMA SpecsDescribe ==
  ASSUME Types
  PROVE  Specs(rows) \in Seq(ServerSpec) /\ Describes(Specs(rows))
<1> DEFINE ids == {i \in Id : Enabled(rows, i)}
           order == InOrder(ids)
<1>1. order \in SetToSeqs(ids)
  <2>1. ids \in SUBSET Id
    OBVIOUS
  <2> HIDE DEF ids
  <2>2. \E s \in SetToSeqs(ids) : \A j, k \in DOMAIN s : j < k => s[j] < s[k]
    BY <2>1, OrderExists DEF Increasing
  <2> QED
    BY <2>2 DEF InOrder
<1>2. order \in Seq(ids) /\ \A i \in ids : \E k \in DOMAIN order : order[k] = i
  <2>1. ids \in SUBSET Id
    OBVIOUS
  <2> HIDE DEF ids, order
  <2> QED
    BY <1>1, <2>1, ListsAreComplete
<1>3. Specs(rows) = [k \in DOMAIN order |-> [id |-> order[k], def |-> rows[order[k]].def]]
  BY DEF Specs
<1> HIDE DEF order
<1>4. \A i \in ids : rows[i].def \in Def /\ i \in Id /\ Enabled(rows, i)
  BY DEF Types, TypeOK, Enabled, Row
<1>5. Len(order) \in Nat /\ DOMAIN order = 1 .. Len(order) /\ \A k \in DOMAIN order : order[k] \in ids
  BY <1>2
<1>6. Specs(rows) \in Seq(ServerSpec)
  BY <1>3, <1>4, <1>5 DEF ServerSpec
<1>7. \A k \in DOMAIN order : IsAsked(Specs(rows)[k])
  BY <1>3, <1>4, <1>5 DEF IsAsked
<1>8. \A i \in ids : i \in Wanted(Specs(rows))
  BY <1>2, <1>3 DEF Wanted
<1> QED
  BY <1>3, <1>6, <1>7, <1>8 DEF Describes

-----------------------------------------------------------------------------
(* Connections.                                                            *)

\* As many are open as servers and probes hold.
LEMMA OpenAreCounted ==
  ASSUME Types, OneEach, OpenIsUsed
  PROVE  /\ IsFiniteSet(Open) /\ IsFiniteSet(Probing)
         /\ Cardinality(conns) = Cardinality(Open) + Cardinality(Probing)
         /\ conns = {servers[i].conn : i \in Open} \cup {probe[p] : p \in Probing}
<1> DEFINE A == {servers[i].conn : i \in Open}
           B == {probe[p] : p \in Probing}
           f == [i \in Open |-> servers[i].conn]
           g == [p \in Probing |-> probe[p]]
<1>1. IsFiniteSet(Open) /\ IsFiniteSet(Probing)
  <2>1. Open \in SUBSET Id /\ Probing \in SUBSET Prober
    BY DEF Open, Probing
  <2> QED
    BY <2>1, McpManagerAssumption, FS_Subset DEF McpManagerAssumption
<1>2. \A i \in Open : servers[i].conn \in Conn
  BY DEF Types, TypeOK, Server, Open
<1>3. \A p \in Probing : probe[p] \in Conn
  BY DEF Types, TypeOK, Probing
<1>4. f \in Bijection(Open, A)
  BY DEF OneEach, Bijection, Injection, IsInjective, Surjection
<1>5. g \in Bijection(Probing, B)
  BY DEF OneEach, Bijection, Injection, IsInjective, Surjection
<1>6. IsFiniteSet(A) /\ Cardinality(A) = Cardinality(Open)
  <2> HIDE DEF f, A
  <2> QED
    BY <1>1, <1>4, FS_Bijection DEF ExistsBijection
<1>7. IsFiniteSet(B) /\ Cardinality(B) = Cardinality(Probing)
  <2> HIDE DEF g, B
  <2> QED
    BY <1>1, <1>5, FS_Bijection DEF ExistsBijection
<1>8. A \cap B = {}
  BY DEF OneEach
<1>9. conns = A \cup B
  <2>1. conns \subseteq Conn
    BY DEF Types, TypeOK
  <2>2. A \subseteq Conn /\ B \subseteq Conn
    BY <1>2, <1>3
  <2>3. \A c \in Conn : IsUsed(c) <=> (c \in A \/ c \in B)
    BY DEF IsUsed
  <2> HIDE DEF A, B
  <2> QED
    BY <2>1, <2>2, <2>3 DEF OpenIsUsed
<1> HIDE DEF A, B
<1>10. Cardinality(conns) = Cardinality(A) + Cardinality(B)
  <2>1. Cardinality(A \cup B) = Cardinality(A) + Cardinality(B) - Cardinality(A \cap B)
    BY <1>6, <1>7, FS_Union
  <2>2. Cardinality(A \cap B) = 0
    BY <1>8, FS_EmptySet
  <2>3. Cardinality(A) \in Nat /\ Cardinality(B) \in Nat
    BY <1>6, <1>7, FS_CardinalityType
  <2> QED
    BY <1>9, <2>1, <2>2, <2>3
<1> QED
  BY <1>1, <1>6, <1>7, <1>9, <1>10 DEF A, B

\* There is one left while a server or a probe has none.
LEMMA FreshIsFree ==
  ASSUME Types, OneEach, OpenIsUsed, Open # Id \/ Probing # Prober
  PROVE  Fresh \in Conn /\ Fresh \notin conns
<1> DEFINE a == Cardinality(Id)
           b == Cardinality(Prober)
<1>1. /\ IsFiniteSet(Id) /\ IsFiniteSet(Prober) /\ a \in Nat /\ b \in Nat
      /\ Open \in SUBSET Id /\ Probing \in SUBSET Prober
  BY McpManagerAssumption, FS_CardinalityType DEF McpManagerAssumption, Open, Probing
<1>2. /\ Cardinality(Open) \in Nat /\ Cardinality(Probing) \in Nat
      /\ Cardinality(Open) <= a /\ Cardinality(Probing) <= b
      /\ Open # Id => Cardinality(Open) # a
      /\ Probing # Prober => Cardinality(Probing) # b
  <2>1. IsFiniteSet(Open) /\ IsFiniteSet(Probing)
    BY <1>1, FS_Subset
  <2>2. Cardinality(Open) \in Nat /\ Cardinality(Probing) \in Nat
    BY <2>1, FS_CardinalityType
  <2>3. Cardinality(Open) <= a /\ (Open # Id => Cardinality(Open) # a)
    BY <1>1, FS_Subset
  <2>4. Cardinality(Probing) <= b /\ (Probing # Prober => Cardinality(Probing) # b)
    BY <1>1, FS_Subset
  <2> QED
    BY <2>2, <2>3, <2>4
<1>3. Cardinality(conns) = Cardinality(Open) + Cardinality(Probing)
  BY OpenAreCounted
<1>4. Cardinality(Conn) = a + b
  <2> DEFINE n == a + b
  <2>1. n \in Nat /\ Conn = 1 .. n
    BY <1>1 DEF Conn
  <2> HIDE DEF n
  <2>2. Cardinality(1 .. n) = IF 1 > n THEN 0 ELSE n - 1 + 1
    BY <2>1, FS_Interval
  <2>3. Cardinality(1 .. n) = n
    BY <2>1, <2>2
  <2> QED
    BY <2>1, <2>3 DEF n
<1>5. Cardinality(conns) # Cardinality(Conn)
  BY <1>1, <1>2, <1>3, <1>4
<1>6. \E c \in Conn : c \notin conns
  <2>1. conns \subseteq Conn
    BY DEF Types, TypeOK
  <2> QED
    BY <1>5, <2>1
<1> QED
  BY <1>6 DEF Fresh

\* What is a connection is not None, and not what leads to the agent itself.
LEMMA ConnsAreApart == None \notin Conn /\ Own \notin Conn /\ None # Own
<1>1. Conn \subseteq Nat /\ Own \in Nat
  BY DEF Conn, Own
<1>2. Own \notin Conn
  BY DEF Conn, Own
<1> QED
  BY <1>1, <1>2, McpManagerAssumption DEF McpManagerAssumption

\* Letting servers go closes their connections, frees their names and leaves those of
\* the others alone.
LEMMA TeardownKeeps ==
  ASSUME IInv, NEW gone \in SUBSET {i \in Id : servers[i] # None}, Teardown(gone),
         probe' = probe
  PROVE  /\ servers' \in [Id -> Server \cup {None}]
         /\ conns' \subseteq Conn /\ registry' \in [Tool -> Conn \cup {Own, None}]
         /\ OneEach' /\ OpenIsUsed' /\ NamesLead'
         /\ \A i \in Id : servers'[i] = IF i \in gone THEN None ELSE servers[i]
<1>0. /\ servers \in [Id -> Server \cup {None}] /\ conns \subseteq Conn
      /\ registry \in [Tool -> Conn \cup {Own, None}] /\ probe \in [Prober -> Conn \cup {None}]
      /\ OneEach /\ OpenIsUsed /\ NamesLead
  BY DEF IInv, Types, TypeOK, Holds
<1>1. \A i \in Id : servers'[i] = IF i \in gone THEN None ELSE servers[i]
  BY DEF Teardown
<1>2. servers' \in [Id -> Server \cup {None}]
  BY <1>0 DEF Teardown
<1>3. \A t \in Tool : registry'[t] =
         IF \E i \in gone : servers[i] # None /\ t \in servers[i].tools THEN None ELSE registry[t]
  BY DEF Teardown, Without
<1>4. registry' \in [Tool -> Conn \cup {Own, None}]
  BY <1>0 DEF Teardown, Without
<1>5. \A i : i \in Open' <=> i \in Open /\ i \notin gone
  BY <1>1 DEF Open
<1>6. \A i \in Open' : servers'[i] = servers[i] /\ i \in Open /\ i \in Id
  BY <1>1, <1>5 DEF Open
<1>7. Probing' = Probing
  BY DEF Probing
<1>8. OneEach'
  BY <1>0, <1>6, <1>7 DEF OneEach
<1>9. \A c \in Conn : c \in ConnsOf(gone) <=> \E i \in Open : i \in gone /\ servers[i].conn = c
  <2>1. \A c \in Conn : c # None
    BY ConnsAreApart
  <2> QED
    BY <2>1 DEF ConnsOf, Open
<1>10. OpenIsUsed'
  <2> SUFFICES ASSUME NEW c \in Conn PROVE c \in conns' <=> IsUsed(c)'
    BY DEF OpenIsUsed
  <2>1. c \in conns' <=> c \in conns /\ c \notin ConnsOf(gone)
    BY DEF Teardown
  <2>2. c \in conns <=> IsUsed(c)
    BY <1>0 DEF OpenIsUsed
  <2>3. IsUsed(c)' <=> (\E i \in Open : i \notin gone /\ servers[i].conn = c)
                       \/ (\E p \in Probing : probe[p] = c)
    BY <1>5, <1>6, <1>7 DEF IsUsed
  <2>4. IsUsed(c) => ~ ((\E i \in Open : i \in gone /\ servers[i].conn = c)
                        /\ (\/ \E i \in Open : i \notin gone /\ servers[i].conn = c
                            \/ \E p \in Probing : probe[p] = c))
    BY <1>0 DEF OneEach
  <2> QED
    BY <1>9, <2>1, <2>2, <2>3, <2>4 DEF IsUsed
<1>11. NamesLead'
  <2>1. ASSUME NEW i \in Id, servers'[i] # None, NEW t \in servers'[i].tools
        PROVE  servers'[i].conn # None /\ registry'[t] = servers'[i].conn
    <3>1. i \notin gone /\ servers'[i] = servers[i] /\ servers[i] # None /\ t \in servers[i].tools
      BY <1>1, <2>1
    <3>2. servers[i].conn # None /\ registry[t] = servers[i].conn
      BY <1>0, <3>1 DEF NamesLead
    <3>3. t \in Tool
      BY <1>0, <3>1 DEF Server
    <3>4. ASSUME NEW j \in gone, servers[j] # None, t \in servers[j].tools PROVE FALSE
      <4>1. servers[j].conn # None /\ registry[t] = servers[j].conn /\ j \in Id
        BY <1>0, <3>4 DEF NamesLead
      <4>2. i \in Open /\ j \in Open
        BY <3>1, <3>2, <3>4, <4>1 DEF Open
      <4> QED
        BY <1>0, <3>1, <3>2, <4>1, <4>2 DEF OneEach
    <3> QED
      BY <1>3, <3>1, <3>2, <3>3, <3>4
  <2>2. ASSUME NEW t \in Tool, registry'[t] \in Conn
        PROVE  \E i \in Open' : servers'[i].conn = registry'[t] /\ t \in servers'[i].tools
    <3>1. registry'[t] = registry[t] /\ ~ \E i \in gone : servers[i] # None /\ t \in servers[i].tools
      BY <1>3, <2>2, ConnsAreApart
    <3>2. PICK i \in Open : servers[i].conn = registry[t] /\ t \in servers[i].tools
      BY <1>0, <2>2, <3>1 DEF NamesLead
    <3>3. i \notin gone /\ i \in Id
      BY <3>1, <3>2 DEF Open
    <3> QED
      BY <1>1, <1>5, <3>1, <3>2, <3>3
  <2>3. ASSUME NEW t \in Builtin PROVE registry'[t] = Own
    <3>1. t \in Tool /\ registry[t] = Own
      BY <1>0, McpManagerAssumption DEF McpManagerAssumption, NamesLead
    <3>2. ASSUME NEW i \in gone, servers[i] # None, t \in servers[i].tools PROVE FALSE
      <4>1. i \in Id /\ registry[t] = servers[i].conn /\ servers[i].conn # None
        BY <1>0, <3>2 DEF NamesLead
      <4>2. servers[i].conn \in Conn
        BY <1>0, <3>2, <4>1 DEF Server
      <4> QED
        BY <3>1, <4>1, <4>2, ConnsAreApart
    <3> QED
      BY <1>3, <3>1, <3>2
  <2> QED
    BY <2>1, <2>2, <2>3 DEF NamesLead
<1>12. conns' \subseteq Conn
  BY <1>0 DEF Teardown
<1> QED
  BY <1>1, <1>2, <1>4, <1>8, <1>10, <1>11, <1>12

-----------------------------------------------------------------------------
(* Requests.                                                               *)

\* What a step shows that has to do with the table and the requests alone.
LEMMA HoldsStays ==
  ASSUME Holds, UNCHANGED <<probe, dialing, closed, liveVars>>, closed => owner' = None
  PROVE  Holds'
<1>1. /\ probe' = probe /\ dialing' = dialing /\ closed' = closed
      /\ servers' = servers /\ conns' = conns /\ registry' = registry
  BY DEF liveVars
<1>2. Open' = Open /\ Probing' = Probing
  BY <1>1 DEF Open, Probing
<1>3. OneEach' /\ OpenIsUsed'
  BY <1>1, <1>2 DEF Holds, OneEach, OpenIsUsed, IsUsed
<1>4. NamesLead'
  BY <1>1, <1>2 DEF Holds, NamesLead
<1>5. ClosedIsEmpty' /\ DialingIsGone'
  BY <1>1 DEF Holds, ClosedIsEmpty, DialingIsGone
<1> QED
  BY <1>3, <1>4, <1>5 DEF Holds

\* The table as it is, and what has been reconciled with it, stay.
LEMMA FollowsStays ==
  ASSUME Types, Follows,
         UNCHANGED <<tableVars, todo, dialing, applied, closed, servers>>,
         NEW e \in Editor, NEW l \in Listed, list' = [list EXCEPT ![e] = l],
         l.of # None => l.of <= version,
         (~closed /\ l.of = version) => Describes(l.specs)
  PROVE  Follows'
<1>1. /\ rows' = rows /\ version' = version /\ todo' = todo /\ dialing' = dialing
      /\ applied' = applied /\ closed' = closed /\ servers' = servers
  BY DEF tableVars
<1>2. \A d \in Editor : list'[d] = IF d = e THEN l ELSE list[d]
  BY DEF Types
<1>3. VersionsAreHad'
  BY <1>1, <1>2 DEF Follows, VersionsAreHad
<1>4. ListsDescribe'
  <2>1. \A specs : Describes(specs)' <=> Describes(specs)
    BY <1>1 DEF Describes, IsAsked, Enabled, Wanted
  <2> QED
    BY <1>1, <1>2, <2>1 DEF Follows, ListsDescribe
<1>5. AppliedComesTo'
  BY <1>1 DEF Follows, AppliedComesTo, IsAsked, Enabled, Wanted
<1> QED
  BY <1>3, <1>4, <1>5 DEF Follows

\* NoList is of no version of the table.
LEMMA NoListIsNoVersion ==
  /\ NoList \in Listed /\ NoList.of = None
  /\ \A n \in Nat : None # n
BY McpManagerAssumption DEF McpManagerAssumption, NoList, Listed

\* How a request's step changes its own place.
LEMMA PlacesStay ==
  ASSUME Types, NEW e \in Editor, NEW to \in {"idle", "write", "list", "lock", "done"},
         Goto(e, to), epc[e] # "apply", owner' = owner
  PROVE  /\ epc' \in [Editor -> {"idle", "write", "list", "lock", "apply", "done"}]
         /\ \A d \in Editor : epc'[d] = "apply" <=> owner' = d
         /\ \A d \in Editor : epc'[d] = IF d = e THEN to ELSE epc[d]
<1>1. /\ epc \in [Editor -> {"idle", "write", "list", "lock", "apply", "done"}]
      /\ \A d \in Editor : epc[d] = "apply" <=> owner = d
  BY DEF Types, TypeOK
<1>2. \A d \in Editor : epc'[d] = IF d = e THEN to ELSE epc[d]
  BY <1>1 DEF Goto
<1>3. epc' \in [Editor -> {"idle", "write", "list", "lock", "apply", "done"}]
  BY <1>1 DEF Goto
<1> QED
  BY <1>1, <1>2, <1>3

\* What is typed is typed after a request's own step.
LEMMA TypesStay ==
  ASSUME Types, UNCHANGED <<probe, applyVars, closed, liveVars>>,
         NEW e \in Editor, NEW to \in {"idle", "write", "list", "lock", "done"},
         Goto(e, to), epc[e] # "apply",
         NEW a \in Asked \cup {None}, asked' = [asked EXCEPT ![e] = a],
         to = "write" => a \in Asked,
         NEW l \in Listed, list' = [list EXCEPT ![e] = l],
         rows' \in [Id -> Row \cup {None}], version' \in Nat, faults' \in 0 .. MaxFaults
  PROVE  Types'
<1>1. /\ owner' = owner /\ todo' = todo /\ dialing' = dialing /\ applied' = applied
      /\ servers' = servers /\ conns' = conns /\ registry' = registry /\ probe' = probe
      /\ closed' = closed
  BY DEF applyVars, liveVars
<1>2. /\ epc' \in [Editor -> {"idle", "write", "list", "lock", "apply", "done"}]
      /\ \A d \in Editor : epc'[d] = "apply" <=> owner' = d
      /\ \A d \in Editor : epc'[d] = IF d = e THEN to ELSE epc[d]
  BY <1>1, PlacesStay
<1>3. asked' \in [Editor -> Asked \cup {None}] /\ list' \in [Editor -> Listed]
  BY DEF Types
<1>4. \A d \in Editor : epc'[d] = "write" => asked'[d] \in Asked
  <2>1. \A d \in Editor : asked'[d] = IF d = e THEN a ELSE asked[d]
    BY DEF Types
  <2>2. \A d \in Editor : epc[d] = "write" => asked[d] \in Asked
    BY DEF Types, TypeOK, Asked
  <2> QED
    BY <1>2, <2>1, <2>2
<1>5. \A d \in Editor : list'[d].specs \in Seq(ServerSpec) /\ list'[d].of \in Nat \cup {None}
  BY <1>3 DEF Listed
<1>6. TypeOK'
  BY <1>1, <1>2, <1>4, <1>5 DEF Types, TypeOK, Asked
<1> QED
  BY <1>1, <1>3, <1>6 DEF Types

\* Where a request stands.
LEMMA RequestStands ==
  ASSUME IInv, NEW e \in Editor
  PROVE  /\ asked[e] \in Asked \cup {None} /\ asked = [asked EXCEPT ![e] = asked[e]]
         /\ list[e] \in Listed /\ list = [list EXCEPT ![e] = list[e]]
         /\ list[e].of # None => list[e].of <= version
         /\ (~closed /\ list[e].of = version) => Describes(list[e].specs)
         /\ rows \in [Id -> Row \cup {None}] /\ version \in Nat /\ faults \in 0 .. MaxFaults
         /\ closed => owner = None
         /\ Types /\ Holds /\ Follows
BY DEF IInv, Types, TypeOK, Holds, Follows, VersionsAreHad, ListsDescribe, ClosedIsEmpty

\* A request that makes up its mind.
LEMMA AskKeeps ==
  ASSUME IInv, NEW e \in Editor, epc[e] = "idle", Goto(e, "write"),
         NEW a \in Asked, asked' = [asked EXCEPT ![e] = a],
         UNCHANGED <<tableVars, list, probe, applyVars, closed, liveVars, faults>>
  PROVE  IInv'
<1>1. list' = [list EXCEPT ![e] = list[e]] /\ rows' = rows /\ version' = version /\ faults' = faults
  BY RequestStands DEF tableVars
<1>2. Types'
  <2> DEFINE l == list[e]
  <2>1. l \in Listed /\ list' = [list EXCEPT ![e] = l]
    BY <1>1, RequestStands
  <2>2. rows' \in [Id -> Row \cup {None}] /\ version' \in Nat /\ faults' \in 0 .. MaxFaults
    BY <1>1, RequestStands
  <2>3. Types
    BY DEF IInv
  <2> HIDE DEF l
  <2> QED
    BY <2>1, <2>2, <2>3, TypesStay
<1>3. Holds'
  <2>1. UNCHANGED <<probe, dialing, closed, liveVars>> /\ owner' = owner
    BY DEF applyVars
  <2> QED
    BY <2>1, RequestStands, HoldsStays
<1>4. Follows'
  <2>1. UNCHANGED <<tableVars, todo, dialing, applied, closed, servers>>
    BY DEF applyVars, liveVars
  <2> QED
    BY <1>1, <2>1, RequestStands, FollowsStays
<1> QED
  BY <1>2, <1>3, <1>4 DEF IInv

LEMMA SaveKeeps ==
  ASSUME IInv, NEW e \in Editor, NEW i \in Id, Save(e, i) \/ Toggle(e, i) \/ Delete(e, i)
  PROVE  IInv'
<1>1. rows[i] \in Row \cup {None}
  BY DEF IInv, Types, TypeOK
<1>2. \E a \in Asked : asked' = [asked EXCEPT ![e] = a]
  <2>1. CASE Save(e, i)
    BY <2>1 DEF Save, Asked
  <2>2. CASE Toggle(e, i)
    <3>1. [rows[i] EXCEPT !.on = ~@] \in Row
      BY <1>1, <2>2 DEF Toggle, Row
    <3> QED
      BY <2>2, <3>1 DEF Toggle, Asked
  <2>3. CASE Delete(e, i)
    BY <2>3 DEF Delete, Asked
  <2> QED
    BY <2>1, <2>2, <2>3
<1>3. /\ epc[e] = "idle" /\ Goto(e, "write")
      /\ UNCHANGED <<tableVars, list, probe, applyVars, closed, liveVars, faults>>
  BY DEF Save, Toggle, Delete
<1> QED
  BY <1>2, <1>3, AskKeeps

\* A write makes a new version, which nothing is of yet.
LEMMA WriteKeeps ==
  ASSUME IInv, NEW e \in Editor, Write(e)
  PROVE  IInv'
<1>1. asked[e] \in Asked /\ epc[e] = "write" /\ Types /\ Holds /\ Follows
  BY DEF IInv, Types, TypeOK, Asked, Write
<1>2. /\ UNCHANGED <<probe, applyVars, closed, liveVars>> /\ list' = list /\ faults' = faults
      /\ asked' = [asked EXCEPT ![e] = None]
  BY DEF Write
<1>3. /\ rows' \in [Id -> Row \cup {None}] /\ version' \in Nat
      /\ \/ Goto(e, "done") /\ UNCHANGED tableVars
         \/ Goto(e, "list") /\ version' = version + 1
  <2>1. rows \in [Id -> Row \cup {None}] /\ version \in Nat
    BY <1>1 DEF Types, TypeOK
  <2>2. asked[e].id \in Id /\ asked[e].row \in Row \cup {None}
    BY <1>1 DEF Asked
  <2> QED
    BY <2>1, <2>2 DEF Write, tableVars
<1>4. Types'
  <2> DEFINE l == list[e]
  <2>1. l \in Listed /\ list' = [list EXCEPT ![e] = l]
    BY <1>2, RequestStands
  <2>2. faults' \in 0 .. MaxFaults
    BY <1>2, RequestStands
  <2> HIDE DEF l
  <2>3. CASE Goto(e, "done")
    BY <1>1, <1>2, <1>3, <2>1, <2>2, <2>3, TypesStay
  <2>4. CASE Goto(e, "list")
    BY <1>1, <1>2, <1>3, <2>1, <2>2, <2>4, TypesStay
  <2> QED
    BY <1>3, <2>3, <2>4
<1>5. Holds'
  <2>1. UNCHANGED <<probe, dialing, closed, liveVars>> /\ owner' = owner
    BY <1>2 DEF applyVars
  <2> QED
    BY <2>1, RequestStands, HoldsStays
<1>6. Follows'
  <2>1. UNCHANGED <<todo, dialing, applied, closed, servers>> /\ list' = list
    BY <1>2 DEF applyVars, liveVars
  <2>2. CASE UNCHANGED tableVars
    <3>1. list' = [list EXCEPT ![e] = list[e]]
      BY <1>2, RequestStands
    <3> QED
      BY <2>1, <2>2, <3>1, RequestStands, FollowsStays
  <2>3. CASE version' = version + 1
    <3>1. version \in Nat /\ applied \in Nat \cup {None} /\ \A d \in Editor : list[d].of \in Nat \cup {None}
      BY <1>1 DEF Types, TypeOK
    <3>2. \A n \in Nat : n <= version => n <= version' /\ n # version'
      BY <2>3, <3>1
    <3>3. None # version'
      BY <1>3, NoListIsNoVersion
    <3>4. applied' # version' /\ \A d \in Editor : list'[d].of # version'
      BY <1>1, <2>1, <3>1, <3>2, <3>3 DEF Follows, VersionsAreHad
    <3>5. VersionsAreHad'
      BY <1>1, <2>1, <3>1, <3>2 DEF Follows, VersionsAreHad
    <3> QED
      BY <3>4, <3>5 DEF Follows, ListsDescribe, AppliedComesTo
  <2> QED
    BY <1>3, <2>2, <2>3
<1> QED
  BY <1>4, <1>5, <1>6 DEF IInv

\* A request that has its list, or gives it up, leaves the table and the manager alone.
LEMMA ListKeeps ==
  ASSUME IInv, NEW e \in Editor,
         NEW to \in {"lock", "done"}, Goto(e, to), epc[e] # "apply",
         NEW l \in Listed, list' = [list EXCEPT ![e] = l],
         l.of # None => l.of <= version,
         (~closed /\ l.of = version) => Describes(l.specs),
         UNCHANGED <<tableVars, asked, probe, applyVars, closed, liveVars>>,
         faults' \in 0 .. MaxFaults
  PROVE  IInv'
<1>1. rows' = rows /\ version' = version
  BY DEF tableVars
<1>2. Types'
  <2> DEFINE a == asked[e]
  <2>1. a \in Asked \cup {None} /\ asked' = [asked EXCEPT ![e] = a]
    BY RequestStands
  <2>2. rows' \in [Id -> Row \cup {None}] /\ version' \in Nat
    BY <1>1, RequestStands
  <2>3. Types
    BY DEF IInv
  <2> HIDE DEF a
  <2> QED
    BY <2>1, <2>2, <2>3, TypesStay
<1>3. Holds'
  <2>1. UNCHANGED <<probe, dialing, closed, liveVars>> /\ owner' = owner
    BY DEF applyVars
  <2> QED
    BY <2>1, RequestStands, HoldsStays
<1>4. Follows'
  <2>1. UNCHANGED <<tableVars, todo, dialing, applied, closed, servers>>
    BY DEF applyVars, liveVars
  <2> QED
    BY <2>1, RequestStands, FollowsStays
<1> QED
  BY <1>2, <1>3, <1>4 DEF IInv

LEMMA ListingKeeps ==
  ASSUME IInv, NEW e \in Editor, List(e) \/ ListFails(e) \/ Late(e)
  PROVE  IInv'
<1>1. CASE List(e)
  <2> DEFINE l == [specs |-> Specs(rows), of |-> version]
  <2>1. l \in Listed /\ l.of = version /\ Describes(l.specs) /\ version <= version
    BY SpecsDescribe DEF IInv, Types, TypeOK, Listed
  <2>2. list' = [list EXCEPT ![e] = l]
    BY <1>1 DEF List
  <2> HIDE DEF l
  <2>3. /\ Goto(e, "lock") /\ epc[e] # "apply" /\ faults' \in 0 .. MaxFaults
        /\ UNCHANGED <<tableVars, asked, probe, applyVars, closed, liveVars>>
    BY <1>1, RequestStands DEF List
  <2> QED
    BY <2>1, <2>2, <2>3, ListKeeps
<1>2. CASE ListFails(e) \/ Late(e)
  <2> DEFINE l == NoList
  <2>1. l \in Listed /\ l.of = None /\ None # version
    BY NoListIsNoVersion, RequestStands
  <2>2. list' = [list EXCEPT ![e] = l]
    BY <1>2 DEF ListFails, Late
  <2>3. faults' \in 0 .. MaxFaults
    <3>1. faults \in 0 .. MaxFaults /\ MaxFaults \in Nat
      BY RequestStands, McpManagerAssumption DEF McpManagerAssumption
    <3> QED
      BY <1>2, <3>1 DEF ListFails, Late
  <2> HIDE DEF l
  <2>4. /\ epc[e] # "apply" /\ \E to \in {"lock", "done"} : Goto(e, to)
        /\ UNCHANGED <<tableVars, asked, probe, applyVars, closed, liveVars>>
    BY <1>2 DEF ListFails, Late
  <2> QED
    BY <2>1, <2>2, <2>3, <2>4, ListKeeps
<1> QED
  BY <1>1, <1>2

\* A reload lists what the manager has, which is of the version reconciled with last.
LEMMA ReloadKeeps ==
  ASSUME IInv, NEW e \in Editor, Reload(e)
  PROVE  IInv'
<1> DEFINE live == {i \in Id : servers[i] # None}
<1>1. PICK order \in SetToSeqs(live) :
        list' = [list EXCEPT ![e] = [specs |-> [k \in DOMAIN order |->
                                     [id |-> order[k], def |-> servers[order[k]].def]],
                                     of |-> applied]]
  BY DEF Reload
<1> DEFINE specs == [k \in DOMAIN order |-> [id |-> order[k], def |-> servers[order[k]].def]]
           l == [specs |-> specs, of |-> applied]
<1>2. order \in Seq(live) /\ \A i \in live : \E k \in DOMAIN order : order[k] = i
  <2>1. live \in SUBSET Id
    OBVIOUS
  <2> HIDE DEF live
  <2> QED
    BY <2>1, ListsAreComplete
<1>3. \A i \in live : i \in Id /\ servers[i] # None /\ servers[i].def \in Def
  BY DEF IInv, Types, TypeOK, Server
<1>4. Len(order) \in Nat /\ DOMAIN order = 1 .. Len(order) /\ \A k \in DOMAIN order : order[k] \in live
  BY <1>2
<1> HIDE DEF live
<1>5. specs \in Seq(ServerSpec)
  BY <1>3, <1>4 DEF ServerSpec
<1>6. applied \in Nat \cup {None} /\ (applied # None => applied <= version)
  BY DEF IInv, Types, Follows, VersionsAreHad
<1>7. ASSUME ~closed, applied = version PROVE Describes(specs)
  <2>1. owner = None /\ todo = <<>> /\ dialing = None
    BY DEF Reload, IInv, Types, TypeOK
  <2>2. ~ \E i : i \in Wanted(todo)
    BY <2>1 DEF Wanted
  <2>3. \A i \in Id : servers[i] # None => Enabled(rows, i) /\ servers[i].def = rows[i].def
    BY <1>7, <2>2 DEF IInv, Follows, AppliedComesTo
  <2>4. \A i \in Id : Enabled(rows, i) => i \in live
    BY <1>7, <2>1, <2>2 DEF IInv, Follows, AppliedComesTo, live
  <2>5. \A k \in DOMAIN specs : IsAsked(specs[k])
    BY <1>3, <1>4, <2>3 DEF IsAsked
  <2>6. \A i \in Id : Enabled(rows, i) => i \in Wanted(specs)
    BY <1>2, <2>4 DEF Wanted
  <2> HIDE DEF specs
  <2> QED
    BY <2>5, <2>6 DEF Describes
<1> HIDE DEF specs
<1>8. l \in Listed /\ l.of = applied /\ l.specs = specs
  BY <1>5, <1>6 DEF Listed
<1>9. list' = [list EXCEPT ![e] = l]
  BY <1>1 DEF specs
<1> HIDE DEF l
<1>10. /\ Goto(e, "lock") /\ epc[e] # "apply" /\ faults' \in 0 .. MaxFaults
       /\ UNCHANGED <<tableVars, asked, probe, applyVars, closed, liveVars>>
  BY RequestStands DEF Reload
<1> QED
  BY <1>6, <1>7, <1>8, <1>9, <1>10, ListKeeps

-----------------------------------------------------------------------------
(* The reconciliation.                                                     *)

\* The list of a request whose specs are being reconciled is forgotten.
LEMMA ApplyKeeps ==
  ASSUME IInv, NEW e \in Editor, Apply(e)
  PROVE  IInv'
<1> DEFINE specs == list[e].specs
           gone == {i \in Id : servers[i] # None} \ Wanted(specs)
<1>1. /\ epc[e] = "lock" /\ owner = None /\ ~closed /\ epc' = [epc EXCEPT ![e] = "apply"]
      /\ owner' = e /\ todo' = specs /\ applied' = list[e].of
      /\ list' = [list EXCEPT ![e] = NoList] /\ Teardown(gone)
      /\ UNCHANGED <<tableVars, asked, probe, dialing, closed, faults>>
  BY DEF Apply, Goto
<1>2. specs \in Seq(ServerSpec) /\ list[e].of \in Nat \cup {None}
  BY DEF IInv, Types, TypeOK
<1>3. dialing = None /\ \A d \in Editor : owner # d
  BY <1>1, McpManagerAssumption DEF IInv, Types, TypeOK, McpManagerAssumption
<1>4. gone \in SUBSET {i \in Id : servers[i] # None} /\ probe' = probe
  BY <1>1
<1> HIDE DEF gone
<1>5. /\ servers' \in [Id -> Server \cup {None}]
      /\ conns' \subseteq Conn /\ registry' \in [Tool -> Conn \cup {Own, None}]
      /\ OneEach' /\ OpenIsUsed' /\ NamesLead'
      /\ \A i \in Id : servers'[i] = IF i \in gone THEN None ELSE servers[i]
  BY <1>1, <1>4, TeardownKeeps
<1>6. Types'
  <2>1. list' \in [Editor -> Listed]
    BY <1>1, NoListIsNoVersion DEF IInv, Types
  <2>2. \A d \in Editor : list'[d].specs \in Seq(ServerSpec) /\ list'[d].of \in Nat \cup {None}
    BY <2>1 DEF Listed
  <2>3. /\ epc' \in [Editor -> {"idle", "write", "list", "lock", "apply", "done"}]
        /\ \A d \in Editor : epc'[d] = "apply" <=> owner' = d
        /\ \A d \in Editor : epc'[d] = "write" => epc[d] = "write"
    BY <1>1, <1>3 DEF IInv, Types, TypeOK
  <2>4. owner' # None
    BY <1>1, McpManagerAssumption DEF McpManagerAssumption
  <2>5. /\ rows' = rows /\ version' = version /\ asked' = asked /\ dialing' = dialing
        /\ faults' = faults /\ probe' = probe
    BY <1>1 DEF tableVars
  <2>6. TypeOK'
    BY <1>1, <1>2, <1>5, <2>2, <2>3, <2>4, <2>5 DEF IInv, Types, TypeOK
  <2> QED
    BY <1>1, <1>2, <2>1, <2>5, <2>6 DEF IInv, Types
<1>7. Holds'
  <2>1. ClosedIsEmpty' /\ DialingIsGone'
    BY <1>1, <1>3 DEF ClosedIsEmpty, DialingIsGone
  <2> QED
    BY <1>5, <2>1 DEF Holds
<1>8. Follows'
  <2>0. rows' = rows /\ version' = version /\ dialing' = None /\ closed' = closed
    BY <1>1, <1>3 DEF tableVars
  <2>1. \A d \in Editor : list'[d] = IF d = e THEN NoList ELSE list[d]
    BY <1>1 DEF IInv, Types
  <2>2. None # version
    BY NoListIsNoVersion DEF IInv, Types, TypeOK
  <2>3. VersionsAreHad'
    BY <1>1, <2>0, <2>1, NoListIsNoVersion DEF IInv, Follows, VersionsAreHad
  <2>4. \A s : Describes(s)' <=> Describes(s)
    BY <2>0 DEF Describes, IsAsked, Enabled, Wanted
  <2>5. ListsDescribe'
    BY <2>0, <2>1, <2>2, <2>4, NoListIsNoVersion DEF IInv, Follows, ListsDescribe
  <2>6. ASSUME list[e].of = version
        PROVE  /\ \A k \in DOMAIN specs : IsAsked(specs[k])
               /\ \A i \in Id : servers'[i] # None => Enabled(rows, i) /\ i \in Wanted(specs)
               /\ \A i \in Id : Enabled(rows, i) => i \in Wanted(specs)
    <3>1. Describes(specs)
      BY <1>1, <2>6 DEF IInv, Follows, ListsDescribe
    <3>2. \A i \in Wanted(specs) : Enabled(rows, i)
      BY <3>1 DEF Describes, IsAsked, Wanted
    <3>3. \A i \in Id : servers'[i] # None => i \in Wanted(specs)
      BY <1>5 DEF gone
    <3> QED
      BY <3>1, <3>2, <3>3 DEF Describes
  <2> HIDE DEF specs
  <2>7. AppliedComesTo'
    <3>1. \A spec : IsAsked(spec)' <=> IsAsked(spec)
      BY <2>0 DEF IsAsked, Enabled
    <3>2. \A i : Enabled(rows, i)' <=> Enabled(rows, i)
      BY <2>0 DEF Enabled
    <3>3. todo' = specs /\ Wanted(todo)' = Wanted(specs)
      BY <1>1 DEF Wanted
    <3> QED
      BY <1>1, <2>0, <2>6, <3>1, <3>2, <3>3 DEF AppliedComesTo
  <2> QED
    BY <2>3, <2>5, <2>7 DEF Follows
<1> QED
  BY <1>6, <1>7, <1>8 DEF IInv

\* What the reconciliation goes through.
LEMMA HeadAndTail ==
  ASSUME NEW specs \in Seq(ServerSpec), specs # <<>>
  PROVE  /\ Head(specs) \in ServerSpec /\ Tail(specs) \in Seq(ServerSpec)
         /\ Wanted(specs) = {Head(specs).id} \cup Wanted(Tail(specs))
         /\ 1 \in DOMAIN specs /\ specs[1] = Head(specs)
         /\ \A k \in DOMAIN Tail(specs) : k + 1 \in DOMAIN specs /\ Tail(specs)[k] = specs[k + 1]
<1>1. /\ Len(specs) \in Nat /\ Len(specs) >= 1 /\ DOMAIN specs = 1 .. Len(specs)
      /\ Head(specs) = specs[1] /\ Head(specs) \in ServerSpec /\ Tail(specs) \in Seq(ServerSpec)
  OBVIOUS
<1>2. DOMAIN Tail(specs) = 1 .. Len(specs) - 1
  OBVIOUS
<1>3. \A k \in 1 .. Len(specs) - 1 : Tail(specs)[k] = specs[k + 1]
  OBVIOUS
<1>4. \A k \in 1 .. Len(specs) - 1 : k + 1 \in 1 .. Len(specs)
  BY <1>1
<1>5. \A k \in 1 .. Len(specs) : k = 1 \/ (k - 1 \in 1 .. Len(specs) - 1 /\ (k - 1) + 1 = k)
  BY <1>1
<1>6. \A k \in 1 .. Len(specs) :
         k = 1 \/ \E j \in 1 .. Len(specs) - 1 : Tail(specs)[j] = specs[k]
  BY <1>3, <1>5
<1>7. ASSUME NEW i \in Wanted(specs) PROVE i = Head(specs).id \/ i \in Wanted(Tail(specs))
  <2>1. PICK k \in 1 .. Len(specs) : specs[k].id = i
    BY <1>1 DEF Wanted
  <2>2. CASE k = 1
    BY <1>1, <2>1, <2>2
  <2>3. CASE k # 1
    <3>1. PICK j \in 1 .. Len(specs) - 1 : Tail(specs)[j] = specs[k]
      BY <1>6, <2>3
    <3>2. j \in DOMAIN Tail(specs) /\ Tail(specs)[j].id = i
      BY <1>2, <2>1, <3>1
    <3> QED
      BY <3>2 DEF Wanted
  <2> QED
    BY <2>2, <2>3
<1>8. Wanted(Tail(specs)) \subseteq Wanted(specs)
  BY <1>1, <1>2, <1>3, <1>4 DEF Wanted
<1>9. Head(specs).id \in Wanted(specs)
  BY <1>1 DEF Wanted
<1> QED
  BY <1>1, <1>2, <1>3, <1>4, <1>7, <1>8, <1>9

\* The next spec is left alone, or its server is let go and it is dialed.
LEMMA KeepKeeps ==
  ASSUME IInv, NEW e \in Editor, Keep(e)
  PROVE  IInv'
<1>1. /\ owner = e /\ dialing = None /\ todo # <<>> /\ LeftAlone(Head(todo)) /\ todo' = Tail(todo)
      /\ UNCHANGED <<tableVars, editVars, probe, owner, dialing, applied, closed, liveVars, faults>>
  BY DEF Keep
<1>2. /\ rows' = rows /\ version' = version /\ epc' = epc /\ asked' = asked /\ list' = list
      /\ servers' = servers /\ conns' = conns /\ registry' = registry
  BY <1>1 DEF tableVars, editVars, liveVars
<1>3. todo \in Seq(ServerSpec)
  BY DEF IInv, Types, TypeOK
<1>4. owner # None
  BY <1>1, McpManagerAssumption DEF McpManagerAssumption
<1>5. Types'
  <2>1. todo' \in Seq(ServerSpec)
    BY <1>1, <1>3, HeadAndTail
  <2>2. TypeOK'
    BY <1>1, <1>2, <1>4, <2>1 DEF IInv, Types, TypeOK
  <2> QED
    BY <1>1, <1>2, <2>2 DEF IInv, Types
<1>6. Holds'
  <2>1. closed => owner' = None
    BY <1>1 DEF IInv, Holds, ClosedIsEmpty
  <2> QED
    BY <1>1, <2>1, HoldsStays DEF IInv
<1>7. Follows'
  <2>1. VersionsAreHad' /\ ListsDescribe'
    BY <1>1, <1>2 DEF IInv, Follows, VersionsAreHad, ListsDescribe, Describes, IsAsked, Enabled, Wanted
  <2>2. AppliedComesTo'
    <3> DEFINE rest == Tail(todo)
    <3>0. /\ \A i : Enabled(rows, i)' <=> Enabled(rows, i)
          /\ \A spec : IsAsked(spec)' <=> IsAsked(spec)
          /\ Wanted(todo)' = Wanted(rest)
      BY <1>1, <1>2 DEF IsAsked, Enabled, Wanted
    <3> SUFFICES ASSUME ~closed, applied = version
                 PROVE  /\ \A k \in DOMAIN rest : IsAsked(rest[k])
                        /\ \A i \in Id : servers[i] # None =>
                              Enabled(rows, i) /\ (servers[i].def = rows[i].def \/ i \in Wanted(rest))
                        /\ \A i \in Id : Enabled(rows, i) => servers[i] # None \/ i \in Wanted(rest)
      BY <1>1, <1>2, <3>0 DEF AppliedComesTo
    <3>1. /\ \A k \in DOMAIN todo : IsAsked(todo[k])
          /\ \A i \in Id : servers[i] # None =>
                Enabled(rows, i) /\ (servers[i].def = rows[i].def \/ i \in Wanted(todo))
          /\ \A i \in Id : Enabled(rows, i) => servers[i] # None \/ i \in Wanted(todo)
      BY <1>1 DEF IInv, Follows, AppliedComesTo
    <3>2. IsAsked(Head(todo)) /\ \A k \in DOMAIN rest : IsAsked(rest[k])
      BY <1>1, <1>3, <3>1, HeadAndTail
    <3>3. servers[Head(todo).id] # None /\ servers[Head(todo).id].def = rows[Head(todo).id].def
      BY <1>1, <3>2 DEF LeftAlone, IsAsked
    <3>4. Wanted(todo) = {Head(todo).id} \cup Wanted(rest)
      BY <1>1, <1>3, HeadAndTail
    <3> HIDE DEF rest
    <3> QED
      BY <3>1, <3>2, <3>3, <3>4
  <2> QED
    BY <2>1, <2>2 DEF Follows
<1> QED
  BY <1>5, <1>6, <1>7 DEF IInv

LEMMA RedialKeeps ==
  ASSUME IInv, NEW e \in Editor, Redial(e)
  PROVE  IInv'
<1> DEFINE spec == Head(todo)
           gone == {i \in {spec.id} : servers[i] # None}
           rest == Tail(todo)
<1>1. /\ owner = e /\ dialing = None /\ todo # <<>> /\ todo' = rest /\ dialing' = spec
      /\ Teardown(gone)
      /\ UNCHANGED <<tableVars, editVars, probe, owner, applied, closed, faults>>
  BY DEF Redial
<1>2. rows' = rows /\ version' = version /\ epc' = epc /\ asked' = asked /\ list' = list
  BY <1>1 DEF tableVars, editVars
<1>3. todo \in Seq(ServerSpec)
  BY DEF IInv, Types, TypeOK
<1>4. /\ spec \in ServerSpec /\ rest \in Seq(ServerSpec)
      /\ Wanted(todo) = {spec.id} \cup Wanted(rest)
      /\ 1 \in DOMAIN todo /\ todo[1] = spec
      /\ \A k \in DOMAIN rest : k + 1 \in DOMAIN todo /\ rest[k] = todo[k + 1]
  BY <1>1, <1>3, HeadAndTail
<1> HIDE DEF spec, rest
<1>5. spec.id \in Id
  BY <1>4 DEF ServerSpec
<1>6. gone \in SUBSET {i \in Id : servers[i] # None} /\ probe' = probe
  BY <1>1, <1>5
<1>7. \A i \in Id : i \in gone <=> i = spec.id /\ servers[i] # None
  OBVIOUS
<1> HIDE DEF gone
<1>8. /\ servers' \in [Id -> Server \cup {None}]
      /\ conns' \subseteq Conn /\ registry' \in [Tool -> Conn \cup {Own, None}]
      /\ OneEach' /\ OpenIsUsed' /\ NamesLead'
      /\ \A i \in Id : servers'[i] = IF i \in gone THEN None ELSE servers[i]
  BY <1>1, <1>6, TeardownKeeps
<1>9. owner # None
  BY <1>1, McpManagerAssumption DEF McpManagerAssumption
<1>10. Types'
  <2>1. TypeOK'
    BY <1>1, <1>2, <1>4, <1>8, <1>9 DEF IInv, Types, TypeOK
  <2> QED
    BY <1>1, <1>2, <2>1 DEF IInv, Types
<1>11. Holds'
  <2>1. ~closed
    BY <1>9 DEF IInv, Holds, ClosedIsEmpty
  <2>2. servers'[spec.id] = None
    BY <1>5, <1>7, <1>8
  <2>3. ClosedIsEmpty' /\ DialingIsGone'
    BY <1>1, <2>1, <2>2 DEF ClosedIsEmpty, DialingIsGone
  <2> QED
    BY <1>8, <2>3 DEF Holds
<1>12. Follows'
  <2>1. VersionsAreHad' /\ ListsDescribe'
    BY <1>1, <1>2 DEF IInv, Follows, VersionsAreHad, ListsDescribe, Describes, IsAsked, Enabled, Wanted
  <2>2. AppliedComesTo'
    <3>0. /\ \A i : Enabled(rows, i)' <=> Enabled(rows, i)
          /\ \A s : IsAsked(s)' <=> IsAsked(s)
          /\ Wanted(todo)' = Wanted(rest)
      BY <1>1, <1>2 DEF IsAsked, Enabled, Wanted
    <3> DEFINE Goal == /\ \A k \in DOMAIN rest : IsAsked(rest[k])
                       /\ IsAsked(spec)
                       /\ \A i \in Id : servers'[i] # None =>
                             Enabled(rows, i) /\ (servers'[i].def = rows[i].def \/ i \in Wanted(rest))
                       /\ \A i \in Id : Enabled(rows, i) =>
                             servers'[i] # None \/ i \in Wanted(rest) \/ spec.id = i
    <3>a. IsAsked(dialing)' <=> IsAsked(spec)
      BY <1>1, <1>2 DEF IsAsked, Enabled
    <3>b. Goal => AppliedComesTo'
      <4> SUFFICES ASSUME Goal PROVE AppliedComesTo'
        OBVIOUS
      <4>1. \A k \in DOMAIN todo' : IsAsked(todo[k])'
        BY <1>1, <3>0
      <4>2. (dialing # None)' => IsAsked(dialing)'
        BY <3>a
      <4>3. \A i \in Id : servers'[i] # None =>
               Enabled(rows, i)' /\ (servers'[i].def = rows'[i].def \/ i \in Wanted(todo)')
        BY <1>2, <3>0
      <4>4. dialing' # None
        BY <1>1, <1>4, NoneIsNoRecord
      <4>5. \A i \in Id : Enabled(rows, i)' =>
               servers'[i] # None \/ i \in Wanted(todo)' \/ (dialing' # None /\ dialing'.id = i)
        BY <1>1, <3>0, <4>4
      <4> QED
        BY <4>1, <4>2, <4>3, <4>5 DEF AppliedComesTo
    <3> SUFFICES ASSUME ~closed, applied = version PROVE Goal
      <4>1. ~(~closed /\ applied = version) => AppliedComesTo'
        BY <1>1, <1>2 DEF AppliedComesTo
      <4> QED
        BY <3>b, <4>1
    <3>1. /\ \A k \in DOMAIN todo : IsAsked(todo[k])
          /\ \A i \in Id : servers[i] # None =>
                Enabled(rows, i) /\ (servers[i].def = rows[i].def \/ i \in Wanted(todo))
          /\ \A i \in Id : Enabled(rows, i) => servers[i] # None \/ i \in Wanted(todo)
      BY <1>1 DEF IInv, Follows, AppliedComesTo
    <3>2. IsAsked(spec) /\ \A k \in DOMAIN rest : IsAsked(rest[k])
      BY <1>4, <3>1
    <3> QED
      BY <1>4, <1>7, <1>8, <3>1, <3>2
  <2> QED
    BY <2>1, <2>2 DEF Follows
<1> QED
  BY <1>10, <1>11, <1>12 DEF IInv

\* A connection that nobody has goes to the one server that has none.
LEMMA DialedKeeps ==
  ASSUME IInv, NEW e \in Editor, Dialed(e)
  PROVE  IInv'
<1> DEFINE d == dialing.id
           took == Takes(dialing.def)
<1>1. /\ owner = e /\ dialing # None /\ dialing' = None
      /\ UNCHANGED <<tableVars, editVars, probe, owner, todo, applied, closed, faults>>
  BY DEF Dialed
<1>2. /\ rows' = rows /\ version' = version /\ epc' = epc /\ asked' = asked /\ list' = list
      /\ probe' = probe
  BY <1>1 DEF tableVars, editVars
<1>3. dialing \in ServerSpec /\ d \in Id /\ dialing.def \in Def /\ servers[d] = None
  BY <1>1 DEF IInv, Types, TypeOK, ServerSpec, Holds, DialingIsGone
<1>4. Fresh \in Conn /\ Fresh \notin conns
  <2>1. d \notin Open
    BY <1>3 DEF Open
  <2> QED
    BY <1>3, <2>1, FreshIsFree DEF IInv, Holds
<1>5. took \subseteq Tool /\ \A t \in took : registry[t] = None
  BY <1>3, McpManagerAssumption DEF McpManagerAssumption, Takes
<1> DEFINE Came(c, tools, ok) ==
             /\ Record(c, tools, ok)
             /\ conns' = conns \cup ({c} \ {None})
             /\ registry' = [t \in Tool |-> IF t \in tools THEN c ELSE registry[t]]
<1>6. \/ Came(None, {}, FALSE)
      \/ Came(Fresh, {}, FALSE)
      \/ Came(Fresh, took, took = Offers[dialing.def])
  <2>1. Fresh # None
    BY <1>4, ConnsAreApart
  <2>2. registry \in [Tool -> Conn \cup {Own, None}]
    BY DEF IInv, Types, TypeOK
  <2>3. registry = [t \in Tool |-> IF t \in {} THEN None ELSE registry[t]]
    BY <2>2
  <2>4. registry = [t \in Tool |-> IF t \in {} THEN Fresh ELSE registry[t]]
    BY <2>2
  <2> HIDE DEF took
  <2>5. \/ Record(None, {}, FALSE) /\ conns' = conns /\ registry' = registry
        \/ Record(Fresh, {}, FALSE) /\ conns' = conns \cup {Fresh} /\ registry' = registry
        \/ /\ Record(Fresh, took, took = Offers[dialing.def]) /\ conns' = conns \cup {Fresh}
           /\ registry' = [t \in Tool |-> IF t \in took THEN Fresh ELSE registry[t]]
    BY DEF Dialed, took
  <2>6. conns \cup ({Fresh} \ {None}) = conns \cup {Fresh} /\ conns \cup ({None} \ {None}) = conns
    BY <2>1
  <2> QED
    BY <2>3, <2>4, <2>5, <2>6
<1>7. PICK c \in Conn \cup {None}, tools \in SUBSET Tool, ok \in BOOLEAN :
        /\ Came(c, tools, ok) /\ c \notin conns
        /\ c = None => tools = {}
        /\ \A t \in tools : registry[t] = None
  <2>1. None \notin conns
    BY ConnsAreApart DEF IInv, Types, TypeOK
  <2> HIDE DEF Came, took
  <2>2. Fresh # None /\ Fresh \in Conn /\ Fresh \notin conns
    BY <1>4, ConnsAreApart
  <2> DEFINE full == (took = Offers[dialing.def])
  <2>3. full \in BOOLEAN
    OBVIOUS
  <2>4. \/ Came(None, {}, FALSE)
        \/ Came(Fresh, {}, FALSE)
        \/ Came(Fresh, took, full)
    BY <1>6
  <2> HIDE DEF full
  <2> DEFINE none == {}
             no == FALSE
  <2>a. none \in SUBSET Tool /\ no \in BOOLEAN /\ \A t \in none : registry[t] = None
    OBVIOUS
  <2>b. none = {}
    OBVIOUS
  <2>5. CASE Came(None, {}, FALSE)
    <3>1. Came(None, none, no)
      BY <2>5
    <3> HIDE DEF none, no
    <3> QED
      BY <2>1, <2>a, <2>b, <3>1
  <2>6. CASE Came(Fresh, {}, FALSE)
    <3>1. Came(Fresh, none, no)
      BY <2>6
    <3> HIDE DEF none, no
    <3> QED
      BY <2>2, <2>a, <3>1
  <2>7. CASE Came(Fresh, took, full)
    BY <1>5, <2>2, <2>3, <2>7
  <2> QED
    BY <2>4, <2>5, <2>6, <2>7
<1> HIDE DEF took
<1>8. /\ servers' = [servers EXCEPT ![d] = [def |-> dialing.def, conn |-> c, tools |-> tools, ok |-> ok]]
      /\ conns' = conns \cup ({c} \ {None})
      /\ registry' = [t \in Tool |-> IF t \in tools THEN c ELSE registry[t]]
  BY <1>7 DEF Record
<1>9. [def |-> dialing.def, conn |-> c, tools |-> tools, ok |-> ok] \in Server
  BY <1>3 DEF Server
<1> DEFINE rec == [def |-> dialing.def, conn |-> c, tools |-> tools, ok |-> ok]
<1>10. rec \in Server /\ rec # None /\ rec.conn = c /\ rec.tools = tools /\ rec.def = dialing.def
  BY <1>9, NoneIsNoRecord
<1> HIDE DEF rec, Came
<1>11. /\ servers' \in [Id -> Server \cup {None}]
       /\ \A i \in Id : servers'[i] = IF i = d THEN rec ELSE servers[i]
  <2>1. servers \in [Id -> Server \cup {None}] /\ servers' = [servers EXCEPT ![d] = rec]
    BY <1>8 DEF IInv, Types, TypeOK, rec
  <2> HIDE DEF d
  <2> QED
    BY <1>10, <2>1
<1> HIDE DEF d
<1>12. conns' \subseteq Conn /\ registry' \in [Tool -> Conn \cup {Own, None}]
  BY <1>8 DEF IInv, Types, TypeOK
<1>13. Types'
  <2>1. owner # None
    BY <1>1, McpManagerAssumption DEF McpManagerAssumption
  <2>2. TypeOK'
    BY <1>1, <1>2, <1>11, <1>12, <2>1 DEF IInv, Types, TypeOK
  <2> QED
    BY <1>1, <1>2, <2>2 DEF IInv, Types
<1>14. /\ \A i : i \in Open' <=> (i \in Open /\ i # d) \/ (i = d /\ c # None)
       /\ d \notin Open /\ Probing' = Probing
  BY <1>2, <1>3, <1>10, <1>11 DEF Open, Probing
<1>15. /\ \A i \in Open' : i # d => i \in Open /\ i \in Id /\ servers'[i] = servers[i]
       /\ d \in Open' => servers'[d].conn = c /\ c \in Conn
  BY <1>3, <1>10, <1>11, <1>14 DEF Open
<1>16. c # None => \A i \in Open : servers[i].conn # c
  <2>1. \A i \in Open : servers[i].conn \in Conn
    BY DEF IInv, Types, TypeOK, Server, Open
  <2> QED
    BY <1>7, <2>1 DEF IInv, Holds, OpenIsUsed, IsUsed
<1>17. c # None => \A p \in Probing : probe[p] # c
  <2>1. \A p \in Probing : probe[p] \in Conn
    BY DEF IInv, Types, TypeOK, Probing
  <2> QED
    BY <1>7, <2>1 DEF IInv, Holds, OpenIsUsed, IsUsed
<1>18. OneEach'
  <2>0. OneEach
    BY DEF IInv, Holds
  <2>1. \A i, j \in Open' : servers'[i].conn = servers'[j].conn => i = j
    BY <1>14, <1>15, <1>16, <2>0 DEF OneEach
  <2>2. \A p, q \in Probing' : probe'[p] = probe'[q] => p = q
    BY <1>2, <1>14, <2>0 DEF OneEach
  <2>3. \A i \in Open', p \in Probing' : servers'[i].conn # probe'[p]
    BY <1>2, <1>14, <1>15, <1>17, <2>0 DEF OneEach
  <2> QED
    BY <2>1, <2>2, <2>3 DEF OneEach
<1>19. OpenIsUsed'
  <2> SUFFICES ASSUME NEW x \in Conn PROVE x \in conns' <=> IsUsed(x)'
    BY DEF OpenIsUsed
  <2>1. x # None
    BY ConnsAreApart
  <2>2. x \in conns' <=> x \in conns \/ x = c
    BY <1>8, <2>1
  <2>3. x \in conns <=> IsUsed(x)
    BY DEF IInv, Holds, OpenIsUsed
  <2>4. (\E i \in Open' : servers'[i].conn = x) <=> (\E i \in Open : servers[i].conn = x) \/ x = c
    <3>1. ASSUME NEW i \in Open', servers'[i].conn = x
          PROVE  (\E j \in Open : servers[j].conn = x) \/ x = c
      BY <1>15, <3>1
    <3>2. ASSUME NEW i \in Open, servers[i].conn = x PROVE \E j \in Open' : servers'[j].conn = x
      BY <1>14, <1>15, <3>2
    <3>3. ASSUME x = c PROVE \E j \in Open' : servers'[j].conn = x
      BY <1>14, <1>15, <2>1, <3>3
    <3> QED
      BY <3>1, <3>2, <3>3
  <2>5. (\E p \in Probing' : probe'[p] = x) <=> (\E p \in Probing : probe[p] = x)
    BY <1>2, <1>14
  <2> QED
    BY <2>2, <2>3, <2>4, <2>5 DEF IsUsed
<1>20. NamesLead'
  <2>0. NamesLead
    BY DEF IInv, Holds
  <2>1. ASSUME NEW i \in Id, servers'[i] # None, NEW t \in servers'[i].tools
        PROVE  servers'[i].conn # None /\ registry'[t] = servers'[i].conn
    <3>1. CASE i = d
      <4>1. t \in tools /\ servers'[i].conn = c
        BY <1>10, <1>11, <2>1, <3>1
      <4>2. c # None /\ t \in Tool
        BY <1>7, <4>1
      <4> QED
        BY <1>8, <4>1, <4>2
    <3>2. CASE i # d
      <4>1. servers'[i] = servers[i] /\ servers[i].conn # None /\ registry[t] = servers[i].conn
        BY <1>11, <2>0, <2>1, <3>2 DEF NamesLead
      <4>2. t \in Tool
        BY <1>11, <2>1, <3>2 DEF IInv, Types, TypeOK, Server
      <4>3. t \notin tools
        BY <1>7, <4>1
      <4> QED
        BY <1>8, <4>1, <4>2, <4>3
    <3> QED
      BY <3>1, <3>2
  <2>2. ASSUME NEW t \in Tool, registry'[t] \in Conn
        PROVE  \E i \in Open' : servers'[i].conn = registry'[t] /\ t \in servers'[i].tools
    <3>1. CASE t \in tools
      <4>1. registry'[t] = c /\ c # None
        BY <1>7, <1>8, <3>1
      <4>2. d \in Open' /\ servers'[d].conn = c /\ t \in servers'[d].tools
        BY <1>3, <1>10, <1>11, <1>14, <3>1, <4>1
      <4> QED
        BY <4>1, <4>2
    <3>2. CASE t \notin tools
      <4>1. registry'[t] = registry[t]
        BY <1>8, <3>2
      <4>2. PICK i \in Open : servers[i].conn = registry[t] /\ t \in servers[i].tools
        BY <2>0, <2>2, <4>1 DEF NamesLead
      <4>3. i \in Open' /\ i # d /\ servers'[i] = servers[i]
        BY <1>14, <1>15, <4>2
      <4> QED
        BY <4>1, <4>2, <4>3
    <3> QED
      BY <3>1, <3>2
  <2>3. ASSUME NEW t \in Builtin PROVE registry'[t] = Own
    <3>1. t \in Tool /\ registry[t] = Own
      BY <2>0, McpManagerAssumption DEF McpManagerAssumption, NamesLead
    <3>2. t \notin tools
      BY <1>7, <3>1, ConnsAreApart
    <3> QED
      BY <1>8, <3>1, <3>2
  <2> QED
    BY <2>1, <2>2, <2>3 DEF NamesLead
<1>21. Holds'
  <2>1. owner # None
    BY <1>1, McpManagerAssumption DEF McpManagerAssumption
  <2>2. ~closed
    BY <2>1 DEF IInv, Holds, ClosedIsEmpty
  <2>3. ClosedIsEmpty' /\ DialingIsGone'
    BY <1>1, <2>2 DEF ClosedIsEmpty, DialingIsGone
  <2> QED
    BY <1>18, <1>19, <1>20, <2>3 DEF Holds
<1>22. Follows'
  <2>1. VersionsAreHad' /\ ListsDescribe'
    BY <1>1, <1>2 DEF IInv, Follows, VersionsAreHad, ListsDescribe, Describes, IsAsked, Enabled, Wanted
  <2>2. AppliedComesTo'
    <3>0. /\ \A i : Enabled(rows, i)' <=> Enabled(rows, i)
          /\ \A k : IsAsked(todo[k])' <=> IsAsked(todo[k])
          /\ Wanted(todo)' = Wanted(todo)
      BY <1>1, <1>2 DEF IsAsked, Enabled, Wanted
    <3> SUFFICES ASSUME ~closed, applied = version
                 PROVE  /\ \A k \in DOMAIN todo : IsAsked(todo[k])
                        /\ \A i \in Id : servers'[i] # None =>
                              Enabled(rows, i) /\ (servers'[i].def = rows[i].def \/ i \in Wanted(todo))
                        /\ \A i \in Id : Enabled(rows, i) => servers'[i] # None \/ i \in Wanted(todo)
      BY <1>1, <1>2, <3>0 DEF AppliedComesTo
    <3>1. /\ \A k \in DOMAIN todo : IsAsked(todo[k])
          /\ IsAsked(dialing)
          /\ \A i \in Id : servers[i] # None =>
                Enabled(rows, i) /\ (servers[i].def = rows[i].def \/ i \in Wanted(todo))
          /\ \A i \in Id : Enabled(rows, i) => servers[i] # None \/ i \in Wanted(todo) \/ i = d
      BY <1>1 DEF IInv, Follows, AppliedComesTo, d
    <3>2. Enabled(rows, d) /\ dialing.def = rows[d].def
      BY <3>1 DEF IsAsked, d
    <3> QED
      BY <1>10, <1>11, <3>1, <3>2
  <2> QED
    BY <2>1, <2>2 DEF Follows
<1> QED
  BY <1>13, <1>21, <1>22 DEF IInv

\* A reconciliation that is through.
LEMMA UnlockKeeps ==
  ASSUME IInv, NEW e \in Editor, Unlock(e)
  PROVE  IInv'
<1>1. /\ owner = e /\ dialing = None /\ todo = <<>> /\ owner' = None
      /\ epc' = [epc EXCEPT ![e] = "done"]
      /\ UNCHANGED <<tableVars, asked, list, probe, todo, dialing, applied, closed, liveVars, faults>>
  BY DEF Unlock, Goto
<1>2. /\ rows' = rows /\ version' = version /\ servers' = servers /\ conns' = conns
      /\ registry' = registry
  BY <1>1 DEF tableVars, liveVars
<1>3. Types'
  <2>1. /\ epc' \in [Editor -> {"idle", "write", "list", "lock", "apply", "done"}]
        /\ \A d \in Editor : epc'[d] # "apply" /\ (epc'[d] = "write" => epc[d] = "write")
    BY <1>1 DEF IInv, Types, TypeOK
  <2>2. \A d \in Editor : owner' # d
    BY <1>1, McpManagerAssumption DEF McpManagerAssumption
  <2>3. TypeOK'
    BY <1>1, <1>2, <2>1, <2>2 DEF IInv, Types, TypeOK
  <2> QED
    BY <1>1, <2>3 DEF IInv, Types
<1>4. Holds'
  BY <1>1, HoldsStays DEF IInv
<1>5. Follows'
  BY <1>1, <1>2 DEF IInv, Follows, VersionsAreHad, ListsDescribe, AppliedComesTo, Describes,
                   IsAsked, Enabled, Wanted
<1> QED
  BY <1>3, <1>4, <1>5 DEF IInv

-----------------------------------------------------------------------------
(* Probes and the end.                                                     *)

\* The table, the requests and the reconciliation do not change.
LEMMA ProbesChangeLittle ==
  ASSUME IInv, UNCHANGED <<tableVars, editVars, applyVars, closed, servers, registry, faults>>,
         probe' \in [Prober -> Conn \cup {None}], conns' \subseteq Conn, OneEach', OpenIsUsed'
  PROVE  IInv'
<1>1. /\ rows' = rows /\ version' = version /\ epc' = epc /\ asked' = asked /\ list' = list
      /\ owner' = owner /\ todo' = todo /\ dialing' = dialing /\ applied' = applied
  BY DEF tableVars, editVars, applyVars
<1>2. Types'
  <2>1. TypeOK'
    BY <1>1 DEF IInv, Types, TypeOK
  <2> QED
    BY <1>1, <2>1 DEF IInv, Types
<1>3. Holds'
  <2>1. Open' = Open
    BY DEF Open
  <2>2. NamesLead' /\ ClosedIsEmpty' /\ DialingIsGone'
    BY <1>1, <2>1 DEF IInv, Holds, NamesLead, ClosedIsEmpty, DialingIsGone
  <2> QED
    BY <2>2 DEF Holds
<1>4. Follows'
  BY <1>1 DEF IInv, Follows, VersionsAreHad, ListsDescribe, AppliedComesTo, Describes,
              IsAsked, Enabled, Wanted
<1> QED
  BY <1>2, <1>3, <1>4 DEF IInv

LEMMA ProbeDialKeeps ==
  ASSUME IInv, NEW p \in Prober, ProbeDial(p)
  PROVE  IInv'
<1> DEFINE c == Fresh
<1>1. /\ probe[p] = None /\ probe' = [probe EXCEPT ![p] = c] /\ conns' = conns \cup {c}
      /\ UNCHANGED <<tableVars, editVars, applyVars, closed, servers, registry, faults>>
  BY DEF ProbeDial
<1>2. probe \in [Prober -> Conn \cup {None}] /\ conns \subseteq Conn /\ OneEach /\ OpenIsUsed
  BY DEF IInv, Types, TypeOK, Holds
<1>3. c \in Conn /\ c \notin conns
  <2>1. p \notin Probing
    BY <1>1 DEF Probing
  <2> QED
    BY <1>2, <2>1, FreshIsFree DEF IInv
<1> HIDE DEF c
<1>4. c # None /\ \A q \in Prober : probe'[q] = IF q = p THEN c ELSE probe[q]
  BY <1>1, <1>2, <1>3, ConnsAreApart
<1>5. /\ Open' = Open /\ p \notin Probing /\ p \in Probing'
      /\ \A q : q \in Probing' <=> q \in Probing \/ q = p
      /\ \A q \in Probing : probe'[q] = probe[q]
  BY <1>1, <1>4 DEF Open, Probing
<1>6. ~ IsUsed(c)
  BY <1>2, <1>3 DEF OpenIsUsed
<1>7. OneEach'
  BY <1>1, <1>2, <1>4, <1>5, <1>6 DEF OneEach, IsUsed
<1>8. OpenIsUsed'
  <2> SUFFICES ASSUME NEW x \in Conn PROVE x \in conns' <=> IsUsed(x)'
    BY DEF OpenIsUsed
  <2>1. IsUsed(x)' <=> IsUsed(x) \/ x = c
    BY <1>1, <1>4, <1>5 DEF IsUsed
  <2> QED
    BY <1>1, <1>2, <2>1 DEF OpenIsUsed
<1> QED
  BY <1>1, <1>2, <1>3, <1>7, <1>8, ProbesChangeLittle

LEMMA ProbeCloseKeeps ==
  ASSUME IInv, NEW p \in Prober, ProbeClose(p)
  PROVE  IInv'
<1>1. /\ probe[p] # None /\ probe' = [probe EXCEPT ![p] = None] /\ conns' = conns \ {probe[p]}
      /\ UNCHANGED <<tableVars, editVars, applyVars, closed, servers, registry, faults>>
  BY DEF ProbeClose
<1>2. probe \in [Prober -> Conn \cup {None}] /\ conns \subseteq Conn /\ OneEach /\ OpenIsUsed
  BY DEF IInv, Types, TypeOK, Holds
<1>3. \A q \in Prober : probe'[q] = IF q = p THEN None ELSE probe[q]
  BY <1>1, <1>2
<1>4. /\ Open' = Open /\ p \in Probing
      /\ \A q : q \in Probing' <=> q \in Probing /\ q # p
      /\ \A q \in Probing' : probe'[q] = probe[q]
  BY <1>1, <1>3 DEF Open, Probing
<1>5. OneEach'
  BY <1>1, <1>2, <1>4 DEF OneEach
<1>6. OpenIsUsed'
  <2> SUFFICES ASSUME NEW x \in Conn PROVE x \in conns' <=> IsUsed(x)'
    BY DEF OpenIsUsed
  <2>1. CASE x = probe[p]
    <3>1. ~ IsUsed(x)'
      BY <1>1, <1>2, <1>4, <2>1 DEF OneEach, IsUsed
    <3> QED
      BY <1>1, <2>1, <3>1
  <2>2. CASE x # probe[p]
    <3>1. IsUsed(x)' <=> IsUsed(x)
      BY <1>1, <1>4, <2>2 DEF IsUsed
    <3> QED
      BY <1>1, <1>2, <2>2, <3>1 DEF OpenIsUsed
  <2> QED
    BY <2>1, <2>2
<1>7. probe' \in [Prober -> Conn \cup {None}] /\ conns' \subseteq Conn
  BY <1>1, <1>2
<1> QED
  BY <1>1, <1>5, <1>6, <1>7, ProbesChangeLittle

LEMMA CloseKeeps ==
  ASSUME IInv, Close
  PROVE  IInv'
<1> DEFINE gone == {i \in Id : servers[i] # None}
<1>1. /\ owner = None /\ closed' = TRUE /\ Teardown(gone)
      /\ UNCHANGED <<tableVars, editVars, probe, applyVars, faults>>
  BY DEF Close
<1>2. /\ rows' = rows /\ version' = version /\ epc' = epc /\ asked' = asked /\ list' = list
      /\ owner' = owner /\ todo' = todo /\ dialing' = dialing /\ applied' = applied
      /\ probe' = probe /\ faults' = faults
  BY <1>1 DEF tableVars, editVars, applyVars
<1>3. dialing = None /\ todo = <<>>
  BY <1>1 DEF IInv, Types, TypeOK
<1>4. gone \in SUBSET {i \in Id : servers[i] # None} /\ \A i \in Id : i \notin gone => servers[i] = None
  OBVIOUS
<1> HIDE DEF gone
<1>5. /\ servers' \in [Id -> Server \cup {None}]
      /\ conns' \subseteq Conn /\ registry' \in [Tool -> Conn \cup {Own, None}]
      /\ OneEach' /\ OpenIsUsed' /\ NamesLead'
      /\ \A i \in Id : servers'[i] = IF i \in gone THEN None ELSE servers[i]
  BY <1>1, <1>2, <1>4, TeardownKeeps
<1>6. Types'
  <2>1. TypeOK'
    BY <1>2, <1>5 DEF IInv, Types, TypeOK
  <2> QED
    BY <1>2, <2>1 DEF IInv, Types
<1>7. Holds'
  <2>1. ClosedIsEmpty' /\ DialingIsGone'
    BY <1>1, <1>2, <1>3, <1>4, <1>5 DEF ClosedIsEmpty, DialingIsGone
  <2> QED
    BY <1>5, <2>1 DEF Holds
<1>8. Follows'
  BY <1>1, <1>2 DEF IInv, Follows, VersionsAreHad, ListsDescribe, AppliedComesTo
<1> QED
  BY <1>6, <1>7, <1>8 DEF IInv

-----------------------------------------------------------------------------
(* The invariant.                                                          *)

LEMMA InitInvariant == Init => IInv
<1> SUFFICES ASSUME Init PROVE IInv
  OBVIOUS
<1>1. Types
  <2>1. list \in [Editor -> Listed] /\ \A e \in Editor : list[e] = NoList
    BY NoListIsNoVersion DEF Init
  <2>2. \A e \in Editor : list[e].specs \in Seq(ServerSpec) /\ list[e].of \in Nat \cup {None}
    BY <2>1 DEF Listed
  <2>3. /\ epc \in [Editor -> {"idle", "write", "list", "lock", "apply", "done"}]
        /\ \A e \in Editor : epc[e] # "write" /\ epc[e] # "apply"
    BY DEF Init
  <2>4. \A e \in Editor : owner # e
    BY McpManagerAssumption DEF Init, McpManagerAssumption
  <2>5. todo \in Seq(ServerSpec) /\ version \in Nat /\ faults \in 0 .. MaxFaults
    BY McpManagerAssumption DEF Init, McpManagerAssumption
  <2>6. registry \in [Tool -> Conn \cup {Own, None}]
    BY DEF Init
  <2>7. TypeOK
    BY <2>2, <2>3, <2>4, <2>5, <2>6 DEF Init, TypeOK
  <2> QED
    BY <2>1, <2>7 DEF Types, Init
<1>2. Holds
  <2>1. ~ (\E i : i \in Open) /\ ~ (\E p : p \in Probing)
    BY DEF Init, Open, Probing
  <2>2. OneEach /\ OpenIsUsed
    BY <2>1 DEF Init, OneEach, OpenIsUsed, IsUsed
  <2>3. NamesLead
    <3>1. \A t \in Tool : registry[t] \notin Conn
      BY ConnsAreApart DEF Init
    <3>2. \A t \in Builtin : registry[t] = Own
      BY McpManagerAssumption DEF Init, McpManagerAssumption
    <3> QED
      BY <3>1, <3>2 DEF Init, NamesLead
  <2>4. ClosedIsEmpty /\ DialingIsGone
    BY DEF Init, ClosedIsEmpty, DialingIsGone
  <2> QED
    BY <2>2, <2>3, <2>4 DEF Holds
<1>3. Follows
  <2>1. None # version /\ version \in Nat
    BY NoListIsNoVersion DEF Init
  <2>2. \A e \in Editor : list[e].of = None
    BY NoListIsNoVersion DEF Init
  <2>3. applied = None
    BY DEF Init
  <2> QED
    BY <2>1, <2>2, <2>3 DEF Follows, VersionsAreHad, ListsDescribe, AppliedComesTo
<1> QED
  BY <1>1, <1>2, <1>3 DEF IInv

LEMMA NextKeeps == IInv /\ [Next]_vars => IInv'
<1> SUFFICES ASSUME IInv, [Next]_vars PROVE IInv'
  OBVIOUS
<1>1. ASSUME NEW e \in Editor,
             \/ \E i \in Id : Save(e, i) \/ Toggle(e, i) \/ Delete(e, i)
             \/ Write(e) \/ List(e) \/ ListFails(e) \/ Reload(e) \/ Late(e)
             \/ Apply(e) \/ Keep(e) \/ Redial(e) \/ Dialed(e) \/ Unlock(e)
      PROVE  IInv'
  BY <1>1, SaveKeeps, WriteKeeps, ListingKeeps, ReloadKeeps, ApplyKeeps, KeepKeeps,
     RedialKeeps, DialedKeeps, UnlockKeeps
<1>2. ASSUME NEW p \in Prober, ProbeDial(p) \/ ProbeClose(p) PROVE IInv'
  BY <1>2, ProbeDialKeeps, ProbeCloseKeeps
<1>3. CASE Close
  BY <1>3, CloseKeeps
<1>4. CASE UNCHANGED vars
  BY <1>4 DEF vars, tableVars, editVars, applyVars, liveVars, IInv, Types, TypeOK, Holds, OneEach,
              OpenIsUsed, IsUsed, Open, Probing, NamesLead, ClosedIsEmpty, DialingIsGone,
              Follows, VersionsAreHad, ListsDescribe, AppliedComesTo, Describes, IsAsked,
              Enabled, Wanted
<1> QED
  BY <1>1, <1>2, <1>3, <1>4 DEF Next

LEMMA Invariant == Spec => []IInv
<1>1. Init => IInv
  BY InitInvariant
<1>2. IInv /\ [Next]_vars => IInv'
  BY NextKeeps
<1> QED
  BY <1>1, <1>2, PTL DEF Spec

-----------------------------------------------------------------------------
(* Theorems.                                                               *)

\* Whatever requests, probes and failures there are, everything keeps its type and
\* whoever reconciles holds the manager's lock.
THEOREM OnlyTheOwnerReconciles == Spec => []TypeOK
<1>1. IInv => TypeOK
  BY DEF IInv, Types
<1> QED
  BY <1>1, Invariant, PTL

\* What the model is offered, what the manager holds and what is open agree, for any
\* number of servers, names, requests and probes.
THEOREM OfferStaysHeld == Spec => []OfferedIsHeld
<1>1. ASSUME IInv PROVE OfferedIsHeld
  <2> DEFINE live == {i \in Id : servers[i] # None}
             held == {i \in live : servers[i].conn # None}
  <2>1. held = Open /\ {p \in Prober : probe[p] # None} = Probing
    BY DEF Open, Probing
  <2>2. Types /\ OneEach /\ OpenIsUsed /\ NamesLead /\ ClosedIsEmpty
    BY <1>1 DEF IInv, Holds
  <2>3. /\ Cardinality(conns) = Cardinality(Open) + Cardinality(Probing)
        /\ conns = {servers[i].conn : i \in Open} \cup {probe[p] : p \in Probing}
    BY <2>2, OpenAreCounted
  <2>4. Held = {servers[i].conn : i \in Open}
    BY DEF Held, Open
  <2>5. {probe[p] : p \in Prober} \ {None} = {probe[p] : p \in Probing}
    BY DEF Probing
  <2>6. conns = Held \cup ({probe[p] : p \in Prober} \ {None})
    BY <2>3, <2>4, <2>5
  <2>7. \A i \in live : \A t \in servers[i].tools :
           servers[i].conn # None /\ registry[t] = servers[i].conn
    BY <2>2 DEF NamesLead
  <2>8. /\ \A t \in Tool : registry[t] \in Conn =>
              \E i \in held : servers[i].conn = registry[t] /\ t \in servers[i].tools
        /\ \A t \in Builtin : registry[t] = Own
    BY <2>1, <2>2 DEF NamesLead
  <2>9. closed => live = {}
    BY <2>2 DEF ClosedIsEmpty
  <2>10. Cardinality(conns) = Cardinality(held) + Cardinality({p \in Prober : probe[p] # None})
    BY <2>1, <2>3
  <2> QED
    BY <2>6, <2>7, <2>8, <2>9, <2>10 DEF OfferedIsHeld
<1> QED
  BY <1>1, Invariant, PTL

\* Once every request is through and the table as it is was reconciled with last, the
\* manager has exactly the enabled servers by their present definitions.
THEOREM EditsComeThrough == Spec => []EditsTakeEffect
<1>1. ASSUME IInv PROVE EditsTakeEffect
  <2> SUFFICES ASSUME Quiet, ~closed, applied = version
               PROVE  \A i \in Id : /\ servers[i] # None <=> Enabled(rows, i)
                                    /\ servers[i] # None => servers[i].def = rows[i].def
    BY DEF EditsTakeEffect
  <2>1. owner = None
    BY <1>1 DEF IInv, Types, TypeOK, Quiet
  <2>2. todo = <<>> /\ dialing = None
    BY <1>1, <2>1 DEF IInv, Types, TypeOK
  <2>3. \A i : i \notin Wanted(todo)
    BY <2>2 DEF Wanted
  <2> QED
    BY <1>1, <2>2, <2>3 DEF IInv, Follows, AppliedComesTo
<1> QED
  BY <1>1, Invariant, PTL
=============================================================================
