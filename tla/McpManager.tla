----------------------------- MODULE McpManager -----------------------------
(***************************************************************************)
(* The MCP servers of the console: the rows an operator edits, the           *)
(* connections the manager holds and the tools it puts into the registry     *)
(* every turn is offered.  An edit writes its row, lists the rows and then    *)
(* reconciles the connections with that list under the manager's lock, dials  *)
(* included, so other edits, probes and a shutdown come in between.           *)
(*                                                                           *)
(* A definition stands for all that Fingerprint renders; a rename changes     *)
(* nothing here.  Rows are the operator's own: those declared in the          *)
(* configuration only have their switch, and every other request for them is  *)
(* refused.  A request that is refused changes nothing and is left out, as is *)
(* one whose write the store refuses.                                        *)
(***************************************************************************)
EXTENDS Naturals, Sequences, FiniteSets, SequencesExt

CONSTANTS Id,        \* server ids: numbers, which order them
          Def,       \* definitions of servers
          Tool,      \* tool names
          Offers,    \* the names each definition's server lists
          Builtin,   \* the names the agent's own tools have
          Editor,    \* requests of the console that edit, toggle, delete or reload
          Starter,   \* the reconciliation the process starts with, one of Editor
          Prober,    \* requests that test a connection
          None,
          MaxFaults  \* bound: listings of the rows that fail

ASSUME McpManagerAssumption ==
         /\ Id \subseteq Nat /\ IsFiniteSet(Id) /\ IsFiniteSet(Prober)
         /\ Offers \in [Def -> SUBSET Tool]
         /\ Builtin \subseteq Tool
         /\ Starter \in Editor
         /\ None \notin Def \cup Editor \cup Nat /\ Id \cap Prober = {}
         /\ MaxFaults \in Nat

VARIABLES
  rows,      \* the table mcp_servers
  version,   \* history variable: how many writes the table has had
  \* the requests
  epc,       \* how far each has come
  asked,     \* the row it is about to write, or None to delete it
  list,      \* the specs it reconciles with and the version they are of
  probe,     \* the connection each probe holds, or None
  \* the manager
  owner,     \* who holds Manager.mu
  todo,      \* the specs the reconciliation under way has not come to
  dialing,   \* the one it is connecting, or None
  servers,   \* Manager.servers
  closed,
  applied,   \* history variable: the version of the specs reconciled with last
  \* the world
  conns,     \* the connections that are open
  registry,  \* the tool each name leads to: a connection, the agent itself or None
  faults     \* how many listings the store has failed

tableVars == <<rows, version>>
editVars  == <<epc, asked, list>>
applyVars == <<owner, todo, dialing, applied>>
liveVars  == <<servers, conns, registry>>
vars == <<tableVars, editVars, probe, applyVars, closed, liveVars, faults>>

-----------------------------------------------------------------------------
(* Rows, specs and connections.                                            *)

Row        == [def : Def, on : BOOLEAN]
ServerSpec == [id : Id, def : Def]

\* As many as can ever be open: one a server and one a probe.
Conn == 1..(Cardinality(Id) + Cardinality(Prober))

\* What a name of the agent's own leads to.
Own == 0

Server == [def : Def, conn : Conn \cup {None}, tools : SUBSET Tool, ok : BOOLEAN]

ASSUME NoneIsNoRecord == None \notin Row \cup ServerSpec \cup Server

Enabled(r, i) == r[i] # None /\ r[i].on

InOrder(ids) ==
  CHOOSE order \in SetToSeqs(ids) : \A j, k \in DOMAIN order : j < k => order[j] < order[k]

\* enabledMCPSpecs: the enabled rows, by id.
Specs(r) ==
  LET ids == InOrder({i \in Id : Enabled(r, i)})
  IN  [k \in DOMAIN ids |-> [id |-> ids[k], def |-> r[ids[k]].def]]

Wanted(specs) == {specs[k].id : k \in DOMAIN specs}

Held == {servers[i].conn : i \in {j \in Id : servers[j] # None}} \ {None}

Fresh == CHOOSE c \in Conn : c \notin conns

\* teardownLocked, for a set of servers: their tools leave the registry.
Without(reg, gone) ==
  [t \in Tool |-> IF \E i \in gone : servers[i] # None /\ t \in servers[i].tools
                  THEN None ELSE reg[t]]

ConnsOf(gone) == {servers[i].conn : i \in {j \in gone : servers[j] # None}}

\* Several servers are let go at once, with their connections.
Teardown(gone) ==
  /\ registry' = Without(registry, gone)
  /\ conns' = conns \ ConnsOf(gone)
  /\ servers' = [i \in Id |-> IF i \in gone THEN None ELSE servers[i]]

\* What a connection came to.
Record(conn, tools, ok) ==
  servers' = [servers EXCEPT ![dialing.id] =
                [def |-> dialing.def, conn |-> conn, tools |-> tools, ok |-> ok]]

\* No specs at all, of no version of the table.
NoList == [specs |-> <<>>, of |-> None]

\* Mutant of Takes: a server takes over the names that others have.
TakesAll(d) == Offers[d]

\* registerToolSpecs: the names of a definition that nothing else has.
Takes(d) == {t \in Offers[d] : registry[t] = None}

Goto(e, stage) == epc' = [epc EXCEPT ![e] = stage]

-----------------------------------------------------------------------------
Init ==
  /\ rows \in [Id -> Row \cup {None}]
  /\ version = 0
  /\ epc = [e \in Editor |-> IF e = Starter THEN "list" ELSE "idle"]
  /\ asked = [e \in Editor |-> None]
  /\ list = [e \in Editor |-> NoList]
  /\ probe = [p \in Prober |-> None]
  /\ owner = None /\ todo = <<>> /\ dialing = None /\ applied = None
  /\ servers = [i \in Id |-> None]
  /\ closed = FALSE
  /\ conns = {}
  /\ registry = [t \in Tool |-> IF t \in Builtin THEN Own ELSE None]
  /\ faults = 0

-----------------------------------------------------------------------------
(* The requests, up to the lock.                                           *)

\* handleUpsertMCPServer up to the write, of a definition that was stated: the
\* switch is in the body or as it was read.
Save(e, i) ==
  /\ epc[e] = "idle" /\ Goto(e, "write")
  /\ \E row \in Row : asked' = [asked EXCEPT ![e] = [id |-> i, row |-> row]]
  /\ UNCHANGED <<tableVars, list, probe, applyVars, closed, liveVars, faults>>

\* A toggle writes back the row it read, whatever becomes of it meanwhile.
Toggle(e, i) ==
  /\ epc[e] = "idle" /\ rows[i] # None /\ Goto(e, "write")
  /\ asked' = [asked EXCEPT ![e] = [id |-> i, row |-> [rows[i] EXCEPT !.on = ~@]]]
  /\ UNCHANGED <<tableVars, list, probe, applyVars, closed, liveVars, faults>>

\* handleDeleteMCPServer up to the deletion.
Delete(e, i) ==
  /\ epc[e] = "idle" /\ rows[i] # None /\ Goto(e, "write")
  /\ asked' = [asked EXCEPT ![e] = [id |-> i, row |-> None]]
  /\ UNCHANGED <<tableVars, list, probe, applyVars, closed, liveVars, faults>>

\* UpsertMCPServer or DeleteMCPServer; what has been deleted already is not found.
Write(e) ==
  /\ epc[e] = "write"
  /\ asked' = [asked EXCEPT ![e] = None]
  /\ IF asked[e].row = None /\ rows[asked[e].id] = None
     THEN Goto(e, "done") /\ UNCHANGED tableVars
     ELSE /\ Goto(e, "list")
          /\ rows' = [rows EXCEPT ![asked[e].id] = asked[e].row]
          /\ version' = version + 1
  /\ UNCHANGED <<list, probe, applyVars, closed, liveVars, faults>>

\* enabledMCPSpecs, outside the manager's lock.
List(e) ==
  /\ epc[e] = "list" /\ Goto(e, "lock")
  /\ list' = [list EXCEPT ![e] = [specs |-> Specs(rows), of |-> version]]
  /\ UNCHANGED <<tableVars, asked, probe, applyVars, closed, liveVars, faults>>

\* The store fails: the runtime is reconciled with no server at all.
ListFails(e) ==
  /\ epc[e] = "list" /\ Goto(e, "lock")
  /\ faults < MaxFaults /\ faults' = faults + 1
  /\ list' = [list EXCEPT ![e] = NoList]
  /\ UNCHANGED <<tableVars, asked, probe, applyVars, closed, liveVars>>

\* Refresh: the specs the manager has, in the order of a map, and the lock is let
\* go of before they are applied.
Reload(e) ==
  /\ epc[e] = "idle" /\ owner = None /\ Goto(e, "lock")
  /\ \E order \in SetToSeqs({i \in Id : servers[i] # None}) :
       list' = [list EXCEPT ![e] =
                  [specs |-> [k \in DOMAIN order |->
                                [id |-> order[k], def |-> servers[order[k]].def]],
                   of |-> applied]]
  /\ UNCHANGED <<tableVars, asked, probe, applyVars, closed, liveVars, faults>>

-----------------------------------------------------------------------------
(* Apply.                                                                  *)

\* Mutant of Late: it returns with the lock held.
LateHolding(e) ==
  /\ epc[e] = "lock" /\ owner = None /\ closed
  /\ Goto(e, "done") /\ owner' = e
  /\ list' = [list EXCEPT ![e] = NoList]
  /\ UNCHANGED <<tableVars, asked, probe, todo, dialing, applied, closed, liveVars, faults>>

\* A manager that has been closed reconciles nothing.
Late(e) ==
  /\ epc[e] = "lock" /\ owner = None /\ closed
  /\ Goto(e, "done")
  /\ list' = [list EXCEPT ![e] = NoList]
  /\ UNCHANGED <<tableVars, asked, probe, applyVars, closed, liveVars, faults>>

\* The lock is taken and the servers that are not wanted are let go.
Apply(e) ==
  /\ epc[e] = "lock" /\ owner = None /\ ~closed
  /\ Goto(e, "apply") /\ owner' = e
  /\ todo' = list[e].specs
  /\ applied' = list[e].of
  /\ list' = [list EXCEPT ![e] = NoList]
  /\ Teardown({i \in Id : servers[i] # None} \ Wanted(list[e].specs))
  /\ UNCHANGED <<tableVars, asked, probe, dialing, closed, faults>>

\* Mutant of LeftAlone: what was edited is not looked at.
LeftAloneEdited(spec) ==
  servers[spec.id] # None /\ servers[spec.id].ok /\ servers[spec.id].conn # None

\* A server whose definition did not change and of which everything is registered
\* is left alone.
LeftAlone(spec) ==
  LET cur == servers[spec.id]
  IN  cur # None /\ cur.ok /\ cur.conn # None /\ cur.def = spec.def

Keep(e) ==
  /\ owner = e /\ dialing = None /\ todo # <<>> /\ LeftAlone(Head(todo))
  /\ todo' = Tail(todo)
  /\ UNCHANGED <<tableVars, editVars, probe, owner, dialing, applied, closed, liveVars, faults>>

\* Any other one is let go before it is dialed.
Redial(e) ==
  /\ owner = e /\ dialing = None /\ todo # <<>> /\ ~LeftAlone(Head(todo))
  /\ todo' = Tail(todo) /\ dialing' = Head(todo)
  /\ Teardown({i \in {Head(todo).id} : servers[i] # None})
  /\ UNCHANGED <<tableVars, editVars, probe, owner, applied, closed, faults>>

\* connectLocked: the dial fails, the server cannot list its tools, or those are
\* registered whose names are free.
Dialed(e) ==
  /\ owner = e /\ dialing # None
  /\ dialing' = None
  /\ \/ /\ Record(None, {}, FALSE)
        /\ UNCHANGED <<conns, registry>>
     \/ /\ Record(Fresh, {}, FALSE)
        /\ conns' = conns \cup {Fresh}
        /\ UNCHANGED registry
     \/ /\ Record(Fresh, Takes(dialing.def), Takes(dialing.def) = Offers[dialing.def])
        /\ conns' = conns \cup {Fresh}
        /\ registry' = [t \in Tool |-> IF t \in Takes(dialing.def) THEN Fresh ELSE registry[t]]
  /\ UNCHANGED <<tableVars, editVars, probe, owner, todo, applied, closed, faults>>

Unlock(e) ==
  /\ owner = e /\ dialing = None /\ todo = <<>>
  /\ owner' = None /\ Goto(e, "done")
  /\ UNCHANGED <<tableVars, asked, list, probe, todo, dialing, applied, closed, liveVars, faults>>

-----------------------------------------------------------------------------
(* Probes and the end.                                                     *)

\* Inspect holds no lock and registers nothing.
ProbeDial(p) ==
  /\ probe[p] = None
  /\ probe' = [probe EXCEPT ![p] = Fresh]
  /\ conns' = conns \cup {Fresh}
  /\ UNCHANGED <<tableVars, editVars, applyVars, closed, servers, registry, faults>>

ProbeClose(p) ==
  /\ probe[p] # None
  /\ probe' = [probe EXCEPT ![p] = None]
  /\ conns' = conns \ {probe[p]}
  /\ UNCHANGED <<tableVars, editVars, applyVars, closed, servers, registry, faults>>

\* Close, which Server.Start calls before the engine drains, so requests may still
\* be on their way to the lock.
Close ==
  /\ owner = None /\ ~closed
  /\ closed' = TRUE
  /\ Teardown({i \in Id : servers[i] # None})
  /\ UNCHANGED <<tableVars, editVars, probe, applyVars, faults>>

-----------------------------------------------------------------------------
Next ==
  \/ \E e \in Editor : \/ \E i \in Id : Save(e, i) \/ Toggle(e, i) \/ Delete(e, i)
                       \/ Write(e) \/ List(e) \/ ListFails(e) \/ Reload(e)
                       \/ Late(e) \/ Apply(e) \/ Keep(e) \/ Redial(e) \/ Dialed(e)
                       \/ Unlock(e)
  \/ \E p \in Prober : ProbeDial(p) \/ ProbeClose(p)
  \/ Close

Spec == Init /\ [][Next]_vars

-----------------------------------------------------------------------------
\* Every variable has its type, and whoever reconciles holds the lock.
TypeOK ==
  /\ rows \in [Id -> Row \cup {None}]
  /\ version \in Nat
  /\ epc \in [Editor -> {"idle", "write", "list", "lock", "apply", "done"}]
  /\ \A e \in Editor :
       /\ epc[e] = "write" => asked[e] \in [id : Id, row : Row \cup {None}]
       /\ list[e].specs \in Seq(ServerSpec) /\ list[e].of \in Nat \cup {None}
       /\ epc[e] = "apply" <=> owner = e
  /\ probe \in [Prober -> Conn \cup {None}]
  /\ owner \in Editor \cup {None}
  /\ todo \in Seq(ServerSpec) /\ dialing \in ServerSpec \cup {None}
  /\ owner = None => todo = <<>> /\ dialing = None
  /\ servers \in [Id -> Server \cup {None}]
  /\ conns \subseteq Conn
  /\ registry \in [Tool -> Conn \cup {Own, None}]
  /\ faults \in 0..MaxFaults

\* What the model is offered, what the manager holds and what is open agree at every
\* moment, however edits, probes and the shutdown overlap: a bridged name leads to the
\* connection of the one server that registered it, a server that is let go takes its
\* names and its connection along and nobody else's, nothing is open that neither a
\* server nor a probe will close, and nothing is connected once the manager is closed
\* (manager.go:263, registry.go:97, server.go:456).
OfferedIsHeld ==
  LET live == {i \in Id : servers[i] # None}
      held == {i \in live : servers[i].conn # None}
  IN  /\ \A i \in live : \A t \in servers[i].tools :
            servers[i].conn # None /\ registry[t] = servers[i].conn
      /\ \A t \in Tool : registry[t] \in Conn =>
            \E i \in held : servers[i].conn = registry[t] /\ t \in servers[i].tools
      /\ \A t \in Builtin : registry[t] = Own
      /\ conns = Held \cup ({probe[p] : p \in Prober} \ {None})
      /\ Cardinality(conns) = Cardinality(held) + Cardinality({p \in Prober : probe[p] # None})
      /\ closed => live = {}

\* No request is between its write and the end of its reconciliation.
Quiet == \A e \in Editor : epc[e] \in {"idle", "write", "done"}

\* Edits take effect without a restart: once every request is through and the table
\* as it is was reconciled with last, the manager has exactly the enabled servers, by
\* their present definitions, whoever edited, reloaded or probed meanwhile and
\* whatever failed to connect (manager.go:35).
EditsTakeEffect ==
  Quiet /\ ~closed /\ applied = version =>
     \A i \in Id : /\ servers[i] # None <=> Enabled(rows, i)
                   /\ servers[i] # None => servers[i].def = rows[i].def

=============================================================================
