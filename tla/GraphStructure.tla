---------------------------- MODULE GraphStructure ----------------------------
(***************************************************************************)
(* Writers of core's graph tables and outbox: POST /graph-structure         *)
(* (upsert_graph_structure), the manual edges of a compliance officer and   *)
(* the sync of a system (patent_knowledge_graph_p2.py), each a transaction  *)
(* of query-then-decide statements that others come between (READ           *)
(* COMMITTED).                                                              *)
(*                                                                          *)
(* Node rows have a unique constraint on their natural key, edge rows none. *)
(* Of an edge row's columns only the "manual" tag in its properties is kept *)
(* here: the satellite pushes no properties, and nothing in this code ever  *)
(* archives a node or deactivates an edge.                                  *)
(***************************************************************************)
EXTENDS Walks, FiniteSets

CONSTANTS
  AISystem,     \* the nodes that are AI systems
  Edge,         \* [from, to, type]
  Snapshot,     \* [nodes, edges]: graphs the satellite builds
  Handler,      \* threads of core's request pool
  NoSnapshot,
  MaxDepth,     \* resolve_max_traversal_depth()
  MaxPushes,    \* bound on requests with a snapshot
  MaxManual,    \* bound on manual edges
  MaxSyncs,     \* bound on a system's change events when a sync is asked for
  MaxFailures   \* bound on failed statements and restarts

ASSUME GraphAssumption ==
  /\ AISystem \subseteq Node
  /\ \A e \in Edge : e.from \in Node /\ e.to \in Node
  /\ \A x \in Snapshot :
       /\ x.nodes \subseteq Node /\ x.edges \subseteq Edge
       /\ \A e \in x.edges : e.from \in x.nodes /\ e.to \in x.nodes
  /\ NoSnapshot \notin Snapshot
ASSUME HandlerAssumption == IsFiniteSet(Handler)
ASSUME BoundAssumption ==
  {MaxDepth, MaxPushes, MaxManual, MaxSyncs, MaxFailures} \subseteq Nat

VARIABLES
  nodes,      \* rows of governance_graph_nodes
  rows,       \* for each edge its rows, oldest first: TRUE if tagged manual
  outbox,     \* change events, by AI system
  accepted,   \* snapshots core committed and answers with 200
  refused,    \* snapshots of the last requests that ended in a 500, by handler
  pc,
  snap,       \* the snapshot a handler was given
  fresh,      \* nodes it inserts
  todo,       \* edges of its snapshot not looked at yet
  inserts,    \* edges it inserts
  wipes,      \* edges whose one row it updates
  affected,   \* AI systems it emits change events for
  pushes, manuals, failures

tables == <<nodes, rows, outbox>>
answer == <<accepted, refused>>
thread == <<pc, snap, fresh, todo, inserts, wipes, affected>>
counts == <<pushes, manuals, failures>>
vars == <<tables, answer, thread, counts>>

Stored == {e \in Edge : rows[e] # <<>>}
Pairs(E) == {<<e.from, e.to>> : e \in E}

Init ==
  /\ nodes = {}
  /\ rows = [e \in Edge |-> <<>>]
  /\ outbox = [s \in AISystem |-> 0]
  /\ accepted = {}
  /\ refused = [h \in Handler |-> NoSnapshot]
  /\ pc = [h \in Handler |-> "idle"]
  /\ snap = [h \in Handler |-> NoSnapshot]
  /\ fresh = [h \in Handler |-> {}]
  /\ todo = [h \in Handler |-> {}]
  /\ inserts = [h \in Handler |-> {}]
  /\ wipes = [h \in Handler |-> {}]
  /\ affected = [h \in Handler |-> {}]
  /\ pushes = 0 /\ manuals = 0 /\ failures = 0

\* Mutant: the thread goes on after the session is closed.
CloseSession(h) ==
  /\ pc' = pc
  /\ snap' = [snap EXCEPT ![h] = NoSnapshot]
  /\ fresh' = [fresh EXCEPT ![h] = {}]
  /\ todo' = [todo EXCEPT ![h] = {}]
  /\ inserts' = [inserts EXCEPT ![h] = {}]
  /\ wipes' = [wipes EXCEPT ![h] = {}]
  /\ affected' = [affected EXCEPT ![h] = {}]

\* The session is closed; what was not committed is gone.
Close(h) ==
  /\ pc' = [pc EXCEPT ![h] = "idle"]
  /\ snap' = [snap EXCEPT ![h] = NoSnapshot]
  /\ fresh' = [fresh EXCEPT ![h] = {}]
  /\ todo' = [todo EXCEPT ![h] = {}]
  /\ inserts' = [inserts EXCEPT ![h] = {}]
  /\ wipes' = [wipes EXCEPT ![h] = {}]
  /\ affected' = [affected EXCEPT ![h] = {}]

-----------------------------------------------------------------------------
(* A structure push. *)

Receive(h, x) ==
  /\ pc[h] = "idle"
  /\ pushes < MaxPushes
  /\ pushes' = pushes + 1
  /\ pc' = [pc EXCEPT ![h] = "nodes"]
  /\ snap' = [snap EXCEPT ![h] = x]
  /\ refused' = [refused EXCEPT ![h] = NoSnapshot]
  /\ UNCHANGED <<tables, accepted, fresh, todo, inserts, wipes, affected,
                 manuals, failures>>

\* The snapshot's nodes that have no committed row.
LookNodes(h) ==
  /\ pc[h] = "nodes"
  /\ fresh' = [fresh EXCEPT ![h] = snap[h].nodes \ nodes]
  /\ pc' = [pc EXCEPT ![h] = "flush"]
  /\ UNCHANGED <<tables, answer, snap, todo, inserts, wipes, affected, counts>>

\* The unique constraint makes the insert wait for another transaction that
\* has inserted the same node.
Flushed(h) == pc[h] \in {"edges", "manual"}
Blocked(h) == \E k \in Handler \ {h} : Flushed(k) /\ fresh[k] \cap fresh[h] # {}

\* Mutant: the nodes are committed instead of flushed.
FlushCommitting(h) ==
  /\ pc[h] = "flush"
  /\ ~Blocked(h)
  /\ fresh[h] \cap nodes = {}
  /\ nodes' = nodes \cup fresh[h]
  /\ todo' = [todo EXCEPT ![h] = snap[h].edges]
  /\ pc' = [pc EXCEPT ![h] = "edges"]
  /\ UNCHANGED <<rows, outbox, answer, snap, fresh, inserts, wipes, affected, counts>>

Flush(h) ==
  /\ pc[h] = "flush"
  /\ ~Blocked(h)
  /\ fresh[h] \cap nodes = {}
  /\ todo' = [todo EXCEPT ![h] = snap[h].edges]
  /\ pc' = [pc EXCEPT ![h] = "edges"]
  /\ UNCHANGED <<tables, answer, snap, fresh, inserts, wipes, affected, counts>>

\* The request ends with a 500.
ServerError(h) ==
  /\ refused' = [refused EXCEPT ![h] = snap[h]]
  /\ Close(h)
  /\ UNCHANGED <<tables, accepted>>

\* IntegrityError: another transaction committed one of the nodes first.
NodeConflict(h) ==
  /\ pc[h] = "flush"
  /\ ~Blocked(h)
  /\ fresh[h] \cap nodes # {}
  /\ ServerError(h)
  /\ UNCHANGED counts

\* Mutant: existing rows are not looked for.
InsertEdgeBlindly(h, e) ==
  /\ pc[h] = "edges" /\ e \in todo[h]
  /\ inserts' = [inserts EXCEPT ![h] = @ \cup {e}]
  /\ todo' = [todo EXCEPT ![h] = @ \ {e}]
  /\ UNCHANGED <<tables, answer, pc, snap, fresh, wipes, affected, counts>>

\* No row of the edge: insert one.
InsertEdge(h, e) ==
  /\ pc[h] = "edges" /\ e \in todo[h]
  /\ rows[e] = <<>>
  /\ inserts' = [inserts EXCEPT ![h] = @ \cup {e}]
  /\ todo' = [todo EXCEPT ![h] = @ \ {e}]
  /\ UNCHANGED <<tables, answer, pc, snap, fresh, wipes, affected, counts>>

\* Exactly one: give it the pushed properties, which have no tag.
UpdateEdge(h, e) ==
  /\ pc[h] = "edges" /\ e \in todo[h]
  /\ Len(rows[e]) = 1
  /\ wipes' = [wipes EXCEPT ![h] = @ \cup {e}]
  /\ todo' = [todo EXCEPT ![h] = @ \ {e}]
  /\ UNCHANGED <<tables, answer, pc, snap, fresh, inserts, affected, counts>>

\* More than one: one_or_none() raises MultipleResultsFound.
EdgeAmbiguous(h, e) ==
  /\ pc[h] = "edges" /\ e \in todo[h]
  /\ Len(rows[e]) > 1
  /\ ServerError(h)
  /\ UNCHANGED counts

\* Mutant: the nodes are committed by the next push.
CommitEdges(h) ==
  /\ pc[h] = "edges" /\ todo[h] = {}
  /\ rows' = [e \in Edge |->
       IF e \in inserts[h] THEN Append(rows[e], FALSE)
       ELSE IF e \in wipes[h] THEN [rows[e] EXCEPT ![1] = FALSE] ELSE rows[e]]
  /\ accepted' = accepted \cup {snap[h]}
  /\ Close(h)
  /\ UNCHANGED <<nodes, outbox, refused, counts>>

\* session.commit().
Commit(h) ==
  /\ pc[h] = "edges" /\ todo[h] = {}
  /\ nodes' = nodes \cup fresh[h]
  /\ rows' = [e \in Edge |->
       IF e \in inserts[h] THEN Append(rows[e], FALSE)
       ELSE IF e \in wipes[h] THEN [rows[e] EXCEPT ![1] = FALSE] ELSE rows[e]]
  /\ accepted' = accepted \cup {snap[h]}
  /\ Close(h)
  /\ UNCHANGED <<outbox, refused, counts>>

-----------------------------------------------------------------------------
(* A manual edge.  Nothing it reads is ever taken back, so its statements up *)
(* to the commit are one step.                                               *)

\* Mutant: the bound is taken one hop too early.
UpstreamShort(E, n) ==
  {s \in AISystem \cap nodes : s = n \/ n \in Within(Pairs(E), s, MaxDepth - 2)}

\* find_upstream_ai_systems: AI systems with a row that reach the node.
Upstream(E, n) ==
  {s \in AISystem \cap nodes : s = n \/ n \in Within(Pairs(E), s, MaxDepth)}

\* Both ends have rows; the edge is added to the session, then the graph, with
\* it, is walked backwards from its source.
AddManualEdge(h, e) ==
  /\ pc[h] = "idle"
  /\ manuals < MaxManual
  /\ e.from \in nodes /\ e.to \in nodes
  /\ manuals' = manuals + 1
  /\ inserts' = [inserts EXCEPT ![h] = {e}]
  /\ affected' = [affected EXCEPT ![h] = Upstream(Stored \cup {e}, e.from)]
  /\ pc' = [pc EXCEPT ![h] = "manual"]
  /\ UNCHANGED <<tables, answer, snap, fresh, todo, wipes, pushes, failures>>

\* The edge and the change events are committed together.
CommitManual(h) ==
  /\ pc[h] = "manual"
  /\ rows' = [e \in Edge |->
       IF e \in inserts[h] THEN Append(rows[e], TRUE) ELSE rows[e]]
  /\ outbox' = [s \in AISystem |->
       IF s \in affected[h] THEN outbox[s] + 1 ELSE outbox[s]]
  /\ Close(h)
  /\ UNCHANGED <<nodes, answer, counts>>

\* sync_ai_system: the system has a row, which stays, and gets a change event.
Sync(h, s) ==
  /\ pc[h] = "idle"
  /\ s \in nodes
  /\ outbox[s] < MaxSyncs
  /\ outbox' = [outbox EXCEPT ![s] = @ + 1]
  /\ UNCHANGED <<nodes, rows, answer, thread, counts>>

-----------------------------------------------------------------------------
\* A statement fails for another reason, or core restarts.
Fail(h) ==
  /\ pc[h] # "idle"
  /\ failures < MaxFailures
  /\ failures' = failures + 1
  /\ Close(h)
  /\ UNCHANGED <<tables, answer, pushes, manuals>>

HandlerStep(h) ==
  \/ \E x \in Snapshot : Receive(h, x)
  \/ LookNodes(h) \/ Flush(h) \/ NodeConflict(h) \/ Commit(h)
  \/ \E e \in Edge : InsertEdge(h, e) \/ UpdateEdge(h, e) \/ EdgeAmbiguous(h, e)
                     \/ AddManualEdge(h, e)
  \/ CommitManual(h) \/ Fail(h)
  \/ \E s \in AISystem : Sync(h, s)

Next == \E h \in Handler : HandlerStep(h)

Spec == Init /\ [][Next]_vars

-----------------------------------------------------------------------------
TypeOK ==
  /\ nodes \subseteq Node
  /\ rows \in [Edge -> Seq(BOOLEAN)]
  /\ outbox \in [AISystem -> Nat]
  /\ accepted \subseteq Snapshot
  /\ refused \in [Handler -> Snapshot \cup {NoSnapshot}]
  /\ pc \in [Handler -> {"idle", "nodes", "flush", "edges", "manual"}]
  /\ snap \in [Handler -> Snapshot \cup {NoSnapshot}]
  /\ fresh \in [Handler -> SUBSET Node]
  /\ todo \in [Handler -> SUBSET Edge]
  /\ inserts \in [Handler -> SUBSET Edge]
  /\ wipes \in [Handler -> SUBSET Edge]
  /\ affected \in [Handler -> SUBSET AISystem]
  /\ pushes \in 0 .. MaxPushes
  /\ manuals \in 0 .. MaxManual
  /\ failures \in 0 .. MaxFailures
  /\ \A h \in Handler : pc[h] \in {"nodes", "flush", "edges"} => snap[h] \in Snapshot

\* A push lands whole or not at all, an edge never without its nodes, whatever
\* transactions overlap, conflict or fail: the tables, duplicate rows aside,
\* are a GraphStore.
Store == INSTANCE GraphStore WITH edges <- Stored
StoreSpec == Store!SSpec

\* What was accepted stays: nothing of it is lost to a conflict, to another
\* push that does not have it, or to a manual edge.
AcceptedIsStored ==
  \A x \in accepted : x.nodes \subseteq nodes /\ x.edges \subseteq Stored

\* Nothing in the database keeps an edge from having several rows, and pushes
\* look before they insert without a lock; but however many pushes there are,
\* only those that overlap can insert the same edge: one row for each handler.
\* The others are manual.
DuplicatesAreFew ==
  \A e \in Edge : Len(rows[e]) <= Cardinality(Handler) + manuals

\* "Adding a manual edge DOES trigger re-derivation for every ai_system whose
\* forward traversal could now reach the new edge" (create_manual_edge_endpoint):
\* every system whose derivation the edge changes, in the graph as the request
\* saw it, gets a change event.
ChangedByEdge(e) ==
  {s \in AISystem \cap nodes :
     Within(Pairs(Stored \cup {e}), s, MaxDepth) # Within(Pairs(Stored), s, MaxDepth)}

AffectedAreNotified ==
  [][\A h \in Handler, e \in Edge :
       AddManualEdge(h, e) => ChangedByEdge(e) \subseteq affected'[h]]_vars

\* "Re-pushing an unchanged graph is a safe no-op" (graph_builder.py): a
\* snapshot core has accepted is not refused later.
RepushIsSafe ==
  \A h \in Handler : refused[h] \notin accepted
=============================================================================
