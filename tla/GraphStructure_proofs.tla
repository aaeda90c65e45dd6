------------------------ MODULE GraphStructure_proofs ------------------------
(***************************************************************************)
(* Proofs about GraphStructure for any number of handlers, any snapshots    *)
(* and any bounds: the tables refine GraphStore, what was accepted stays,   *)
(* duplicates of an edge are few, and a manual edge notifies every system   *)
(* it changes.                                                              *)
(***************************************************************************)
EXTENDS GraphStructure, FiniteSetTheorems, TLAPS

-----------------------------------------------------------------------------
(* Rows. *)

LEMMA MoreRows ==
  ASSUME NEW q \in Seq(BOOLEAN), NEW b \in BOOLEAN
  PROVE  Append(q, b) \in Seq(BOOLEAN) /\ Append(q, b) # <<>>
<1>1. Append(q, b) \in Seq(BOOLEAN) /\ Len(Append(q, b)) = Len(q) + 1 /\ Len(q) \in Nat
  OBVIOUS
<1>2. Len(<<>>) = 0
  OBVIOUS
<1>3. QED
  BY <1>1, <1>2

LEMMA WipedRows ==
  ASSUME NEW q \in Seq(BOOLEAN)
  PROVE  /\ [q EXCEPT ![1] = FALSE] \in Seq(BOOLEAN)
         /\ q # <<>> => [q EXCEPT ![1] = FALSE] # <<>>
<1> DEFINE w == [q EXCEPT ![1] = FALSE]
<1>1. Len(q) \in Nat /\ q \in [1 .. Len(q) -> BOOLEAN] /\ DOMAIN w = 1 .. Len(q)
  OBVIOUS
<1>2. w \in [1 .. Len(q) -> BOOLEAN]
  BY <1>1
<1>3. w \in Seq(BOOLEAN) /\ Len(w) = Len(q)
  BY <1>1, <1>2
<1>4. q # <<>> => Len(q) # 0
  OBVIOUS
<1>5. QED
  BY <1>3, <1>4

LEMMA WipedLength ==
  ASSUME NEW q \in Seq(BOOLEAN)
  PROVE  Len([q EXCEPT ![1] = FALSE]) = Len(q)
<1> DEFINE w == [q EXCEPT ![1] = FALSE]
<1>1. Len(q) \in Nat /\ q \in [1 .. Len(q) -> BOOLEAN] /\ DOMAIN w = 1 .. Len(q)
  OBVIOUS
<1>2. w \in [1 .. Len(q) -> BOOLEAN]
  BY <1>1
<1>3. QED
  BY <1>1, <1>2

\* What a commit makes of the rows.
Committed(h, tag) ==
  [e \in Edge |->
     IF e \in inserts[h] THEN Append(rows[e], tag)
     ELSE IF e \in wipes[h] THEN [rows[e] EXCEPT ![1] = FALSE] ELSE rows[e]]

LEMMA CommittedRows ==
  ASSUME rows \in [Edge -> Seq(BOOLEAN)], NEW h, NEW tag \in BOOLEAN,
         rows' = Committed(h, tag)
  PROVE  /\ rows' \in [Edge -> Seq(BOOLEAN)]
         /\ Stored \subseteq Stored'
         /\ inserts[h] \cap Edge \subseteq Stored'
         /\ Stored' \subseteq Stored \cup inserts[h] \cup wipes[h]
<1>1. ASSUME NEW e \in Edge
      PROVE  /\ rows'[e] \in Seq(BOOLEAN)
             /\ rows[e] # <<>> \/ e \in inserts[h] => rows'[e] # <<>>
             /\ rows'[e] # <<>> => rows[e] # <<>> \/ e \in inserts[h] \cup wipes[h]
  <2>1. rows[e] \in Seq(BOOLEAN)
    BY <1>1
  <2>2. CASE e \in inserts[h]
    <3>1. rows'[e] = Append(rows[e], tag)
      BY <1>1, <2>2 DEF Committed
    <3>2. QED
      BY <2>1, <2>2, <3>1, MoreRows
  <2>3. CASE e \notin inserts[h] /\ e \in wipes[h]
    <3>1. rows'[e] = [rows[e] EXCEPT ![1] = FALSE]
      BY <1>1, <2>3 DEF Committed
    <3>2. QED
      BY <2>1, <2>3, <3>1, WipedRows
  <2>4. CASE e \notin inserts[h] /\ e \notin wipes[h]
    <3>1. rows'[e] = rows[e]
      BY <1>1, <2>4 DEF Committed
    <3>2. QED
      BY <2>1, <2>4, <3>1
  <2>5. QED
    BY <2>2, <2>3, <2>4
<1>2. rows' = [e \in Edge |-> rows'[e]]
  BY DEF Committed
<1>3. QED
  BY <1>1, <1>2 DEF Stored

-----------------------------------------------------------------------------
(* Types. *)

LEMMA TypeInit == Init => TypeOK
BY BoundAssumption DEF Init, TypeOK

LEMMA TypeStep == TypeOK /\ [Next]_vars => TypeOK'
<1> SUFFICES ASSUME TypeOK, [Next]_vars PROVE TypeOK'
  OBVIOUS
<1> USE BoundAssumption, GraphAssumption DEF TypeOK
<1> USE DEF tables, answer, counts
<1>1. ASSUME NEW h \in Handler, NEW x \in Snapshot, Receive(h, x) PROVE TypeOK'
  BY <1>1 DEF Receive
<1>2. ASSUME NEW h \in Handler, LookNodes(h) PROVE TypeOK'
  BY <1>2 DEF LookNodes
<1>3. ASSUME NEW h \in Handler, Flush(h) PROVE TypeOK'
  BY <1>3 DEF Flush
<1>4. ASSUME NEW h \in Handler, NodeConflict(h) PROVE TypeOK'
  BY <1>4 DEF NodeConflict, ServerError, Close
<1>5. ASSUME NEW h \in Handler, NEW e \in Edge, InsertEdge(h, e) PROVE TypeOK'
  BY <1>5 DEF InsertEdge
<1>6. ASSUME NEW h \in Handler, NEW e \in Edge, UpdateEdge(h, e) PROVE TypeOK'
  BY <1>6 DEF UpdateEdge
<1>7. ASSUME NEW h \in Handler, NEW e \in Edge, EdgeAmbiguous(h, e) PROVE TypeOK'
  BY <1>7 DEF EdgeAmbiguous, ServerError, Close
<1>8. ASSUME NEW h \in Handler, Commit(h) PROVE TypeOK'
  <2>1. rows' \in [Edge -> Seq(BOOLEAN)]
    <3>1. rows' = Committed(h, FALSE)
      BY <1>8 DEF Commit, Committed
    <3>2. QED
      BY <3>1, CommittedRows
  <2>2. nodes' \subseteq Node /\ accepted' \subseteq Snapshot
    BY <1>8 DEF Commit
  <2>3. QED
    BY <1>8, <2>1, <2>2 DEF Commit, Close
<1>9. ASSUME NEW h \in Handler, NEW e \in Edge, AddManualEdge(h, e) PROVE TypeOK'
  <2>1. Upstream(Stored \cup {e}, e.from) \subseteq AISystem
    BY DEF Upstream
  <2>2. affected' \in [Handler -> SUBSET AISystem]
    BY <1>9, <2>1 DEF AddManualEdge
  <2>3. /\ UNCHANGED <<tables, answer, snap, fresh, todo, wipes, pushes, failures>>
        /\ inserts' \in [Handler -> SUBSET Edge]
        /\ pc' = [pc EXCEPT ![h] = "manual"]
        /\ manuals' \in 0 .. MaxManual
    BY <1>9 DEF AddManualEdge
  <2>4. QED
    BY <2>2, <2>3
<1>10. ASSUME NEW h \in Handler, CommitManual(h) PROVE TypeOK'
  <2>1. rows' \in [Edge -> Seq(BOOLEAN)]
    <3>1. ASSUME NEW e \in Edge PROVE rows'[e] \in Seq(BOOLEAN)
      BY <1>10, <3>1, MoreRows DEF CommitManual
    <3>2. QED
      BY <1>10, <3>1 DEF CommitManual
  <2>2. outbox' \in [AISystem -> Nat]
    BY <1>10 DEF CommitManual
  <2>3. QED
    BY <1>10, <2>1, <2>2 DEF CommitManual, Close
<1>11. ASSUME NEW h \in Handler, Fail(h) PROVE TypeOK'
  BY <1>11 DEF Fail, Close
<1>12. ASSUME NEW h \in Handler, NEW s \in AISystem, Sync(h, s) PROVE TypeOK'
  BY <1>12 DEF Sync, thread
<1>13. CASE UNCHANGED vars
  BY <1>13 DEF vars, thread
<1>14. QED
  BY <1>1, <1>2, <1>3, <1>4, <1>5, <1>6, <1>7, <1>8, <1>9, <1>10, <1>11, <1>12, <1>13
     DEF Next, HandlerStep

\* Every variable keeps its type, and a push under way always has its snapshot.
THEOREM TypeCorrect == Spec => []TypeOK
BY TypeInit, TypeStep, PTL DEF Spec

-----------------------------------------------------------------------------
(* Refinement. *)

(***************************************************************************)
(* What the store's steps need of a handler: an idle one carries nothing    *)
(* over; between a handler's look at the nodes and its commit nothing of    *)
(* its snapshot can go missing; and an edge leaves todo only for inserts or *)
(* wipes.                                                                    *)
(***************************************************************************)
Clean(h) == pc[h] \in {"idle", "nodes", "flush"} => inserts[h] = {} /\ wipes[h] = {}

NodesCovered(h) ==
  pc[h] \in {"flush", "edges"} =>
    fresh[h] \subseteq snap[h].nodes /\ snap[h].nodes \subseteq nodes \cup fresh[h]

EdgesCovered(h) ==
  pc[h] = "edges" =>
    /\ wipes[h] \subseteq Stored
    /\ todo[h] \cup inserts[h] \cup wipes[h] = snap[h].edges

ManualKnown(h) ==
  pc[h] = "manual" =>
    \E e \in Edge : inserts[h] = {e} /\ wipes[h] = {} /\ Store!Known(e)

HandlerInv(h) == Clean(h) /\ NodesCovered(h) /\ EdgesCovered(h) /\ ManualKnown(h)
Inv == TypeOK /\ \A h \in Handler : HandlerInv(h)

\* A handler that commits writes the whole snapshot, and only that.
LEMMA CommitMerges ==
  ASSUME Inv, NEW h \in Handler, Commit(h)
  PROVE  Store!Merge(snap[h]) /\ snap[h] \in Snapshot
<1>1. /\ pc[h] = "edges" /\ todo[h] = {}
      /\ nodes' = nodes \cup fresh[h]
      /\ rows' = Committed(h, FALSE)
  BY DEF Commit, Committed
<1>2. snap[h] \in Snapshot
  BY <1>1 DEF Inv, TypeOK
<1>3. nodes' = nodes \cup snap[h].nodes
  BY <1>1 DEF Inv, HandlerInv, NodesCovered
<1>4. /\ inserts[h] \cup wipes[h] = snap[h].edges /\ wipes[h] \subseteq Stored
      /\ inserts[h] \subseteq Edge
  BY <1>1 DEF Inv, TypeOK, HandlerInv, EdgesCovered
<1>5. /\ Stored \subseteq Stored' /\ inserts[h] \cap Edge \subseteq Stored'
      /\ Stored' \subseteq Stored \cup inserts[h] \cup wipes[h]
  BY <1>1, CommittedRows DEF Inv, TypeOK
<1>6. Stored' = Stored \cup snap[h].edges
  BY <1>4, <1>5
<1>7. QED
  BY <1>2, <1>3, <1>6 DEF Store!Merge

\* A manual edge is written alone, and both its nodes have rows.
LEMMA ManualAdds ==
  ASSUME Inv, NEW h \in Handler, CommitManual(h)
  PROVE  \E e \in Edge : Store!AddManual(e)
<1>1. PICK e \in Edge : inserts[h] = {e} /\ wipes[h] = {} /\ Store!Known(e)
  BY DEF Inv, HandlerInv, ManualKnown, CommitManual
<1>2. rows' = Committed(h, TRUE)
  BY <1>1 DEF CommitManual, Committed
<1>3. /\ Stored \subseteq Stored' /\ inserts[h] \cap Edge \subseteq Stored'
      /\ Stored' \subseteq Stored \cup inserts[h] \cup wipes[h]
  BY <1>2, CommittedRows DEF Inv, TypeOK
<1>4. Stored' = Stored \cup {e}
  BY <1>1, <1>3
<1>5. nodes' = nodes
  BY DEF CommitManual
<1>6. QED
  BY <1>1, <1>4, <1>5 DEF Store!AddManual

\* Every step of the handlers is one of the store, or none.
LEMMA StepRefines == Inv /\ [Next]_vars => [Store!SNext]_(Store!storeVars)
<1> SUFFICES ASSUME Inv, [Next]_vars
             PROVE  Store!SNext \/ UNCHANGED <<nodes, Stored>>
  BY DEF Store!storeVars
<1>1. ASSUME NEW h \in Handler, Commit(h) PROVE Store!SNext
  BY <1>1, CommitMerges DEF Store!SNext
<1>2. ASSUME NEW h \in Handler, CommitManual(h) PROVE Store!SNext
  BY <1>2, ManualAdds DEF Store!SNext
<1>3. CASE UNCHANGED <<nodes, rows>>
  BY <1>3 DEF Stored
<1>4. ASSUME NEW h \in Handler, HandlerStep(h), ~Commit(h), ~CommitManual(h)
      PROVE  UNCHANGED <<nodes, rows>>
  BY <1>4 DEF HandlerStep, Receive, LookNodes, Flush, NodeConflict, ServerError,
              InsertEdge, UpdateEdge, EdgeAmbiguous, AddManualEdge, Fail,
              Sync, tables
<1>5. QED
  BY <1>1, <1>2, <1>3, <1>4 DEF Next, vars, tables

\* Nothing is ever taken out of the tables.
LEMMA Grows ==
  ASSUME Inv, [Next]_vars
  PROVE  nodes \subseteq nodes' /\ Stored \subseteq Stored'
BY StepRefines DEF Store!SNext, Store!storeVars, Store!Merge, Store!AddManual

\* What a handler that does not move has established stays true.
LEMMA OthersKeep ==
  ASSUME Inv, [Next]_vars, NEW k \in Handler,
         UNCHANGED <<pc[k], snap[k], fresh[k], todo[k], inserts[k], wipes[k]>>
  PROVE  HandlerInv(k)'
<1>1. HandlerInv(k) /\ nodes \subseteq nodes' /\ Stored \subseteq Stored'
  BY Grows DEF Inv
<1>2. Clean(k)' /\ NodesCovered(k)' /\ EdgesCovered(k)'
  BY <1>1 DEF HandlerInv, Clean, NodesCovered, EdgesCovered
<1>3. ManualKnown(k)'
  BY <1>1 DEF HandlerInv, ManualKnown, Store!Known
<1>4. QED
  BY <1>2, <1>3 DEF HandlerInv

\* A handler whose session is closed has nothing left.
LEMMA ClosedKeeps ==
  ASSUME Inv, NEW h \in Handler, Close(h)
  PROVE  HandlerInv(h)'
BY DEF Inv, TypeOK, Close, HandlerInv, Clean, NodesCovered, EdgesCovered, ManualKnown

LEMMA InvInit == Init => Inv
BY TypeInit DEF Init, Inv, HandlerInv, Clean, NodesCovered, EdgesCovered, ManualKnown

LEMMA InvStep == Inv /\ [Next]_vars => Inv'
<1> SUFFICES ASSUME Inv, [Next]_vars PROVE \A k \in Handler : HandlerInv(k)'
  BY TypeStep DEF Inv
<1> DEFINE Still(k) ==
      UNCHANGED <<pc[k], snap[k], fresh[k], todo[k], inserts[k], wipes[k]>>
<1>t. TypeOK
  BY DEF Inv
<1>1. ASSUME NEW h \in Handler, HandlerStep(h)
      PROVE  \A k \in Handler \ {h} : Still(k)
  BY <1>t, <1>1 DEF TypeOK, HandlerStep, Receive, LookNodes, Flush, NodeConflict,
                  ServerError, Close, InsertEdge, UpdateEdge, EdgeAmbiguous,
                  Commit, AddManualEdge, CommitManual, Fail, Sync, thread
<1>2. ASSUME NEW h \in Handler, HandlerStep(h) PROVE HandlerInv(h)'
  <2> USE DEF tables, answer, counts
  <2>1. HandlerInv(h)
    BY DEF Inv
  <2>2. ASSUME NEW x \in Snapshot, Receive(h, x) PROVE HandlerInv(h)'
    BY <1>t, <2>1, <2>2 DEF TypeOK, Receive, HandlerInv, Clean, NodesCovered,
                          EdgesCovered, ManualKnown
  <2>3. CASE LookNodes(h)
    BY <1>t, <2>1, <2>3 DEF TypeOK, LookNodes, HandlerInv, Clean, NodesCovered,
                          EdgesCovered, ManualKnown
  <2>4. CASE Flush(h)
    BY <1>t, <2>1, <2>4 DEF TypeOK, Flush, HandlerInv, Clean, NodesCovered,
                          EdgesCovered, ManualKnown
  <2>5. ASSUME NEW e \in Edge, InsertEdge(h, e) PROVE HandlerInv(h)'
    <3>1. /\ inserts'[h] = inserts[h] \cup {e} /\ todo'[h] = todo[h] \ {e}
          /\ e \in todo[h] /\ pc[h] = "edges"
          /\ UNCHANGED <<nodes, rows, pc, snap, fresh, wipes>>
      BY <1>t, <2>5 DEF TypeOK, InsertEdge
    <3>2. UNCHANGED Stored
      BY <3>1 DEF Stored
    <3>3. QED
      BY <2>1, <3>1, <3>2 DEF HandlerInv, Clean, NodesCovered, EdgesCovered,
                              ManualKnown
  <2>6. ASSUME NEW e \in Edge, UpdateEdge(h, e) PROVE HandlerInv(h)'
    <3>1. /\ wipes'[h] = wipes[h] \cup {e} /\ todo'[h] = todo[h] \ {e}
          /\ e \in todo[h] /\ pc[h] = "edges"
          /\ UNCHANGED <<nodes, rows, pc, snap, fresh, inserts>>
      BY <1>t, <2>6 DEF TypeOK, UpdateEdge
    <3>2. UNCHANGED Stored
      BY <3>1 DEF Stored
    <3>3. e \in Stored
      <4>1. Len(rows[e]) = 1 /\ Len(<<>>) = 0
        BY <2>6 DEF UpdateEdge
      <4>2. rows[e] # <<>>
        BY <4>1
      <4>3. QED
        BY <4>2 DEF Stored
    <3>4. QED
      BY <2>1, <3>1, <3>2, <3>3 DEF HandlerInv, Clean, NodesCovered, EdgesCovered,
                                    ManualKnown
  <2>7. ASSUME NEW e \in Edge, AddManualEdge(h, e) PROVE HandlerInv(h)'
    <3>1. /\ inserts'[h] = {e} /\ wipes'[h] = wipes[h] /\ wipes[h] = {}
          /\ pc'[h] = "manual" /\ nodes' = nodes
          /\ Store!Known(e)
      BY <1>t, <2>1, <2>7 DEF TypeOK, AddManualEdge, HandlerInv, Clean, Store!Known
    <3>2. QED
      BY <3>1 DEF HandlerInv, Clean, NodesCovered, EdgesCovered, ManualKnown,
                  Store!Known
  <2>8. ASSUME Close(h) PROVE HandlerInv(h)'
    BY <2>8, ClosedKeeps
  <2>9. ASSUME NEW s \in AISystem, Sync(h, s) PROVE HandlerInv(h)'
    BY <2>9, OthersKeep DEF Sync, thread
  <2>10. QED
    BY <1>2, <2>2, <2>3, <2>4, <2>5, <2>6, <2>7, <2>8, <2>9
       DEF HandlerStep, NodeConflict, EdgeAmbiguous, ServerError, Commit,
           CommitManual, Fail
<1>3. CASE UNCHANGED vars
  <2>1. \A k \in Handler : Still(k)
    BY <1>3 DEF vars, thread
  <2>2. QED
    BY <2>1, OthersKeep
<1>4. ASSUME NEW h \in Handler, HandlerStep(h)
      PROVE  \A k \in Handler : HandlerInv(k)'
  <2>1. ASSUME NEW k \in Handler \ {h} PROVE HandlerInv(k)'
    BY <1>1, <1>4, <2>1, OthersKeep
  <2>2. QED
    BY <1>2, <1>4, <2>1
<1>5. QED
  BY <1>3, <1>4 DEF Next

\* However handlers overlap, conflict and fail, the tables change by whole
\* snapshots and by manual edges between known nodes.
THEOREM ImplementsStore == Spec => StoreSpec
<1>1. Init => Store!SInit
  BY DEF Init, Store!SInit, Stored
<1>2. QED
  BY <1>1, InvInit, InvStep, StepRefines, PTL DEF Spec, StoreSpec, Store!SSpec

\* Whatever core has answered with 200 is in its tables, for good.
THEOREM AcceptedStays == Spec => []AcceptedIsStored
<1>1. Init => AcceptedIsStored
  BY DEF Init, AcceptedIsStored
<1>2. ASSUME Inv, AcceptedIsStored, [Next]_vars PROVE AcceptedIsStored'
  <2>1. nodes \subseteq nodes' /\ Stored \subseteq Stored'
    BY <1>2, Grows
  <2>2. ASSUME NEW h \in Handler, Commit(h) PROVE AcceptedIsStored'
    <3>1. /\ snap[h].nodes \subseteq nodes' /\ snap[h].edges \subseteq Stored'
      BY <1>2, <2>2, CommitMerges DEF Store!Merge
    <3>2. accepted' = accepted \cup {snap[h]}
      BY <2>2 DEF Commit
    <3>3. QED
      BY <1>2, <2>1, <3>1, <3>2 DEF AcceptedIsStored
  <2>3. CASE accepted' = accepted
    BY <1>2, <2>1, <2>3 DEF AcceptedIsStored
  <2>4. ASSUME NEW h \in Handler, HandlerStep(h), ~Commit(h)
        PROVE  accepted' = accepted
    BY <2>4 DEF HandlerStep, Receive, LookNodes, Flush, NodeConflict, ServerError,
                InsertEdge, UpdateEdge, EdgeAmbiguous, AddManualEdge, CommitManual,
                Fail, Sync, answer
  <2>5. QED
    BY <1>2, <2>2, <2>3, <2>4 DEF Next, vars, answer
<1>3. QED
  BY <1>1, <1>2, InvInit, InvStep, PTL DEF Spec

-----------------------------------------------------------------------------
(* Duplicates. *)

(***************************************************************************)
(* The handlers that are going to add a row of an edge count as its rows    *)
(* do: a push that joins them has seen none, so that then there are only    *)
(* the handlers; a manual edge that joins them is counted.                  *)
(***************************************************************************)
Adding(e) == {h \in Handler : e \in inserts[h]}
Few(e) == Len(rows[e]) + Cardinality(Adding(e)) <= Cardinality(Handler) + manuals
FewInv == \A e \in Edge : Few(e)

LEMMA AddingFinite ==
  ASSUME NEW e \in Edge
  PROVE  /\ IsFiniteSet(Adding(e)) /\ Cardinality(Adding(e)) \in Nat
         /\ Cardinality(Handler) \in Nat
         /\ Cardinality(Adding(e)) <= Cardinality(Handler)
BY HandlerAssumption, FS_Subset, FS_CardinalityType DEF Adding

LEMMA AddingFiniteNext ==
  ASSUME NEW e \in Edge
  PROVE  /\ IsFiniteSet(Adding(e)') /\ Cardinality(Adding(e)') \in Nat
         /\ Cardinality(Adding(e)') <= Cardinality(Handler)
BY HandlerAssumption, FS_Subset, FS_CardinalityType DEF Adding

LEMMA LenType ==
  ASSUME TypeOK, NEW e \in Edge
  PROVE  rows[e] \in Seq(BOOLEAN) /\ Len(rows[e]) \in Nat /\ manuals \in Nat
<1>1. rows[e] \in Seq(BOOLEAN)
  BY DEF TypeOK
<1>2. Len(rows[e]) \in Nat
  BY <1>1
<1>3. manuals \in Nat
  BY BoundAssumption DEF TypeOK
<1>4. QED
  BY <1>1, <1>2, <1>3

\* Fewer handlers than before are about to add a row, and there is no new one.
LEMMA FewerAdding ==
  ASSUME TypeOK, NEW e \in Edge, Few(e), manuals' = manuals,
         Len(rows'[e]) = Len(rows[e]), Adding(e)' \subseteq Adding(e)
  PROVE  Few(e)'
<1>1. Cardinality(Adding(e)') <= Cardinality(Adding(e))
  BY AddingFinite, FS_Subset
<1>2. /\ Cardinality(Adding(e)) \in Nat /\ Cardinality(Adding(e)') \in Nat
      /\ Cardinality(Handler) \in Nat /\ Len(rows[e]) \in Nat /\ manuals \in Nat
  BY AddingFinite, AddingFiniteNext, LenType
<1>3. QED
  BY <1>1, <1>2 DEF Few

\* A handler that adds its row is no longer about to.
LEMMA RowAdded ==
  ASSUME TypeOK, NEW e \in Edge, Few(e), manuals' = manuals,
         NEW h \in Adding(e), Adding(e)' = Adding(e) \ {h},
         Len(rows'[e]) = Len(rows[e]) + 1
  PROVE  Few(e)'
<1>1. Cardinality(Adding(e)') = Cardinality(Adding(e)) - 1
  BY AddingFinite, FS_RemoveElement
<1>2. /\ Cardinality(Adding(e)) \in Nat /\ Cardinality(Handler) \in Nat
      /\ Len(rows[e]) \in Nat /\ manuals \in Nat
  BY AddingFinite, LenType
<1>3. QED
  BY <1>1, <1>2 DEF Few

\* A commit turns what the handler was about to add into rows.
LEMMA CommitFew ==
  ASSUME TypeOK, FewInv, NEW h \in Handler, Close(h), manuals' = manuals,
         NEW e \in Edge, NEW tag \in BOOLEAN,
         e \in inserts[h] => rows'[e] = Append(rows[e], tag),
         e \notin inserts[h] => Len(rows'[e]) = Len(rows[e])
  PROVE  Few(e)'
<1>1. inserts \in [Handler -> SUBSET Edge] /\ Few(e)
  BY DEF TypeOK, FewInv
<1>2. Adding(e)' = Adding(e) \ {h}
  BY <1>1 DEF Close, Adding
<1>3. CASE e \in inserts[h]
  <2>1. Len(rows'[e]) = Len(rows[e]) + 1
    BY <1>3, LenType
  <2>2. h \in Adding(e)
    BY <1>3 DEF Adding
  <2>3. QED
    BY <1>1, <1>2, <2>1, <2>2, RowAdded
<1>4. CASE e \notin inserts[h]
  BY <1>1, <1>2, <1>4, FewerAdding
<1>5. QED
  BY <1>3, <1>4

LEMMA FewStep == TypeOK /\ FewInv /\ [Next]_vars => FewInv'
<1> SUFFICES ASSUME TypeOK, FewInv, [Next]_vars, NEW e \in Edge PROVE Few(e)'
  BY DEF FewInv
<1>t. inserts \in [Handler -> SUBSET Edge] /\ rows \in [Edge -> Seq(BOOLEAN)] /\ Few(e)
  BY DEF TypeOK, FewInv
<1>1. ASSUME NEW h \in Handler, NEW d \in Edge, InsertEdge(h, d) PROVE Few(e)'
  <2>1. /\ rows[d] = <<>> /\ rows' = rows /\ manuals' = manuals
        /\ inserts' = [inserts EXCEPT ![h] = @ \cup {d}]
    BY <1>1 DEF InsertEdge, tables, counts
  <2>2. CASE e = d
    <3>1. Len(rows'[e]) = 0
      BY <2>1, <2>2
    <3>2. QED
      BY <2>1, <3>1, AddingFinite, AddingFiniteNext, LenType DEF Few
  <2>3. CASE e # d
    <3>1. Adding(e)' = Adding(e)
      BY <1>t, <2>1, <2>3 DEF Adding
    <3>2. QED
      BY <1>t, <2>1, <3>1, FewerAdding
  <2>4. QED
    BY <2>2, <2>3
<1>2. ASSUME NEW h \in Handler, NEW d \in Edge, AddManualEdge(h, d) PROVE Few(e)'
  <2>1. /\ rows' = rows /\ manuals' = manuals + 1
        /\ inserts' = [inserts EXCEPT ![h] = {d}]
    BY <1>2 DEF AddManualEdge, tables
  <2>2. Adding(e)' \subseteq Adding(e) \cup {h}
    BY <1>t, <2>1 DEF Adding
  <2>3. Cardinality(Adding(e)') <= Cardinality(Adding(e)) + 1
    <3>1. /\ IsFiniteSet(Adding(e) \cup {h})
          /\ Cardinality(Adding(e) \cup {h})
               = IF h \in Adding(e) THEN Cardinality(Adding(e)) ELSE Cardinality(Adding(e)) + 1
      BY AddingFinite, FS_AddElement
    <3>2. Cardinality(Adding(e)') <= Cardinality(Adding(e) \cup {h})
      BY <2>2, <3>1, FS_Subset
    <3>3. QED
      BY <3>1, <3>2, AddingFinite, AddingFiniteNext
  <2>4. QED
    BY <1>t, <2>1, <2>3, AddingFinite, AddingFiniteNext, LenType DEF Few
<1>3. ASSUME NEW h \in Handler, Commit(h) PROVE Few(e)'
  <2>1. /\ Close(h) /\ manuals' = manuals
        /\ rows'[e] = IF e \in inserts[h] THEN Append(rows[e], FALSE)
                      ELSE IF e \in wipes[h] THEN [rows[e] EXCEPT ![1] = FALSE]
                      ELSE rows[e]
    BY <1>3 DEF Commit, counts
  <2>2. Len([rows[e] EXCEPT ![1] = FALSE]) = Len(rows[e])
    BY LenType, WipedLength
  <2>3. QED
    BY <2>1, <2>2, CommitFew
<1>4. ASSUME NEW h \in Handler, CommitManual(h) PROVE Few(e)'
  <2>1. /\ Close(h) /\ manuals' = manuals
        /\ rows'[e] = IF e \in inserts[h] THEN Append(rows[e], TRUE) ELSE rows[e]
    BY <1>4 DEF CommitManual, counts
  <2>2. QED
    BY <2>1, CommitFew
<1>5. ASSUME UNCHANGED <<rows, manuals>>, \A h \in Handler : inserts'[h] \subseteq inserts[h]
      PROVE  Few(e)'
  <2>1. Adding(e)' \subseteq Adding(e)
    BY <1>5 DEF Adding
  <2>2. QED
    BY <1>t, <1>5, <2>1, FewerAdding
<1>6. ASSUME NEW h \in Handler, HandlerStep(h), ~Commit(h), ~CommitManual(h),
             \A d \in Edge : ~InsertEdge(h, d) /\ ~AddManualEdge(h, d)
      PROVE  UNCHANGED <<rows, manuals>> /\ \A k \in Handler : inserts'[k] \subseteq inserts[k]
  BY <1>t, <1>6 DEF HandlerStep, Receive, LookNodes, Flush, NodeConflict, ServerError,
                    Close, UpdateEdge, EdgeAmbiguous, Fail, Sync, tables, thread, counts
<1>7. CASE UNCHANGED vars
  BY <1>5, <1>7 DEF vars, tables, thread, counts
<1>8. QED
  BY <1>1, <1>2, <1>3, <1>4, <1>5, <1>6, <1>7 DEF Next

\* However many pushes there are, an edge has at most one row for each handler
\* and one for each manual edge.
THEOREM DuplicatesFew == Spec => []DuplicatesAreFew
<1>1. Init => FewInv
  <2> SUFFICES ASSUME Init, NEW e \in Edge PROVE Few(e)
    BY DEF FewInv
  <2>1. Adding(e) = {} /\ rows[e] = <<>> /\ manuals = 0
    BY DEF Init, Adding
  <2>2. Len(rows[e]) = 0 /\ Cardinality(Adding(e)) = 0
    BY <2>1, FS_EmptySet
  <2>3. QED
    BY <2>1, <2>2, AddingFinite DEF Few
<1>2. TypeOK /\ FewInv => DuplicatesAreFew
  <2> SUFFICES ASSUME TypeOK, FewInv, NEW e \in Edge
               PROVE  Len(rows[e]) <= Cardinality(Handler) + manuals
    BY DEF DuplicatesAreFew
  <2>1. Few(e)
    BY DEF FewInv
  <2>2. QED
    BY <2>1, AddingFinite, LenType DEF Few
<1>3. QED
  BY <1>1, <1>2, TypeInit, TypeStep, FewStep, PTL DEF Spec

-----------------------------------------------------------------------------
(* Notifications. *)

\* A walk that a graph has only with an edge gets to that edge's source first.
LEMMA ReachesTheEdge ==
  ASSUME NEW P, NEW a \in Node, NEW b \in Node, NEW s \in Node,
         NEW n \in Nat, NEW q \in [1 .. n -> Node],
         Walk(P \cup {<<a, b>>}, <<s>> \o q), ~Walk(P, <<s>> \o q)
  PROVE  s = a \/ \E k \in 1 .. n - 1 : a \in EndsOf(P \cup {<<a, b>>}, s, k)
<1> DEFINE G == P \cup {<<a, b>>}
           p == <<s>> \o q
<1>1. q \in Seq(Node) /\ Len(q) = n /\ <<s>> \in Seq(Node) /\ Len(<<s>>) = 1
  OBVIOUS
<1>2. /\ Len(p) = n + 1 /\ p[1] = s
      /\ \A i \in 1 .. n : p[i + 1] = q[i]
  BY <1>1
<1>w. Walk(G, p) /\ ~Walk(P, p) /\ Len(p) - 1 = n
  BY <1>2
<1> HIDE DEF p
<1>3. PICK i \in 1 .. n : <<p[i], p[i + 1]>> \notin P
  BY <1>w DEF Walk
<1>4. <<p[i], p[i + 1]>> \in G
  BY <1>w DEF Walk
<1>5. p[i] = a
  BY <1>3, <1>4
<1>6. CASE i = 1
  BY <1>2, <1>5, <1>6
<1>7. CASE i # 1
  <2> DEFINE k == i - 1
             w == [x \in 1 .. k |-> q[x]]
  <2>1. k \in 1 .. n - 1 /\ k \in Nat /\ k + 1 = i
    BY <1>7
  <2>2. w \in [1 .. k -> Node] /\ w \in Seq(Node) /\ Len(w) = k
    BY <2>1
  <2>3. w[k] = a
    BY <1>2, <1>5, <2>1
  <2>4. /\ Len(<<s>> \o w) = k + 1
        /\ \A x \in 1 .. k + 1 : (<<s>> \o w)[x] = p[x]
    BY <1>1, <1>2, <2>1, <2>2
  <2>5. Walk(G, <<s>> \o w)
    <3> HIDE DEF w, G
    <3>1. \A x \in 1 .. k : <<p[x], p[x + 1]>> \in G
      BY <1>w, <2>1 DEF Walk
    <3>2. QED
      BY <2>1, <2>4, <3>1 DEF Walk
  <2>6. a \in EndsOf(G, s, k)
    BY <2>2, <2>3, <2>5 DEF EndsOf
  <2>7. QED
    BY <2>1, <2>6
<1>8. QED
  BY <1>6, <1>7

\* A system whose reach an edge changes is upstream of the edge.
LEMMA ChangedIsUpstream ==
  ASSUME NEW e \in Edge
  PROVE  ChangedByEdge(e) \subseteq Upstream(Stored \cup {e}, e.from)
<1> SUFFICES ASSUME NEW s \in ChangedByEdge(e)
             PROVE  s = e.from \/ e.from \in Within(Pairs(Stored \cup {e}), s, MaxDepth)
  BY DEF Upstream, ChangedByEdge
<1> DEFINE P == Pairs(Stored)
           G == P \cup {<<e.from, e.to>>}
<1>1. Pairs(Stored \cup {e}) = G
  BY DEF Pairs
<1>2. e.from \in Node /\ e.to \in Node /\ s \in Node /\ MaxDepth \in Nat
  BY GraphAssumption, BoundAssumption DEF ChangedByEdge
<1>3. PICK n \in 1 .. MaxDepth :
        EndsOf(G, s, n) # EndsOf(P, s, n)
  BY <1>1 DEF ChangedByEdge, Within
<1>4. PICK q \in [1 .. n -> Node] :
        Walk(G, <<s>> \o q) /\ ~Walk(P, <<s>> \o q)
  <2>1. \A q : Walk(P, <<s>> \o q) => Walk(G, <<s>> \o q)
    BY DEF Walk
  <2>2. QED
    BY <1>3, <2>1 DEF EndsOf
<1>5. s = e.from \/ \E k \in 1 .. n - 1 : e.from \in EndsOf(G, s, k)
  <2>1. n \in Nat
    BY <1>2
  <2> HIDE DEF P
  <2>2. QED
    BY <1>2, <1>4, <2>1, ReachesTheEdge
<1>6. \A k \in 1 .. n - 1 : k \in 1 .. MaxDepth
  BY <1>2
<1>7. QED
  BY <1>1, <1>5, <1>6 DEF Within

\* Every system whose derivation a manual edge changes is among those the
\* handler emits a change event for.
THEOREM AffectedAreTold == Spec => AffectedAreNotified
<1>1. ASSUME Inv, [Next]_vars, NEW h \in Handler, NEW e \in Edge, AddManualEdge(h, e)
      PROVE  ChangedByEdge(e) \subseteq affected'[h]
  <2>1. affected'[h] = Upstream(Stored \cup {e}, e.from)
    BY <1>1 DEF AddManualEdge, Inv, TypeOK
  <2>2. QED
    BY <2>1, ChangedIsUpstream
<1>2. Inv /\ [Next]_vars =>
        [\A h \in Handler, e \in Edge :
           AddManualEdge(h, e) => ChangedByEdge(e) \subseteq affected'[h]]_vars
  BY <1>1
<1>3. QED
  BY <1>2, InvInit, InvStep, PTL DEF Spec, AffectedAreNotified
-----------------------------------------------------------------------------
(* One request at a time. *)

(***************************************************************************)
(* What duplicate rows and missed notifications need: two requests under    *)
(* way, or a manual edge between nodes that have the edge already.          *)
(***************************************************************************)
OneAtATime == \A h, k \in Handler : pc[h] # "idle" /\ pc[k] # "idle" => h = k
NewEdgesOnly == \A h \in Handler : pc[h] = "manual" => inserts[h] \cap Stored = {}
Serial == OneAtATime /\ NewEdgesOnly

\* The handler has seen the tables as they are.
SeesTables(h) ==
  /\ pc[h] = "flush" => fresh[h] \cap nodes = {}
  /\ pc[h] = "edges" => inserts[h] \cap Stored = {}
  /\ pc[h] = "manual" => \A e \in inserts[h] : ChangedByEdge(e) \subseteq affected[h]

NoDuplicates == \A e \in Edge : Len(rows[e]) <= 1
NoRefusal == \A h \in Handler : refused[h] = NoSnapshot
SerialInv == NoDuplicates /\ NoRefusal /\ \A h \in Handler : SeesTables(h)

\* A handler that does not move goes on seeing tables that do not change.
LEMMA StillSees ==
  ASSUME NEW k \in Handler, SeesTables(k), UNCHANGED <<nodes, rows>>,
         UNCHANGED <<pc[k], fresh[k], inserts[k], affected[k]>>
  PROVE  SeesTables(k)'
BY DEF SeesTables, Stored, ChangedByEdge

\* Idle handlers see nothing.
LEMMA IdleSees ==
  ASSUME NEW k \in Handler, pc'[k] = "idle"
  PROVE  SeesTables(k)'
BY DEF SeesTables

\* Rows added to edges without one do not make duplicates.
LEMMA CommitsSingle ==
  ASSUME TypeOK, NoDuplicates, NEW h \in Handler, inserts[h] \cap Stored = {},
         NEW tag \in BOOLEAN, rows' = Committed(h, tag)
  PROVE  NoDuplicates'
<1> SUFFICES ASSUME NEW e \in Edge PROVE Len(rows'[e]) <= 1
  BY DEF NoDuplicates
<1>1. rows[e] \in Seq(BOOLEAN) /\ Len(rows[e]) <= 1
  BY DEF TypeOK, NoDuplicates
<1>2. CASE e \in inserts[h]
  <2>1. rows[e] = <<>> /\ rows'[e] = Append(rows[e], tag)
    BY <1>2 DEF Stored, Committed
  <2>2. Len(rows'[e]) = 1
    BY <2>1
  <2>3. QED
    BY <2>2
<1>3. CASE e \notin inserts[h]
  <2>1. rows'[e] = IF e \in wipes[h] THEN [rows[e] EXCEPT ![1] = FALSE] ELSE rows[e]
    BY <1>3 DEF Committed
  <2>2. QED
    BY <1>1, <2>1, WipedLength
<1>4. QED
  BY <1>2, <1>3

\* While requests are served one at a time none is refused, and none is
\* overtaken.
LEMMA SerialStep == Inv /\ SerialInv /\ Serial /\ [Next]_vars => SerialInv'
<1> SUFFICES ASSUME Inv, SerialInv, Serial, [Next]_vars PROVE SerialInv'
  OBVIOUS
<1>t. TypeOK
  BY DEF Inv
<1>1. ASSUME NEW h \in Handler, HandlerStep(h), UNCHANGED <<nodes, rows>>, SeesTables(h)',
             refused'[h] = NoSnapshot
      PROVE  SerialInv'
  <2>1. \A k \in Handler \ {h} : UNCHANGED <<pc[k], fresh[k], inserts[k], affected[k]>>
    <3>1. \A k \in Handler \ {h} : UNCHANGED <<pc[k], fresh[k], inserts[k]>>
      BY <1>t, <1>1, ZenonT(60) DEF TypeOK, HandlerStep, Receive, LookNodes, Flush, NodeConflict,
                      ServerError, Close, InsertEdge, UpdateEdge, EdgeAmbiguous,
                      Commit, AddManualEdge, CommitManual, Fail, Sync, thread
    <3>2. \A k \in Handler \ {h} : affected'[k] = affected[k]
      BY <1>t, <1>1, ZenonT(60) DEF TypeOK, HandlerStep, Receive, LookNodes, Flush, NodeConflict,
                      ServerError, Close, InsertEdge, UpdateEdge, EdgeAmbiguous,
                      Commit, AddManualEdge, CommitManual, Fail, Sync, thread
    <3>3. QED
      BY <3>1, <3>2
  <2>2. \A k \in Handler \ {h} : refused'[k] = refused[k]
    BY <1>t, <1>1 DEF TypeOK, HandlerStep, Receive, LookNodes, Flush, NodeConflict,
                    ServerError, Close, InsertEdge, UpdateEdge, EdgeAmbiguous,
                    Commit, AddManualEdge, CommitManual, Fail, Sync, answer
  <2>3. \A k \in Handler : SeesTables(k)'
    BY <1>1, <2>1, StillSees DEF SerialInv
  <2>4. NoRefusal'
    BY <1>1, <2>2 DEF SerialInv, NoRefusal
  <2>5. NoDuplicates'
    BY <1>1 DEF SerialInv, NoDuplicates
  <2>6. QED
    BY <2>3, <2>4, <2>5 DEF SerialInv
<1>2. ASSUME NEW h \in Handler, Close(h), pc[h] # "idle", refused' = refused, NoDuplicates'
      PROVE  SerialInv'
  <2>1. \A k \in Handler : pc'[k] = "idle"
    BY <1>t, <1>2 DEF TypeOK, Close, Serial, OneAtATime
  <2>2. QED
    BY <1>2, <2>1, IdleSees DEF SerialInv, NoRefusal
<1>3. ASSUME NEW h \in Handler, HandlerStep(h) PROVE SerialInv'
  <2> USE DEF tables, answer, counts
  <2>s. SeesTables(h) /\ refused[h] = NoSnapshot
    BY DEF SerialInv, NoRefusal
  <2>1. ASSUME NEW x \in Snapshot, Receive(h, x) PROVE SerialInv'
    BY <1>t, <1>1, <1>3, <2>1 DEF TypeOK, Receive, SeesTables
  <2>2. CASE LookNodes(h)
    BY <1>t, <1>1, <1>3, <2>s, <2>2 DEF TypeOK, LookNodes, SeesTables
  <2>3. CASE Flush(h)
    <3>1. inserts'[h] = {} /\ pc'[h] = "edges"
      BY <1>t, <2>3 DEF TypeOK, Flush, Inv, HandlerInv, Clean
    <3>2. QED
      BY <1>1, <1>3, <2>s, <2>3, <3>1 DEF Flush, SeesTables
  <2>4. ~NodeConflict(h)
    BY <2>s DEF NodeConflict, SeesTables
  <2>5. ASSUME NEW e \in Edge, InsertEdge(h, e) PROVE SerialInv'
    <3>1. /\ inserts'[h] = inserts[h] \cup {e} /\ pc[h] = "edges" /\ rows[e] = <<>>
          /\ UNCHANGED <<nodes, rows, pc, refused>>
      BY <1>t, <2>5 DEF TypeOK, InsertEdge
    <3>2. SeesTables(h)'
      BY <2>s, <3>1 DEF SeesTables, Stored
    <3>3. QED
      BY <1>1, <1>3, <2>s, <3>1, <3>2
  <2>6. ASSUME NEW e \in Edge, UpdateEdge(h, e) PROVE SerialInv'
    <3>1. /\ pc[h] = "edges"
          /\ UNCHANGED <<nodes, rows, pc, inserts, refused>>
      BY <2>6 DEF UpdateEdge
    <3>2. SeesTables(h)'
      BY <2>s, <3>1 DEF SeesTables, Stored
    <3>3. QED
      BY <1>1, <1>3, <2>s, <3>1, <3>2
  <2>7. ASSUME NEW e \in Edge PROVE ~EdgeAmbiguous(h, e)
    <3>1. Len(rows[e]) \in Nat /\ Len(rows[e]) <= 1
      BY <1>t, LenType DEF SerialInv, NoDuplicates
    <3>2. QED
      BY <3>1 DEF EdgeAmbiguous
  <2>8. CASE Commit(h)
    <3>1. inserts[h] \cap Stored = {} /\ rows' = Committed(h, FALSE)
      BY <2>s, <2>8 DEF Commit, SeesTables, Committed
    <3>2. NoDuplicates'
      BY <1>t, <3>1, CommitsSingle DEF SerialInv
    <3>3. QED
      BY <1>2, <2>8, <3>2 DEF Commit
  <2>9. ASSUME NEW e \in Edge, AddManualEdge(h, e) PROVE SerialInv'
    <3>1. /\ inserts'[h] = {e} /\ pc'[h] = "manual"
          /\ affected'[h] = Upstream(Stored \cup {e}, e.from)
          /\ UNCHANGED <<nodes, rows, refused>>
      BY <1>t, <2>9 DEF TypeOK, AddManualEdge
    <3>2. UNCHANGED ChangedByEdge(e)
      BY <3>1 DEF ChangedByEdge, Stored
    <3>3. SeesTables(h)'
      BY <3>1, <3>2, ChangedIsUpstream DEF SeesTables
    <3>4. QED
      BY <1>1, <1>3, <2>s, <3>1, <3>3
  <2>10. CASE CommitManual(h)
    <3>1. inserts[h] \cap Stored = {} /\ wipes[h] = {}
      BY <2>10 DEF CommitManual, Serial, NewEdgesOnly, Inv, HandlerInv, ManualKnown
    <3>2. rows' = Committed(h, TRUE)
      BY <2>10, <3>1 DEF CommitManual, Committed
    <3>3. NoDuplicates'
      BY <1>t, <3>1, <3>2, CommitsSingle DEF SerialInv
    <3>4. QED
      BY <1>2, <2>10, <3>3 DEF CommitManual
  <2>11. CASE Fail(h)
    <3>1. NoDuplicates'
      BY <2>11 DEF Fail, SerialInv, NoDuplicates
    <3>2. QED
      BY <1>2, <2>11, <3>1 DEF Fail
  <2>12. ASSUME NEW s \in AISystem, Sync(h, s) PROVE SerialInv'
    BY <1>1, <1>3, <2>s, <2>12, StillSees DEF Sync, thread
  <2>13. QED
    BY <1>3, <2>1, <2>2, <2>3, <2>4, <2>5, <2>6, <2>7, <2>8, <2>9, <2>10, <2>11, <2>12
       DEF HandlerStep
<1>4. CASE UNCHANGED vars
  BY <1>4, StillSees DEF vars, tables, answer, thread, SerialInv, NoDuplicates, NoRefusal
<1>5. QED
  BY <1>3, <1>4 DEF Next

\* Initially there is nothing to see.
LEMMA SerialInit == Init => SerialInv
<1>1. Len(<<>>) = 0
  OBVIOUS
<1>2. QED
  BY <1>1 DEF Init, SerialInv, NoDuplicates, NoRefusal, SeesTables

\* As long as requests are served one at a time and no manual edge repeats one
\* that is stored, pushing a snapshot again is the safe no-op it is said to be.
THEOREM SerialRepushIsSafe == Spec /\ []Serial => []RepushIsSafe
<1>1. Inv /\ SerialInv => RepushIsSafe
  BY GraphAssumption DEF Inv, TypeOK, SerialInv, NoRefusal, RepushIsSafe
<1>2. QED
  BY <1>1, InvInit, InvStep, SerialInit, SerialStep, PTL DEF Spec

\* Then, too, every system whose derivation a manual edge changes by the time
\* it is committed gets its change event with it.
ChangedAreTold(h) ==
  CommitManual(h) => \A e \in inserts[h] : \A s \in ChangedByEdge(e) :
                       outbox'[s] = outbox[s] + 1

THEOREM SerialManualEdgesTell ==
  Spec /\ []Serial => [][\A h \in Handler : ChangedAreTold(h)]_vars
<1>1. ASSUME Inv, SerialInv, NEW h \in Handler PROVE ChangedAreTold(h)
  <2> SUFFICES ASSUME CommitManual(h), NEW e \in inserts[h], NEW s \in ChangedByEdge(e)
               PROVE  outbox'[s] = outbox[s] + 1
    BY DEF ChangedAreTold
  <2>1. s \in affected[h]
    BY <1>1 DEF CommitManual, SerialInv, SeesTables
  <2>2. s \in AISystem
    BY DEF ChangedByEdge
  <2>3. QED
    BY <2>1, <2>2 DEF CommitManual
<1>2. Inv /\ SerialInv => [\A h \in Handler : ChangedAreTold(h)]_vars
  BY <1>1
<1>3. QED
  BY <1>2, InvInit, InvStep, SerialInit, SerialStep, PTL DEF Spec
=============================================================================
