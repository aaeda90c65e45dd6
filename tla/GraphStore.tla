------------------------------ MODULE GraphStore ------------------------------
(***************************************************************************)
(* What core's graph tables promise: a graph that grows by whole snapshots  *)
(* of the satellite and by single edges of a compliance officer, each in    *)
(* one step, and never has an edge without its nodes.                       *)
(***************************************************************************)
CONSTANTS
  Node,       \* natural keys
  Edge,       \* [from, to, type], natural keys
  Snapshot    \* [nodes, edges]

VARIABLES nodes, edges

storeVars == <<nodes, edges>>

Known(e) == e.from \in nodes /\ e.to \in nodes

SInit == nodes = {} /\ edges = {}

Merge(x) ==
  /\ nodes' = nodes \cup x.nodes
  /\ edges' = edges \cup x.edges

AddManual(e) ==
  /\ Known(e)
  /\ edges' = edges \cup {e}
  /\ nodes' = nodes

SNext == (\E x \in Snapshot : Merge(x)) \/ (\E e \in Edge : AddManual(e))

SSpec == SInit /\ [][SNext]_storeVars
=============================================================================
