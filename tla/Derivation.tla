------------------------------ MODULE Derivation ------------------------------
(***************************************************************************)
(* The two derivations that must agree: the satellite's walk over its graph *)
(* (traversal.py) and core's over its rows (reference_traversal_cte.py, the *)
(* dependency-free form).  Both work off a stack of walks, but with         *)
(* different cycle guards, depth tests and places for them.                 *)
(*                                                                          *)
(* An entry of the stack is the sequence of nodes from the AI system to the *)
(* current node: the satellite's path, core's path with current_id.  Its    *)
(* depth is its number of hops.  The top of a depth-first stack is one of   *)
(* its deepest entries; which of several siblings comes first is the order  *)
(* of the out-edges, which is arbitrary.                                    *)
(***************************************************************************)
EXTENDS Walks, SequencesExt

CONSTANTS
  System,       \* the AI system's node
  Regulation,
  Obligation,
  Control,      \* control_type nodes
  Graphs,       \* the sets of active edges considered
  Depths        \* values of max_traversal_depth

ASSUME NodeAssumption ==
  /\ System \in Node
  /\ Regulation \cup Obligation \cup Control \subseteq Node \ {System}
ASSUME GraphAssumption == Graphs \subseteq SUBSET (Node \X Node)
ASSUME DepthAssumption == Depths \subseteq Nat \ {0}

Terminal == Obligation \cup Control

VARIABLES
  who,      \* whose derivation this is
  edges,    \* the graph's active edges
  max,      \* max_traversal_depth
  stack,
  found,    \* obligation and control keys collected
  visited   \* regulations reached (the satellite's visited_regulation_ids)

vars == <<who, edges, max, stack, found, visited>>

Init ==
  /\ who \in {"satellite", "core"}
  /\ edges \in Graphs
  /\ max \in Depths
  /\ stack = {<<System>>}
  /\ found = {}
  /\ visited = {}

Out(n) == {t \in Node : <<n, t>> \in edges}
Depth(p) == Len(p) - 1

Top(p) == p \in stack /\ \A q \in stack : Len(q) <= Len(p)

\* Mutant: the first hop counts as none.
SatelliteExpandDeeper(p) ==
  LET next == {Append(p, t) : t \in Out(Last(p)) \ Range(p)}
  IN  /\ who = "satellite"
      /\ Top(p)
      /\ stack' = (stack \ {p}) \cup {q \in next : Depth(q) <= max}
      /\ found' = found \cup ({Last(q) : q \in next} \cap Terminal)
      /\ visited' = visited \cup ({Last(q) : q \in next} \cap Regulation)
      /\ UNCHANGED <<who, edges, max>>

\* One turn of _traverse's loop.  A target counts before the depth is tested,
\* and a target on the walk, the current node included, is passed over.
SatelliteExpand(p) ==
  LET next == {Append(p, t) : t \in Out(Last(p)) \ Range(p)}
  IN  /\ who = "satellite"
      /\ Top(p)
      /\ stack' = (stack \ {p}) \cup {q \in next : Depth(q) < max}
      /\ found' = found \cup ({Last(q) : q \in next} \cap Terminal)
      /\ visited' = visited \cup ({Last(q) : q \in next} \cap Regulation)
      /\ UNCHANGED <<who, edges, max>>

\* Mutant: what was found once is not walked again, at whatever depth that was.
CoreExpandOnce(p) ==
  LET next == {Append(p, t) : t \in Out(Last(p)) \ (Range(p) \cup found)}
  IN  /\ who = "core"
      /\ Top(p)
      /\ Depth(p) < max
      /\ stack' = (stack \ {p}) \cup next
      /\ found' = found \cup ({Last(q) : q \in next} \cap Terminal)
      /\ UNCHANGED <<who, edges, max, visited>>

\* Mutant: the depth is not tested.
CoreExpandUnbounded(p) ==
  LET next == {Append(p, t) : t \in Out(Last(p)) \ Range(Front(p))}
  IN  /\ who = "core"
      /\ Top(p)
      /\ stack' = (stack \ {p}) \cup next
      /\ found' = found \cup ({Last(q) : q \in next} \cap Terminal)
      /\ UNCHANGED <<who, edges, max, visited>>

\* One turn of _derive_obligations_pure_python's loop.  The guard does not see
\* the current node, so the target of a self-loop is walked once more.
CoreExpand(p) ==
  LET next == {Append(p, t) : t \in Out(Last(p)) \ Range(Front(p))}
  IN  /\ who = "core"
      /\ Top(p)
      /\ Depth(p) < max
      /\ stack' = (stack \ {p}) \cup next
      /\ found' = found \cup ({Last(q) : q \in next} \cap Terminal)
      /\ UNCHANGED <<who, edges, max, visited>>

\* "if depth >= max_traversal_depth: continue".
CoreDrop(p) ==
  /\ who = "core"
  /\ Top(p)
  /\ Depth(p) >= max
  /\ stack' = stack \ {p}
  /\ UNCHANGED <<who, edges, max, found, visited>>

Next == \E p \in stack : SatelliteExpand(p) \/ CoreExpand(p) \/ CoreDrop(p)

Spec == Init /\ [][Next]_vars

\* Mutant: a regulation is covered by any edge.
UncoveredByAnything == {r \in visited : Out(r) = {}}

\* incomplete_coverage: regulations reached that have no active
\* regulation_requires edge, the type of edge between them and obligations.
Uncovered == {r \in visited : Out(r) \cap Obligation = {}}

-----------------------------------------------------------------------------
TypeOK ==
  /\ who \in {"satellite", "core"}
  /\ edges \in Graphs
  /\ max \in Depths
  /\ \A p \in stack : p \in Seq(Node) /\ Len(p) \in 1 .. max + 1
  /\ found \subseteq Terminal
  /\ visited \subseteq Regulation

\* Neither derivation finds anything that is not within reach, at any moment.
Sound ==
  /\ found \subseteq Within(edges, System, max)
  /\ visited \subseteq Within(edges, System, max)

\* What core's comparison relies on: on equal graphs with equal bounds the
\* two derivations are equal, because both are exactly what is within reach --
\* on graphs with cycles, self-loops, shortcuts and dead ends too.
Exact == stack = {} => found = Within(edges, System, max) \cap Terminal

\* An empty result is told from missing data: exactly the regulations that are
\* within reach and not seeded with obligations are reported.
GapsExact ==
  who = "satellite" /\ stack = {} =>
    Uncovered = {r \in Within(edges, System, max) \cap Regulation :
                   ~\E o \in Obligation : <<r, o>> \in edges}
=============================================================================
