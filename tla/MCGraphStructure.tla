--------------------------- MODULE MCGraphStructure ---------------------------
(* Small instances of GraphStructure for TLC. *)
EXTENDS GraphStructure, TLC
CONSTANTS s, t, j, r, o

Nodes == {s, t, j, r, o}

Edge2(a, b, type) == [from |-> a, to |-> b, type |-> type]
Deploys  == Edge2(s, j, "system_deploys_in")
DeploysT == Edge2(t, j, "system_deploys_in")
Has      == Edge2(j, r, "jurisdiction_has")
Requires == Edge2(r, o, "regulation_requires")
Edges == {Deploys, DeploysT, Has, Requires}

\* Before and after the second system arrives and the jurisdiction is linked to
\* its regulation.
Early == [nodes |-> {s, j, r, o}, edges |-> {Deploys, Requires}]
Later == [nodes |-> Nodes, edges |-> {Deploys, DeploysT, Has}]
Snapshots == {Early, Later}
LaterOnly == {Later}

Symmetry == Permutations(Handler)
=============================================================================
