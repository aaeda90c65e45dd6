CONSTANTS
  s = s
  j = j
  r = r
  o = o
  c = c
  Node <- Nodes
  System = s
  Regulation = {r}
  Obligation = {o}
  Control = {c}
  Graphs <- AllGraphs
  Depths = {1, 2, 3, 4}
SPECIFICATION Spec
INVARIANTS
  TypeOK
  Sound
  Exact
  GapsExact
CHECK_DEADLOCK FALSE
