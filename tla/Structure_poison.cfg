CONSTANTS
  s = s
  t = t
  j = j
  r = r
  o = o
  Node <- Nodes
  AISystem = {s, t}
  Edge <- Edges
  Snapshot <- LaterOnly
  Handler = {h1}
  NoSnapshot = nosnapshot
  MaxDepth = 3
  MaxPushes = 2
  MaxManual = 1
  MaxSyncs = 0
  MaxFailures = 0
SPECIFICATION Spec
INVARIANT RepushIsSafe
CHECK_DEADLOCK FALSE
