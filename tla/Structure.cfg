CONSTANTS
  s = s
  t = t
  j = j
  r = r
  o = o
  Node <- Nodes
  AISystem = {s, t}
  Edge <- Edges
  Snapshot <- Snapshots
  Handler = {h1, h2}
  NoSnapshot = nosnapshot
  MaxDepth = 3
  MaxPushes = 4
  MaxManual = 2
  MaxSyncs = 1
  MaxFailures = 1
SYMMETRY Symmetry
SPECIFICATION Spec
INVARIANTS
  TypeOK
  AcceptedIsStored
  DuplicatesAreFew
PROPERTIES
  StoreSpec
  AffectedAreNotified
CHECK_DEADLOCK FALSE
