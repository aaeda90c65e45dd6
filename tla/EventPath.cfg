CONSTANTS
  note = note
  garbage = garbage
  task = task
  Notice = {note, garbage}
  Stamp <- Stamps
  Readable = {note}
  Sender = {core}
  Allowlist = {}
  Skew = 1
  Margin = 1
  Cap = 1
  MaxTime = 3
  MaxTaken = 2
  Thread = {task}
  Announces <- Versions
  Edge <- AllEdges
  ManualEdge <- ByHand
  Facts <- GrowingFacts
  Derives <- Reaches
  MaxVersion = 1
  MaxAttempts = 2
SPECIFICATION Spec
INVARIANTS
  TypeOK
  RefusalsAreHonest
  WholeGraphs
  FlagsNeedARival
  ActedOnIsStored
PROPERTIES
  AcceptedOnce
CHECK_DEADLOCK FALSE
