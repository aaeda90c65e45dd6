CONSTANTS
  System = {s1, s2}
  Worker = {w1}
  Poll = poll
  NoOne = noone
  NoCall = nocall
  o0 = o0
  o1 = o1
  o2 = o2
  Obligation = {o0, o1, o2}
  Applies <- GrowingApplies
  MaxVersion = 2
  MaxWrites <- OneWritten
  ChunkSize = 1
  MaxAttempts = 1
  MaxRestarts = 0
  Overrun = {2}
  Tracked = {}
SPECIFICATION FairSpec
INVARIANTS
  MutualExclusion
  LocksMatchRuns
  EventSeesItsChange
PROPERTIES
  EventuallyReconciled
  GuardSpec
