CONSTANTS
  System = {s1}
  Worker = {w1, w2}
  Poll = poll
  NoOne = noone
  NoCall = nocall
  o0 = o0
  o1 = o1
  o2 = o2
  Obligation = {o0, o1}
  Applies <- MixedApplies
  MaxVersion = 2
  MaxWrites <- AllWritten
  ChunkSize = 1
  MaxAttempts = 2
  MaxRestarts = 1
  Overrun = {}
  Tracked = {poll}
SYMMETRY Symmetry
SPECIFICATION Spec
INVARIANTS
  TypeOK
  LocksMatchRuns
  LinksSupported
  ValidatedMeansLinked
