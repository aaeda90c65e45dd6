CONSTANTS
  System = {s1}
  Worker = {w1}
  Poll = poll
  NoOne = noone
  NoCall = nocall
  o0 = o0
  o1 = o1
  o2 = o2
  Obligation = {o0, o1}
  Applies <- ShrinkingApplies
  MaxVersion = 1
  MaxWrites <- AllWritten
  ChunkSize = 1
  MaxAttempts = 1
  MaxRestarts = 0
  Overrun = {}
  Tracked = {w1, poll}
SPECIFICATION FairSpec
PROPERTIES
  EventuallyReconciled
