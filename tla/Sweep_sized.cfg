CONSTANTS
  Limit = 100
  Window = 6
  ChunkSize = 16
  Pace = 3
  MaxAttempts = 3
  Fleet = {0, 1, 40, 70}
  Traffic = {1, 16}
SPECIFICATION FairSpec
INVARIANTS
  TypeOK
  QuietSweepNeverRefused
PROPERTIES
  SweepEnds
