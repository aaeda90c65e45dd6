CONSTANTS
  Limit = 100
  Window = 6
  ChunkSize = 50
  Pace = 3
  MaxAttempts = 1
  Fleet = {120}
  Traffic = {1}
SPECIFICATION Spec
INVARIANTS
  QuietSweepNeverRefused
