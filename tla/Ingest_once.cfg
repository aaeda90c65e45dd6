CONSTANTS
  s1 = s1
  s2 = s2
  o1 = o1
  c1 = c1
  System = {s1}
  Obligation = {o1, c1}
  Body <- OneBody
  Handler = {h1}
  NoBody = nobody
  MaxAttempts = 2
  MaxFailures = 0
  MaxAsks = 0
  Requires <- Needed
SPECIFICATION Spec
INVARIANT RecordedOnce
CHECK_DEADLOCK FALSE
