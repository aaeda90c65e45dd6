CONSTANTS
  s1 = s1
  s2 = s2
  o1 = o1
  c1 = c1
  System = {s1, s2}
  Obligation = {o1, c1}
  Body <- Batch
  Handler = {h1, h2}
  NoBody = nobody
  MaxAttempts = 2
  MaxFailures = 1
  MaxAsks = 1
  Requires <- Needed
SYMMETRY Symmetry
SPECIFICATION Spec
INVARIANTS
  TypeOK
  AnswersAreTrue
  RecordedPerPost
  AuditsMatchResults
  GapsAreOpen
  LinkRowsAreFew
  LinksMatchResults
PROPERTIES
  LedgerSpec
CHECK_DEADLOCK FALSE
