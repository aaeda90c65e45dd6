CONSTANTS
  Limit = 2
  Window = 3
  Key = {k1}
  Thread = {t1, t2, t3}
  Size = {1, 2}
  MaxLag = 2
SPECIFICATION FairSpec
INVARIANTS
  TypeOK
  BurstBounded
  NoPhantomUnits
PROPERTIES
  RefusedInTheEndAdmitted
