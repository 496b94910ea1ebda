CONSTANTS
  a = a
  b = b
  Trigger = {1, 2}
  Claimant = {a, b}
  Action = {0, 1, 2, 3}
  MCRungs = 3
  Tables <- MCTables
SPECIFICATION Spec
INVARIANTS
  TypeOK
  DeadRungsAreDead
  UnreportedPairsCanFire
  EveryCollisionReportedOnce
  PruningIsHarmless
CHECK_DEADLOCK FALSE
