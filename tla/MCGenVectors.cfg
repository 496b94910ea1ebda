CONSTANTS
  a = a
  b = b
  third = third
  Rogue = rogue
  ZZ = 3
  Probe = 4
  Swallow = 9
  MaxClaimants = 3
  Trigger = {1, 2, 3, 4, 5}
  Claimant = {a, b, third, rogue}
  Action = {0, 1, 2, 3, 9}
  Tables <- MCTables
SPECIFICATION GenSpec
INVARIANTS
  GenTypeOK
  GridsDecideTheTable
  RogueGridExposesTheOrder
  CleanTablesAreAccepted
  LeanProvesTablesWithAConflict
CHECK_DEADLOCK FALSE
