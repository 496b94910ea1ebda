CONSTANTS
  a = a
  b = b
  Rogue = rogue
  ZZ = 3
  Probe = 4
  Swallow = 9
  Trigger = {1, 2, 3, 4}
  Claimant = {a, b, rogue}
  Action = {0, 1, 2, 9}
  Tables <- MCTables
SPECIFICATION Spec
INVARIANTS
  TypeOK
  CheckIsExact
  GreenTiesTheProofsToTheCode
