CONSTANTS
  a = a
  b = b
  Trigger = {1, 2}
  Claimant = {a, b}
  Action = {0, 1, 2, 3}
  MCRungs = 3
  Tables <- MCTables
SPECIFICATION Spec
INVARIANTS
  TypeOK
  EscapeHatch
  FirstMatch
  DecliningRungIsTransparent
PROPERTY
  ImplementsContract
CHECK_DEADLOCK FALSE
