CONSTANTS
  a = a
  b = b
  Trigger = {1, 2}
  Claimant = {a, b}
  Action = {0, 1, 2}
  Unit = {turn, tool}
  turn = turn
  tool = tool
  MCRungs = 2
  Tables <- MCTables
SPECIFICATION Spec
INVARIANTS
  TypeOK
  EscapeExactlyWhileWorking
  ReservedHintKept
PROPERTIES
  ClaimingOnlyWins
  WorkOnlyAddsEscapes
