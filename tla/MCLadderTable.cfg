CONSTANTS
  a = a
  b = b
  Trigger = {1, 2}
  Claimant = {a, b}
  Action = {0, 1, 2}
  SchemaLimit = 3
  Sources <- MCSources
  Tables <- MCTables
SPECIFICATION Spec
INVARIANTS
  TypeOK
  LoadedTableCanBeEscaped
  LoadedTableIsTheSources
  ErrorPrecedence
CHECK_DEADLOCK FALSE
