CONSTANTS
  Package = {1, 2, 3, 4}
  Metadatas <- MCMetadatas
SPECIFICATION Spec
INVARIANTS
  WalkInv
  GuardIsExact
PROPERTIES
  ImplementsContract
  WalkEnds
CHECK_DEADLOCK FALSE
