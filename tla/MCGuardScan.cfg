CONSTANT
  Sources <- MCSources
SPECIFICATION Spec
INVARIANT
  ProductionLinesAreScanned
CHECK_DEADLOCK FALSE
