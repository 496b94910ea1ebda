CONSTANTS
  Words = {"alpha", "beta", "rc", "pre", "v0"}
  Versions <- MCVersions
  Peps <- MCPeps
  Tags <- MCTags
  Trees <- MCTrees
SPECIFICATION Spec
INVARIANTS
  TypeOK
  PassedIsConsistent
  PassedVersionsStayApart
  EveryDisagreementReported
CHECK_DEADLOCK FALSE
