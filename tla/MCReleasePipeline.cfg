CONSTANTS
  good = good
  bad = bad
  None = None
  Commit = {good, bad}
  Checks = {"formal"}
  Passing <- MCPassing
  MaxRuns = 2
  MaxFaults = 1
  AllowRetag = TRUE
  AllowRerunAny = TRUE
  AllowLostReply = TRUE
SPECIFICATION Safety
INVARIANTS
  TypeOK
  ReleaseDescribesTheCrate
PROPERTIES
  PublishIsGated
  GreenMeansPublished
