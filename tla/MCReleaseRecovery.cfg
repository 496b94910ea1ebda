CONSTANTS
  good = good
  bad = bad
  None = None
  Commit = {good, bad}
  Checks = {"formal"}
  Passing <- MCPassing
  MaxRuns = 2
  MaxFaults = 1
  AllowRetag = TRUE
  AllowRerunAny = FALSE
  AllowLostReply = FALSE
CHECK_DEADLOCK FALSE
SPECIFICATION Spec
PROPERTY
  PublishedCrateGetsItsRelease
