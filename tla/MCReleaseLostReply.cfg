CONSTANTS
  good = good
  bad = bad
  None = None
  Commit = {good, bad}
  Checks = {"formal"}
  Passing <- MCPassing
  MaxRuns = 1
  MaxFaults = 1
  AllowRetag = FALSE
  AllowRerunAny = FALSE
  AllowLostReply = TRUE
CHECK_DEADLOCK FALSE
SPECIFICATION Spec
PROPERTY
  PublishedCrateGetsItsRelease
