SPECIFICATION CleanupSpec
CONSTANTS
  Contents = {c1, c2}
  MaxRuns = 2
  MaxFaults = 1
  Libraries = {"mcp"}
PROPERTY EndedSessionIsCleaned
CHECK_DEADLOCK FALSE
