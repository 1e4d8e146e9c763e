SPECIFICATION FairSpec
CONSTANTS
  Contents = {c1, c2}
  MaxRuns = 2
  MaxFaults = 2
  Libraries = {"typescript", "python", "php", "mcp"}
INVARIANTS LiveRunIsOwned SealedIsCaptured
PROPERTIES ReadyIsTheBase CleanupIsSafe AcceptedIsLearned
CHECK_DEADLOCK FALSE
