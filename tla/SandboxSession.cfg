SPECIFICATION FairSpec
CONSTANTS
  MaxKeys = 2
  Contents = {"c0", "c1"}
  Initial = "c0"
  MaxPushes = 1
  MaxFaults = 2
  LateRepeats = FALSE
INVARIANTS DestroyedOwnsNothing CheckpointPublishedOnce
PROPERTY SessionEnds
CHECK_DEADLOCK FALSE
