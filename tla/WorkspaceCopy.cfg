SPECIFICATION FairSpec
CONSTANTS
  Payloads = {c1, c2}
  MaxFence = 3
  MaxFaults = 2
INVARIANTS CopyLandsOnce SourceHeldUntilDecided ReadyBundleIsComplete
PROPERTY SourceIsReleased
CHECK_DEADLOCK FALSE
