SPECIFICATION FairSpec
CONSTANTS
  Processes = {p1, p2}
  MaxFence = 2
  MaxCollections = 2
INVARIANTS AcceptedIsRetained CollectedIsGone MarkMeansStopped
PROPERTIES RetirementIsFinal RejectedIsCollected
CHECK_DEADLOCK FALSE
