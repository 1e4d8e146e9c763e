SPECIFICATION FairSpec
CONSTANTS
  Runs = {r1}
  Workers = {w1, w2}
  Digests = {empty, edited}
  Root = root
  EmptyDigest = empty
  NoDigest = noDigest
  NoRun = noRun
  MaxWorkspaceVersion = 2
  MaxEpoch = 2
  MaxLeaseVersion = 2
  MaxFence = 2
  MaxOperationVersion = 2
INVARIANT SourceRetained
PROPERTIES
  OutcomesAreFinal
  PublishedUnderAuthority
  FinalizationDecided
  OpenedRunEnds
CHECK_DEADLOCK FALSE
