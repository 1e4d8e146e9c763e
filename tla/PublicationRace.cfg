SPECIFICATION Spec
CONSTANTS
  Runs = {r1, r2}
  Workers = {w1, w2}
  Digests = {empty, edited}
  Root = root
  EmptyDigest = empty
  NoDigest = noDigest
  NoRun = noRun
  MaxWorkspaceVersion = 1
  MaxEpoch = 1
  MaxLeaseVersion = 1
  MaxFence = 2
  MaxOperationVersion = 2
SYMMETRY Symmetry
INVARIANTS
  LinearHistory
  OutcomeAgreement
  AcceptedContent
PROPERTY ImplementsHistory
CHECK_DEADLOCK FALSE
