SPECIFICATION Spec
CONSTANTS
  Stores = {"local", "s3"}
  MaxKeys = 1
  Calls = {1, 2}
  Collectors = {c1, c2}
  MaxRetries = 1
  MaxCollections = 2
SYMMETRY Symmetry
INVARIANTS SourceIsStored ReplayIsAnswered CollectedIsErased
CHECK_DEADLOCK FALSE
