SPECIFICATION ScanFairSpec
CONSTANTS
  Candidates = {1, 2, 3}
  Submissions = {4, 5}
  Jobs = {1, 2}
  JobOf <- MCJobOf
  Poison = {2}
  BatchSize = 2
  MaxFaults = 1
INVARIANT CompleteMeansCollected
PROPERTY HealthyTargetCollected
