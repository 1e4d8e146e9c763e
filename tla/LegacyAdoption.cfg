SPECIFICATION FairSpec
CONSTANTS
  Controllers = {c1, c2}
  MaxCommits = 2
  MaxWrites = 2
  MaxFaults = 2
INVARIANTS AdoptedIsReviewed
PROPERTY AdoptionCompletes
CHECK_DEADLOCK FALSE
