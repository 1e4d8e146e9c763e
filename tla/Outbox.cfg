SPECIFICATION OutboxFairSpec
CONSTANTS
  Subscriptions = {s1, broken}
  Broken = {broken}
  Nobody = nobody
  Workers = {w1, w2}
  MaxDeliveries = 1
  MaxAttempts = 2
  MaxLapses = 2
INVARIANTS CompleteMeansDelivered NoRedeliveryUnderClaim
PROPERTY HealthyRecipientServed
CHECK_DEADLOCK FALSE
