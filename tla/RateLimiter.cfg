SPECIFICATION Spec
CONSTANTS
  Keys = {alice, bob}
  Burst = 2
  Refill = 3
  MaxIdle = 6
  Second = 1
  MaxTime = 11
  NoHint = NoHint
SYMMETRY KeySymmetry
INVARIANTS RetryAfterSuffices
PROPERTY ImplementsTokenBucket
CHECK_DEADLOCK FALSE
