SPECIFICATION Spec
CONSTANTS
  Keys = {alice, bob}
  Burst = 1
  Refill = 6
  MaxIdle = 6
  Second = 4
  MaxTime = 15
  NoHint = NoHint
INVARIANT RetryAfterHeaderSuffices
CHECK_DEADLOCK FALSE
