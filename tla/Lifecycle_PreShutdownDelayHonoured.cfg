SPECIFICATION LifeSpec
CONSTANTS
  Events = {e1, e2}
  Subscribers = {s1}
  BufferSize = 1
  SubBuf = 1
  None = None
  MaxSignals = 2
  MaxConns = 1
INVARIANT PreShutdownDelayHonoured
CHECK_DEADLOCK FALSE
