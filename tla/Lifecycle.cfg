SPECIFICATION LifeSpec
CONSTANTS
  Events = {e1, e2}
  Subscribers = {s1}
  BufferSize = 1
  SubBuf = 1
  None = None
  MaxSignals = 1
  MaxConns = 1
INVARIANTS LifeTypeOK NoSilentLoss StoredOnceInOrder TailFresh CleanShutdownLosesNothing NoWriteAfterPoolClose
PROPERTIES NoSendOnClosed ImplementsTrail SignalEndsProcess AcceptedIsWritten
CHECK_DEADLOCK FALSE
