SPECIFICATION FairSpec
CONSTANTS
  Callers = {c1, c2}
  Keys = {k1}
  FileKeys = {f1}
  Names = {n1}
  NoKey = NoKey
  MaxConns = 2
PROPERTY TouchIsBestEffort
CHECK_DEADLOCK FALSE
