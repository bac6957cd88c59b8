SPECIFICATION FairSpec
CONSTANTS
  Callers = {c1, c2}
  Keys = {k1, k2}
  FileKeys = {f1}
  Names = {n1}
  NoKey = NoKey
  MaxConns = 2
INVARIANTS TypeOK RevokedIsRejected LastUsedIsTrue
PROPERTY AuthAnswers
CHECK_DEADLOCK FALSE
