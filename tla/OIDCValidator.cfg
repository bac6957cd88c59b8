SPECIFICATION FairSpec
CONSTANTS
  Requests = {r1, r2}
  Kids = {k1}
  NoKid = nokid
  Ttl = 2
  Grace = 1
  FetchMax = 1
  MaxTime = 5
PROPERTIES RevokedKeysExpire RejectionJustified RequestAnswered
CHECK_DEADLOCK FALSE
