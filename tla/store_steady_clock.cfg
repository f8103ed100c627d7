SPECIFICATION FairSpec
CONSTANTS
  SessionId = {s1, s2, s3, s4}
  NoId = NoId
  Origin = {o1}
  DefaultOrigin = o1
  NoOverride = NoOverride
  Cap = 2
  TTL = 2
  Interval = 2
  Jumps <- NoJumps
  Horizon = 5
INVARIANTS TypeOK StoreBounded FullOfUnexpired SweptSinceExpiry
PROPERTIES LeavesOnlyExpired ExpiredIsEvicted
