SPECIFICATION FairSpec
CONSTANTS
  SessionId = {s1, s2}
  NoId = NoId
  Origin = {o1, o2}
  DefaultOrigin = o1
  NoOverride = NoOverride
  Cap = 2
  TTL = 1
  Interval = 2
  Jumps <- NoJumps
  Horizon = 1
  Request = {r1, r2}
  NoResponse = NoResponse
  PoolSize = 1
  Drift <- OnTime
  Documents <- OnlyGood
  MaxPresented = 2
  Circuit = {held, other}
  HeldCircuit = held
  Skew = 1
  CertId <- CertIds
  Anchors <- MCAnchors
  iaca = iaca
  leaf = leaf
  self = self
  stranger = stranger
  held = held
  other = other
PROPERTIES EveryAttemptAnswered
INVARIANTS VerifiedIsBound
