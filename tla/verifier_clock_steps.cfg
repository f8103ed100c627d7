SPECIFICATION Spec
CONSTANTS
  SessionId = {s1, s2}
  NoId = NoId
  Origin = {o1}
  DefaultOrigin = o1
  NoOverride = NoOverride
  Cap = 2
  TTL = 2
  Interval = 2
  Jumps <- SomeJumps
  Horizon = 3
  Request = {r1, r2}
  NoResponse = NoResponse
  PoolSize = 1
  Drift <- OnTime
  Documents <- OnlyGood
  MaxPresented = 1
  Circuit = {held, other}
  HeldCircuit = held
  Skew = 1
  CertId <- CertIds
  Anchors <- MCAnchors
  iaca = iaca
  leaf = leaf
  self = self
  stranger = stranger
  held = held
  other = other
SYMMETRY Interchangeable
INVARIANTS OneAttempt
PROPERTIES VerdictSpec
