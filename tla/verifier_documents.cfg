SPECIFICATION Spec
CONSTANTS
  SessionId = {s1}
  NoId = NoId
  Origin = {o1, o2}
  DefaultOrigin = o1
  NoOverride = NoOverride
  Cap = 1
  TTL = 3
  Interval = 2
  Jumps <- NoJumps
  Horizon = 2
  Request = {r1}
  NoResponse = NoResponse
  PoolSize = 1
  Drift <- OnTime
  Documents <- TwoFlaws
  MaxPresented = 1
  Circuit = {held, other}
  HeldCircuit = held
  Skew = 1
  CertId <- CertIds
  Anchors <- MCAnchors
  iaca = iaca
  leaf = leaf
  self = self
  stranger = stranger
  held = held
  other = other
INVARIANTS VerifiedIsBound ReasonIsTrue
