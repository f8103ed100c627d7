SPECIFICATION Spec
CONSTANTS
  SessionId = {s1, s2}
  NoId = NoId
  Origin = {o1, o2}
  DefaultOrigin = o1
  NoOverride = NoOverride
  Cap = 2
  TTL = 3
  Interval = 2
  Jumps <- NoJumps
  Horizon = 3
  Request = {r1, r2}
  NoResponse = NoResponse
  PoolSize = 1
  Drift <- Ahead
  Documents <- MCDocuments
  MaxPresented = 1
  Circuit = {held, other}
  HeldCircuit = held
  Skew = 1
  CertId <- CertIds
  Anchors <- MCAnchors
  iaca = iaca
  leaf = leaf
  self = self
  stranger = stranger
  held = held
  other = other
SYMMETRY Interchangeable
INVARIANTS TypeOK ConflictHasCause VerifiedInTime ReasonIsTrue
PROPERTIES StoreSpec
