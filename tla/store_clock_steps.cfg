SPECIFICATION Spec
CONSTANTS
  SessionId = {s1, s2, s3}
  NoId = NoId
  Origin = {o1}
  DefaultOrigin = o1
  NoOverride = NoOverride
  Cap = 2
  TTL = 2
  Interval = 3
  Jumps <- SomeJumps
  Horizon = 4
SYMMETRY Handles
PROPERTIES HandleSpec
