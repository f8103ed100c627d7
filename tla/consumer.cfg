SPECIFICATION FairSpec
CONSTANTS
  Check = {c1, c2}
  SessionId = {s1, s2, s3}
  NoId = NoId
INVARIANTS TypeOK GateIsEarned FailureIsTrue NeverConflict
PROPERTIES CallsEnd
