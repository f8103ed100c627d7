SPECIFICATION Spec
CONSTANTS
  SessionId = {s1, s2, s3}
  Cap = 2
  Nothing = Nothing
INVARIANTS RepliesDocumented RefsResolve
PROPERTIES RefusalCostsNothing
