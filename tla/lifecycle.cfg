SPECIFICATION FairSpec
CONSTANTS
  Worker = {w1, w2}
  SessionId = {s1}
  NoId = NoId
  Files <- MCFiles
  Envs <- MCEnvs
  Location = {file, url, feed}
  HttpLocation = {url}
  HttpsLocation = {feed}
  Nothing = Nothing
  MaxEdits = 1
  file = file
  url = url
  feed = feed
INVARIANTS TypeOK ServingIsWhole ValidatedIsServed OverrideIsLocal
PROPERTIES HandleSpec StartupDecides StopEnds
