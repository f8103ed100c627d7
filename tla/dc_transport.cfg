SPECIFICATION Spec
CONSTANTS
  SessionId = {s1, s2}
  Origin = {o1, o2}
  Nonce = {n1, n2}
  Plaintext = {p1, p2}
  Encapsulation = {e1, e2}
  NothingYet = NothingYet
INVARIANTS OpensOwn HonestOpens StoredIsServed
