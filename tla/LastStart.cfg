\* One request of a credential that is revoked, against the clock.
SPECIFICATION Spec
CONSTANTS
  p1 = p1
  p2 = p2
  sp1 = sp1
  sp2 = sp2
  aud = aud
  Persons = {p1}
  SessionOf <- MCSessionOf
  Members = {m1}
  ClaimNames = {vote}
  Policies <- MCPolicies
  Tokens = {t1, t2}
  Requests = {r1}
  None = None
  ChallengeTTL = 2
  RootGrace = 2
  MaxTime = 5
INVARIANTS LastStartOfRevoked
CHECK_DEADLOCK FALSE
