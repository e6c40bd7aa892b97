\* Two persons share one credential; the claim may change kind under them. No clock.
SPECIFICATION FairSpec
CONSTANTS
  p1 = p1
  p2 = p2
  sp1 = sp1
  sp2 = sp2
  aud = aud
  Persons = {p1, p2}
  SessionOf <- MCSessionOf
  Members = {m1}
  ClaimNames = {vote}
  Policies <- MCPolicies
  Tokens = {t1, t2}
  Requests = {r1, r2}
  None = None
  ChallengeTTL = 1
  RootGrace = 1
  MaxTime = 0
INVARIANTS TypeOK LoginStaysOnPseudonym SpentOnce GrantsAreBurnt StandingClaimsAreProved
PROPERTIES NullifierIsForGood RequestsAnswered
CHECK_DEADLOCK FALSE
