\* One account with a password and one without, two sessions, four calls.
SPECIFICATION Spec
CONSTANTS
  Users = {u1, u2}
  HasPassword = {u1}
  Sessions = {s1, s2}
  Tokens = {t1, t2}
  Calls = {c1, c2, c3, c4}
  None = None
  ChallengeTTL = 1
  MFAWindow = 0
  MaxTime = 2
SYMMETRY MCSymmetry
INVARIANTS TypeOK MFARestsOnCurrentCommitment OneStepUpPerChallenge
CHECK_DEADLOCK FALSE
