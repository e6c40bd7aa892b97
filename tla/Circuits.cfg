\* Two clients, two secrets, two challenges, a tree of four leaves.
SPECIFICATION Spec
CONSTANTS
  Persons = {p1, p2}
  Secrets = {s1, s2}
  Tokens = {t1, t2}
  Attributes = {1}
  Policies <- MCPolicies
  StrayElements = {3, 8}
  MadeUp <- MCMadeUp
  EntropyAttempts = 3
  None = None
  P = 9
  WordSize = 4
  MerkleDepth = 2
  Width <- MCWidth
  zeros <- MCzeros
  H <- MCHash
  LeafHash <- MCLeafHash
  H3 <- MCHash3
  DomKnowledge = DomKnowledge
  DomLeaf = DomLeaf
  DomNullifier = DomNullifier
  DomEmpty = DomEmpty
  ZeroSecret = ZeroSecret
SYMMETRY MCSymmetry
INVARIANTS TypeOK CircuitMatchesOracle AcceptedOnce HonestWitnessProves
PROPERTIES AcceptedIsOwn
CHECK_DEADLOCK FALSE
