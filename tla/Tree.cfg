\* Two writers on a tree of four leaves, one operation per transaction, no clock.
SPECIFICATION Spec
CONSTANTS
  Writers = {w1, w2}
  Users = {u1}
  Commitments = {c1, c2, c3, c4}
  Null = Null
  EmptyLeaf = EmptyLeaf
  MerkleDepth = 2
  Width <- MCWidth
  zeros <- MCzeros
  H <- MCHash
  LeafHash <- MCLeafHash
  RootGrace = 0
  MaxTime = 0
  MaxOps = 1
SYMMETRY MCSymmetry
INVARIANTS TypeOK TreeInv TreeIsConsistent RowsOnlyAboveLiveLeaves IssuedPathVerifies
PROPERTIES CredentialsArePermanent RefinesRegistry
