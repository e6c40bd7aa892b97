\* The roots table against the clock: transactions that wait for the lock, run
\* two operations, and retire roots with the time they began.
SPECIFICATION Spec
CONSTANTS
  Writers = {w1, w2}
  Users = {u1}
  Commitments = {c1, c2, c3}
  Null = Null
  EmptyLeaf = EmptyLeaf
  MerkleDepth = 1
  Width <- MCWidth
  zeros <- MCzeros
  H <- MCHash
  LeafHash <- MCLeafHash
  RootGrace = 2
  MaxTime = 3
  MaxOps = 2
SYMMETRY MCSymmetry
INVARIANTS OneCurrentRoot RevocationLatency LedgerInv
