\* One reader walks a tree of four leaves while a writer issues and revokes.
SPECIFICATION PathSpec
CONSTANTS
  Writers = {w1}
  Readers = {r1}
  Users = {u1}
  Commitments = {c1, c2}
  Null = Null
  EmptyLeaf = EmptyLeaf
  MerkleDepth = 2
  Width <- MCWidth
  zeros <- MCzeros
  H <- MCHash
  LeafHash <- MCLeafHash
  RootGrace = 0
  MaxTime = 0
  MaxOps = 1
INVARIANTS MixedPathTookTwoMoves QuietPathVerifies
PROPERTIES PathAnswers LockIsReleased
