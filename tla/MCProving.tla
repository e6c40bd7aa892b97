------------------------------ MODULE MCProving ------------------------------
(* Proving over a field of nine elements with words of two bits, a tree of   *)
(* four leaves and hashes without collisions.                                *)
EXTENDS Proving, TLC

MCWidth == [l \in 0..MerkleDepth |-> 2^(MerkleDepth - l)]
MCHash(a, b) == <<a, b>>
MCLeafHash(c) == <<c>>
MCHash3(a, b, c) == <<a, b, c>>

MCzeros == LET z[l \in 0..MerkleDepth] ==
                 IF l = 0 THEN <<DomEmpty>> ELSE <<z[l - 1], z[l - 1]>>
           IN  z

(* The attribute that is granted meets one policy of the two.  One audience  *)
(* is also that attribute, so that a shared domain would show.               *)
MCPolicies == {[audience |-> 1, threshold |-> 0], [audience |-> 5, threshold |-> 2]}
(* Trees of a client's own: its leaf alone, at an index of the tree or one   *)
(* turn further, or beside a leaf of the secret that everybody knows.       *)
MCSelfMade(i, beside) ==
  [siblings |-> [l \in Levels |-> IF l = 0 THEN beside ELSE MCzeros[l]],
   index |-> i, root |-> MCzeros[MerkleDepth]]
MCMadeUp ==
  {MCSelfMade(0, MCzeros[0]), MCSelfMade(MCWidth[0], MCzeros[0]),
   MCSelfMade(1, MCLeafHash(MembershipCommitment(ZeroSecret, 3)))}
MCSymmetry == Permutations(Persons) \cup Permutations(Secrets) \cup Permutations(Tokens)
=============================================================================
