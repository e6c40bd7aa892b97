-------------------------- MODULE MCMembershipTree --------------------------
(* MembershipTree on a tree small enough for TLC: depth and widths by       *)
(* definition, a hash without collisions (a hash is the tuple of what was   *)
(* hashed).                                                                 *)
EXTENDS MembershipTree, TLC

CONSTANT EmptyLeaf      \* a model value

MCWidth == [l \in 0..MerkleDepth |-> 2^(MerkleDepth - l)]
MCHash(a, b) == <<a, b>>
MCLeafHash(c) == <<c>>

MCzeros == LET z[l \in 0..MerkleDepth] ==
                 IF l = 0 THEN EmptyLeaf ELSE <<z[l - 1], z[l - 1]>>
           IN  z

(* Writers, users and commitments are interchangeable. *)
MCSymmetry == Permutations(Writers) \cup Permutations(Users) \cup Permutations(Commitments)
=============================================================================
