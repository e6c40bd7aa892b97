---------------------------- MODULE MCPathReader ----------------------------
(* PathReader on a small tree; see MCMembershipTree. *)
EXTENDS PathReader

CONSTANT EmptyLeaf

MCWidth == [l \in 0..MerkleDepth |-> 2^(MerkleDepth - l)]
MCHash(a, b) == <<a, b>>
MCLeafHash(c) == <<c>>
MCzeros == LET z[l \in 0..MerkleDepth] ==
                 IF l = 0 THEN EmptyLeaf ELSE <<z[l - 1], z[l - 1]>>
           IN  z
=============================================================================
