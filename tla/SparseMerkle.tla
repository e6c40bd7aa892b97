---------------------------- MODULE SparseMerkle ----------------------------
(***************************************************************************)
(* The sparse Merkle tree of zkauthn/tree.go as data: what the three      *)
(* tables behind it hold (credentials, nodes, roots) and what a set of     *)
(* credentials hashes to.  No state here; MembershipTree writes the       *)
(* tables level by level, CredentialRegistry says what they stand for.    *)
(*                                                                         *)
(* Hashes are opaque: H is the two-input hash and LeafHash the one-input   *)
(* hash a leaf goes through first.  Nothing is assumed of either, so what *)
(* is proved holds for any hash; TLC gets a collision-free one.            *)
(***************************************************************************)
EXTENDS Integers, FiniteSets

CONSTANTS
  MerkleDepth,    \* levels between a leaf and the root (32 in the code)
  Width,          \* Width[l] is the number of positions at level l
  zeros,          \* zeros[l] is the hash of an empty subtree of height l
  H(_, _),        \* nativeHash of two children
  LeafHash(_)     \* nativeHash of one commitment

ASSUME TreeShape ==
  /\ MerkleDepth \in Nat \ {0}
  /\ Width \in [0..MerkleDepth -> Nat \ {0}]
  /\ Width[MerkleDepth] = 1
  /\ \A l \in 0..(MerkleDepth - 1) : Width[l] = 2 * Width[l + 1]

\* New computes the zeros once: each level hashes the one below with itself.
ASSUME ZerosFold ==
  \A l \in 0..(MerkleDepth - 1) : zeros[l + 1] = H(zeros[l], zeros[l])

Levels      == 0..(MerkleDepth - 1)        \* the levels auth_zk_nodes stores
LeafIndex   == 0..(Width[0] - 1)           \* 0..MaxUint32
Positions(l) == 0..(Width[l] - 1)

-----------------------------------------------------------------------------
(* A table is a function from its primary key to its row; a row that is   *)
(* not there is a key outside the domain.                                  *)

NoRows == [k \in {} |-> 0]
Upsert(t, k, row) == [x \in DOMAIN t \cup {k} |-> IF x = k THEN row ELSE t[x]]
Delete(t, k) == [x \in DOMAIN t \ {k} |-> t[x]]

(* auth_zk_nodes: an absent node is an empty subtree. *)
Node(t, l, i) == IF <<l, i>> \in DOMAIN t THEN t[<<l, i>>] ELSE zeros[l]

(* Mutants of StoreNode: an empty subtree that keeps its old row, and one    *)
(* that is stored like any other.                                            *)
StoreNodeKeeping(t, l, i, hash) ==
  IF hash = zeros[l] THEN t ELSE Upsert(t, <<l, i>>, hash)
StoreNodeAlways(t, l, i, hash) == Upsert(t, <<l, i>>, hash)

(* writeLeaf stores no row for an empty subtree. *)
StoreNode(t, l, i, hash) ==
  IF hash = zeros[l] THEN Delete(t, <<l, i>>) ELSE Upsert(t, <<l, i>>, hash)

Sibling(i) == IF i % 2 = 0 THEN i + 1 ELSE i - 1

(* position >>= 1, once per level: where the way up from leaf i passes. *)
Ancestor(i) ==
  LET position[l \in 0..MerkleDepth] == IF l = 0 THEN i ELSE position[l - 1] \div 2
  IN  position

(* What the level above position i must hold, by the children in t. *)
Parent(t, l, i) == H(Node(t, l, 2 * i), Node(t, l, 2 * i + 1))

-----------------------------------------------------------------------------
(* auth_zk_credentials: leaf index -> [commitment, issuedTo, revoked]. *)

Live(creds) == {i \in DOMAIN creds : ~creds[i].revoked}
LeafValue(creds, i) ==
  IF i \in Live(creds) THEN LeafHash(creds[i].commitment) ELSE zeros[0]

(* Mutant of NextLeaf: revoked rows are not counted. *)
NextLeafLive(creds, n) ==
  /\ \A i \in Live(creds) : i < n
  /\ n = 0 \/ n - 1 \in Live(creds)

(* nextLeaf: max(leaf_index) + 1 over every row, revoked ones included. *)
NextLeaf(creds, n) ==
  /\ \A i \in DOMAIN creds : i < n
  /\ n = 0 \/ n - 1 \in DOMAIN creds

(* Every node of the tree over a set of credentials, bottom up, and its top. *)
Leaves(creds) == [i \in Positions(0) |-> LeafValue(creds, i)]
LevelOver(below, l) == [i \in Positions(l) |-> H(below[2 * i], below[2 * i + 1])]
TreeNodes(creds) ==
  LET level[l \in 0..MerkleDepth] ==
        IF l = 0 THEN Leaves(creds) ELSE LevelOver(level[l - 1], l)
  IN  level
TreeRoot(creds) == TreeNodes(creds)[MerkleDepth][0]

(* The root a path hashes to: MembershipCircuit's Merkle gadget.  The bit of *)
(* the index at each level says on which side the sibling goes.              *)
Combine(path, l, below) ==
  IF Ancestor(path.index)[l] % 2 = 0 THEN H(below, path.siblings[l])
                                     ELSE H(path.siblings[l], below)
Climbed(path) ==
  LET climb[l \in 0..MerkleDepth] ==
        IF l = 0 THEN LeafHash(path.commitment) ELSE Combine(path, l - 1, climb[l - 1])
  IN  climb
PathRoot(path) == Climbed(path)[MerkleDepth]
=============================================================================
