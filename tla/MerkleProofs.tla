---------------------------- MODULE MerkleProofs ----------------------------
(***************************************************************************)
(* What the recursive definitions of SparseMerkle compute, for every depth *)
(* and every hash.  Induction over the levels is by the least counterexample: *)
(* a set of naturals that is not empty has a least element.                *)
(***************************************************************************)
EXTENDS SparseMerkle, WellFoundedInduction, TLAPS

-----------------------------------------------------------------------------
(* Induction over levels. *)

\* A set of naturals has a least element.
LEMMA LeastNumber ==
  ASSUME NEW S \in SUBSET Nat, S # {}
  PROVE  \E n \in S : \A m \in S : n <= m
<1> DEFINE R == OpToRel(<, Nat)
<1>1. IsWellFoundedOn(R, Nat)
  BY NatLessThanWellFounded
<1>2. \A m, n \in Nat : m < n => <<m, n>> \in R
  BY DEF OpToRel
<1> HIDE DEF R
<1>3. PICK n \in S : \A m \in S : ~ (<<m, n>> \in R)
  BY <1>1, WFMin
<1>4. ASSUME NEW m \in S
      PROVE  n <= m
  <2>1. m \in Nat /\ n \in Nat
    OBVIOUS
  <2>2. ~ (m < n)
    BY <1>2, <1>3, <2>1
  <2> QED
    BY <2>1, <2>2
<1> QED
  BY <1>4

\* What holds of the leaves, and of each level above one it holds of, holds of all.
LEMMA LevelsUp ==
  ASSUME NEW S, 0 \in S, \A l \in Levels : l \in S => l + 1 \in S
  PROVE  \A l \in 0..MerkleDepth : l \in S
<1> DEFINE T == {l \in 0..MerkleDepth : l \notin S}
<1> SUFFICES ASSUME T # {} PROVE FALSE
  OBVIOUS
<1>1. T \in SUBSET Nat /\ MerkleDepth \in Nat
  BY TreeShape
<1>2. PICK n \in T : \A m \in T : n <= m
  BY <1>1, LeastNumber
<1>3. n \in Nat /\ n # 0 /\ n - 1 \in Levels /\ (n - 1) + 1 = n
  BY <1>1, <1>2 DEF Levels
<1>4. n - 1 \in T
  BY <1>1, <1>2, <1>3 DEF Levels
<1> QED
  BY <1>2, <1>3, <1>4

\* The same from the root down.
LEMMA LevelsDown ==
  ASSUME NEW S, MerkleDepth \in S, \A l \in Levels : l + 1 \in S => l \in S
  PROVE  \A l \in 0..MerkleDepth : l \in S
<1> DEFINE T == {k \in 0..MerkleDepth : MerkleDepth - k \in S}
<1>1. MerkleDepth \in Nat
  BY TreeShape
<1>2. 0 \in T
  BY <1>1
<1>3. ASSUME NEW k \in Levels, k \in T
      PROVE  k + 1 \in T
  <2>1. /\ MerkleDepth - (k + 1) \in Levels /\ k + 1 \in 0..MerkleDepth
        /\ (MerkleDepth - (k + 1)) + 1 = MerkleDepth - k
    BY <1>1 DEF Levels
  <2> QED
    BY <1>3, <2>1
<1>4. \A k \in 0..MerkleDepth : k \in T
  <2> HIDE DEF T
  <2> QED
    BY <1>2, <1>3, LevelsUp
<1>5. ASSUME NEW l \in 0..MerkleDepth
      PROVE  l \in S
  <2>1. MerkleDepth - l \in 0..MerkleDepth /\ MerkleDepth - (MerkleDepth - l) = l
    BY <1>1
  <2> QED
    BY <1>4, <2>1
<1> QED
  BY <1>5

-----------------------------------------------------------------------------
(* The recursive definitions are what they say. *)

\* The way up halves the position once per level.
LEMMA AncestorSteps ==
  ASSUME NEW i
  PROVE  /\ Ancestor(i)[0] = i
         /\ \A l \in Levels : Ancestor(i)[l + 1] = Ancestor(i)[l] \div 2
<1> DEFINE D == 0..MerkleDepth
           Def(g, l) == IF l = 0 THEN i ELSE g[l - 1] \div 2
           S == {n \in D : \E g : \A l \in 0..n : g[l] = Def(g, l)}
<1>0. MerkleDepth \in Nat
  BY TreeShape
<1>1. 0 \in S
  <2> DEFINE g == [l \in {0} |-> i]
  <2>1. \A l \in 0..0 : g[l] = Def(g, l)
    OBVIOUS
  <2> HIDE DEF g
  <2> QED
    BY <1>0, <2>1
<1>2. ASSUME NEW n \in Levels, n \in S
      PROVE  n + 1 \in S
  <2>1. PICK g : \A l \in 0..n : g[l] = Def(g, l)
    BY <1>2
  <2> DEFINE h == [l \in 0..(n + 1) |-> IF l = n + 1 THEN g[n] \div 2 ELSE g[l]]
  <2>2. n \in Nat /\ n + 1 \in D
    BY <1>0 DEF Levels
  <2>3. \A l \in 0..(n + 1) : h[l] = Def(h, l)
    <3> TAKE l \in 0..(n + 1)
    <3>1. CASE l = n + 1
      BY <2>2, <3>1
    <3>2. CASE l # n + 1
      <4>1. l \in 0..n /\ l # 0 => l - 1 \in 0..n /\ l - 1 # n + 1
        BY <2>2, <3>2
      <4> QED
        BY <2>1, <2>2, <3>2, <4>1
    <3> QED
      BY <3>1, <3>2
  <2> QED
    BY <2>2, <2>3
<1>3. MerkleDepth \in S
  <2> HIDE DEF S
  <2> QED
    BY <1>0, <1>1, <1>2, LevelsUp
<1>4. PICK g : \A l \in D : g[l] = Def(g, l)
  BY <1>3
<1> DEFINE f == [l \in D |-> g[l]]
<1>5. f = [l \in D |-> Def(f, l)]
  <2>1. \A l \in D : l # 0 => l - 1 \in D
    BY <1>0
  <2> QED
    BY <1>4, <2>1
<1>6. Ancestor(i) = [l \in D |-> Def(Ancestor(i), l)]
  <2>1. Ancestor(i) = CHOOSE p : p = [l \in D |-> IF l = 0 THEN i ELSE p[l - 1] \div 2]
    BY DEF Ancestor
  <2> HIDE DEF f
  <2> QED
    BY <1>5, <2>1
<1>7. ASSUME NEW l \in Levels
      PROVE  Ancestor(i)[l + 1] = Ancestor(i)[l] \div 2
  <2>1. l + 1 \in D /\ l + 1 # 0 /\ (l + 1) - 1 = l
    BY <1>0 DEF Levels
  <2> QED
    BY <1>6, <2>1
<1> QED
  BY <1>0, <1>6, <1>7

\* The climb from a leaf combines it with one sibling per level.
LEMMA ClimbSteps ==
  ASSUME NEW path
  PROVE  /\ Climbed(path)[0] = LeafHash(path.commitment)
         /\ \A l \in Levels : Climbed(path)[l + 1] = Combine(path, l, Climbed(path)[l])
<1> DEFINE D == 0..MerkleDepth
           Def(g, l) == IF l = 0 THEN LeafHash(path.commitment) ELSE Combine(path, l - 1, g[l - 1])
           S == {n \in D : \E g : \A l \in 0..n : g[l] = Def(g, l)}
<1>0. MerkleDepth \in Nat
  BY TreeShape
<1>1. 0 \in S
  <2> DEFINE g == [l \in {0} |-> Def(<<>>, 0)]
  <2>1. \A l \in 0..0 : g[l] = Def(g, l)
    OBVIOUS
  <2> HIDE DEF g
  <2> QED
    BY <1>0, <2>1
<1>2. ASSUME NEW n \in Levels, n \in S
      PROVE  n + 1 \in S
  <2>1. PICK g : \A l \in 0..n : g[l] = Def(g, l)
    BY <1>2
  <2> DEFINE h == [l \in 0..(n + 1) |-> IF l = n + 1 THEN Def(g, n + 1) ELSE g[l]]
  <2>2. n \in Nat /\ n + 1 \in D
    BY <1>0 DEF Levels
  <2>3. \A l \in 0..(n + 1) : h[l] = Def(h, l)
    <3> TAKE l \in 0..(n + 1)
    <3>1. CASE l = n + 1
      <4>1. h[n] = g[n] /\ l - 1 = n /\ l # 0
        BY <2>2, <3>1
      <4> QED
        BY <2>2, <3>1, <4>1
    <3>2. CASE l # n + 1
      <4>1. l \in 0..n /\ l # 0 => l - 1 \in 0..n /\ l - 1 # n + 1
        BY <2>2, <3>2
      <4>2. l # 0 => h[l - 1] = g[l - 1]
        BY <2>2, <4>1, <3>2
      <4> QED
        BY <2>1, <2>2, <3>2, <4>1, <4>2
    <3> QED
      BY <3>1, <3>2
  <2> QED
    BY <2>2, <2>3
<1>3. MerkleDepth \in S
  <2> HIDE DEF S
  <2> QED
    BY <1>0, <1>1, <1>2, LevelsUp
<1>4. PICK g : \A l \in D : g[l] = Def(g, l)
  BY <1>3
<1> DEFINE f == [l \in D |-> g[l]]
<1>5. f = [l \in D |-> Def(f, l)]
  <2>1. \A l \in D : l # 0 => l - 1 \in D
    BY <1>0
  <2> QED
    BY <1>4, <2>1
<1>6. Climbed(path) = [l \in D |-> Def(Climbed(path), l)]
  <2>1. Climbed(path) = CHOOSE p : p = [l \in D |-> IF l = 0 THEN LeafHash(path.commitment)
                                               ELSE Combine(path, l - 1, p[l - 1])]
    BY DEF Climbed
  <2> HIDE DEF f
  <2> QED
    BY <1>5, <2>1
<1>7. ASSUME NEW l \in Levels
      PROVE  Climbed(path)[l + 1] = Combine(path, l, Climbed(path)[l])
  <2>1. l + 1 \in D /\ l + 1 # 0 /\ (l + 1) - 1 = l
    BY <1>0 DEF Levels
  <2> QED
    BY <1>6, <2>1
<1> QED
  BY <1>0, <1>6, <1>7

\* The tree of a set of credentials, level by level.
LEMMA TreeSteps ==
  ASSUME NEW creds
  PROVE  /\ TreeNodes(creds)[0] = Leaves(creds)
         /\ \A l \in Levels : TreeNodes(creds)[l + 1] = LevelOver(TreeNodes(creds)[l], l + 1)
<1> DEFINE D == 0..MerkleDepth
           Def(g, l) == IF l = 0 THEN Leaves(creds) ELSE LevelOver(g[l - 1], l)
           S == {n \in D : \E g : \A l \in 0..n : g[l] = Def(g, l)}
<1>0. MerkleDepth \in Nat
  BY TreeShape
<1>1. 0 \in S
  <2> DEFINE g == [l \in {0} |-> Def(<<>>, 0)]
  <2>1. \A l \in 0..0 : g[l] = Def(g, l)
    OBVIOUS
  <2> HIDE DEF g
  <2> QED
    BY <1>0, <2>1
<1>2. ASSUME NEW n \in Levels, n \in S
      PROVE  n + 1 \in S
  <2>1. PICK g : \A l \in 0..n : g[l] = Def(g, l)
    BY <1>2
  <2> DEFINE h == [l \in 0..(n + 1) |-> IF l = n + 1 THEN Def(g, n + 1) ELSE g[l]]
  <2>2. n \in Nat /\ n + 1 \in D
    BY <1>0 DEF Levels
  <2>3. \A l \in 0..(n + 1) : h[l] = Def(h, l)
    <3> TAKE l \in 0..(n + 1)
    <3>1. CASE l = n + 1
      <4>1. h[n] = g[n] /\ l - 1 = n /\ l # 0
        BY <2>2, <3>1
      <4> QED
        BY <2>2, <3>1, <4>1
    <3>2. CASE l # n + 1
      <4>1. l \in 0..n /\ l # 0 => l - 1 \in 0..n /\ l - 1 # n + 1
        BY <2>2, <3>2
      <4>2. l # 0 => h[l - 1] = g[l - 1]
        BY <2>2, <4>1, <3>2
      <4> QED
        BY <2>1, <2>2, <3>2, <4>1, <4>2
    <3> QED
      BY <3>1, <3>2
  <2> QED
    BY <2>2, <2>3
<1>3. MerkleDepth \in S
  <2> HIDE DEF S
  <2> QED
    BY <1>0, <1>1, <1>2, LevelsUp
<1>4. PICK g : \A l \in D : g[l] = Def(g, l)
  BY <1>3
<1> DEFINE f == [l \in D |-> g[l]]
<1>5. f = [l \in D |-> Def(f, l)]
  <2>1. \A l \in D : l # 0 => l - 1 \in D
    BY <1>0
  <2> QED
    BY <1>4, <2>1
<1>6. TreeNodes(creds) = [l \in D |-> Def(TreeNodes(creds), l)]
  <2>1. TreeNodes(creds) = CHOOSE p : p = [l \in D |-> IF l = 0 THEN Leaves(creds)
                                               ELSE LevelOver(p[l - 1], l)]
    BY DEF TreeNodes
  <2> HIDE DEF f
  <2> QED
    BY <1>5, <2>1
<1>7. ASSUME NEW l \in Levels
      PROVE  TreeNodes(creds)[l + 1] = LevelOver(TreeNodes(creds)[l], l + 1)
  <2>1. l + 1 \in D /\ l + 1 # 0 /\ (l + 1) - 1 = l
    BY <1>0 DEF Levels
  <2> QED
    BY <1>6, <2>1
<1>8. TreeNodes(creds)[0] = Leaves(creds)
  <2>1. 0 \in D
    BY <1>0
  <2> QED
    BY <1>6, <2>1
<1> QED
  BY <1>7, <1>8


-----------------------------------------------------------------------------
(* Positions, levels and paths. *)

\* A position, its sibling and their parent: the arithmetic of one level.
LEMMA OneLevelUp ==
  ASSUME NEW l \in Levels, NEW p \in Positions(l)
  PROVE  /\ l + 1 \in 0..MerkleDepth
         /\ p \div 2 \in Positions(l + 1)
         /\ p % 2 = 0 => p = 2 * (p \div 2) /\ Sibling(p) = 2 * (p \div 2) + 1
         /\ p % 2 # 0 => p = 2 * (p \div 2) + 1 /\ Sibling(p) = 2 * (p \div 2)
         /\ \A i \in Int : 2 * i = p \/ 2 * i + 1 = p => i = p \div 2
<1>1. l + 1 \in 0..MerkleDepth
  BY TreeShape DEF Levels
<1>2. /\ Width[l] = 2 * Width[l + 1]
      /\ Width[l] \in Nat /\ Width[l + 1] \in Nat
  BY <1>1, TreeShape DEF Levels
<1>3. p \in Nat /\ p < Width[l]
  BY <1>2 DEF Positions
<1>4. p = 2 * (p \div 2) + (p % 2) /\ p % 2 \in {0, 1} /\ p \div 2 \in Nat
  BY <1>3
<1>5. p \div 2 < Width[l + 1]
  BY <1>2, <1>3, <1>4
<1>6. p \div 2 \in Positions(l + 1)
  BY <1>2, <1>4, <1>5 DEF Positions
<1>7. \A i \in Int : 2 * i = p \/ 2 * i + 1 = p => i = p \div 2
  BY <1>3, <1>4
<1> QED
  BY <1>1, <1>4, <1>6, <1>7 DEF Sibling

\* Both children of a position are positions of the level below.
LEMMA ChildrenArePositions ==
  ASSUME NEW l \in Levels, NEW i \in Positions(l + 1)
  PROVE  /\ 2 * i \in Positions(l) /\ 2 * i + 1 \in Positions(l)
         /\ i \in Nat /\ l + 1 \in 0..MerkleDepth /\ l + 1 \in Nat \ {0}
<1>1. l + 1 \in 0..MerkleDepth /\ l + 1 \in Nat \ {0}
  BY TreeShape DEF Levels
<1>2. Width[l] = 2 * Width[l + 1] /\ Width[l + 1] \in Nat
  BY <1>1, TreeShape DEF Levels
<1>3. i \in Nat /\ i < Width[l + 1]
  BY <1>2 DEF Positions
<1> QED
  BY <1>1, <1>2, <1>3 DEF Positions

\* The way up from a leaf stays inside the tree.
LEMMA AncestorIsPosition ==
  ASSUME NEW i \in LeafIndex
  PROVE  \A l \in 0..MerkleDepth : Ancestor(i)[l] \in Positions(l)
<1> DEFINE S == {l \in 0..MerkleDepth : Ancestor(i)[l] \in Positions(l)}
<1>1. 0 \in S
  BY AncestorSteps, TreeShape DEF LeafIndex, Positions
<1>2. ASSUME NEW l \in Levels, l \in S
      PROVE  l + 1 \in S
  BY <1>2, AncestorSteps, OneLevelUp
<1>3. \A l \in 0..MerkleDepth : l \in S
  <2> HIDE DEF S
  <2> QED
    BY <1>1, <1>2, LevelsUp
<1> QED
  BY <1>3

\* A labelling of the positions in which every node hashes its children.
Folds(node) ==
  \A l \in Levels : \A i \in Positions(l + 1) :
    node[l + 1][i] = H(node[l][2 * i], node[l][2 * i + 1])

(* A path with the siblings of its index climbs along the nodes, so it ends *)
(* at the top.                                                              *)
LEMMA PathReachesTop ==
  ASSUME NEW node, Folds(node),
         NEW path, path.index \in LeafIndex,
         LeafHash(path.commitment) = node[0][path.index],
         \A l \in Levels : path.siblings[l] = node[l][Sibling(Ancestor(path.index)[l])]
  PROVE  PathRoot(path) = node[MerkleDepth][0]
<1> DEFINE up == Ancestor(path.index)
           S == {l \in 0..MerkleDepth : Climbed(path)[l] = node[l][up[l]]}
<1>1. 0 \in S
  BY AncestorSteps, ClimbSteps, TreeShape
<1>2. ASSUME NEW l \in Levels, l \in S
      PROVE  l + 1 \in S
  <2>0. l \in 0..MerkleDepth /\ l + 1 \in 0..MerkleDepth
    BY TreeShape DEF Levels
  <2>1. /\ up[l] \in Positions(l) /\ up[l + 1] \in Positions(l + 1)
        /\ up[l + 1] = up[l] \div 2 /\ l + 1 \in 0..MerkleDepth
    BY <2>0, AncestorIsPosition, AncestorSteps
  <2>2. node[l + 1][up[l + 1]] = H(node[l][2 * up[l + 1]], node[l][2 * up[l + 1] + 1])
    BY <2>1, OneLevelUp DEF Folds
  <2>3. Climbed(path)[l + 1] = Combine(path, l, node[l][up[l]])
    BY <1>2, ClimbSteps
  <2>4. CASE up[l] % 2 = 0
    <3>1. up[l] = 2 * up[l + 1] /\ Sibling(up[l]) = 2 * up[l + 1] + 1
      BY <2>1, <2>4, OneLevelUp
    <3>2. Climbed(path)[l + 1] = H(node[l][up[l]], node[l][Sibling(up[l])])
      BY <2>3, <2>4 DEF Combine
    <3> QED
      BY <2>1, <2>2, <3>1, <3>2
  <2>5. CASE up[l] % 2 # 0
    <3>1. up[l] = 2 * up[l + 1] + 1 /\ Sibling(up[l]) = 2 * up[l + 1]
      BY <2>1, <2>5, OneLevelUp
    <3>2. Climbed(path)[l + 1] = H(node[l][Sibling(up[l])], node[l][up[l]])
      BY <2>3, <2>5 DEF Combine
    <3> QED
      BY <2>1, <2>2, <3>1, <3>2
  <2> QED
    BY <2>4, <2>5
<1>3. \A l \in 0..MerkleDepth : l \in S
  <2> HIDE DEF S
  <2> QED
    BY <1>1, <1>2, LevelsUp
<1>4. MerkleDepth \in 0..MerkleDepth /\ up[MerkleDepth] = 0
  <2>1. MerkleDepth \in 0..MerkleDepth
    BY TreeShape
  <2>2. up[MerkleDepth] \in Positions(MerkleDepth)
    BY <2>1, AncestorIsPosition
  <2> QED
    BY <2>1, <2>2, TreeShape DEF Positions
<1> QED
  BY <1>3, <1>4 DEF PathRoot

-----------------------------------------------------------------------------
(* What the leaves and the root determine. *)

\* Two labellings with the same leaves are the same all the way up.
LEMMA SameLeaves ==
  ASSUME NEW node, Folds(node), NEW other, Folds(other),
         \A i \in Positions(0) : node[0][i] = other[0][i]
  PROVE  \A l \in 0..MerkleDepth : \A i \in Positions(l) : node[l][i] = other[l][i]
<1> DEFINE S == {l \in 0..MerkleDepth : \A i \in Positions(l) : node[l][i] = other[l][i]}
<1>1. 0 \in S
  BY TreeShape
<1>2. ASSUME NEW l \in Levels, l \in S
      PROVE  l + 1 \in S
  <2>1. ASSUME NEW i \in Positions(l + 1)
        PROVE  node[l + 1][i] = other[l + 1][i]
    BY <1>2, ChildrenArePositions DEF Folds
  <2>2. l + 1 \in 0..MerkleDepth
    BY TreeShape DEF Levels
  <2> QED
    BY <2>1, <2>2
<1>3. \A l \in 0..MerkleDepth : l \in S
  <2> HIDE DEF S
  <2> QED
    BY <1>1, <1>2, LevelsUp
<1> QED
  BY <1>3

\* Every position lies under the one its number halves to.
LEMMA PositionHasParent ==
  ASSUME NEW l \in Levels, NEW p \in Positions(l)
  PROVE  /\ p \div 2 \in Positions(l + 1)
         /\ p = 2 * (p \div 2) \/ p = 2 * (p \div 2) + 1
BY OneLevelUp

(* Two different pairs of children never hash alike.  Nothing is assumed of  *)
(* the hash anywhere; a theorem that needs this names it as its hypothesis.  *)
CollisionFree == \A a, b, c, d : H(a, b) = H(c, d) => a = c /\ b = d

LEMMA NoCollision ==
  ASSUME CollisionFree, NEW a, NEW b, NEW c, NEW d, H(a, b) = H(c, d)
  PROVE  a = c /\ b = d
BY DEF CollisionFree

\* Without collisions a root determines every node under it.
LEMMA SameTop ==
  ASSUME CollisionFree,
         NEW node, Folds(node), NEW other, Folds(other),
         node[MerkleDepth][0] = other[MerkleDepth][0]
  PROVE  \A l \in 0..MerkleDepth : \A i \in Positions(l) : node[l][i] = other[l][i]
<1> DEFINE S == {l \in 0..MerkleDepth : \A i \in Positions(l) : node[l][i] = other[l][i]}
<1>1. MerkleDepth \in S
  BY TreeShape DEF Positions
<1>2. ASSUME NEW l \in Levels, l + 1 \in S
      PROVE  l \in S
  <2>1. ASSUME NEW p \in Positions(l)
        PROVE  node[l][p] = other[l][p]
    <3> DEFINE q == p \div 2
    <3>1. q \in Positions(l + 1) /\ (p = 2 * q \/ p = 2 * q + 1)
      BY PositionHasParent
    <3> HIDE DEF q
    <3>2. H(node[l][2 * q], node[l][2 * q + 1]) = H(other[l][2 * q], other[l][2 * q + 1])
      BY <1>2, <3>1 DEF Folds
    <3>3. node[l][2 * q] = other[l][2 * q] /\ node[l][2 * q + 1] = other[l][2 * q + 1]
      BY <3>2 DEF CollisionFree
    <3> QED
      BY <3>1, <3>3
  <2>2. l \in 0..MerkleDepth
    BY TreeShape DEF Levels
  <2> QED
    BY <2>1, <2>2
<1>3. \A l \in 0..MerkleDepth : l \in S
  <2> HIDE DEF S
  <2> QED
    BY <1>1, <1>2, LevelsDown
<1> QED
  BY <1>3

(* Without collisions a path that verifies against the top of a tree holds   *)
(* the very leaf and the very siblings the tree has at its index.            *)
THEOREM VerifyingPathIsTheTrees ==
  ASSUME CollisionFree,
         NEW node, Folds(node),
         NEW path, path.index \in LeafIndex,
         PathRoot(path) = node[MerkleDepth][0]
  PROVE  /\ LeafHash(path.commitment) = node[0][path.index]
         /\ \A l \in Levels :
              path.siblings[l] = node[l][Sibling(Ancestor(path.index)[l])]
<1> DEFINE up == Ancestor(path.index)
           S == {l \in 0..MerkleDepth : Climbed(path)[l] = node[l][up[l]]}
<1>0. MerkleDepth \in 0..MerkleDepth /\ up[MerkleDepth] = 0
  <2>1. MerkleDepth \in 0..MerkleDepth
    BY TreeShape
  <2>2. up[MerkleDepth] \in Positions(MerkleDepth)
    BY <2>1, AncestorIsPosition
  <2> QED
    BY <2>1, <2>2, TreeShape DEF Positions
<1>1. MerkleDepth \in S
  BY <1>0 DEF PathRoot
<1>2. ASSUME NEW l \in Levels, Climbed(path)[l + 1] = node[l + 1][up[l + 1]]
      PROVE  /\ Climbed(path)[l] = node[l][up[l]]
             /\ path.siblings[l] = node[l][Sibling(up[l])]
  <2> DEFINE c == Climbed(path)[l]
             s == path.siblings[l]
             left == node[l][2 * up[l + 1]]
             right == node[l][2 * up[l + 1] + 1]
  <2>0. l \in 0..MerkleDepth /\ l + 1 \in 0..MerkleDepth
    BY TreeShape DEF Levels
  <2>1. /\ up[l] \in Positions(l) /\ up[l + 1] \in Positions(l + 1)
        /\ up[l + 1] = up[l] \div 2
    BY <2>0, AncestorIsPosition, AncestorSteps
  <2>2. node[l + 1][up[l + 1]] = H(left, right)
    BY <2>1 DEF Folds
  <2>3. Combine(path, l, c) = H(left, right)
    BY <1>2, <2>2, ClimbSteps
  <2>4. CASE up[l] % 2 = 0
    <3>1. up[l] = 2 * up[l + 1] /\ Sibling(up[l]) = 2 * up[l + 1] + 1
      BY <2>1, <2>4, OneLevelUp
    <3>2. Combine(path, l, c) = H(c, s)
      BY <2>4 DEF Combine
    <3>3. c = left /\ s = right
      <4> HIDE DEF c, s, left, right
      <4> QED
        BY <2>3, <3>2, NoCollision
    <3> QED
      BY <3>1, <3>3
  <2>5. CASE up[l] % 2 # 0
    <3>1. up[l] = 2 * up[l + 1] + 1 /\ Sibling(up[l]) = 2 * up[l + 1]
      BY <2>1, <2>5, OneLevelUp
    <3>2. Combine(path, l, c) = H(s, c)
      BY <2>5 DEF Combine
    <3>3. c = right /\ s = left
      <4> HIDE DEF c, s, left, right
      <4> QED
        BY <2>3, <3>2, NoCollision
    <3> QED
      BY <3>1, <3>3
  <2> QED
    BY <2>4, <2>5
<1>3. \A l \in 0..MerkleDepth : l \in S
  <2>1. ASSUME NEW l \in Levels, l + 1 \in S
        PROVE  l \in S
    <3>1. l \in 0..MerkleDepth
      BY TreeShape DEF Levels
    <3> QED
      BY <1>2, <2>1, <3>1
  <2> HIDE DEF S
  <2> QED
    BY <1>1, <2>1, LevelsDown
<1>4. LeafHash(path.commitment) = node[0][path.index]
  BY <1>3, AncestorSteps, ClimbSteps, TreeShape
<1>5. ASSUME NEW l \in Levels
      PROVE  path.siblings[l] = node[l][Sibling(up[l])]
  <2>1. l + 1 \in 0..MerkleDepth
    BY TreeShape DEF Levels
  <2> QED
    BY <1>2, <1>3, <2>1
<1> QED
  BY <1>4, <1>5

-----------------------------------------------------------------------------
(* Node tables, and the tree of a set of credentials. *)

\* The nodes of a table, with what its top two hash to above them.
Labels(t) ==
  [l \in 0..MerkleDepth |-> [i \in Positions(l) |->
     IF l < MerkleDepth THEN Node(t, l, i) ELSE Parent(t, MerkleDepth - 1, 0)]]

\* A table in which every stored level matches the one below is a labelling.
LEMMA TableFolds ==
  ASSUME NEW t,
         \A l \in Levels \ {0} : \A i \in Positions(l) : Node(t, l, i) = Parent(t, l - 1, i)
  PROVE  Folds(Labels(t))
<1> SUFFICES ASSUME NEW l \in Levels, NEW i \in Positions(l + 1)
             PROVE  Labels(t)[l + 1][i] = H(Labels(t)[l][2 * i], Labels(t)[l][2 * i + 1])
  BY DEF Folds
<1>1. /\ l \in 0..MerkleDepth /\ l + 1 \in 0..MerkleDepth /\ l < MerkleDepth
      /\ (l + 1) - 1 = l /\ MerkleDepth \in Nat
  BY TreeShape DEF Levels
<1>2. 2 * i \in Positions(l) /\ 2 * i + 1 \in Positions(l)
  BY ChildrenArePositions
<1>3. H(Labels(t)[l][2 * i], Labels(t)[l][2 * i + 1]) = Parent(t, l, i)
  BY <1>1, <1>2 DEF Labels, Parent
<1>4. CASE l + 1 < MerkleDepth
  <2>1. l + 1 \in Levels \ {0}
    BY <1>1, <1>4 DEF Levels
  <2>2. Node(t, l + 1, i) = Parent(t, l, i)
    BY <1>1, <2>1
  <2> QED
    BY <1>1, <1>3, <1>4, <2>2 DEF Labels
<1>5. CASE l + 1 = MerkleDepth
  <2>1. i = 0 /\ l = MerkleDepth - 1
    <3>1. i \in Positions(MerkleDepth) /\ l \in Nat
      BY <1>1, <1>5
    <3> QED
      BY <1>1, <1>5, <3>1, TreeShape DEF Positions
  <2> QED
    BY <1>1, <1>3, <1>5, <2>1 DEF Labels
<1> QED
  BY <1>1, <1>4, <1>5

\* The same from the other side: what the labels are at each level.
LEMMA LabelsOfTable ==
  ASSUME NEW t
  PROVE  /\ \A l \in Levels : \A i \in Positions(l) : Labels(t)[l][i] = Node(t, l, i)
         /\ Labels(t)[MerkleDepth][0] = Parent(t, MerkleDepth - 1, 0)
<1>1. \A l \in Levels : l \in 0..MerkleDepth /\ l < MerkleDepth
  BY TreeShape DEF Levels
<1>2. MerkleDepth \in 0..MerkleDepth /\ 0 \in Positions(MerkleDepth)
  BY TreeShape DEF Positions
<1> QED
  BY <1>1, <1>2, TreeShape DEF Labels

\* The tree of a set of credentials is a labelling.
LEMMA TreeFolds ==
  ASSUME NEW creds
  PROVE  Folds(TreeNodes(creds))
<1> SUFFICES ASSUME NEW l \in Levels, NEW i \in Positions(l + 1)
             PROVE  TreeNodes(creds)[l + 1][i]
                      = H(TreeNodes(creds)[l][2 * i], TreeNodes(creds)[l][2 * i + 1])
  BY DEF Folds
<1>1. TreeNodes(creds)[l + 1] = LevelOver(TreeNodes(creds)[l], l + 1)
  BY TreeSteps
<1>2. LevelOver(TreeNodes(creds)[l], l + 1)[i]
        = H(TreeNodes(creds)[l][2 * i], TreeNodes(creds)[l][2 * i + 1])
  BY DEF LevelOver
<1> QED
  BY <1>1, <1>2

(* A table that matches level by level over the leaves of a set of           *)
(* credentials has that tree's root: the walk along one path, repeated,      *)
(* computes what folding the whole tree would.                               *)
THEOREM TableRootIsTreeRoot ==
  ASSUME NEW t, NEW creds,
         \A l \in Levels \ {0} : \A i \in Positions(l) : Node(t, l, i) = Parent(t, l - 1, i),
         \A i \in LeafIndex : Node(t, 0, i) = LeafValue(creds, i)
  PROVE  Parent(t, MerkleDepth - 1, 0) = TreeRoot(creds)
<1>1. Folds(Labels(t)) /\ Folds(TreeNodes(creds))
  BY TableFolds, TreeFolds
<1>2. \A i \in Positions(0) : Labels(t)[0][i] = TreeNodes(creds)[0][i]
  <2>1. 0 \in Levels /\ Positions(0) = LeafIndex
    BY TreeShape DEF Levels, Positions, LeafIndex
  <2> QED
    <3> SUFFICES ASSUME NEW i \in Positions(0)
                 PROVE  Labels(t)[0][i] = TreeNodes(creds)[0][i]
      OBVIOUS
    <3>1. Labels(t)[0][i] = LeafValue(creds, i)
      BY <2>1, LabelsOfTable
    <3>2. TreeNodes(creds)[0][i] = LeafValue(creds, i)
      BY TreeSteps DEF Leaves
    <3> QED
      BY <3>1, <3>2
<1>3. MerkleDepth \in 0..MerkleDepth /\ 0 \in Positions(MerkleDepth)
  BY TreeShape DEF Positions
<1> QED
  BY <1>1, <1>2, <1>3, SameLeaves, LabelsOfTable DEF TreeRoot

\* Without collisions a node hashes to an empty subtree exactly when no live
\* leaf lies under it.
LEMMA EmptyAboveNoLeaf ==
  ASSUME CollisionFree,
         NEW node, Folds(node),
         NEW live \in SUBSET LeafIndex,
         \A i \in LeafIndex : node[0][i] = zeros[0] <=> i \notin live
  PROVE  \A l \in 0..MerkleDepth : \A i \in Positions(l) :
           node[l][i] = zeros[l] <=> \A j \in live : Ancestor(j)[l] # i
<1> DEFINE S == {l \in 0..MerkleDepth : \A i \in Positions(l) :
                   node[l][i] = zeros[l] <=> \A j \in live : Ancestor(j)[l] # i}
<1>1. 0 \in S
  <2>1. 0 \in 0..MerkleDepth /\ Positions(0) = LeafIndex
    BY TreeShape DEF Positions, LeafIndex
  <2>2. \A j \in live : Ancestor(j)[0] = j
    BY AncestorSteps
  <2>3. ASSUME NEW i \in LeafIndex
        PROVE  node[0][i] = zeros[0] <=> \A j \in live : Ancestor(j)[0] # i
    BY <2>2
  <2> QED
    BY <2>1, <2>3
<1>2. ASSUME NEW l \in Levels, l \in S
      PROVE  l + 1 \in S
  <2>0. l \in 0..MerkleDepth /\ l + 1 \in 0..MerkleDepth
    BY TreeShape DEF Levels
  <2>1. ASSUME NEW i \in Positions(l + 1)
        PROVE  node[l + 1][i] = zeros[l + 1] <=> \A j \in live : Ancestor(j)[l + 1] # i
    <3>1. 2 * i \in Positions(l) /\ 2 * i + 1 \in Positions(l) /\ i \in Int
      BY ChildrenArePositions
    <3>2. node[l + 1][i] = zeros[l + 1]
            <=> node[l][2 * i] = zeros[l] /\ node[l][2 * i + 1] = zeros[l]
      <4>1. /\ node[l + 1][i] = H(node[l][2 * i], node[l][2 * i + 1])
            /\ zeros[l + 1] = H(zeros[l], zeros[l])
        BY ZerosFold DEF Folds, Levels
      <4> QED
        BY <4>1 DEF CollisionFree
    <3>3. ASSUME NEW j \in live
          PROVE  Ancestor(j)[l + 1] = i
                   <=> Ancestor(j)[l] = 2 * i \/ Ancestor(j)[l] = 2 * i + 1
      <4>1. Ancestor(j)[l] \in Positions(l) /\ Ancestor(j)[l + 1] = Ancestor(j)[l] \div 2
        BY <2>0, AncestorIsPosition, AncestorSteps
      <4> QED
        BY <3>1, <4>1, OneLevelUp, PositionHasParent
    <3>4. node[l][2 * i] = zeros[l] <=> \A j \in live : Ancestor(j)[l] # 2 * i
      BY <1>2, <3>1
    <3>5. node[l][2 * i + 1] = zeros[l] <=> \A j \in live : Ancestor(j)[l] # 2 * i + 1
      BY <1>2, <3>1
    <3> QED
      BY <3>2, <3>3, <3>4, <3>5
  <2> QED
    BY <2>0, <2>1
<1>3. \A l \in 0..MerkleDepth : l \in S
  <2> HIDE DEF S
  <2> QED
    BY <1>1, <1>2, LevelsUp
<1> QED
  BY <1>3
=============================================================================
