------------------------ MODULE MembershipTreeProofs ------------------------
(***************************************************************************)
(* Proofs about MembershipTree and PathReader for every depth, every set   *)
(* of writers, readers, users and commitments and every bound: the types,  *)
(* the consistency of the committed tree, what it keeps of the past, the   *)
(* paths IssueCredential and Path hand out, which nodes have a row, and    *)
(* the registry the tree implements.  Nothing is assumed of the hash but   *)
(* where a theorem has CollisionFree among its hypotheses.                 *)
(***************************************************************************)
EXTENDS PathReader, MerkleProofs, FiniteSetTheorems, TLAPS

-----------------------------------------------------------------------------
(* Tables. *)

\* A stored node is read back, at its position and nowhere else: leaving out
\* the row of an empty subtree changes nothing a reader sees.
LEMMA StoreNodeReads ==
  ASSUME NEW t, NEW l, NEW i, NEW hash, NEW k, NEW j
  PROVE  Node(StoreNode(t, l, i, hash), k, j) =
           IF k = l /\ j = i THEN hash ELSE Node(t, k, j)
BY DEF Node, StoreNode, Upsert, Delete

\* The rows of a node table after one is stored.
LEMMA StoreNodeDomain ==
  ASSUME NEW t, NEW l, NEW i, NEW hash
  PROVE  DOMAIN StoreNode(t, l, i, hash) \subseteq DOMAIN t \cup {<<l, i>>}
BY DEF StoreNode, Upsert, Delete

-----------------------------------------------------------------------------
(* writeLeaf. *)

\* One turn of the loop of writeLeaf keeps the tree half written, one level up.
LEMMA ClimbKeepsHalfWritten ==
  ASSUME NEW d, NEW a,
         a.index \in LeafIndex,
         a.level \in Levels, a.pos \in Positions(a.level),
         HalfWritten(d, a)
  PROVE  LET nodes == StoreNode(d.nodes, a.level, a.pos, a.cur)
         IN  HalfWritten(WithNodes(d, nodes), Climb(a, nodes))
<1> DEFINE l == a.level
           p == a.pos
           q == p \div 2
           n == StoreNode(d.nodes, l, p, a.cur)
           e == WithNodes(d, n)
           b == Climb(a, n)
<1>1. \A k, j : Node(n, k, j) = IF k = l /\ j = p THEN a.cur ELSE Node(d.nodes, k, j)
  BY StoreNodeReads
<1>2. e.nodes = n /\ e.creds = d.creds
  BY DEF WithNodes
<1>3. b.index = a.index /\ b.level = l + 1 /\ b.pos = q
  BY DEF Climb
<1>4. l \in Nat /\ l + 1 > 0
  BY TreeShape DEF Levels
<1>5. /\ p % 2 = 0 => p = 2 * q /\ Sibling(p) = 2 * q + 1
      /\ p % 2 # 0 => p = 2 * q + 1 /\ Sibling(p) = 2 * q
      /\ \A i \in Int : 2 * i = p \/ 2 * i + 1 = p => i = q
      /\ q \in Int /\ p \in Int
  BY OneLevelUp DEF Positions
<1>6. b.cur = Parent(n, l, q)
  <2>1. Node(n, l, p) = a.cur
    BY <1>1
  <2>2. CASE p % 2 = 0
    <3>1. b.cur = H(a.cur, Node(n, l, Sibling(p)))
      BY <2>2 DEF Climb
    <3> QED
      BY <2>1, <2>2, <3>1, <1>5 DEF Parent
  <2>3. CASE p % 2 # 0
    <3>1. b.cur = H(Node(n, l, Sibling(p)), a.cur)
      BY <2>3 DEF Climb
    <3> QED
      BY <2>1, <2>3, <3>1, <1>5 DEF Parent
  <2> QED
    BY <2>2, <2>3
<1>7. \A i \in LeafIndex : Node(n, 0, i) = LeafValue(d.creds, i)
  <2> TAKE i \in LeafIndex
  <2>1. CASE l = 0 /\ i = p
    BY <2>1, <1>1 DEF HalfWritten
  <2>2. CASE ~(l = 0 /\ i = p)
    <3>1. Node(n, 0, i) = Node(d.nodes, 0, i)
      BY <2>2, <1>1
    <3>2. l > 0 \/ i # a.index
      BY <2>2, <1>4 DEF HalfWritten
    <3> QED
      BY <3>1, <3>2 DEF HalfWritten
  <2> QED
    BY <2>1, <2>2
<1>8. ASSUME NEW k \in Levels \ {0}, NEW i \in Positions(k), k # l + 1 \/ i # q
      PROVE  Node(n, k, i) = Parent(n, k - 1, i)
  <2>0. k \in Nat /\ k # 0 /\ i \in Int
    BY TreeShape DEF Levels, Positions
  <2>1. Parent(n, k - 1, i) = Parent(d.nodes, k - 1, i)
    <3>1. ~(k - 1 = l /\ (2 * i = p \/ 2 * i + 1 = p))
      BY <1>4, <1>5, <1>8, <2>0
    <3> QED
      BY <3>1, <1>1 DEF Parent
  <2>2. CASE k = l /\ i = p
    <3>1. a.cur = Parent(d.nodes, l - 1, p)
      BY <2>0, <2>2, <1>4 DEF HalfWritten
    <3> QED
      BY <3>1, <2>1, <2>2, <1>1
  <2>3. CASE ~(k = l /\ i = p)
    <3>1. Node(n, k, i) = Node(d.nodes, k, i)
      BY <2>3, <1>1
    <3>2. Node(d.nodes, k, i) = Parent(d.nodes, k - 1, i)
      BY <2>3, <1>8 DEF HalfWritten
    <3> QED
      BY <3>1, <3>2, <2>1
  <2> QED
    BY <2>2, <2>3
<1> HIDE DEF n, e, b
<1>9. HalfWritten(e, b)
  BY <1>2, <1>3, <1>4, <1>6, <1>7, <1>8 DEF HalfWritten
<1> QED
  BY <1>9 DEF n, e, b

\* At the top of the tree a half written tree is whole, and cur is its root.
LEMMA TopIsWritten ==
  ASSUME NEW d, NEW a, a.level = MerkleDepth, a.pos \in Positions(a.level),
         HalfWritten(d, a)
  PROVE  /\ LeavesMatch(d) /\ NodesFold(d)
         /\ a.cur = Parent(d.nodes, MerkleDepth - 1, 0)
<1>1. a.level > 0 /\ a.pos = 0 /\ MerkleDepth \notin Levels
  BY TreeShape DEF Levels, Positions
<1>2. LeavesMatch(d)
  BY <1>1 DEF LeavesMatch, HalfWritten
<1>3. NodesFold(d)
  BY <1>1 DEF NodesFold, HalfWritten
<1> QED
  BY <1>1, <1>2, <1>3 DEF HalfWritten

\* publishing: retireRoot and insertRoot leave exactly the new root current.
LEMMA PublishedRootIsCurrent ==
  ASSUME NEW d, NEW roots, NEW time \in Nat, NEW r, NEW leaves
  PROVE  CurrentRoot(WithRoots(d,
           Upsert(RetireRoots(roots, time), r,
                  [retired |-> NotRetired, leaves |-> leaves]))) = r
<1> DEFINE new == Upsert(RetireRoots(roots, time), r,
                         [retired |-> NotRetired, leaves |-> leaves])
           e == WithRoots(d, new)
<1>1. e.roots = new
  BY DEF WithRoots
<1>2. r \in DOMAIN new /\ new[r].retired = NotRetired
  BY DEF Upsert
<1>3. \A x \in DOMAIN new : x # r => new[x].retired # NotRetired
  BY DEF Upsert, RetireRoots, NotRetired
<1>4. CurrentRoots(e) = {r}
  BY <1>1, <1>2, <1>3 DEF CurrentRoots
<1> QED
  BY <1>4 DEF CurrentRoot

-----------------------------------------------------------------------------
(* Type correctness. *)

\* Tables keep their type through each of the writes a transaction makes.
LEMMA StoredNodesOK ==
  ASSUME NEW d, TablesOK(d), NEW l \in Levels, NEW i \in Positions(l), NEW hash
  PROVE  TablesOK(WithNodes(d, StoreNode(d.nodes, l, i, hash)))
<1> DEFINE n == StoreNode(d.nodes, l, i, hash)
<1>1. DOMAIN n \subseteq DOMAIN d.nodes \cup {<<l, i>>}
  BY StoreNodeDomain
<1>2. \A k \in DOMAIN n : \E m \in Levels : \E j \in Positions(m) : k = <<m, j>>
  BY <1>1 DEF TablesOK
<1> HIDE DEF n
<1>3. TablesOK(WithNodes(d, n))
  BY <1>2 DEF TablesOK, WithNodes
<1> QED
  BY <1>3 DEF n

LEMMA PublishedRootsOK ==
  ASSUME NEW d, TablesOK(d), NEW time \in Nat, NEW r, NEW leaves \in SUBSET LeafIndex
  PROVE  TablesOK(WithRoots(d, Upsert(RetireRoots(d.roots, time), r,
                     [retired |-> NotRetired, leaves |-> leaves])))
<1> DEFINE old == RetireRoots(d.roots, time)
           new == Upsert(old, r, [retired |-> NotRetired, leaves |-> leaves])
<1>1. DOMAIN old = DOMAIN d.roots /\ \A x \in DOMAIN old : old[x] \in RootRows
  BY DEF RetireRoots, TablesOK, RootRows
<1>2. \A x \in DOMAIN new : new[x] \in RootRows
  BY <1>1 DEF Upsert, RootRows
<1> HIDE DEF new
<1>3. TablesOK(WithRoots(d, new))
  BY <1>2 DEF TablesOK, WithRoots
<1> QED
  BY <1>3 DEF new

LEMMA InsertedCredOK ==
  ASSUME NEW d, TablesOK(d), NEW i \in LeafIndex, NEW row \in CredRows
  PROVE  TablesOK(WithCreds(d, Upsert(d.creds, i, row)))
<1> DEFINE new == Upsert(d.creds, i, row)
<1>1. DOMAIN new \subseteq LeafIndex /\ \A j \in DOMAIN new : new[j] \in CredRows
  BY DEF Upsert, TablesOK
<1> HIDE DEF new
<1>2. TablesOK(WithCreds(d, new))
  BY <1>1 DEF TablesOK, WithCreds
<1> QED
  BY <1>2 DEF new

LEMMA MarkedCredOK ==
  ASSUME NEW d, TablesOK(d), NEW i
  PROVE  TablesOK(WithCreds(d, MarkRevoked(d.creds, i)))
<1> DEFINE new == MarkRevoked(d.creds, i)
<1>1. DOMAIN new = DOMAIN d.creds
  BY DEF MarkRevoked
<1>2. \A j \in DOMAIN new : new[j] \in CredRows
  BY <1>1 DEF MarkRevoked, TablesOK, CredRows
<1> HIDE DEF new
<1>3. TablesOK(WithCreds(d, new))
  BY <1>1, <1>2 DEF TablesOK, WithCreds
<1> QED
  BY <1>3 DEF new

LEMMA EmptyTablesOK == TablesOK(EmptyDB)
BY DEF TablesOK, EmptyDB, NoRows

\* Every walk a transaction starts, or is left with, has its type.
LEMMA WalksOK ==
  /\ WalkOK(NoWalk)
  /\ \A i \in LeafIndex : \A e, h : WalkOK(WalkFrom(i, e, h))
  /\ \A a, n : WalkOK(a) /\ a.level \in Levels => WalkOK(Climb(a, n))
<1>1. 0 \in LeafIndex /\ Positions(0) = LeafIndex /\ 0 \in 0..MerkleDepth
  BY TreeShape DEF LeafIndex, Positions
<1>2. ASSUME NEW a, NEW n, WalkOK(a), a.level \in Levels
      PROVE  WalkOK(Climb(a, n))
  BY <1>2, OneLevelUp DEF WalkOK, Climb
<1> QED
  BY <1>1, <1>2 DEF WalkOK, NoWalk, WalkFrom

\* The tables an operation starts from are typed: committed or its own.
LEMMA TablesTyped ==
  ASSUME TypeOK, NEW w \in Writers
  PROVE  TablesOK(Tables(w))
BY DEF TypeOK, WritersOK, Tables

\* Starting an operation keeps the type of what it touches itself.
LEMMA StartTyped ==
  ASSUME TypeOK, NEW w \in Writers, Start(w)
  PROVE  /\ now' \in 0..MaxTime /\ TablesOK(db)'
         /\ lock' \in Writers \cup {Null}
         /\ start' \in [Writers -> 0..MaxTime]
         /\ ops' \in [Writers -> 0..MaxOps]
         /\ goneAt' \in [LeafIndex -> Nat \cup {NotRetired}]
BY Bounds DEF TypeOK, Start, LockTree, TablesOK

LEMMA EndTxTyped ==
  ASSUME TypeOK, NEW w \in Writers, EndTx(w)
  PROVE  /\ lock' \in Writers \cup {Null}
         /\ pc' \in [Writers -> {"idle", "open", "revoke", "write", "path", "aborted"}]
         /\ start' \in [Writers -> 0..MaxTime]
         /\ ops' \in [Writers -> 0..MaxOps]
         /\ WritersOK'
<1>1. \A v \in Writers : TablesOK(work'[v])
  BY EmptyTablesOK DEF TypeOK, WritersOK, PerWriter, EndTx
<1>2. \A v \in Writers : todo'[v] \subseteq LeafIndex
  BY DEF TypeOK, WritersOK, PerWriter, EndTx
<1>3. \A v \in Writers : WalkOK(at'[v])
  BY WalksOK DEF TypeOK, WritersOK, PerWriter, EndTx
<1>4. /\ start' \in [Writers -> 0..MaxTime] /\ ops' \in [Writers -> 0..MaxOps]
  BY Bounds DEF TypeOK, WritersOK, PerWriter, EndTx
<1> QED
  BY <1>1, <1>2, <1>3, <1>4 DEF TypeOK, WritersOK, PerWriter, EndTx

\* One transaction's tables, leaves to do and walk change, the others' do not.
LEMMA OneWriterTyped ==
  ASSUME TypeOK, NEW w \in Writers, NEW d, NEW todos, NEW walk,
         work' = [work EXCEPT ![w] = d], TablesOK(d),
         todo' = [todo EXCEPT ![w] = todos], todos \subseteq LeafIndex,
         at' = [at EXCEPT ![w] = walk], WalkOK(walk)
  PROVE  WritersOK'
<1>1. PerWriter(work)' /\ PerWriter(todo)' /\ PerWriter(at)'
  BY DEF TypeOK, WritersOK, PerWriter
<1>2. \A v \in Writers : TablesOK(work'[v]) /\ todo'[v] \subseteq LeafIndex /\ WalkOK(at'[v])
  BY DEF TypeOK, WritersOK, PerWriter
<1> QED
  BY <1>1, <1>2 DEF WritersOK

\* Every variable of MembershipTree keeps its type.
LEMMA TypeStep == TypeOK /\ [Next]_vars => TypeOK'
<1> SUFFICES ASSUME TypeOK, [Next]_vars PROVE TypeOK'
  OBVIOUS
<1> DEFINE PCs == {"idle", "open", "revoke", "write", "path", "aborted"}
<1>0. \A w \in Writers : /\ work = [work EXCEPT ![w] = work[w]]
                         /\ todo = [todo EXCEPT ![w] = todo[w]]
                         /\ at = [at EXCEPT ![w] = at[w]]
                         /\ TablesOK(work[w]) /\ todo[w] \subseteq LeafIndex /\ WalkOK(at[w])
  <2> TAKE w \in Writers
  <2>1. work = [work EXCEPT ![w] = work[w]] /\ todo = [todo EXCEPT ![w] = todo[w]]
        /\ at = [at EXCEPT ![w] = at[w]]
    BY DEF TypeOK, WritersOK, PerWriter
  <2> QED
    BY <2>1 DEF TypeOK, WritersOK
<1>1. CASE Tick
  BY <1>1, Bounds DEF Tick, TypeOK, TablesOK, txvars, WritersOK, PerWriter
<1>2. ASSUME NEW w \in Writers, Begin(w) PROVE TypeOK'
  BY <1>2, Bounds DEF Begin, TypeOK, TablesOK, WritersOK, PerWriter
<1>3. ASSUME NEW w \in Writers, Commit(w) PROVE TypeOK'
  <2>1. TablesOK(db)'
    BY <1>0, <1>3 DEF Commit, TablesOK
  <2>2. goneAt' \in [LeafIndex -> Nat \cup {NotRetired}]
    BY <1>3, Bounds DEF Commit, TypeOK
  <2> QED
    BY <1>3, <2>1, <2>2, EndTxTyped DEF Commit, TypeOK
<1>4. ASSUME NEW w \in Writers, Rollback(w) PROVE TypeOK'
  <2>1. TablesOK(db)'
    BY <1>4 DEF Rollback, TypeOK, TablesOK
  <2> QED
    BY <1>4, <2>1, EndTxTyped DEF Rollback, TypeOK
<1>5. ASSUME NEW w \in Writers, IssueFull(w) PROVE TypeOK'
  <2>1. Start(w) /\ UNCHANGED <<pc, todo, at>> /\ work' = [work EXCEPT ![w] = Tables(w)]
    BY <1>5 DEF IssueFull
  <2> QED
    BY <2>1, <1>0, StartTyped, TablesTyped, OneWriterTyped DEF TypeOK
<1>6. ASSUME NEW w \in Writers, NEW c \in Commitments, IssueConflict(w, c) PROVE TypeOK'
  <2>1. Start(w) /\ UNCHANGED <<todo, at>> /\ work' = [work EXCEPT ![w] = Tables(w)]
    BY <1>6 DEF IssueConflict
  <2>2. pc' \in [Writers -> PCs]
    BY <1>6 DEF IssueConflict, TypeOK
  <2> QED
    BY <2>1, <2>2, <1>0, StartTyped, TablesTyped, OneWriterTyped DEF TypeOK
<1>7. ASSUME NEW w \in Writers, NEW c \in Commitments, NEW u \in Users \cup {Null},
             IssueCredential(w, c, u)
      PROVE  TypeOK'
  <2>1. Start(w) /\ UNCHANGED todo
    BY <1>7 DEF IssueCredential
  <2>2. pc' \in [Writers -> PCs]
    BY <1>7 DEF IssueCredential, TypeOK
  <2>3. PICK i \in LeafIndex :
          /\ work' = [work EXCEPT ![w] = WithCreds(Tables(w),
               Upsert(Tables(w).creds, i,
                      [commitment |-> c, issuedTo |-> u, revoked |-> FALSE]))]
          /\ at' = [at EXCEPT ![w] = WalkFrom(i, FALSE, LeafHash(c))]
    BY <1>7 DEF IssueCredential
  <2>4. [commitment |-> c, issuedTo |-> u, revoked |-> FALSE] \in CredRows
    BY DEF CredRows
  <2>5. TablesOK(WithCreds(Tables(w), Upsert(Tables(w).creds, i,
                      [commitment |-> c, issuedTo |-> u, revoked |-> FALSE])))
    BY <2>4, InsertedCredOK, TablesTyped
  <2>6. WalkOK(WalkFrom(i, FALSE, LeafHash(c)))
    BY WalksOK
  <2> QED
    BY <2>1, <2>2, <2>3, <2>5, <2>6, <1>0, StartTyped, OneWriterTyped DEF TypeOK
<1>8. ASSUME NEW w \in Writers, NEW leaves \in SUBSET LeafIndex, StartRevoking(w, leaves)
      PROVE  TypeOK'
  <2>1. /\ Start(w) /\ UNCHANGED at /\ work' = [work EXCEPT ![w] = Tables(w)]
        /\ todo' = [todo EXCEPT ![w] = leaves]
    BY <1>8 DEF StartRevoking
  <2>2. pc' \in [Writers -> PCs]
    BY <1>8 DEF StartRevoking, TypeOK
  <2> QED
    BY <2>1, <2>2, <1>0, StartTyped, TablesTyped, OneWriterTyped DEF TypeOK
<1>9. ASSUME NEW w \in Writers, RevokeNext(w) PROVE TypeOK'
  <2>1. UNCHANGED <<now, db, lock, start, ops, got, goneAt>>
    BY <1>9 DEF RevokeNext
  <2>2. pc' \in [Writers -> PCs]
    BY <1>9 DEF RevokeNext, TypeOK
  <2>3. PICK i \in todo[w] :
          /\ work' = [work EXCEPT ![w] = WithCreds(work[w], MarkRevoked(work[w].creds, i))]
          /\ todo' = [todo EXCEPT ![w] = @ \ {i}]
          /\ at' = [at EXCEPT ![w] = WalkFrom(i, TRUE, zeros[0])]
    BY <1>9 DEF RevokeNext
  <2>4. TablesOK(WithCreds(work[w], MarkRevoked(work[w].creds, i)))
    BY <1>0, MarkedCredOK
  <2>5. i \in LeafIndex /\ todo[w] \ {i} \subseteq LeafIndex
    BY <1>0
  <2>6. WalkOK(WalkFrom(i, TRUE, zeros[0]))
    BY <2>5, WalksOK
  <2>7. todo' = [todo EXCEPT ![w] = todo[w] \ {i}]
    BY <2>3
  <2>8. TablesOK(db)'
    BY <2>1 DEF TypeOK, TablesOK
  <2> QED
    BY <2>1, <2>2, <2>3, <2>4, <2>5, <2>6, <2>7, <2>8, OneWriterTyped DEF TypeOK
<1>10. ASSUME NEW w \in Writers, WriteNode(w) PROVE TypeOK'
  <2> DEFINE nodes == StoreNode(work[w].nodes, at[w].level, at[w].pos, at[w].cur)
  <2>1. /\ UNCHANGED <<now, db, lock, pc, start, ops, todo, got, goneAt>>
        /\ work' = [work EXCEPT ![w] = WithNodes(work[w], nodes)]
        /\ at' = [at EXCEPT ![w] = Climb(at[w], nodes)]
        /\ at[w].level < MerkleDepth
    BY <1>10 DEF WriteNode
  <2>2. at[w].level \in Levels /\ at[w].pos \in Positions(at[w].level)
    BY <2>1, <1>0, TreeShape DEF WalkOK, Levels
  <2>3. TablesOK(WithNodes(work[w], nodes))
    BY <2>2, <1>0, StoredNodesOK
  <2>4. WalkOK(Climb(at[w], nodes))
    BY <2>2, <1>0, WalksOK
  <2> HIDE DEF nodes
  <2>5. TablesOK(db)'
    BY <2>1 DEF TypeOK, TablesOK
  <2> QED
    BY <2>1, <2>3, <2>4, <2>5, <1>0, OneWriterTyped DEF TypeOK
<1>11. ASSUME NEW w \in Writers, PublishRoot(w) PROVE TypeOK'
  <2> DEFINE roots == Upsert(RetireRoots(work[w].roots, start[w]), at[w].cur,
                       [retired |-> NotRetired, leaves |-> Live(work[w].creds)])
  <2>1. /\ UNCHANGED <<now, db, lock, start, ops, todo, at, got, goneAt>>
        /\ work' = [work EXCEPT ![w] = WithRoots(work[w], roots)]
    BY <1>11 DEF PublishRoot
  <2>2. pc' \in [Writers -> PCs]
    BY <1>11 DEF PublishRoot, TypeOK
  <2>3. start[w] \in Nat /\ Live(work[w].creds) \in SUBSET LeafIndex
    BY <1>0, Bounds DEF TypeOK, TablesOK, Live
  <2>4. TablesOK(WithRoots(work[w], roots))
    BY <2>3, <1>0, PublishedRootsOK
  <2> HIDE DEF roots
  <2>5. TablesOK(db)'
    BY <2>1 DEF TypeOK, TablesOK
  <2> QED
    BY <2>1, <2>2, <2>4, <2>5, <1>0, OneWriterTyped DEF TypeOK
<1>12. ASSUME NEW w \in Writers, ReadPath(w) PROVE TypeOK'
  BY <1>12 DEF ReadPath, TypeOK, TablesOK, WritersOK, PerWriter
<1>13. CASE UNCHANGED vars
  BY <1>13 DEF vars, txvars, TypeOK, TablesOK, WritersOK, PerWriter
<1>14. ASSUME NEW w \in Writers, NEW i \in LeafIndex, RevokeCredential(w, i) PROVE TypeOK'
  <2>1. {i} \cap Live(Tables(w).creds) \in SUBSET LeafIndex
    OBVIOUS
  <2> QED
    BY <1>8, <1>14, <2>1 DEF RevokeCredential
<1>15. ASSUME NEW w \in Writers, NEW u \in Users, RevokeCredentialsForUser(w, u) PROVE TypeOK'
  <2>1. {i \in Live(Tables(w).creds) : Tables(w).creds[i].issuedTo = u} \in SUBSET LeafIndex
    BY TablesTyped DEF TablesOK, Live
  <2> QED
    BY <1>8, <1>15, <2>1 DEF RevokeCredentialsForUser
<1> QED
  BY <1>1, <1>2, <1>3, <1>4, <1>5, <1>6, <1>7, <1>9, <1>10, <1>11, <1>12, <1>13, <1>14, <1>15
     DEF Next

LEMMA TypeInit == Init => TypeOK
<1> SUFFICES ASSUME Init PROVE TypeOK
  OBVIOUS
<1>1. WalkOK(NoWalk) /\ TablesOK(EmptyDB)
  BY WalksOK, EmptyTablesOK
<1> QED
  BY <1>1, Bounds DEF Init, TypeOK, WritersOK, PerWriter

\* TypeOK: the tables and every writer's variables keep their types, whatever
\* the writers do, for every instance.
THEOREM TypeCorrect == Spec => []TypeOK
BY TypeInit, TypeStep, PTL DEF Spec

-----------------------------------------------------------------------------
(* The committed tree is consistent. *)

\* A new leaf, before its walk: every other leaf still has its value.
LEMMA InsertStartsHalfWritten ==
  ASSUME NEW d, Consistent(d), NEW i \in LeafIndex, i \notin DOMAIN d.creds, NEW c, NEW u
  PROVE  HalfWritten(WithCreds(d, Upsert(d.creds, i,
                       [commitment |-> c, issuedTo |-> u, revoked |-> FALSE])),
                     WalkFrom(i, FALSE, LeafHash(c)))
<1> DEFINE row == [commitment |-> c, issuedTo |-> u, revoked |-> FALSE]
           creds == Upsert(d.creds, i, row)
           e == WithCreds(d, creds)
           a == WalkFrom(i, FALSE, LeafHash(c))
<1>1. e.creds = creds /\ e.nodes = d.nodes
  BY DEF WithCreds
<1>2. a.index = i /\ a.level = 0 /\ a.pos = i /\ a.cur = LeafHash(c)
  BY DEF WalkFrom
<1>3. LeafValue(creds, i) = LeafHash(c)
  BY DEF LeafValue, Live, Upsert
<1>4. \A j \in LeafIndex : j # i => LeafValue(creds, j) = LeafValue(d.creds, j)
  BY DEF LeafValue, Live, Upsert
<1> HIDE DEF creds, e, a
<1>5. HalfWritten(e, a)
  BY <1>1, <1>2, <1>3, <1>4, TreeShape
     DEF HalfWritten, Consistent, LeavesMatch, NodesFold, Levels
<1> QED
  BY <1>5 DEF creds, e, a

\* A leaf marked revoked, before its walk.
LEMMA RevokeStartsHalfWritten ==
  ASSUME NEW d, TablesOK(d), Consistent(d), NEW i \in LeafIndex
  PROVE  HalfWritten(WithCreds(d, MarkRevoked(d.creds, i)), WalkFrom(i, TRUE, zeros[0]))
<1> DEFINE creds == MarkRevoked(d.creds, i)
           e == WithCreds(d, creds)
           a == WalkFrom(i, TRUE, zeros[0])
<1>1. e.creds = creds /\ e.nodes = d.nodes
  BY DEF WithCreds
<1>2. a.index = i /\ a.level = 0 /\ a.pos = i /\ a.cur = zeros[0]
  BY DEF WalkFrom
<1>3. /\ DOMAIN creds = DOMAIN d.creds
      /\ \A j \in DOMAIN creds : j # i => creds[j] = d.creds[j]
      /\ i \in DOMAIN creds => creds[i].revoked
  BY DEF MarkRevoked, TablesOK, CredRows
<1> HIDE DEF creds
<1>4. LeafValue(creds, i) = zeros[0]
  BY <1>3 DEF LeafValue, Live
<1>5. \A j \in LeafIndex : j # i => LeafValue(creds, j) = LeafValue(d.creds, j)
  BY <1>3 DEF LeafValue, Live
<1> HIDE DEF e, a
<1>6. HalfWritten(e, a)
  BY <1>1, <1>2, <1>4, <1>5, TreeShape
     DEF HalfWritten, Consistent, LeavesMatch, NodesFold, Levels
<1> QED
  BY <1>6 DEF creds, e, a

\* Publishing the root of a written tree makes the tables consistent.
LEMMA PublishMakesConsistent ==
  ASSUME NEW d, LeavesMatch(d), NodesFold(d), NEW r,
         r = Parent(d.nodes, MerkleDepth - 1, 0),
         NEW time \in Nat, NEW leaves
  PROVE  Consistent(WithRoots(d, Upsert(RetireRoots(d.roots, time), r,
                     [retired |-> NotRetired, leaves |-> leaves])))
<1> DEFINE new == Upsert(RetireRoots(d.roots, time), r,
                         [retired |-> NotRetired, leaves |-> leaves])
           e == WithRoots(d, new)
<1>1. e.creds = d.creds /\ e.nodes = d.nodes
  BY DEF WithRoots
<1>2. CurrentRoot(e) = r
  BY PublishedRootIsCurrent
<1> HIDE DEF new, e
<1>3. Consistent(e)
  BY <1>1, <1>2 DEF Consistent, LeavesMatch, NodesFold, RootFolds
<1> QED
  BY <1>3 DEF new, e

\* The tree before the first issuance: no rows at all.
LEMMA EmptyIsConsistent == Consistent(EmptyDB)
<1>1. /\ \A l, i : Node(EmptyDB.nodes, l, i) = zeros[l]
      /\ \A i : LeafValue(EmptyDB.creds, i) = zeros[0]
      /\ CurrentRoot(EmptyDB) = zeros[MerkleDepth]
  BY DEF Node, EmptyDB, NoRows, LeafValue, Live, CurrentRoot, CurrentRoots
<1>2. \A l \in Levels \ {0} : zeros[l] = H(zeros[l - 1], zeros[l - 1])
  <2> TAKE l \in Levels \ {0}
  <2>1. l - 1 \in 0..(MerkleDepth - 1) /\ (l - 1) + 1 = l
    BY TreeShape DEF Levels
  <2> QED
    BY <2>1, ZerosFold
<1>3. zeros[MerkleDepth] = H(zeros[MerkleDepth - 1], zeros[MerkleDepth - 1])
  <2>1. MerkleDepth - 1 \in 0..(MerkleDepth - 1) /\ (MerkleDepth - 1) + 1 = MerkleDepth
    BY TreeShape
  <2> QED
    BY <2>1, ZerosFold
<1> QED
  BY <1>1, <1>2, <1>3 DEF Consistent, LeavesMatch, NodesFold, RootFolds, Parent

\* What an operation starts from is consistent.
LEMMA TablesConsistent ==
  ASSUME TreeInv, NEW w \in Writers, pc[w] = "open"
  PROVE  Consistent(Tables(w))
BY DEF TreeInv, TreeIsConsistent, WriterInv, Tables

\* A step of one writer leaves what holds of the others alone.
LEMMA OthersKeepInv ==
  ASSUME NEW v \in Writers, WriterInv(v),
         pc'[v] = pc[v], work'[v] = work[v], at'[v] = at[v],
         lock' = v <=> lock = v
  PROVE  WriterInv(v)'
BY DEF WriterInv

LEMMA EndTxKeepsInv ==
  ASSUME TreeInv, NEW w \in Writers, EndTx(w)
  PROVE  \A v \in Writers : WriterInv(v)'
<1>1. WriterInv(w)'
  BY Bounds DEF TreeInv, TypeOK, EndTx, WriterInv
<1>2. ASSUME NEW v \in Writers, v # w PROVE WriterInv(v)'
  <2>1. /\ pc'[v] = pc[v] /\ work'[v] = work[v] /\ at'[v] = at[v]
        /\ lock' = v <=> lock = v
    BY <1>2, Bounds DEF TreeInv, TypeOK, WritersOK, PerWriter, EndTx
  <2> QED
    BY <2>1, OthersKeepInv DEF TreeInv
<1> QED
  BY <1>1, <1>2

\* A step of w that starts with the lock, or keeps it.
LEMMA HolderStep ==
  ASSUME TreeInv, NEW w \in Writers, NEW p, NEW d, NEW a,
         pc' = [pc EXCEPT ![w] = p],
         work' = [work EXCEPT ![w] = d], at' = [at EXCEPT ![w] = a],
         lock \in {Null, w}, lock' = w, db' = db,
         p # "idle",
         p \in {"open", "revoke", "path"} => Consistent(d),
         p = "write" => HalfWritten(d, a)
  PROVE  TreeIsConsistent' /\ \A v \in Writers : WriterInv(v)'
<1>1. pc'[w] = p /\ work'[w] = d /\ at'[w] = a
  BY DEF TreeInv, TypeOK, WritersOK, PerWriter
<1>2. WriterInv(w)'
  BY <1>1 DEF WriterInv
<1>3. ASSUME NEW v \in Writers, v # w PROVE WriterInv(v)'
  <2>1. /\ pc'[v] = pc[v] /\ work'[v] = work[v] /\ at'[v] = at[v]
        /\ lock' = v <=> lock = v
    BY <1>3, Bounds DEF TreeInv, TypeOK, WritersOK, PerWriter
  <2> QED
    BY <2>1, OthersKeepInv DEF TreeInv
<1> QED
  BY <1>2, <1>3 DEF TreeInv, TreeIsConsistent

\* A variable that stays is the variable with one writer's part rewritten.
LEMMA SamePart ==
  ASSUME TypeOK, NEW w \in Writers
  PROVE  /\ pc = [pc EXCEPT ![w] = pc[w]]
         /\ work = [work EXCEPT ![w] = work[w]]
         /\ at = [at EXCEPT ![w] = at[w]]
         /\ TablesOK(work[w]) /\ todo[w] \subseteq LeafIndex /\ WalkOK(at[w])
BY DEF TypeOK, WritersOK, PerWriter

\* Every step keeps the committed tree consistent and each writer on its way.
LEMMA TreeStep == TreeInv /\ [Next]_vars => TreeIsConsistent' /\ \A v \in Writers : WriterInv(v)'
<1> SUFFICES ASSUME TreeInv, [Next]_vars
             PROVE  TreeIsConsistent' /\ \A v \in Writers : WriterInv(v)'
  OBVIOUS
<1> DEFINE Goal == TreeIsConsistent' /\ \A v \in Writers : WriterInv(v)'
<1>0. TypeOK /\ TreeIsConsistent /\ \A v \in Writers : WriterInv(v)
  BY DEF TreeInv
<1>1. CASE UNCHANGED vars \/ Tick
  BY <1>0, <1>1 DEF vars, txvars, Tick, TreeIsConsistent, WriterInv
<1>2. ASSUME NEW w \in Writers, Begin(w) PROVE Goal
  <2>1. lock # w
    BY <1>0, <1>2 DEF Begin, WriterInv
  <2>2. WriterInv(w)'
    BY <1>0, <1>2, <2>1 DEF Begin, WriterInv, TypeOK
  <2>3. ASSUME NEW v \in Writers, v # w PROVE WriterInv(v)'
    BY <1>0, <1>2, <2>3 DEF Begin, WriterInv, TypeOK
  <2> QED
    BY <1>0, <1>2, <2>2, <2>3 DEF Begin, TreeIsConsistent
<1>3. ASSUME NEW w \in Writers, Commit(w) PROVE Goal
  <2>1. Consistent(work[w])
    BY <1>0, <1>3 DEF Commit, WriterInv
  <2>2. TreeIsConsistent'
    BY <1>3, <2>1 DEF Commit, TreeIsConsistent
  <2> QED
    BY <1>3, <2>2, EndTxKeepsInv DEF Commit
<1>4. ASSUME NEW w \in Writers, Rollback(w) PROVE Goal
  BY <1>0, <1>4, EndTxKeepsInv DEF Rollback, TreeIsConsistent
<1>5. ASSUME NEW w \in Writers, IssueFull(w) PROVE Goal
  <2>1. /\ Start(w) /\ pc[w] = "open" /\ lock \in {Null, w} /\ lock' = w /\ db' = db
        /\ UNCHANGED <<pc, at>> /\ work' = [work EXCEPT ![w] = Tables(w)]
    BY <1>5 DEF IssueFull, Start, LockTree
  <2>2. pc' = [pc EXCEPT ![w] = "open"] /\ at' = [at EXCEPT ![w] = at[w]]
    BY <2>1, <1>0, SamePart
  <2> QED
    BY <2>1, <2>2, TablesConsistent, HolderStep
<1>6. ASSUME NEW w \in Writers, NEW c \in Commitments, IssueConflict(w, c) PROVE Goal
  <2>1. /\ Start(w) /\ lock \in {Null, w} /\ lock' = w /\ db' = db
        /\ UNCHANGED at /\ work' = [work EXCEPT ![w] = Tables(w)]
        /\ pc' = [pc EXCEPT ![w] = "aborted"]
    BY <1>6 DEF IssueConflict, Start, LockTree
  <2>2. at' = [at EXCEPT ![w] = at[w]]
    BY <2>1, <1>0, SamePart
  <2> QED
    BY <2>1, <2>2, HolderStep
<1>7. ASSUME NEW w \in Writers, NEW c \in Commitments, NEW u \in Users \cup {Null},
             IssueCredential(w, c, u)
      PROVE  Goal
  <2>1. /\ pc[w] = "open" /\ lock \in {Null, w} /\ lock' = w /\ db' = db
        /\ pc' = [pc EXCEPT ![w] = "write"]
    BY <1>7 DEF IssueCredential, Start, LockTree
  <2>2. PICK i \in LeafIndex :
          /\ NextLeaf(Tables(w).creds, i)
          /\ work' = [work EXCEPT ![w] = WithCreds(Tables(w),
               Upsert(Tables(w).creds, i,
                      [commitment |-> c, issuedTo |-> u, revoked |-> FALSE]))]
          /\ at' = [at EXCEPT ![w] = WalkFrom(i, FALSE, LeafHash(c))]
    BY <1>7 DEF IssueCredential
  <2>3. i \notin DOMAIN Tables(w).creds
    <3>1. i \in Int
      BY TreeShape DEF LeafIndex
    <3> QED
      BY <2>2, <3>1 DEF NextLeaf
  <2>4. HalfWritten(WithCreds(Tables(w), Upsert(Tables(w).creds, i,
                       [commitment |-> c, issuedTo |-> u, revoked |-> FALSE])),
                    WalkFrom(i, FALSE, LeafHash(c)))
    BY <2>1, <2>3, TablesConsistent, InsertStartsHalfWritten
  <2> QED
    BY <2>1, <2>2, <2>4, HolderStep
<1>8. ASSUME NEW w \in Writers, NEW leaves, StartRevoking(w, leaves) PROVE Goal
  <2> DEFINE p == IF leaves = {} THEN "open" ELSE "revoke"
  <2>1. /\ pc[w] = "open" /\ lock \in {Null, w} /\ lock' = w /\ db' = db
        /\ UNCHANGED at /\ work' = [work EXCEPT ![w] = Tables(w)]
        /\ pc' = [pc EXCEPT ![w] = p]
    BY <1>8 DEF StartRevoking, Start, LockTree
  <2>2. at' = [at EXCEPT ![w] = at[w]]
    BY <2>1, <1>0, SamePart
  <2>3. p # "idle" /\ p # "write"
    OBVIOUS
  <2> HIDE DEF p
  <2> QED
    BY <2>1, <2>2, <2>3, TablesConsistent, HolderStep
<1>9. ASSUME NEW w \in Writers, RevokeNext(w) PROVE Goal
  <2>1. /\ pc[w] = "revoke" /\ lock' = lock /\ db' = db
        /\ pc' = [pc EXCEPT ![w] = "write"]
    BY <1>9 DEF RevokeNext
  <2>2. lock = w /\ Consistent(work[w])
    BY <1>0, <2>1 DEF WriterInv
  <2>3. PICK i \in todo[w] :
          /\ work' = [work EXCEPT ![w] = WithCreds(work[w], MarkRevoked(work[w].creds, i))]
          /\ at' = [at EXCEPT ![w] = WalkFrom(i, TRUE, zeros[0])]
    BY <1>9 DEF RevokeNext
  <2>4. HalfWritten(WithCreds(work[w], MarkRevoked(work[w].creds, i)),
                    WalkFrom(i, TRUE, zeros[0]))
    BY <1>0, <2>2, SamePart, RevokeStartsHalfWritten
  <2> QED
    BY <2>1, <2>2, <2>3, <2>4, HolderStep
<1>10. ASSUME NEW w \in Writers, WriteNode(w) PROVE Goal
  <2> DEFINE nodes == StoreNode(work[w].nodes, at[w].level, at[w].pos, at[w].cur)
  <2>1. /\ pc[w] = "write" /\ UNCHANGED <<db, lock, pc>>
        /\ work' = [work EXCEPT ![w] = WithNodes(work[w], nodes)]
        /\ at' = [at EXCEPT ![w] = Climb(at[w], nodes)]
        /\ at[w].level < MerkleDepth
    BY <1>10 DEF WriteNode
  <2>2. lock = w /\ HalfWritten(work[w], at[w])
    BY <1>0, <2>1 DEF WriterInv
  <2>3. /\ at[w].index \in LeafIndex
        /\ at[w].level \in Levels /\ at[w].pos \in Positions(at[w].level)
    BY <1>0, <2>1, SamePart, TreeShape DEF WalkOK, Levels
  <2>4. HalfWritten(WithNodes(work[w], nodes), Climb(at[w], nodes))
    BY <2>2, <2>3, ClimbKeepsHalfWritten
  <2>5. pc' = [pc EXCEPT ![w] = "write"]
    BY <1>0, <2>1, SamePart
  <2> HIDE DEF nodes
  <2> QED
    BY <2>1, <2>2, <2>4, <2>5, HolderStep
<1>11. ASSUME NEW w \in Writers, PublishRoot(w) PROVE Goal
  <2> DEFINE roots == Upsert(RetireRoots(work[w].roots, start[w]), at[w].cur,
                       [retired |-> NotRetired, leaves |-> Live(work[w].creds)])
             p == IF ~at[w].empty THEN "path" ELSE IF todo[w] = {} THEN "open" ELSE "revoke"
  <2>1. /\ pc[w] = "write" /\ at[w].level = MerkleDepth /\ UNCHANGED <<db, lock, at>>
        /\ work' = [work EXCEPT ![w] = WithRoots(work[w], roots)]
        /\ pc' = [pc EXCEPT ![w] = p]
    BY <1>11 DEF PublishRoot
  <2>2. lock = w /\ HalfWritten(work[w], at[w]) /\ start[w] \in Nat
    BY <1>0, <2>1, Bounds DEF WriterInv, TypeOK
  <2>3. /\ LeavesMatch(work[w]) /\ NodesFold(work[w])
        /\ at[w].cur = Parent(work[w].nodes, MerkleDepth - 1, 0)
    BY <1>0, <2>1, <2>2, SamePart, TopIsWritten DEF WalkOK
  <2>4. Consistent(WithRoots(work[w], roots))
    BY <2>2, <2>3, PublishMakesConsistent
  <2>5. at' = [at EXCEPT ![w] = at[w]] /\ p # "idle" /\ p # "write"
    BY <1>0, <2>1, SamePart
  <2> HIDE DEF roots, p
  <2> QED
    BY <2>1, <2>2, <2>4, <2>5, HolderStep
<1>12. ASSUME NEW w \in Writers, ReadPath(w) PROVE Goal
  <2>1. /\ pc[w] = "path" /\ UNCHANGED <<db, lock, work, at>>
        /\ pc' = [pc EXCEPT ![w] = "open"]
    BY <1>12 DEF ReadPath
  <2>2. lock = w /\ Consistent(work[w])
    BY <1>0, <2>1 DEF WriterInv
  <2>3. work' = [work EXCEPT ![w] = work[w]] /\ at' = [at EXCEPT ![w] = at[w]]
    BY <1>0, <2>1, SamePart
  <2> QED
    BY <2>1, <2>2, <2>3, HolderStep
<1>13. ASSUME NEW w \in Writers, NEW i \in LeafIndex, RevokeCredential(w, i) PROVE Goal
  BY <1>8, <1>13 DEF RevokeCredential
<1>14. ASSUME NEW w \in Writers, NEW u \in Users, RevokeCredentialsForUser(w, u) PROVE Goal
  BY <1>8, <1>14 DEF RevokeCredentialsForUser
<1> QED
  BY <1>1, <1>2, <1>3, <1>4, <1>5, <1>6, <1>7, <1>9, <1>10, <1>11, <1>12, <1>13, <1>14 DEF Next

LEMMA TreeInit == Init => TreeInv
<1> SUFFICES ASSUME Init PROVE TreeInv
  OBVIOUS
<1>1. TypeOK
  BY TypeInit
<1>2. TreeIsConsistent
  BY EmptyIsConsistent DEF Init, TreeIsConsistent
<1>3. ASSUME NEW w \in Writers PROVE WriterInv(w)
  BY Bounds DEF Init, WriterInv
<1> QED
  BY <1>1, <1>2, <1>3 DEF TreeInv

\* TreeInv is inductive, and so holds of every reachable state.
THEOREM TreeInvariant == Spec => []TreeInv
<1>1. TreeInv /\ [Next]_vars => TreeInv'
  BY TypeStep, TreeStep DEF TreeInv
<1> QED
  BY <1>1, TreeInit, PTL DEF Spec

\* TreeIsConsistent: whatever issuers and revokers do at once, and wherever they
\* fail, the committed nodes are the Merkle tree over the live credentials and the
\* current root is its top.
THEOREM CommittedTreeIsConsistent == Spec => []TreeIsConsistent
<1>1. TreeInv => TreeIsConsistent
  BY DEF TreeInv
<1> QED
  BY <1>1, TreeInvariant, PTL

-----------------------------------------------------------------------------
(* What the writes of a transaction do to the ledger. *)

\* A new leaf index leaves the credentials that are there alone.
LEMMA InsertIsPermanent ==
  ASSUME NEW old, NEW creds, Permanent(old, creds),
         NEW i, i \notin DOMAIN creds, NEW row
  PROVE  Permanent(old, Upsert(creds, i, row))
BY DEF Permanent, Upsert

\* markRevoked only ever revokes.
LEMMA MarkingIsPermanent ==
  ASSUME NEW old, NEW d, TablesOK(d), Permanent(old, d.creds), NEW i
  PROVE  Permanent(old, MarkRevoked(d.creds, i))
<1> DEFINE new == MarkRevoked(d.creds, i)
<1>1. DOMAIN new = DOMAIN d.creds
  BY DEF MarkRevoked
<1>2. \A j \in DOMAIN new :
        /\ new[j].commitment = d.creds[j].commitment
        /\ d.creds[j].revoked => new[j].revoked
  BY DEF MarkRevoked, TablesOK, CredRows
<1> HIDE DEF new
<1>3. Permanent(old, new)
  BY <1>1, <1>2 DEF Permanent
<1> QED
  BY <1>3 DEF new

\* A leaf that is live in tables that keep what is committed is not gone.
LEMMA LiveIsNotGone ==
  ASSUME LedgerInv, NEW creds, Permanent(db.creds, creds),
         NEW i \in LeafIndex, i \in Live(creds)
  PROVE  goneAt[i] = NotRetired
BY DEF LedgerInv, Permanent, Live

\* The roots after retireRoot and insertRoot.
Published(roots, time, r, leaves) ==
  Upsert(RetireRoots(roots, time), r, [retired |-> NotRetired, leaves |-> leaves])

\* The new root is among them, current and for the leaves given.
LEMMA PublishedRow ==
  ASSUME NEW roots, NEW time, NEW r, NEW leaves
  PROVE  /\ r \in DOMAIN Published(roots, time, r, leaves)
         /\ Published(roots, time, r, leaves)[r].retired = NotRetired
         /\ Published(roots, time, r, leaves)[r].leaves = leaves
BY DEF Published, Upsert

\* Any other was there before, for the same leaves; if it was current it is
\* retired now.
LEMMA OtherRows ==
  ASSUME NEW d, TablesOK(d), NEW time, NEW r, NEW leaves,
         NEW x \in DOMAIN Published(d.roots, time, r, leaves), x # r
  PROVE  /\ x \in DOMAIN d.roots
         /\ Published(d.roots, time, r, leaves)[x].leaves = d.roots[x].leaves
         /\ d.roots[x].retired = NotRetired =>
              Published(d.roots, time, r, leaves)[x].retired = time
         /\ d.roots[x].retired # NotRetired =>
              Published(d.roots, time, r, leaves)[x].retired = d.roots[x].retired
BY DEF TablesOK, RootRows, Published, Upsert, RetireRoots

\* Publishing leaves one current root, for the live leaves of the transaction.
LEMMA PublishIsCommittable ==
  ASSUME NEW d, TablesOK(d), NEW time \in Nat, NEW r
  PROVE  Committable(WithRoots(d, Published(d.roots, time, r, Live(d.creds))))
<1> DEFINE e == WithRoots(d, Published(d.roots, time, r, Live(d.creds)))
<1>1. e.roots = Published(d.roots, time, r, Live(d.creds)) /\ e.creds = d.creds
  BY DEF WithRoots
<1> HIDE DEF e
<1>2. /\ r \in DOMAIN e.roots
      /\ e.roots[r].retired = NotRetired /\ e.roots[r].leaves = Live(d.creds)
  BY <1>1, PublishedRow
<1>3. ASSUME NEW x \in DOMAIN e.roots, x # r PROVE e.roots[x].retired # NotRetired
  BY <1>1, <1>3, OtherRows DEF NotRetired
<1>4. CurrentRoots(e) = {r}
  BY <1>2, <1>3 DEF CurrentRoots
<1>5. Committable(e)
  BY <1>1, <1>2, <1>4 DEF Committable
<1> QED
  BY <1>5 DEF e

\* Publishing in a transaction that began by now, for leaves none of which is
\* gone, keeps every root retired in time: what it retires was current, so
\* nothing under it was gone either.
LEMMA PublishIsInTime ==
  ASSUME TypeOK, NEW d, TablesOK(d), RootsInTime(d.roots),
         NEW time \in Nat, time <= now, NEW r, NEW leaves,
         \A i \in leaves : goneAt[i] = NotRetired
  PROVE  RootsInTime(Published(d.roots, time, r, leaves))
<1> DEFINE new == Published(d.roots, time, r, leaves)
<1>1. RetiredInTime(new[r])
  <2>1. new[r].retired = NotRetired /\ new[r].leaves = leaves
    BY PublishedRow
  <2> QED
    BY <2>1 DEF RetiredInTime
<1>2. ASSUME NEW x \in DOMAIN new, x # r PROVE RetiredInTime(new[x])
  <2>1. /\ x \in DOMAIN d.roots
        /\ new[x].leaves = d.roots[x].leaves
        /\ d.roots[x].retired = NotRetired => new[x].retired = time
        /\ d.roots[x].retired # NotRetired => new[x].retired = d.roots[x].retired
    BY <1>2, OtherRows
  <2>2. RetiredInTime(d.roots[x])
    BY <2>1 DEF RootsInTime
  <2> HIDE DEF new
  <2>3. CASE d.roots[x].retired = NotRetired
    BY <2>1, <2>2, <2>3 DEF RetiredInTime, NotRetired
  <2>4. CASE d.roots[x].retired # NotRetired
    BY <2>1, <2>2, <2>4 DEF RetiredInTime
  <2> QED
    BY <2>3, <2>4
<1> QED
  BY <1>1, <1>2 DEF RootsInTime

-----------------------------------------------------------------------------
(* The steps. *)

\* What an operation starts from may be committed and keeps what is.
LEMMA TablesLedger ==
  ASSUME TypeOK, LedgerInv, NEW w \in Writers, pc[w] = "open"
  PROVE  /\ TablesOK(Tables(w))
         /\ Permanent(db.creds, Tables(w).creds)
         /\ RootsInTime(Tables(w).roots)
         /\ Committable(Tables(w))
<1>1. CASE lock = w
  BY <1>1, TablesTyped DEF LedgerInv, HolderInv, Tables
<1>2. CASE lock # w
  <2>1. Permanent(db.creds, db.creds)
    BY DEF Permanent
  <2> QED
    BY <1>2, <2>1, TablesTyped DEF LedgerInv, Tables
<1> QED
  BY <1>1, <1>2

\* While committed tables, clock and history stay, so does what is said of them.
LEMMA LedgerHolderStep ==
  ASSUME TypeOK, LedgerInv, NEW w \in Writers, NEW p, NEW d,
         pc' = [pc EXCEPT ![w] = p],
         work' = [work EXCEPT ![w] = d],
         lock' = w, UNCHANGED <<now, db, start, goneAt>>,
         Permanent(db.creds, d.creds), RootsInTime(d.roots),
         p \in {"open", "revoke", "path"} => Committable(d)
  PROVE  LedgerInv'
<1>1. pc'[w] = p /\ work'[w] = d
  BY DEF TypeOK, WritersOK, PerWriter
<1>2. RootsInTime(d.roots)' /\ RootsInTime(db.roots)'
  BY DEF LedgerInv, RootsInTime, RetiredInTime
<1>3. HolderInv(w)'
  BY <1>1, <1>2 DEF HolderInv, RootsInTime, RetiredInTime
<1>4. \A v \in Writers : HolderInv(v)'
  BY <1>3 DEF HolderInv
<1> QED
  BY <1>2, <1>4 DEF LedgerInv

\* Leaving a transaction, with or without what it wrote, takes its tables away.
LEMMA EndTxLedger ==
  ASSUME TypeOK, LedgerInv, NEW w \in Writers, EndTx(w), now' = now
  PROVE  \A v \in Writers :
           /\ start'[v] <= now'
           /\ lock' = v => lock = v /\ v # w /\ pc'[v] = pc[v] /\ work'[v] = work[v]
<1>1. now \in Nat
  BY Bounds DEF TypeOK
<1>2. \A v \in Writers : start'[v] <= now'
  BY <1>1 DEF TypeOK, LedgerInv, EndTx
<1>3. \A v \in Writers : lock' = v => lock = v /\ v # w
  BY Bounds DEF TypeOK, EndTx
<1>4. \A v \in Writers : v # w => pc'[v] = pc[v] /\ work'[v] = work[v]
  BY DEF TypeOK, WritersOK, PerWriter, EndTx
<1> QED
  BY <1>2, <1>3, <1>4

\* Commit: what the transaction revoked is gone now, and every root that held it
\* has been retired before now.
LEMMA CommitLedger ==
  ASSUME TypeOK, LedgerInv, NEW w \in Writers, Commit(w)
  PROVE  LedgerInv' /\ Permanent(db.creds, db'.creds)
<1>1. /\ pc[w] = "open" /\ lock = w /\ db' = work[w] /\ EndTx(w) /\ now' = now
      /\ lock' = Null
  BY DEF Commit, EndTx
<1>2. /\ Permanent(db.creds, db'.creds) /\ RootsInTime(db'.roots) /\ Committable(db')
  BY <1>1 DEF LedgerInv, HolderInv
<1>3. /\ TablesOK(db') /\ now \in Nat
      /\ goneAt \in [LeafIndex -> Nat \cup {NotRetired}]
  BY <1>1, Bounds DEF TypeOK, WritersOK
<1>4. \A i \in LeafIndex :
        \/ goneAt'[i] = goneAt[i]
        \/ goneAt[i] = NotRetired /\ goneAt'[i] = now
           /\ i \in DOMAIN db'.creds /\ db'.creds[i].revoked
  BY <1>3 DEF Commit, Live
<1>5. \A i \in LeafIndex : goneAt'[i] # NotRetired =>
        i \in DOMAIN db'.creds /\ db'.creds[i].revoked
  BY <1>2, <1>4 DEF LedgerInv, Permanent
<1>6. ASSUME NEW r \in DOMAIN db'.roots PROVE RetiredInTime(db.roots[r])'
  <2> DEFINE row == db'.roots[r]
  <2>1. RetiredInTime(row) /\ row \in RootRows
    BY <1>2, <1>3 DEF RootsInTime, TablesOK
  <2>2. CASE row.retired = NotRetired
    <3>1. row.leaves \subseteq Live(db'.creds)
      BY <1>2, <2>2 DEF Committable, CurrentRoots
    <3>2. \A i \in row.leaves : i \in LeafIndex /\ goneAt'[i] = NotRetired
      BY <1>5, <2>1, <3>1 DEF RootRows, Live
    <3> QED
      BY <2>2, <3>2 DEF RetiredInTime
  <2>3. CASE row.retired # NotRetired
    <3>1. row.retired \in Nat /\ row.retired <= now /\ row.leaves \subseteq LeafIndex
      BY <2>1, <2>3 DEF RetiredInTime, RootRows
    <3>2. \A i \in row.leaves : goneAt'[i] = NotRetired \/ row.retired <= goneAt'[i]
      BY <1>3, <1>4, <2>1, <2>3, <3>1 DEF RetiredInTime
    <3> QED
      BY <1>1, <2>3, <3>1, <3>2 DEF RetiredInTime
  <2> QED
    BY <2>2, <2>3
<1>7. \A v \in Writers : start'[v] <= now' /\ HolderInv(v)'
  BY <1>1, EndTxLedger, Bounds DEF HolderInv
<1> QED
  BY <1>2, <1>5, <1>6, <1>7 DEF LedgerInv, RootsInTime

\* Time goes by, or nothing happens: what was retired by now was retired by then.
LEMMA TickLedger ==
  ASSUME TypeOK, LedgerInv, UNCHANGED vars \/ Tick
  PROVE  LedgerInv'
<1>1. /\ UNCHANGED <<db, lock, pc, start, work, goneAt>>
      /\ now \in Nat /\ now' \in Nat /\ now <= now'
  BY Bounds DEF TypeOK, vars, txvars, Tick
<1>2. ASSUME NEW roots, \A r \in DOMAIN roots : roots[r] \in RootRows, RootsInTime(roots)
      PROVE  RootsInTime(roots)'
  <2>1. ASSUME NEW r \in DOMAIN roots PROVE RetiredInTime(roots[r])'
    <3>1. RetiredInTime(roots[r]) /\ roots[r] \in RootRows
      BY <1>2
      DEF RootsInTime
    <3>2. roots[r].retired = NotRetired \/ roots[r].retired \in Nat
      BY <3>1 DEF RootRows
    <3> QED
      BY <1>1, <3>1, <3>2 DEF RetiredInTime
  <2> QED
    BY <2>1 DEF RootsInTime
<1>3. RootsInTime(db.roots)'
  <2>1. RootsInTime(db.roots) /\ \A r \in DOMAIN db.roots : db.roots[r] \in RootRows
    BY DEF LedgerInv, TypeOK, TablesOK
  <2> QED
    BY <1>1, <1>2, <2>1 DEF RootsInTime, RetiredInTime
<1>4. ASSUME NEW w \in Writers PROVE start'[w] <= now' /\ HolderInv(w)'
  <2>1. start[w] \in Nat /\ start[w] <= now /\ HolderInv(w)
    BY DEF TypeOK, LedgerInv
  <2>2. \A r \in DOMAIN work[w].roots : work[w].roots[r] \in RootRows
    BY DEF TypeOK, WritersOK, TablesOK
  <2>3. RootsInTime(work[w].roots) => RootsInTime(work[w].roots)'
    BY <1>1, <1>2, <2>2 DEF RootsInTime, RetiredInTime
  <2> QED
    BY <1>1, <2>1, <2>3 DEF HolderInv
<1> QED
  BY <1>1, <1>3, <1>4 DEF LedgerInv

\* Every step keeps the ledger, and no committed credential is lost or restored.
LEMMA LedgerStep ==
  TreeInv /\ LedgerInv /\ [Next]_vars => LedgerInv' /\ Permanent(db.creds, db'.creds)
<1> SUFFICES ASSUME TreeInv, LedgerInv, [Next]_vars
             PROVE  LedgerInv' /\ Permanent(db.creds, db'.creds)
  OBVIOUS
<1> DEFINE Goal == LedgerInv' /\ Permanent(db.creds, db'.creds)
<1>0. /\ TypeOK /\ now \in Nat /\ Permanent(db.creds, db.creds)
      /\ \A w \in Writers : start[w] \in Nat /\ start[w] <= now
  BY Bounds DEF TreeInv, TypeOK, LedgerInv, Permanent
<1>1. CASE UNCHANGED vars \/ Tick
  <2>1. db' = db
    BY <1>1 DEF vars, Tick
  <2> QED
    BY <1>0, <1>1, <2>1, TickLedger
<1>2. ASSUME NEW w \in Writers, Begin(w) PROVE Goal
  <2>1. /\ UNCHANGED <<now, db, lock, work, goneAt>> /\ lock # w
        /\ \A v \in Writers : start'[v] <= now
        /\ \A v \in Writers : v # w => pc'[v] = pc[v]
    BY <1>0, <1>2 DEF Begin, TreeInv, WriterInv, TypeOK
  <2>2. RootsInTime(db.roots)'
    BY <2>1 DEF LedgerInv, RootsInTime, RetiredInTime
  <2>3. ASSUME NEW v \in Writers PROVE HolderInv(v)'
    BY <2>1 DEF LedgerInv, HolderInv, RootsInTime, RetiredInTime
  <2> QED
    BY <1>0, <2>1, <2>2, <2>3 DEF LedgerInv
<1>3. ASSUME NEW w \in Writers, Commit(w) PROVE Goal
  BY <1>0, <1>3, CommitLedger
<1>4. ASSUME NEW w \in Writers, Rollback(w) PROVE Goal
  <2>1. UNCHANGED <<now, db, goneAt>> /\ EndTx(w)
    BY <1>4 DEF Rollback
  <2>2. RootsInTime(db.roots)'
    BY <2>1 DEF LedgerInv, RootsInTime, RetiredInTime
  <2>3. ASSUME NEW v \in Writers PROVE start'[v] <= now' /\ HolderInv(v)'
    <3>1. /\ start'[v] <= now'
          /\ lock' = v => lock = v /\ pc'[v] = pc[v] /\ work'[v] = work[v]
      BY <1>0, <2>1, EndTxLedger
    <3> QED
      BY <2>1, <3>1 DEF LedgerInv, HolderInv, RootsInTime, RetiredInTime
  <2> QED
    BY <1>0, <2>1, <2>2, <2>3 DEF LedgerInv
<1>5. ASSUME NEW w \in Writers, IssueFull(w) PROVE Goal
  <2>1. /\ pc[w] = "open" /\ lock' = w /\ UNCHANGED <<now, db, start, goneAt>>
        /\ UNCHANGED pc /\ work' = [work EXCEPT ![w] = Tables(w)]
    BY <1>5 DEF IssueFull, Start, LockTree
  <2>2. pc' = [pc EXCEPT ![w] = pc[w]]
    BY <1>0, <2>1, SamePart
  <2> QED
    BY <1>0, <2>1, <2>2, TablesLedger, LedgerHolderStep
<1>6. ASSUME NEW w \in Writers, NEW c \in Commitments, IssueConflict(w, c) PROVE Goal
  <2>1. /\ pc[w] = "open" /\ lock' = w /\ UNCHANGED <<now, db, start, goneAt>>
        /\ work' = [work EXCEPT ![w] = Tables(w)]
        /\ pc' = [pc EXCEPT ![w] = "aborted"]
    BY <1>6 DEF IssueConflict, Start, LockTree
  <2> QED
    BY <1>0, <2>1, TablesLedger, LedgerHolderStep
<1>7. ASSUME NEW w \in Writers, NEW c \in Commitments, NEW u \in Users \cup {Null},
             IssueCredential(w, c, u)
      PROVE  Goal
  <2> DEFINE row == [commitment |-> c, issuedTo |-> u, revoked |-> FALSE]
  <2>1. /\ pc[w] = "open" /\ lock' = w /\ UNCHANGED <<now, db, start, goneAt>>
        /\ pc' = [pc EXCEPT ![w] = "write"]
    BY <1>7 DEF IssueCredential, Start, LockTree
  <2>2. PICK i \in LeafIndex :
          /\ NextLeaf(Tables(w).creds, i)
          /\ work' = [work EXCEPT ![w] = WithCreds(Tables(w), Upsert(Tables(w).creds, i, row))]
    BY <1>7 DEF IssueCredential
  <2> DEFINE d == WithCreds(Tables(w), Upsert(Tables(w).creds, i, row))
  <2>3. i \notin DOMAIN Tables(w).creds
    BY <2>2, TreeShape DEF NextLeaf, LeafIndex
  <2> HIDE DEF row
  <2>4. d.creds = Upsert(Tables(w).creds, i, row) /\ d.roots = Tables(w).roots
    BY DEF WithCreds
  <2>5. Permanent(db.creds, d.creds) /\ RootsInTime(d.roots)
    BY <1>0, <2>1, <2>3, <2>4, TablesLedger, InsertIsPermanent
  <2> HIDE DEF d
  <2>6. work' = [work EXCEPT ![w] = d]
    BY <2>2 DEF d
  <2> QED
    BY <1>0, <2>1, <2>5, <2>6, LedgerHolderStep
<1>8. ASSUME NEW w \in Writers, NEW leaves, StartRevoking(w, leaves) PROVE Goal
  <2> DEFINE p == IF leaves = {} THEN "open" ELSE "revoke"
  <2>1. /\ pc[w] = "open" /\ lock' = w /\ UNCHANGED <<now, db, start, goneAt>>
        /\ work' = [work EXCEPT ![w] = Tables(w)]
        /\ pc' = [pc EXCEPT ![w] = p]
    BY <1>8 DEF StartRevoking, Start, LockTree
  <2> HIDE DEF p
  <2> QED
    BY <1>0, <2>1, TablesLedger, LedgerHolderStep
<1>9. ASSUME NEW w \in Writers, RevokeNext(w) PROVE Goal
  <2>1. /\ pc[w] = "revoke" /\ UNCHANGED <<now, db, lock, start, goneAt>>
        /\ pc' = [pc EXCEPT ![w] = "write"]
    BY <1>9 DEF RevokeNext
  <2>2. lock = w
    BY <2>1 DEF TreeInv, WriterInv
  <2>3. PICK i \in todo[w] :
          work' = [work EXCEPT ![w] = WithCreds(work[w], MarkRevoked(work[w].creds, i))]
    BY <1>9 DEF RevokeNext
  <2> DEFINE d == WithCreds(work[w], MarkRevoked(work[w].creds, i))
  <2>4. d.creds = MarkRevoked(work[w].creds, i) /\ d.roots = work[w].roots
    BY DEF WithCreds
  <2>5. TablesOK(work[w]) /\ Permanent(db.creds, work[w].creds) /\ RootsInTime(work[w].roots)
    BY <1>0, <2>2, SamePart DEF LedgerInv, HolderInv
  <2>6. Permanent(db.creds, d.creds) /\ RootsInTime(d.roots)
    BY <2>4, <2>5, MarkingIsPermanent
  <2> HIDE DEF d
  <2>7. work' = [work EXCEPT ![w] = d]
    BY <2>3 DEF d
  <2> QED
    BY <1>0, <2>1, <2>2, <2>6, <2>7, LedgerHolderStep
<1>10. ASSUME NEW w \in Writers, WriteNode(w) PROVE Goal
  <2>1. /\ pc[w] = "write" /\ UNCHANGED <<now, db, lock, pc, start, goneAt>>
    BY <1>10 DEF WriteNode
  <2>2. lock = w
    BY <2>1 DEF TreeInv, WriterInv
  <2> DEFINE d == WithNodes(work[w],
                    StoreNode(work[w].nodes, at[w].level, at[w].pos, at[w].cur))
  <2>3. work' = [work EXCEPT ![w] = d]
    BY <1>10 DEF WriteNode
  <2>4. d.creds = work[w].creds /\ d.roots = work[w].roots
    BY DEF WithNodes
  <2>5. Permanent(db.creds, d.creds) /\ RootsInTime(d.roots)
    BY <2>2, <2>4 DEF LedgerInv, HolderInv
  <2>6. pc' = [pc EXCEPT ![w] = "write"]
    BY <1>0, <2>1, SamePart
  <2> HIDE DEF d
  <2> QED
    BY <1>0, <2>1, <2>2, <2>3, <2>5, <2>6, LedgerHolderStep
<1>11. ASSUME NEW w \in Writers, PublishRoot(w) PROVE Goal
  <2> DEFINE leaves == Live(work[w].creds)
             roots == Published(work[w].roots, start[w], at[w].cur, leaves)
             d == WithRoots(work[w], roots)
             p == IF ~at[w].empty THEN "path" ELSE IF todo[w] = {} THEN "open" ELSE "revoke"
  <2>1. /\ pc[w] = "write" /\ UNCHANGED <<now, db, lock, start, goneAt>>
        /\ work' = [work EXCEPT ![w] = d]
        /\ pc' = [pc EXCEPT ![w] = p]
    BY <1>11 DEF PublishRoot, Published
  <2>2. lock = w
    BY <2>1 DEF TreeInv, WriterInv
  <2>3. TablesOK(work[w]) /\ Permanent(db.creds, work[w].creds) /\ RootsInTime(work[w].roots)
    BY <1>0, <2>2, SamePart DEF LedgerInv, HolderInv
  <2>4. \A i \in leaves : i \in LeafIndex /\ goneAt[i] = NotRetired
    BY <2>3, LiveIsNotGone DEF TablesOK, Live
  <2>5. d.creds = work[w].creds /\ d.roots = roots
    BY DEF WithRoots
  <2>6. Committable(d)
    BY <1>0, <2>3, PublishIsCommittable
  <2> HIDE DEF leaves, p
  <2>7. RootsInTime(roots)
    BY <1>0, <2>3, <2>4, PublishIsInTime
  <2> HIDE DEF roots, d
  <2>8. Permanent(db.creds, d.creds) /\ RootsInTime(d.roots)
    BY <2>3, <2>5, <2>7
  <2> QED
    BY <1>0, <2>1, <2>2, <2>6, <2>8, LedgerHolderStep
<1>12. ASSUME NEW w \in Writers, ReadPath(w) PROVE Goal
  <2>1. /\ pc[w] = "path" /\ UNCHANGED <<now, db, lock, start, work, goneAt>>
        /\ pc' = [pc EXCEPT ![w] = "open"]
    BY <1>12 DEF ReadPath
  <2>2. lock = w
    BY <2>1 DEF TreeInv, WriterInv
  <2>3. /\ Permanent(db.creds, work[w].creds) /\ RootsInTime(work[w].roots)
        /\ Committable(work[w])
    BY <2>1, <2>2 DEF LedgerInv, HolderInv
  <2>4. work' = [work EXCEPT ![w] = work[w]]
    BY <1>0, <2>1, SamePart
  <2> QED
    BY <1>0, <2>1, <2>2, <2>3, <2>4, LedgerHolderStep
<1>13. ASSUME NEW w \in Writers, NEW i \in LeafIndex, RevokeCredential(w, i) PROVE Goal
  BY <1>8, <1>13 DEF RevokeCredential
<1>14. ASSUME NEW w \in Writers, NEW u \in Users, RevokeCredentialsForUser(w, u) PROVE Goal
  BY <1>8, <1>14 DEF RevokeCredentialsForUser
<1> QED
  BY <1>1, <1>2, <1>3, <1>4, <1>5, <1>6, <1>7, <1>9, <1>10, <1>11, <1>12, <1>13, <1>14 DEF Next

LEMMA LedgerInit == Init => LedgerInv
<1> SUFFICES ASSUME Init PROVE LedgerInv
  OBVIOUS
<1>1. /\ DOMAIN db.roots = {} /\ DOMAIN db.creds = {} /\ CurrentRoots(db) = {}
  BY DEF Init, EmptyDB, NoRows, CurrentRoots
<1>2. \A w \in Writers : start[w] <= now /\ lock # w
  BY Bounds DEF Init
<1> QED
  BY <1>1, <1>2 DEF Init, LedgerInv, RootsInTime, Committable, HolderInv

-----------------------------------------------------------------------------
(* The theorems. *)

\* LedgerInv holds of every reachable state: current roots hold no leaf that is
\* gone, and a root that holds one was retired no later than the leaf went.
THEOREM LedgerInvariant == Spec => []LedgerInv
<1>1. TreeInv /\ LedgerInv /\ [Next]_vars => LedgerInv'
  BY LedgerStep
<1> QED
  BY <1>1, LedgerInit, TreeInvariant, PTL DEF Spec

\* OneCurrentRoot: retireRoot and insertRoot never leave two current roots, and
\* once a credential was issued they never leave none.
THEOREM CurrentRootIsUnique == Spec => []OneCurrentRoot
<1>1. LedgerInv => OneCurrentRoot
  BY DEF LedgerInv, Committable, OneCurrentRoot
<1> QED
  BY <1>1, LedgerInvariant, PTL

\* RevocationLatency: from RootGrace after a revocation was committed no accepted
\* root holds the leaf, however long the revoking transaction ran.
THEOREM GraceBoundsRevocation == Spec => []RevocationLatency
<1>1. TypeOK /\ LedgerInv => RevocationLatency
  <2> SUFFICES ASSUME TypeOK, LedgerInv, NEW r \in DOMAIN db.roots, RootAccepted(db, r),
                      NEW i \in db.roots[r].leaves, goneAt[i] # NotRetired
               PROVE  now < goneAt[i] + RootGrace
    BY DEF RevocationLatency
  <2> DEFINE row == db.roots[r]
  <2>1. RetiredInTime(row) /\ row \in RootRows
    BY DEF LedgerInv, RootsInTime, TypeOK, TablesOK
  <2>2. row.retired # NotRetired /\ row.retired <= goneAt[i]
    BY <2>1 DEF RetiredInTime
  <2>3. row.retired > now - RootGrace
    BY <2>2 DEF RootAccepted
  <2>4. row.retired \in Nat /\ goneAt[i] \in Nat /\ now \in Nat /\ RootGrace \in Nat
    BY <2>1, <2>2, Bounds DEF RootRows, TypeOK
  <2> QED
    BY <2>2, <2>3, <2>4
<1> QED
  BY <1>1, TypeCorrect, LedgerInvariant, PTL

\* CredentialsArePermanent: no commit drops a credential, changes its commitment
\* or takes its revocation back.
THEOREM CommittedCredentialsArePermanent == Spec => CredentialsArePermanent
<1>1. TreeInv /\ LedgerInv /\ [Next]_vars =>
        [\A i \in DOMAIN db.creds :
           /\ i \in DOMAIN db'.creds
           /\ db'.creds[i].commitment = db.creds[i].commitment
           /\ db.creds[i].revoked => db'.creds[i].revoked]_vars
  BY LedgerStep DEF Permanent
<1> QED
  BY <1>1, TreeInvariant, LedgerInvariant, PTL DEF Spec, CredentialsArePermanent

-----------------------------------------------------------------------------
(* Paths. *)

\* The sibling of a position is a position of the same level.
LEMMA SiblingIsPosition ==
  ASSUME NEW l \in Levels, NEW p \in Positions(l)
  PROVE  Sibling(p) \in Positions(l)
<1> DEFINE q == p \div 2
<1>1. q \in Positions(l + 1)
  BY OneLevelUp
<1>2. 2 * q \in Positions(l) /\ 2 * q + 1 \in Positions(l)
  BY <1>1, ChildrenArePositions
<1>3. Sibling(p) = 2 * q + 1 \/ Sibling(p) = 2 * q
  BY OneLevelUp
<1> QED
  BY <1>2, <1>3

(* The siblings of a leaf in a table that matches level by level: the path  *)
(* verifies against what the top two nodes hash to.                         *)
LEMMA TablePathVerifies ==
  ASSUME NEW d, NodesFold(d), NEW path, path.index \in LeafIndex,
         LeafHash(path.commitment) = Node(d.nodes, 0, path.index),
         path.siblings = SiblingsOf(d.nodes, path.index)
  PROVE  PathRoot(path) = Parent(d.nodes, MerkleDepth - 1, 0)
<1> DEFINE node == Labels(d.nodes)
<1>1. Folds(node)
  BY TableFolds DEF NodesFold
<1>2. LeafHash(path.commitment) = node[0][path.index]
  <2>1. 0 \in Levels /\ path.index \in Positions(0)
    BY TreeShape DEF Levels, Positions, LeafIndex
  <2> QED
    BY <2>1, LabelsOfTable
<1>3. ASSUME NEW l \in Levels
      PROVE  path.siblings[l] = node[l][Sibling(Ancestor(path.index)[l])]
  <2>1. Sibling(Ancestor(path.index)[l]) \in Positions(l)
    <3>1. l \in 0..MerkleDepth
      BY TreeShape DEF Levels
    <3> QED
      BY <3>1, AncestorIsPosition, SiblingIsPosition
  <2> QED
    BY <2>1, LabelsOfTable DEF SiblingsOf
<1> HIDE DEF node
<1>4. PathRoot(path) = node[MerkleDepth][0]
  BY <1>1, <1>2, <1>3, PathReachesTop
<1> QED
  BY <1>4, LabelsOfTable DEF node

-----------------------------------------------------------------------------
(* The path IssueCredential hands out. *)

(* The inductive invariant behind IssuedPathVerifies: the leaf a walk writes *)
(* is live while the walk is IssueCredential's, cur is the current root when *)
(* its path is read, and a path that was read belongs to the tables of the   *)
(* transaction until it starts another operation or ends.                    *)
IssueInv(w) ==
  /\ pc[w] = "write" /\ ~at[w].empty => at[w].index \in Live(work[w].creds)
  /\ pc[w] = "path" => /\ at[w].index \in Live(work[w].creds)
                       /\ at[w].cur = CurrentRoot(work[w])
  /\ got[w] # Null => /\ pc[w] = "open" /\ lock = w
                      /\ PathRoot(got[w]) = got[w].root
                      /\ got[w].root = CurrentRoot(work[w])
IssuedInv == PerWriter(got) /\ \A w \in Writers : IssueInv(w)

\* A step of another writer leaves it alone.
LEMMA OthersKeepIssue ==
  ASSUME NEW v \in Writers, IssueInv(v),
         pc'[v] = pc[v], work'[v] = work[v], at'[v] = at[v], got'[v] = got[v],
         lock' = v <=> lock = v
  PROVE  IssueInv(v)'
BY DEF IssueInv

\* A step of w that hands out nothing.
LEMMA IssueHolderStep ==
  ASSUME TreeInv, IssuedInv, NEW w \in Writers, NEW p, NEW d, NEW a, NEW g,
         pc' = [pc EXCEPT ![w] = p], work' = [work EXCEPT ![w] = d],
         at' = [at EXCEPT ![w] = a], got' = [got EXCEPT ![w] = g],
         \A v \in Writers : v # w => (lock' = v <=> lock = v),
         p = "write" /\ ~a.empty => a.index \in Live(d.creds),
         p = "path" => a.index \in Live(d.creds) /\ a.cur = CurrentRoot(d),
         g # Null => /\ p = "open" /\ lock' = w
                     /\ PathRoot(g) = g.root /\ g.root = CurrentRoot(d)
  PROVE  IssuedInv'
<1>1. pc'[w] = p /\ work'[w] = d /\ at'[w] = a /\ got'[w] = g
  BY DEF TreeInv, TypeOK, WritersOK, PerWriter, IssuedInv
<1>2. IssueInv(w)'
  BY <1>1 DEF IssueInv
<1>3. ASSUME NEW v \in Writers, v # w PROVE IssueInv(v)'
  <2>1. /\ pc'[v] = pc[v] /\ work'[v] = work[v] /\ at'[v] = at[v] /\ got'[v] = got[v]
        /\ lock' = v <=> lock = v
    BY <1>3 DEF TreeInv, TypeOK, WritersOK, PerWriter, IssuedInv
  <2> QED
    BY <2>1, OthersKeepIssue DEF IssuedInv
<1>4. PerWriter(got)'
  BY DEF IssuedInv, PerWriter
<1> QED
  BY <1>2, <1>3, <1>4 DEF IssuedInv

LEMMA EndTxIssue ==
  ASSUME TreeInv, IssuedInv, NEW w \in Writers, EndTx(w)
  PROVE  IssuedInv'
<1>1. /\ pc' = [pc EXCEPT ![w] = "idle"] /\ work' = [work EXCEPT ![w] = EmptyDB]
      /\ at' = [at EXCEPT ![w] = NoWalk] /\ got' = [got EXCEPT ![w] = Null]
      /\ \A v \in Writers : v # w => (lock' = v <=> lock = v)
  BY Bounds DEF EndTx
<1> QED
  BY <1>1, IssueHolderStep

LEMMA IssueStep == TreeInv /\ IssuedInv /\ [Next]_vars => IssuedInv'
<1> SUFFICES ASSUME TreeInv, IssuedInv, [Next]_vars PROVE IssuedInv'
  OBVIOUS
<1>0. /\ TypeOK /\ \A w \in Writers : WriterInv(w)
      /\ \A w \in Writers : IssueInv(w) /\ got = [got EXCEPT ![w] = got[w]]
  BY DEF TreeInv, IssuedInv, PerWriter
<1>1. CASE UNCHANGED vars \/ Tick
  BY <1>0, <1>1 DEF vars, txvars, Tick, IssuedInv, IssueInv, PerWriter
<1>2. ASSUME NEW w \in Writers, Begin(w) PROVE IssuedInv'
  <2>1. /\ pc[w] = "idle" /\ UNCHANGED <<lock, work, at, got>>
        /\ pc' = [pc EXCEPT ![w] = "open"]
    BY <1>2 DEF Begin
  <2>2. got[w] = Null
    BY <1>0, <2>1 DEF IssueInv
  <2>3. /\ work' = [work EXCEPT ![w] = work[w]] /\ at' = [at EXCEPT ![w] = at[w]]
        /\ got' = [got EXCEPT ![w] = Null]
    BY <1>0, <2>1, <2>2, SamePart
  <2> QED
    BY <2>1, <2>3, IssueHolderStep
<1>3. ASSUME NEW w \in Writers, Commit(w) PROVE IssuedInv'
  BY <1>3, EndTxIssue DEF Commit
<1>4. ASSUME NEW w \in Writers, Rollback(w) PROVE IssuedInv'
  BY <1>4, EndTxIssue DEF Rollback
<1>5. ASSUME NEW w \in Writers, Start(w)
      PROVE  /\ \A v \in Writers : v # w => (lock' = v <=> lock = v)
             /\ got' = [got EXCEPT ![w] = Null]
  BY <1>5, Bounds DEF Start, LockTree
<1>6. ASSUME NEW w \in Writers, IssueFull(w) PROVE IssuedInv'
  <2>1. /\ Start(w) /\ pc[w] = "open" /\ UNCHANGED <<pc, at>>
        /\ work' = [work EXCEPT ![w] = Tables(w)]
    BY <1>6 DEF IssueFull, Start
  <2>2. pc' = [pc EXCEPT ![w] = "open"] /\ at' = [at EXCEPT ![w] = at[w]]
    BY <1>0, <2>1, SamePart
  <2>3. \A v \in Writers : v # w => (lock' = v <=> lock = v)
    BY <1>5, <2>1
  <2>4. got' = [got EXCEPT ![w] = Null]
    BY <1>5, <2>1
  <2> QED
    BY <2>1, <2>2, <2>3, <2>4, IssueHolderStep
<1>7. ASSUME NEW w \in Writers, NEW c \in Commitments, IssueConflict(w, c) PROVE IssuedInv'
  <2>1. /\ Start(w) /\ UNCHANGED at /\ work' = [work EXCEPT ![w] = Tables(w)]
        /\ pc' = [pc EXCEPT ![w] = "aborted"]
    BY <1>7 DEF IssueConflict
  <2>2. at' = [at EXCEPT ![w] = at[w]]
    BY <1>0, <2>1, SamePart
  <2> QED
    BY <1>5, <2>1, <2>2, IssueHolderStep
<1>8. ASSUME NEW w \in Writers, NEW c \in Commitments, NEW u \in Users \cup {Null},
             IssueCredential(w, c, u)
      PROVE  IssuedInv'
  <2>1. Start(w) /\ pc' = [pc EXCEPT ![w] = "write"]
    BY <1>8 DEF IssueCredential
  <2>2. PICK i \in LeafIndex :
          /\ work' = [work EXCEPT ![w] = WithCreds(Tables(w),
               Upsert(Tables(w).creds, i,
                      [commitment |-> c, issuedTo |-> u, revoked |-> FALSE]))]
          /\ at' = [at EXCEPT ![w] = WalkFrom(i, FALSE, LeafHash(c))]
    BY <1>8 DEF IssueCredential
  <2> DEFINE a == WalkFrom(i, FALSE, LeafHash(c))
             d == WithCreds(Tables(w), Upsert(Tables(w).creds, i,
                      [commitment |-> c, issuedTo |-> u, revoked |-> FALSE]))
  <2>3. a.index \in Live(d.creds)
    BY DEF WalkFrom, WithCreds, Live, Upsert
  <2> HIDE DEF a, d
  <2>4. work' = [work EXCEPT ![w] = d] /\ at' = [at EXCEPT ![w] = a]
    BY <2>2 DEF a, d
  <2> QED
    BY <1>5, <2>1, <2>3, <2>4, IssueHolderStep
<1>9. ASSUME NEW w \in Writers, NEW leaves, StartRevoking(w, leaves) PROVE IssuedInv'
  <2> DEFINE p == IF leaves = {} THEN "open" ELSE "revoke"
  <2>1. /\ Start(w) /\ UNCHANGED at /\ work' = [work EXCEPT ![w] = Tables(w)]
        /\ pc' = [pc EXCEPT ![w] = p] /\ p # "write" /\ p # "path"
    BY <1>9 DEF StartRevoking
  <2>2. at' = [at EXCEPT ![w] = at[w]]
    BY <1>0, <2>1, SamePart
  <2> HIDE DEF p
  <2> QED
    BY <1>5, <2>1, <2>2, IssueHolderStep
<1>10. ASSUME NEW w \in Writers, RevokeNext(w) PROVE IssuedInv'
  <2>1. /\ pc[w] = "revoke" /\ UNCHANGED <<lock, got>>
        /\ pc' = [pc EXCEPT ![w] = "write"]
    BY <1>10 DEF RevokeNext
  <2>2. got[w] = Null
    BY <1>0, <2>1 DEF IssueInv
  <2>3. PICK i \in todo[w] :
          /\ work' = [work EXCEPT ![w] = WithCreds(work[w], MarkRevoked(work[w].creds, i))]
          /\ at' = [at EXCEPT ![w] = WalkFrom(i, TRUE, zeros[0])]
    BY <1>10 DEF RevokeNext
  <2>4. WalkFrom(i, TRUE, zeros[0]).empty
    BY DEF WalkFrom
  <2> QED
    BY <1>0, <2>1, <2>2, <2>3, <2>4, IssueHolderStep
<1>11. ASSUME NEW w \in Writers, WriteNode(w) PROVE IssuedInv'
  <2> DEFINE nodes == StoreNode(work[w].nodes, at[w].level, at[w].pos, at[w].cur)
             d == WithNodes(work[w], nodes)
             a == Climb(at[w], nodes)
  <2>1. /\ pc[w] = "write" /\ UNCHANGED <<lock, pc, got>>
        /\ work' = [work EXCEPT ![w] = d] /\ at' = [at EXCEPT ![w] = a]
    BY <1>11 DEF WriteNode
  <2>2. got[w] = Null /\ pc' = [pc EXCEPT ![w] = "write"]
    BY <1>0, <2>1, SamePart DEF IssueInv
  <2>3. a.empty = at[w].empty /\ a.index = at[w].index /\ d.creds = work[w].creds
    BY DEF Climb, WithNodes
  <2> HIDE DEF a, d
  <2>4. ~a.empty => a.index \in Live(d.creds)
    BY <1>0, <2>1, <2>3 DEF IssueInv
  <2> QED
    BY <1>0, <2>1, <2>2, <2>4, IssueHolderStep
<1>12. ASSUME NEW w \in Writers, PublishRoot(w) PROVE IssuedInv'
  <2> DEFINE roots == Upsert(RetireRoots(work[w].roots, start[w]), at[w].cur,
                       [retired |-> NotRetired, leaves |-> Live(work[w].creds)])
             d == WithRoots(work[w], roots)
             p == IF ~at[w].empty THEN "path" ELSE IF todo[w] = {} THEN "open" ELSE "revoke"
  <2>1. /\ pc[w] = "write" /\ UNCHANGED <<lock, at, got>>
        /\ work' = [work EXCEPT ![w] = d] /\ pc' = [pc EXCEPT ![w] = p]
    BY <1>12 DEF PublishRoot
  <2>2. got[w] = Null /\ at' = [at EXCEPT ![w] = at[w]] /\ start[w] \in Nat
    BY <1>0, <2>1, SamePart, Bounds DEF IssueInv, TypeOK
  <2>3. CurrentRoot(d) = at[w].cur
    BY <2>2, PublishedRootIsCurrent
  <2>4. d.creds = work[w].creds
    BY DEF WithRoots
  <2>5. p # "write" /\ (p = "path" => ~at[w].empty)
    OBVIOUS
  <2> HIDE DEF d, p
  <2>6. p = "path" => at[w].index \in Live(d.creds) /\ at[w].cur = CurrentRoot(d)
    BY <1>0, <2>1, <2>3, <2>4, <2>5 DEF IssueInv
  <2> QED
    BY <1>0, <2>1, <2>2, <2>5, <2>6, IssueHolderStep
<1>13. ASSUME NEW w \in Writers, ReadPath(w) PROVE IssuedInv'
  <2> DEFINE i == at[w].index
             g == [index |-> i, root |-> at[w].cur,
                   commitment |-> work[w].creds[i].commitment,
                   siblings |-> SiblingsOf(work[w].nodes, i)]
  <2>1. /\ pc[w] = "path" /\ UNCHANGED <<lock, work, at>>
        /\ pc' = [pc EXCEPT ![w] = "open"] /\ got' = [got EXCEPT ![w] = g]
    BY <1>13 DEF ReadPath
  <2>2. lock = w /\ Consistent(work[w])
    BY <1>0, <2>1 DEF WriterInv
  <2>3. /\ i \in Live(work[w].creds) /\ at[w].cur = CurrentRoot(work[w])
        /\ i \in LeafIndex
    BY <1>0, <2>1, SamePart DEF IssueInv, WalkOK
  <2>4. /\ g.index = i /\ g.root = at[w].cur
        /\ g.commitment = work[w].creds[i].commitment
        /\ g.siblings = SiblingsOf(work[w].nodes, i)
    OBVIOUS
  <2> HIDE DEF i, g
  <2>5. LeafHash(g.commitment) = Node(work[w].nodes, 0, g.index)
    BY <2>2, <2>3, <2>4 DEF Consistent, LeavesMatch, LeafValue
  <2>6. PathRoot(g) = Parent(work[w].nodes, MerkleDepth - 1, 0)
    BY <2>2, <2>3, <2>4, <2>5, TablePathVerifies DEF Consistent
  <2>7. PathRoot(g) = g.root /\ g.root = CurrentRoot(work[w])
    BY <2>2, <2>3, <2>4, <2>6 DEF Consistent, RootFolds
  <2>8. work' = [work EXCEPT ![w] = work[w]] /\ at' = [at EXCEPT ![w] = at[w]]
    BY <1>0, <2>1, SamePart
  <2>9. lock' = w
    BY <2>1, <2>2
  <2> QED
    BY <2>1, <2>7, <2>8, <2>9, IssueHolderStep
<1>14. ASSUME NEW w \in Writers, NEW i \in LeafIndex, RevokeCredential(w, i) PROVE IssuedInv'
  BY <1>9, <1>14 DEF RevokeCredential
<1>15. ASSUME NEW w \in Writers, NEW u \in Users, RevokeCredentialsForUser(w, u)
       PROVE  IssuedInv'
  BY <1>9, <1>15 DEF RevokeCredentialsForUser
<1> QED
  BY <1>1, <1>2, <1>3, <1>4, <1>6, <1>7, <1>8, <1>10, <1>11, <1>12, <1>13, <1>14, <1>15
     DEF Next

LEMMA IssueInit == Init => IssuedInv
BY DEF Init, IssuedInv, IssueInv, PerWriter

\* IssuedPathVerifies: the path IssueCredential hands out verifies, in the circuit,
\* against the root it names, which is the current one of its transaction, for
\* every depth and every hash.
THEOREM IssuedPathsVerify == Spec => []IssuedPathVerifies
<1>1. TreeInv /\ IssuedInv /\ [Next]_vars => IssuedInv'
  BY IssueStep
<1>2. IssuedInv => IssuedPathVerifies
  BY DEF IssuedInv, IssueInv, IssuedPathVerifies
<1> QED
  BY <1>1, <1>2, IssueInit, TreeInvariant, PTL DEF Spec

-----------------------------------------------------------------------------
(* Which nodes have a row. *)

(* The inductive invariant behind RowsOnlyAboveLiveLeaves: no row, committed *)
(* or not, holds the hash of an empty subtree.                               *)
RowsTight(t) == \A l \in Levels : \A i \in Positions(l) :
                  <<l, i>> \in DOMAIN t => t[<<l, i>>] # zeros[l]
RowsInv == RowsTight(db.nodes) /\ \A w \in Writers : RowsTight(work[w].nodes)

\* writeLeaf stores no row for an empty subtree.
LEMMA StoreNodeTight ==
  ASSUME NEW t, RowsTight(t), NEW l, NEW i, NEW hash
  PROVE  RowsTight(StoreNode(t, l, i, hash))
BY DEF RowsTight, StoreNode, Upsert, Delete

\* One transaction's rows change.
LEMMA RowsHolderStep ==
  ASSUME TypeOK, RowsInv, NEW w \in Writers, NEW d, RowsTight(d.nodes),
         work' = [work EXCEPT ![w] = d], db' = db
  PROVE  RowsInv'
<1>1. \A v \in Writers : work'[v] = IF v = w THEN d ELSE work[v]
  BY DEF TypeOK, WritersOK, PerWriter
<1>2. \A v \in Writers : RowsTight(work'[v].nodes)
  BY <1>1 DEF RowsInv
<1>3. RowsTight(db.nodes)'
  BY DEF RowsInv, RowsTight
<1> QED
  BY <1>2, <1>3 DEF RowsInv, RowsTight

LEMMA RowsStep == TypeOK /\ RowsInv /\ [Next]_vars => RowsInv'
<1> SUFFICES ASSUME TypeOK, RowsInv, [Next]_vars PROVE RowsInv'
  OBVIOUS
<1>0. \A w \in Writers : RowsTight(Tables(w).nodes) /\ RowsTight(work[w].nodes)
  BY DEF RowsInv, Tables
<1>1. CASE UNCHANGED <<db, work>>
  BY <1>1 DEF RowsInv, RowsTight
<1>2. ASSUME NEW w \in Writers, EndTx(w), RowsTight(db'.nodes) PROVE RowsInv'
  <2>1. RowsTight(EmptyDB.nodes)
    BY DEF RowsTight, EmptyDB, NoRows
  <2>2. \A v \in Writers : work'[v] = IF v = w THEN EmptyDB ELSE work[v]
    BY <1>2 DEF EndTx, TypeOK, WritersOK, PerWriter
  <2>3. \A v \in Writers : RowsTight(work'[v].nodes)
    BY <1>0, <2>1, <2>2
  <2> QED
    BY <1>2, <2>3 DEF RowsInv, RowsTight
<1>3. ASSUME NEW w \in Writers, Commit(w) PROVE RowsInv'
  <2>1. RowsTight(db'.nodes)
    BY <1>0, <1>3 DEF Commit
  <2> QED
    BY <1>2, <1>3, <2>1 DEF Commit
<1>4. ASSUME NEW w \in Writers, Rollback(w) PROVE RowsInv'
  BY <1>2, <1>4 DEF Rollback, RowsInv
<1>5. ASSUME NEW w \in Writers, work' = [work EXCEPT ![w] = Tables(w)], db' = db
      PROVE  RowsInv'
  BY <1>0, <1>5, RowsHolderStep
<1>6. ASSUME NEW w \in Writers, NEW c \in Commitments, NEW u \in Users \cup {Null},
             IssueCredential(w, c, u)
      PROVE  RowsInv'
  <2>1. PICK creds : work' = [work EXCEPT ![w] = WithCreds(Tables(w), creds)]
    BY <1>6 DEF IssueCredential
  <2>2. WithCreds(Tables(w), creds).nodes = Tables(w).nodes
    BY DEF WithCreds
  <2>3. db' = db
    BY <1>6 DEF IssueCredential, Start
  <2> QED
    BY <1>0, <2>1, <2>2, <2>3, RowsHolderStep
<1>7. ASSUME NEW w \in Writers, NEW leaves, StartRevoking(w, leaves) PROVE RowsInv'
  BY <1>5, <1>7 DEF StartRevoking, Start
<1>8. ASSUME NEW w \in Writers, RevokeNext(w) PROVE RowsInv'
  <2>1. PICK creds : work' = [work EXCEPT ![w] = WithCreds(work[w], creds)]
    BY <1>8 DEF RevokeNext
  <2>2. WithCreds(work[w], creds).nodes = work[w].nodes
    BY DEF WithCreds
  <2>3. db' = db
    BY <1>8 DEF RevokeNext
  <2> QED
    BY <1>0, <2>1, <2>2, <2>3, RowsHolderStep
<1>9. ASSUME NEW w \in Writers, WriteNode(w) PROVE RowsInv'
  <2> DEFINE nodes == StoreNode(work[w].nodes, at[w].level, at[w].pos, at[w].cur)
  <2>1. work' = [work EXCEPT ![w] = WithNodes(work[w], nodes)] /\ db' = db
    BY <1>9 DEF WriteNode
  <2>2. RowsTight(nodes)
    BY <1>0, StoreNodeTight
  <2> HIDE DEF nodes
  <2>3. RowsTight(WithNodes(work[w], nodes).nodes)
    BY <2>2 DEF WithNodes
  <2> QED
    BY <2>1, <2>3, RowsHolderStep
<1>10. ASSUME NEW w \in Writers, PublishRoot(w) PROVE RowsInv'
  <2>1. PICK roots : work' = [work EXCEPT ![w] = WithRoots(work[w], roots)]
    BY <1>10 DEF PublishRoot
  <2>2. WithRoots(work[w], roots).nodes = work[w].nodes
    BY DEF WithRoots
  <2>3. db' = db
    BY <1>10 DEF PublishRoot
  <2> QED
    BY <1>0, <2>1, <2>2, <2>3, RowsHolderStep
<1> QED
  <2>1. CASE UNCHANGED vars \/ Tick
    BY <1>1, <2>1 DEF vars, txvars, Tick
  <2>2. ASSUME NEW w \in Writers, Begin(w) \/ ReadPath(w) PROVE RowsInv'
    BY <1>1, <2>2 DEF Begin, ReadPath
  <2>3. ASSUME NEW w \in Writers, IssueFull(w) PROVE RowsInv'
    BY <1>5, <2>3 DEF IssueFull, Start
  <2>4. ASSUME NEW w \in Writers, NEW c \in Commitments, IssueConflict(w, c) PROVE RowsInv'
    BY <1>5, <2>4 DEF IssueConflict, Start
  <2>5. ASSUME NEW w \in Writers, NEW i \in LeafIndex, RevokeCredential(w, i) PROVE RowsInv'
    BY <1>7, <2>5 DEF RevokeCredential
  <2>6. ASSUME NEW w \in Writers, NEW u \in Users, RevokeCredentialsForUser(w, u)
        PROVE  RowsInv'
    BY <1>7, <2>6 DEF RevokeCredentialsForUser
  <2> QED
    BY <1>3, <1>4, <1>6, <1>8, <1>9, <1>10, <2>1, <2>2, <2>3, <2>4, <2>5, <2>6 DEF Next

(* Without collisions, and if no commitment hashes to the empty leaf, a      *)
(* consistent table with tight rows has a row exactly above each live leaf.  *)
LEMMA TightRowsAboveLiveLeaves ==
  ASSUME CollisionFree, \A c \in Commitments : LeafHash(c) # zeros[0],
         NEW d, TablesOK(d), Consistent(d), RowsTight(d.nodes),
         NEW l \in Levels, NEW i \in Positions(l)
  PROVE  <<l, i>> \in DOMAIN d.nodes <=> \E j \in Live(d.creds) : Ancestor(j)[l] = i
<1> DEFINE node == Labels(d.nodes)
<1>1. Folds(node)
  BY TableFolds DEF Consistent, NodesFold
<1>2. \A j \in LeafIndex : node[0][j] = zeros[0] <=> j \notin Live(d.creds)
  <2> TAKE j \in LeafIndex
  <2>1. 0 \in Levels /\ j \in Positions(0)
    BY TreeShape DEF Levels, Positions, LeafIndex
  <2>2. node[0][j] = LeafValue(d.creds, j)
    BY <2>1, LabelsOfTable DEF Consistent, LeavesMatch
  <2>3. j \in Live(d.creds) => LeafValue(d.creds, j) # zeros[0]
    BY DEF LeafValue, Live, TablesOK, CredRows
  <2>4. j \notin Live(d.creds) => LeafValue(d.creds, j) = zeros[0]
    BY DEF LeafValue
  <2> QED
    BY <2>2, <2>3, <2>4
<1>3. Live(d.creds) \in SUBSET LeafIndex
  BY DEF Live, TablesOK
<1>4. node[l][i] = zeros[l] <=> \A j \in Live(d.creds) : Ancestor(j)[l] # i
  <2>1. l \in 0..MerkleDepth
    BY TreeShape DEF Levels
  <2> HIDE DEF node
  <2> QED
    BY <1>1, <1>2, <1>3, <2>1, EmptyAboveNoLeaf
<1>5. node[l][i] = Node(d.nodes, l, i)
  BY LabelsOfTable
<1>6. Node(d.nodes, l, i) = zeros[l] <=> <<l, i>> \notin DOMAIN d.nodes
  BY DEF Node, RowsTight
<1> QED
  BY <1>4, <1>5, <1>6

(* RowsOnlyAboveLiveLeaves: the committed nodes are stored exactly above the  *)
(* live leaves, whatever was issued and revoked before.  The hypotheses say   *)
(* that MiMC does not collide.                                                *)
THEOREM RowsAreMinimal ==
  ASSUME CollisionFree, \A c \in Commitments : LeafHash(c) # zeros[0]
  PROVE  Spec => []RowsOnlyAboveLiveLeaves
<1>1. Init => RowsInv
  BY DEF Init, RowsInv, RowsTight, EmptyDB, NoRows
<1>2. TreeInv /\ RowsInv /\ [Next]_vars => RowsInv'
  BY RowsStep DEF TreeInv
<1>3. TreeInv /\ RowsInv => RowsOnlyAboveLiveLeaves
  BY TightRowsAboveLiveLeaves
     DEF TreeInv, TypeOK, TreeIsConsistent, RowsInv, RowsOnlyAboveLiveLeaves
<1> QED
  BY <1>1, <1>2, <1>3, TreeInvariant, PTL DEF Spec

-----------------------------------------------------------------------------
(* The registry. *)

(* What one operation makes of the credentials it found: a new leaf, or the  *)
(* leaves it was asked to revoke marked, all of them in the end.             *)
IssuedFrom(old, new) ==
  \E c \in Commitments, u \in Users \cup {Null}, i \in LeafIndex :
    /\ NextLeaf(old, i) /\ \A j \in DOMAIN old : old[j].commitment # c
    /\ new = Upsert(old, i, [commitment |-> c, issuedTo |-> u, revoked |-> FALSE])

Asked(old, leaves) ==
  /\ leaves # {}
  /\ \/ \E i \in LeafIndex : leaves = {i} \cap Live(old)
     \/ \E u \in Users : leaves = {i \in Live(old) : old[i].issuedTo = u}

Removed(old, leaves) ==
  [i \in DOMAIN old |-> IF i \in leaves THEN [old[i] EXCEPT !.revoked = TRUE] ELSE old[i]]

RevokedFrom(old, new, left) ==
  \E leaves : Asked(old, leaves) /\ left \subseteq leaves /\ new = Removed(old, leaves \ left)

\* Leaves are numbered without gaps, in the order they were issued.
Dense(creds) == \E n \in Nat : creds = [i \in 0..(n - 1) |-> creds[i]]

(* The inductive invariant behind RefinesRegistry: a transaction that has    *)
(* the lock is at one operation on the committed credentials, part way or    *)
(* done.                                                                     *)
OneOp(w) ==
  lock = w =>
    /\ ops[w] # 0
    /\ pc[w] = "open" =>
         \/ work[w].creds = db.creds
         \/ IssuedFrom(db.creds, work[w].creds)
         \/ RevokedFrom(db.creds, work[w].creds, {})
    /\ pc[w] = "path" \/ (pc[w] = "write" /\ ~at[w].empty) =>
         IssuedFrom(db.creds, work[w].creds)
    /\ pc[w] = "revoke" \/ (pc[w] = "write" /\ at[w].empty) =>
         RevokedFrom(db.creds, work[w].creds, todo[w])
OneOpInv == Dense(db.creds) /\ \A w \in Writers : OneOp(w)

\* The next leaf of credentials without gaps is their number.
LEMMA NextOfDense ==
  ASSUME NEW creds, Dense(creds), NEW i \in Nat, NextLeaf(creds, i)
  PROVE  DOMAIN creds = 0..(i - 1) /\ i = Cardinality(DOMAIN creds)
<1>1. PICK n \in Nat : creds = [j \in 0..(n - 1) |-> creds[j]]
  BY DEF Dense
<1>2. DOMAIN creds = 0..(n - 1)
  BY <1>1
<1>3. i = n
  <2>1. n > 0 => n - 1 \in DOMAIN creds
    BY <1>2
  <2>2. \A j \in DOMAIN creds : j < i
    BY DEF NextLeaf
  <2>3. i = 0 \/ i - 1 \in DOMAIN creds
    BY DEF NextLeaf
  <2>4. n <= i
    BY <2>1, <2>2
  <2>5. i = 0 \/ i - 1 <= n - 1
    BY <1>2, <2>3
  <2> QED
    BY <2>4, <2>5
<1>4. Cardinality(0..(n - 1)) = n
  BY FS_Interval
<1> QED
  BY <1>2, <1>3, <1>4

\* Operations leave no gaps.
LEMMA OperationsKeepDense ==
  ASSUME NEW old, Dense(old), NEW new,
         new = old \/ IssuedFrom(old, new) \/ RevokedFrom(old, new, {})
  PROVE  Dense(new)
<1>1. CASE IssuedFrom(old, new)
  <2>1. PICK i \in LeafIndex : NextLeaf(old, i) /\ \E row : new = Upsert(old, i, row)
    BY <1>1 DEF IssuedFrom
  <2>2. i \in Nat
    BY <2>1, TreeShape DEF LeafIndex
  <2>3. DOMAIN old = 0..(i - 1)
    BY <2>1, <2>2, NextOfDense
  <2>4. 0..(i - 1) \cup {i} = 0..((i + 1) - 1) /\ i + 1 \in Nat
    BY <2>2
  <2>5. DOMAIN new = 0..((i + 1) - 1) /\ new = [j \in DOMAIN new |-> new[j]]
    BY <2>1, <2>3, <2>4 DEF Upsert
  <2> QED
    BY <2>4, <2>5 DEF Dense
<1>2. CASE RevokedFrom(old, new, {})
  <2>1. PICK leaves : new = Removed(old, leaves)
    BY <1>2 DEF RevokedFrom
  <2>2. DOMAIN new = DOMAIN old /\ new = [j \in DOMAIN new |-> new[j]]
    BY <2>1 DEF Removed
  <2>3. PICK n \in Nat : old = [j \in 0..(n - 1) |-> old[j]]
    BY DEF Dense
  <2>4. DOMAIN new = 0..(n - 1)
    BY <2>2, <2>3
  <2> QED
    BY <2>2, <2>4 DEF Dense
<1> QED
  BY <1>1, <1>2

\* markRevoked takes one more leaf out of those left.
LEMMA MarkOneMore ==
  ASSUME NEW d, TablesOK(d), NEW old, NEW left, NEW i \in left,
         RevokedFrom(old, d.creds, left)
  PROVE  RevokedFrom(old, MarkRevoked(d.creds, i), left \ {i})
<1>1. PICK leaves : /\ Asked(old, leaves) /\ left \subseteq leaves
                    /\ d.creds = Removed(old, leaves \ left)
  BY DEF RevokedFrom
<1> DEFINE new == MarkRevoked(d.creds, i)
           target == Removed(old, leaves \ (left \ {i}))
<1>2. DOMAIN d.creds = DOMAIN old
  BY <1>1 DEF Removed
<1>3. i \in DOMAIN old
  BY <1>1 DEF Asked, Live
<1>4. DOMAIN new = DOMAIN old /\ DOMAIN target = DOMAIN old
  BY <1>2 DEF MarkRevoked, Removed
<1>5. \A j \in DOMAIN old : new[j] = target[j]
  <2> TAKE j \in DOMAIN old
  <2>1. CASE j = i
    <3>1. new[j] = [d.creds[i] EXCEPT !.revoked = TRUE]
      BY <1>2, <1>3, <2>1 DEF MarkRevoked
    <3>2. d.creds[i] = old[i]
      BY <1>1, <1>3 DEF Removed
    <3>3. target[j] = [old[i] EXCEPT !.revoked = TRUE]
      BY <1>1, <1>3, <2>1 DEF Removed
    <3> QED
      BY <3>1, <3>2, <3>3
  <2>2. CASE j # i
    <3>1. new[j] = d.creds[j]
      BY <1>2, <2>2 DEF MarkRevoked
    <3>2. d.creds[j] = target[j]
      BY <1>1, <2>2 DEF Removed
    <3> QED
      BY <3>1, <3>2
  <2> QED
    BY <2>1, <2>2
<1>6. new = target
  <2>1. new = [j \in DOMAIN new |-> new[j]] /\ target = [j \in DOMAIN target |-> target[j]]
    BY DEF MarkRevoked, Removed
  <2> HIDE DEF new, target
  <2> QED
    BY <1>4, <1>5, <2>1
<1> HIDE DEF new
<1> QED
  BY <1>1, <1>6 DEF RevokedFrom, new

\* With nothing taken out yet the credentials are those asked about.
LEMMA NothingRemovedYet ==
  ASSUME NEW old, Dense(old), NEW leaves, Asked(old, leaves)
  PROVE  RevokedFrom(old, old, leaves)
<1>1. old = [i \in DOMAIN old |-> old[i]]
  BY DEF Dense
<1>2. Removed(old, leaves \ leaves) = old
  BY <1>1 DEF Removed
<1> QED
  BY <1>2 DEF RevokedFrom

\* A step of a transaction that has the lock, or gets it, and does not commit.
LEMMA OneOpHolderStep ==
  ASSUME TypeOK, OneOpInv, NEW w \in Writers, lock' = w, db' = db, OneOp(w)'
  PROVE  OneOpInv'
<1>1. \A v \in Writers : OneOp(v)'
  BY DEF OneOp
<1> QED
  BY <1>1 DEF OneOpInv

LEMMA OneOpEndTx ==
  ASSUME TypeOK, OneOpInv, NEW w \in Writers, EndTx(w), db' = db \/ (lock = w /\ Dense(db'.creds))
  PROVE  OneOpInv'
<1>1. ASSUME NEW v \in Writers PROVE OneOp(v)'
  <2>1. CASE lock' # v
    BY <2>1 DEF OneOp
  <2>2. CASE lock' = v
    <3>1. lock = v /\ v # w /\ db' = db
      BY <2>2, Bounds DEF EndTx
    <3>2. /\ pc'[v] = pc[v] /\ work'[v] = work[v] /\ at'[v] = at[v]
          /\ todo'[v] = todo[v] /\ ops'[v] = ops[v]
      BY <3>1 DEF EndTx, TypeOK, WritersOK, PerWriter
    <3> QED
      BY <3>1, <3>2 DEF OneOp, OneOpInv
  <2> QED
    BY <2>1, <2>2
<1>2. Dense(db'.creds)
  BY DEF OneOpInv
<1> QED
  BY <1>1, <1>2 DEF OneOpInv

\* With one operation to a transaction, each begins on what is committed.
LEMMA FirstOperation ==
  ASSUME MaxOps <= 1, TypeOK, OneOpInv, NEW w \in Writers, Start(w)
  PROVE  /\ Tables(w) = db /\ lock' = w /\ db' = db /\ pc[w] = "open"
         /\ ops'[w] # 0
<1>1. ops[w] \in Nat /\ ops[w] < MaxOps /\ ops'[w] = ops[w] + 1
  BY Bounds DEF TypeOK, Start
<1>2. ops[w] = 0
  BY <1>1, Bounds
<1>3. lock # w
  BY <1>2 DEF OneOpInv, OneOp
<1> QED
  BY <1>1, <1>2, <1>3 DEF Start, LockTree, Tables

LEMMA OneOpStep ==
  ASSUME MaxOps <= 1
  PROVE  TreeInv /\ OneOpInv /\ [Next]_vars => OneOpInv'
<1> SUFFICES ASSUME TreeInv, OneOpInv, [Next]_vars PROVE OneOpInv'
  OBVIOUS
<1>0. /\ TypeOK /\ Dense(db.creds) /\ \A w \in Writers : WriterInv(w) /\ OneOp(w)
      /\ PerWriter(work) /\ PerWriter(todo) /\ PerWriter(at)
  BY DEF TreeInv, TypeOK, WritersOK, OneOpInv
<1>1. CASE UNCHANGED vars \/ Tick
  BY <1>0, <1>1 DEF vars, txvars, Tick, OneOpInv, OneOp
<1>2. ASSUME NEW w \in Writers, Begin(w) PROVE OneOpInv'
  <2>1. lock # w /\ lock' = lock /\ db' = db
    BY <1>0, <1>2 DEF Begin, WriterInv
  <2>2. ASSUME NEW v \in Writers, v # w PROVE OneOp(v)'
    BY <1>0, <1>2, <2>2 DEF Begin, OneOp, TypeOK
  <2>3. OneOp(w)'
    BY <2>1 DEF OneOp
  <2> QED
    BY <1>0, <2>1, <2>2, <2>3 DEF OneOpInv
<1>3. ASSUME NEW w \in Writers, Commit(w) PROVE OneOpInv'
  <2>1. pc[w] = "open" /\ lock = w /\ db' = work[w] /\ EndTx(w)
    BY <1>3 DEF Commit
  <2>2. Dense(db'.creds)
    BY <1>0, <2>1, OperationsKeepDense DEF OneOp
  <2> QED
    BY <1>0, <2>1, <2>2, OneOpEndTx
<1>4. ASSUME NEW w \in Writers, Rollback(w) PROVE OneOpInv'
  BY <1>0, <1>4, OneOpEndTx DEF Rollback
<1>5. ASSUME NEW w \in Writers, IssueFull(w) PROVE OneOpInv'
  <2>1. Tables(w) = db /\ lock' = w /\ db' = db /\ ops'[w] # 0 /\ pc[w] = "open"
    BY <1>0, <1>5, FirstOperation DEF IssueFull
  <2>2. work'[w].creds = db'.creds /\ pc'[w] = "open"
    BY <1>0, <1>5, <2>1 DEF IssueFull, PerWriter
  <2>3. OneOp(w)'
    BY <2>1, <2>2 DEF OneOp
  <2> QED
    BY <1>0, <2>1, <2>3, OneOpHolderStep
<1>6. ASSUME NEW w \in Writers, NEW c \in Commitments, IssueConflict(w, c) PROVE OneOpInv'
  <2>1. lock' = w /\ db' = db /\ ops'[w] # 0
    BY <1>0, <1>6, FirstOperation DEF IssueConflict
  <2>2. pc'[w] = "aborted"
    BY <1>0, <1>6 DEF IssueConflict, TypeOK
  <2>3. OneOp(w)'
    BY <2>1, <2>2 DEF OneOp
  <2> QED
    BY <1>0, <2>1, <2>3, OneOpHolderStep
<1>7. ASSUME NEW w \in Writers, NEW c \in Commitments, NEW u \in Users \cup {Null},
             IssueCredential(w, c, u)
      PROVE  OneOpInv'
  <2>1. Tables(w) = db /\ lock' = w /\ db' = db /\ ops'[w] # 0
    BY <1>0, <1>7, FirstOperation DEF IssueCredential
  <2>2. PICK i \in LeafIndex :
          /\ NextLeaf(db.creds, i)
          /\ work' = [work EXCEPT ![w] = WithCreds(db,
               Upsert(db.creds, i,
                      [commitment |-> c, issuedTo |-> u, revoked |-> FALSE]))]
          /\ at' = [at EXCEPT ![w] = WalkFrom(i, FALSE, LeafHash(c))]
    BY <1>7, <2>1 DEF IssueCredential
  <2>3. \A j \in DOMAIN db.creds : db.creds[j].commitment # c
    BY <1>7, <2>1 DEF IssueCredential
  <2>4. /\ work'[w].creds = Upsert(db.creds, i,
                             [commitment |-> c, issuedTo |-> u, revoked |-> FALSE])
        /\ ~ at'[w].empty /\ pc'[w] = "write"
    BY <1>0, <1>7, <2>2 DEF PerWriter, WithCreds, WalkFrom, IssueCredential, TypeOK
  <2>5. IssuedFrom(db'.creds, work'[w].creds)
    BY <2>1, <2>2, <2>3, <2>4 DEF IssuedFrom
  <2>6. OneOp(w)'
    BY <2>1, <2>4, <2>5 DEF OneOp
  <2> QED
    BY <1>0, <2>1, <2>6, OneOpHolderStep
<1>8. ASSUME NEW w \in Writers, NEW leaves, StartRevoking(w, leaves),
             leaves = {} \/ Asked(Tables(w).creds, leaves)
      PROVE  OneOpInv'
  <2>1. Tables(w) = db /\ lock' = w /\ db' = db /\ ops'[w] # 0
    BY <1>0, <1>8, FirstOperation DEF StartRevoking
  <2>2. /\ work'[w] = db /\ todo'[w] = leaves
        /\ pc'[w] = IF leaves = {} THEN "open" ELSE "revoke"
    BY <1>0, <1>8, <2>1 DEF StartRevoking, PerWriter, TypeOK
  <2>3. leaves # {} => RevokedFrom(db'.creds, work'[w].creds, todo'[w])
    BY <1>0, <1>8, <2>1, <2>2, NothingRemovedYet
  <2>4. OneOp(w)'
    BY <2>1, <2>2, <2>3 DEF OneOp
  <2> QED
    BY <1>0, <2>1, <2>4, OneOpHolderStep
<1>9. ASSUME NEW w \in Writers, RevokeNext(w) PROVE OneOpInv'
  <2>1. pc[w] = "revoke" /\ UNCHANGED <<db, lock, ops>> /\ lock = w
    BY <1>0, <1>9 DEF RevokeNext, WriterInv
  <2>2. PICK i \in todo[w] :
          /\ work' = [work EXCEPT ![w] = WithCreds(work[w], MarkRevoked(work[w].creds, i))]
          /\ todo' = [todo EXCEPT ![w] = @ \ {i}]
          /\ at' = [at EXCEPT ![w] = WalkFrom(i, TRUE, zeros[0])]
    BY <1>9 DEF RevokeNext
  <2>3. /\ work'[w].creds = MarkRevoked(work[w].creds, i)
        /\ todo'[w] = todo[w] \ {i} /\ at'[w].empty /\ pc'[w] = "write"
    BY <1>0, <1>9, <2>2 DEF PerWriter, WithCreds, WalkFrom, RevokeNext, TypeOK
  <2>4. RevokedFrom(db.creds, work[w].creds, todo[w])
    BY <1>0, <2>1 DEF OneOp
  <2>5. TablesOK(work[w])
    BY <1>0 DEF TypeOK, WritersOK
  <2>6. RevokedFrom(db'.creds, work'[w].creds, todo'[w])
    <3>1. RevokedFrom(db.creds, MarkRevoked(work[w].creds, i), todo[w] \ {i})
      BY <2>2, <2>4, <2>5, MarkOneMore
    <3> QED
      BY <2>1, <2>3, <3>1, Zenon
  <2>7. OneOp(w)'
    BY <1>0, <2>1, <2>3, <2>6 DEF OneOp
  <2> QED
    BY <1>0, <2>1, <2>7, OneOpHolderStep
<1>10. ASSUME NEW w \in Writers, WriteNode(w) PROVE OneOpInv'
  <2>1. /\ pc[w] = "write" /\ UNCHANGED <<db, lock, ops, todo, pc>> /\ lock = w
    BY <1>0, <1>10 DEF WriteNode, WriterInv
  <2>2. work'[w].creds = work[w].creds /\ at'[w].empty = at[w].empty
    BY <1>0, <1>10 DEF WriteNode, PerWriter, WithNodes, Climb
  <2>3. OneOp(w)'
    BY <1>0, <2>1, <2>2 DEF OneOp
  <2> QED
    BY <1>0, <2>1, <2>3, OneOpHolderStep
<1>11. ASSUME NEW w \in Writers, PublishRoot(w) PROVE OneOpInv'
  <2>1. /\ pc[w] = "write" /\ UNCHANGED <<db, lock, ops, todo, at>> /\ lock = w
    BY <1>0, <1>11 DEF PublishRoot, WriterInv
  <2>2. /\ work'[w].creds = work[w].creds
        /\ pc'[w] = IF ~at[w].empty THEN "path" ELSE IF todo[w] = {} THEN "open" ELSE "revoke"
    BY <1>0, <1>11 DEF PublishRoot, PerWriter, WithRoots, TypeOK
  <2>3. OneOp(w)'
    BY <1>0, <2>1, <2>2 DEF OneOp
  <2> QED
    BY <1>0, <2>1, <2>3, OneOpHolderStep
<1>12. ASSUME NEW w \in Writers, ReadPath(w) PROVE OneOpInv'
  <2>1. /\ pc[w] = "path" /\ UNCHANGED <<db, lock, ops, todo, at, work>> /\ lock = w
        /\ pc'[w] = "open"
    BY <1>0, <1>12 DEF ReadPath, WriterInv, TypeOK
  <2>2. IssuedFrom(db.creds, work[w].creds) /\ ops[w] # 0
    BY <1>0, <2>1 DEF OneOp
  <2>3. IssuedFrom(db'.creds, work'[w].creds) /\ ops'[w] # 0
    BY <2>1, <2>2
  <2>4. OneOp(w)'
    BY <2>1, <2>3 DEF OneOp
  <2> QED
    BY <1>0, <2>1, <2>4, OneOpHolderStep
<1>13. ASSUME NEW w \in Writers, NEW i \in LeafIndex, RevokeCredential(w, i) PROVE OneOpInv'
  BY <1>8, <1>13 DEF RevokeCredential, Asked
<1>14. ASSUME NEW w \in Writers, NEW u \in Users, RevokeCredentialsForUser(w, u)
       PROVE  OneOpInv'
  BY <1>8, <1>14 DEF RevokeCredentialsForUser, Asked
<1> QED
  BY <1>1, <1>2, <1>3, <1>4, <1>5, <1>6, <1>7, <1>9, <1>10, <1>11, <1>12, <1>13, <1>14
     DEF Next

LEMMA OneOpInit == Init => OneOpInv
<1> SUFFICES ASSUME Init PROVE OneOpInv
  OBVIOUS
<1>1. Dense(db.creds)
  <2>1. 0..(0 - 1) = {} /\ 0 \in Nat
    OBVIOUS
  <2>2. db.creds = [i \in 0..(0 - 1) |-> db.creds[i]]
    BY <2>1 DEF Init, EmptyDB, NoRows
  <2> QED
    BY <2>1, <2>2 DEF Dense
<1>2. \A w \in Writers : OneOp(w)
  BY Bounds DEF Init, OneOp
<1> QED
  BY <1>1, <1>2 DEF OneOpInv

\* The root of consistent tables is that of the tree over their credentials.
LEMMA ConsistentRoot ==
  ASSUME NEW d, Consistent(d)
  PROVE  CurrentRoot(d) = TreeRoot(d.creds)
BY TableRootIsTreeRoot DEF Consistent, LeavesMatch, NodesFold, RootFolds

\* The registry computes with the same operators.
LEMMA RegistryOperators ==
  ASSUME NEW c
  PROVE  /\ Registry!TreeRoot(c) = TreeRoot(c) /\ Registry!Live(c) = Live(c)
         /\ Registry!LeafIndex = LeafIndex /\ Registry!NoRows = NoRows
         /\ \A k, row : Registry!Upsert(c, k, row) = Upsert(c, k, row)
         /\ Registry!Cardinality(c) = Cardinality(c)
<1>1. Registry!TreeRoot(c) = TreeRoot(c)
  BY DEF Registry!TreeRoot, Registry!TreeNodes, Registry!Leaves, Registry!LevelOver,
         Registry!LeafValue, Registry!Live, Registry!Positions,
         TreeRoot, TreeNodes, Leaves, LevelOver, LeafValue, Live, Positions
<1>2. Registry!Live(c) = Live(c)
  BY DEF Registry!Live, Live
<1>3. Registry!LeafIndex = LeafIndex
  BY DEF Registry!LeafIndex, LeafIndex
<1>4. Registry!NoRows = NoRows
  BY DEF Registry!NoRows, NoRows
<1>5. \A k, row : Registry!Upsert(c, k, row) = Upsert(c, k, row)
  BY DEF Registry!Upsert, Upsert
<1>6. Registry!Cardinality(c) = Cardinality(c)
  BY DEF Registry!Cardinality, Cardinality
<1> QED
  BY <1>1, <1>2, <1>3, <1>4, <1>5, <1>6

\* A commit is one step of the registry, or none.
LEMMA CommitIsOneStep ==
  ASSUME TreeInv, OneOpInv, NEW w \in Writers, Commit(w)
  PROVE  [Registry!Next]_<<db.creds, CurrentRoot(db)>>
<1>1. pc[w] = "open" /\ lock = w /\ db' = work[w]
  BY DEF Commit
<1>2. Consistent(db) /\ Consistent(db')
  BY <1>1 DEF TreeInv, TreeIsConsistent, WriterInv
<1>3. CurrentRoot(db') = TreeRoot(db'.creds) /\ CurrentRoot(db) = TreeRoot(db.creds)
  BY <1>2, ConsistentRoot
<1>4. CASE db'.creds = db.creds
  BY <1>3, <1>4
<1>5. CASE IssuedFrom(db.creds, db'.creds)
  <2>1. PICK c \in Commitments, u \in Users \cup {Null}, i \in LeafIndex :
          /\ NextLeaf(db.creds, i) /\ \A j \in DOMAIN db.creds : db.creds[j].commitment # c
          /\ db'.creds = Upsert(db.creds, i,
                                [commitment |-> c, issuedTo |-> u, revoked |-> FALSE])
    BY <1>5 DEF IssuedFrom
  <2>2. i \in Nat /\ i < Width[0]
    BY TreeShape DEF LeafIndex
  <2>3. i = Cardinality(DOMAIN db.creds)
    BY <2>1, <2>2, NextOfDense DEF OneOpInv
  <2>4. Registry!Publish
    BY <1>3, RegistryOperators DEF Registry!Publish
  <2>5. /\ Registry!Cardinality(DOMAIN db.creds) = i /\ i < Width[0]
        /\ db'.creds = Registry!Upsert(db.creds, i,
                         [commitment |-> c, issuedTo |-> u, revoked |-> FALSE])
    BY <2>1, <2>2, <2>3, RegistryOperators
  <2>6. Registry!Issue(c, u)
    BY <2>1, <2>4, <2>5 DEF Registry!Issue
  <2> QED
    BY <2>6 DEF Registry!Next
<1>6. CASE RevokedFrom(db.creds, db'.creds, {})
  <2>1. PICK leaves : Asked(db.creds, leaves) /\ db'.creds = Removed(db.creds, leaves \ {})
    BY <1>6 DEF RevokedFrom
  <2>2. db'.creds = Removed(db.creds, leaves) /\ leaves # {}
    <3>1. leaves \ {} = leaves
      OBVIOUS
    <3> QED
      BY <2>1, <3>1 DEF Asked
  <2>3. Registry!Publish
    BY <1>3, RegistryOperators DEF Registry!Publish
  <2>4. Registry!Remove(leaves)
    BY <2>2, <2>3 DEF Registry!Remove, Removed
  <2>5. CASE \E i \in LeafIndex : leaves = {i} \cap Live(db.creds)
    BY <2>4, <2>5, RegistryOperators DEF Registry!Next, Registry!Revoke
  <2>6. CASE \E u \in Users : leaves = {i \in Live(db.creds) : db.creds[i].issuedTo = u}
    BY <2>4, <2>6, RegistryOperators DEF Registry!Next, Registry!RevokeForUser
  <2> QED
    BY <2>1, <2>5, <2>6 DEF Asked
<1> QED
  BY <1>1, <1>4, <1>5, <1>6 DEF OneOpInv, OneOp

\* RefinesRegistry: transactions of one operation implement a registry in which
\* issuing and revoking are single steps and the root always commits to exactly the
\* live credentials, at every depth, for any hash.
THEOREM TreeRefinesRegistry == ASSUME MaxOps <= 1 PROVE Spec => RefinesRegistry
<1>1. Init => Registry!Init
  BY RegistryOperators DEF Init, EmptyDB, CurrentRoot, CurrentRoots, Registry!Init, NoRows
<1>2. TreeInv /\ OneOpInv /\ [Next]_vars => [Registry!Next]_<<db.creds, CurrentRoot(db)>>
  <2> SUFFICES ASSUME TreeInv, OneOpInv, [Next]_vars
               PROVE  [Registry!Next]_<<db.creds, CurrentRoot(db)>>
    OBVIOUS
  <2>1. db' = db \/ \E w \in Writers : Commit(w)
    BY DEF Next, vars, txvars, Tick, Begin, Rollback, IssueFull, IssueConflict, IssueCredential,
           RevokeCredential, RevokeCredentialsForUser, StartRevoking, Start, RevokeNext,
           WriteNode, PublishRoot, ReadPath
  <2> QED
    BY <2>1, CommitIsOneStep
<1>3. TreeInv /\ OneOpInv /\ [Next]_vars => OneOpInv'
  BY OneOpStep
<1> QED
  BY <1>1, <1>2, <1>3, OneOpInit, TreeInvariant, PTL
     DEF Spec, RefinesRegistry, Registry!Spec, Registry!rvars

-----------------------------------------------------------------------------
(* Path, while writers publish. *)

SameNodes(t, s) == \A l \in Levels : \A i \in Positions(l) : Node(t, l, i) = Node(s, l, i)
TableMatches(t) == \A l \in Levels \ {0} : \A i \in Positions(l) :
                     Node(t, l, i) = Parent(t, l - 1, i)

\* The local variables of one call of Path have their types.
RowOK(row) ==
  /\ row = [pc |-> row.pc, index |-> row.index, commitment |-> row.commitment,
            attempt |-> row.attempt, root |-> row.root, siblings |-> row.siblings,
            snapshot |-> row.snapshot, moves |-> row.moves]
  /\ row.pc \in {"idle", "root", "walk", "done", "refused", "limited"}
  /\ row.index \in LeafIndex
  /\ row.commitment \in Commitments \cup {Null}
  /\ row.attempt \in 0..1 /\ row.moves \in 0..2
  /\ row.siblings = [l \in DOMAIN row.siblings |-> row.siblings[l]]
  /\ \E n \in 0..MerkleDepth : DOMAIN row.siblings = 0..(n - 1)

(* A walk began on a tree with the root it has read.  Until a root is       *)
(* published the committed nodes are those of that tree, and so are the     *)
(* siblings read so far; after the first the current root is another one,   *)
(* so a call that finds its root again has seen none or at least two.       *)
WalkInv(row) ==
  /\ row.pc \in {"walk", "done"} =>
       /\ TableMatches(row.snapshot)
       /\ row.root = Parent(row.snapshot, MerkleDepth - 1, 0)
       /\ row.moves = 0 =>
            \A l \in DOMAIN row.siblings :
              row.siblings[l] = Node(row.snapshot, l, Sibling(Ancestor(row.index)[l]))
  /\ row.pc = "walk" =>
       /\ row.moves = 0 => CurrentRoot(db) = row.root /\ SameNodes(db.nodes, row.snapshot)
       /\ row.moves = 1 => CurrentRoot(db) # row.root
  /\ row.pc = "done" => row.moves # 1 /\ DOMAIN row.siblings = Levels

ReadersOK == /\ reader = [r \in Readers |-> reader[r]]
             /\ \A r \in Readers : RowOK(reader[r])
WalksInv == \A r \in Readers : WalkInv(reader[r])

\* The loop variable is the number of siblings read.
LEMMA LevelIs ==
  ASSUME NEW r, NEW n \in Nat, DOMAIN reader[r].siblings = 0..(n - 1)
  PROVE  Level(r) = n
<1>1. Cardinality(0..(n - 1)) = n
  BY FS_Interval
<1> QED
  BY <1>1 DEF Level

\* A row made of parts that have their types.
MadeRow(p, i, c, a, rt, s, t, m) ==
  [pc |-> p, index |-> i, commitment |-> c, attempt |-> a, root |-> rt,
   siblings |-> s, snapshot |-> t, moves |-> m]
SiblingsOK(s) == /\ s = [l \in DOMAIN s |-> s[l]]
                 /\ \E n \in 0..MerkleDepth : DOMAIN s = 0..(n - 1)

LEMMA MadeRowOK ==
  ASSUME NEW p \in {"idle", "root", "walk", "done", "refused", "limited"},
         NEW i \in LeafIndex, NEW c \in Commitments \cup {Null}, NEW a \in 0..1,
         NEW m \in 0..2, NEW s, SiblingsOK(s), NEW rt, NEW t
  PROVE  /\ RowOK(MadeRow(p, i, c, a, rt, s, t, m))
         /\ MadeRow(p, i, c, a, rt, s, t, m).pc = p
         /\ MadeRow(p, i, c, a, rt, s, t, m).index = i
         /\ MadeRow(p, i, c, a, rt, s, t, m).root = rt
         /\ MadeRow(p, i, c, a, rt, s, t, m).siblings = s
         /\ MadeRow(p, i, c, a, rt, s, t, m).snapshot = t
         /\ MadeRow(p, i, c, a, rt, s, t, m).moves = m
<1> DEFINE row == MadeRow(p, i, c, a, rt, s, t, m)
<1>1. /\ row.pc = p /\ row.index = i /\ row.commitment = c /\ row.attempt = a
      /\ row.root = rt /\ row.siblings = s /\ row.snapshot = t /\ row.moves = m
  BY DEF MadeRow
<1>2. row = [pc |-> row.pc, index |-> row.index, commitment |-> row.commitment,
             attempt |-> row.attempt, root |-> row.root, siblings |-> row.siblings,
             snapshot |-> row.snapshot, moves |-> row.moves]
  BY DEF MadeRow
<1> HIDE DEF row
<1>3. RowOK(row)
  BY <1>1, <1>2 DEF RowOK, SiblingsOK
<1> QED
  BY <1>1, <1>3 DEF row

LEMMA RowParts ==
  ASSUME NEW row, RowOK(row)
  PROVE  /\ row = MadeRow(row.pc, row.index, row.commitment, row.attempt, row.root,
                          row.siblings, row.snapshot, row.moves)
         /\ row.pc \in {"idle", "root", "walk", "done", "refused", "limited"}
         /\ row.index \in LeafIndex /\ row.commitment \in Commitments \cup {Null}
         /\ row.attempt \in 0..1 /\ row.moves \in 0..2 /\ SiblingsOK(row.siblings)
BY DEF RowOK, MadeRow, SiblingsOK

\* Rows that calls start with, or are answered with.
LEMMA NoSiblings == SiblingsOK(NoRows) /\ DOMAIN NoRows = {}
<1>1. 0 \in 0..MerkleDepth /\ 0..(0 - 1) = {}
  BY TreeShape
<1>2. DOMAIN NoRows = 0..(0 - 1) /\ NoRows = [l \in DOMAIN NoRows |-> NoRows[l]]
  BY <1>1 DEF NoRows
<1> QED
  BY <1>1, <1>2 DEF SiblingsOK

LEMMA IdleRowOK ==
  /\ RowOK(IdleReader)
  /\ \A p \in {"refused", "limited"} : /\ RowOK([IdleReader EXCEPT !.pc = p])
                                       /\ [IdleReader EXCEPT !.pc = p].pc = p
<1>1. 0 \in LeafIndex
  BY TreeShape DEF LeafIndex
<1> DEFINE idle(p) == MadeRow(p, 0, Null, 0, zeros[MerkleDepth], NoRows, NoRows, 0)
<1>2. IdleReader = idle("idle") /\ \A p : [IdleReader EXCEPT !.pc = p] = idle(p)
  BY DEF IdleReader, MadeRow
<1>3. \A p \in {"idle", "refused", "limited"} : RowOK(idle(p)) /\ idle(p).pc = p
  BY <1>1, NoSiblings, MadeRowOK
<1> HIDE DEF idle
<1> QED
  BY <1>2, <1>3

\* The step of one call.
LEMMA ReaderStep ==
  ASSUME ReadersOK, NEW r \in Readers, NEW row, RowOK(row),
         reader' = [reader EXCEPT ![r] = row]
  PROVE  ReadersOK' /\ \A s \in Readers : reader'[s] = IF s = r THEN row ELSE reader[s]
<1>1. \A s \in Readers : reader'[s] = IF s = r THEN row ELSE reader[s]
  BY DEF ReadersOK
<1>2. reader' = [s \in Readers |-> reader'[s]]
  BY DEF ReadersOK
<1>3. \A s \in Readers : RowOK(reader'[s])
  BY <1>1 DEF ReadersOK
<1> QED
  BY <1>1, <1>2, <1>3 DEF ReadersOK, RowOK

\* The new row of each step of Path.
LEMMA ReadCredentialRow ==
  ASSUME TypeOK, NEW r \in Readers, NEW i \in LeafIndex, ReadCredential(r, i)
  PROVE  \E row : /\ reader' = [reader EXCEPT ![r] = row]
                  /\ RowOK(row) /\ row.pc = "root"
<1> DEFINE row == [IdleReader EXCEPT !.pc = "root", !.index = i,
                                     !.commitment = db.creds[i].commitment]
<1>1. db.creds[i].commitment \in Commitments
  BY DEF ReadCredential, Live, TypeOK, TablesOK, CredRows
<1>2. row = MadeRow("root", i, db.creds[i].commitment, 0, zeros[MerkleDepth], NoRows, NoRows, 0)
  <2> DEFINE a == [IdleReader EXCEPT !.pc = "root"]
             b == [a EXCEPT !.index = i]
             c == [b EXCEPT !.commitment = db.creds[i].commitment]
  <2>1. row = c
    OBVIOUS
  <2>2. a = MadeRow("root", 0, Null, 0, zeros[MerkleDepth], NoRows, NoRows, 0)
    BY DEF IdleReader, MadeRow
  <2> HIDE DEF a, row
  <2>3. b = MadeRow("root", i, Null, 0, zeros[MerkleDepth], NoRows, NoRows, 0)
    BY <2>2 DEF MadeRow
  <2> HIDE DEF b
  <2> QED
    BY <2>1, <2>3 DEF MadeRow
<1>3. reader' = [reader EXCEPT ![r] = row]
  BY DEF ReadCredential
<1> HIDE DEF row
<1>4. RowOK(row) /\ row.pc = "root"
  BY <1>1, <1>2, NoSiblings, MadeRowOK
<1> QED
  BY <1>3, <1>4

LEMMA ReadRootRow ==
  ASSUME ReadersOK, NEW r \in Readers, ReadRoot(r)
  PROVE  \E row : /\ reader' = [reader EXCEPT ![r] = row]
                  /\ RowOK(row) /\ row.pc = "walk" /\ row.root = CurrentRoot(db)
                  /\ row.snapshot = db.nodes /\ row.moves = 0 /\ DOMAIN row.siblings = {}
<1> DEFINE row == [reader[r] EXCEPT !.pc = "walk", !.root = CurrentRoot(db),
                     !.siblings = NoRows, !.snapshot = db.nodes, !.moves = 0]
<1>0. RowOK(reader[r]) /\ reader' = [reader EXCEPT ![r] = row]
  BY DEF ReadersOK, ReadRoot
<1>1. row = MadeRow("walk", reader[r].index, reader[r].commitment, reader[r].attempt,
                    CurrentRoot(db), NoRows, db.nodes, 0)
  <2> DEFINE o == reader[r]
             a == [o EXCEPT !.pc = "walk"]
             b == [a EXCEPT !.root = CurrentRoot(db)]
             c == [b EXCEPT !.siblings = NoRows]
             d == [c EXCEPT !.snapshot = db.nodes]
             e == [d EXCEPT !.moves = 0]
  <2>1. row = e
    OBVIOUS
  <2>2. o = MadeRow(o.pc, o.index, o.commitment, o.attempt, o.root, o.siblings,
                    o.snapshot, o.moves)
    BY <1>0, RowParts
  <2>3. a = MadeRow("walk", o.index, o.commitment, o.attempt, o.root, o.siblings,
                    o.snapshot, o.moves)
    BY <2>2 DEF MadeRow
  <2> HIDE DEF a, row
  <2>4. b = MadeRow("walk", o.index, o.commitment, o.attempt, CurrentRoot(db), o.siblings,
                    o.snapshot, o.moves)
    BY <2>3 DEF MadeRow
  <2> HIDE DEF b
  <2>5. c = MadeRow("walk", o.index, o.commitment, o.attempt, CurrentRoot(db), NoRows,
                    o.snapshot, o.moves)
    BY <2>4 DEF MadeRow
  <2> HIDE DEF c
  <2>6. d = MadeRow("walk", o.index, o.commitment, o.attempt, CurrentRoot(db), NoRows,
                    db.nodes, o.moves)
    BY <2>5 DEF MadeRow
  <2> HIDE DEF d
  <2> QED
    BY <2>1, <2>6 DEF MadeRow
<1> HIDE DEF row
<1>2. /\ RowOK(row) /\ row.pc = "walk" /\ row.root = CurrentRoot(db)
      /\ row.snapshot = db.nodes /\ row.moves = 0 /\ row.siblings = NoRows
  <2>1. /\ reader[r].pc \in {"idle", "root", "walk", "done", "refused", "limited"}
        /\ reader[r].index \in LeafIndex /\ reader[r].commitment \in Commitments \cup {Null}
        /\ reader[r].attempt \in 0..1 /\ reader[r].moves \in 0..2 /\ SiblingsOK(reader[r].siblings)
    BY <1>0, RowParts
  <2>2. 0 \in 0..2 /\ "walk" \in {"idle", "root", "walk", "done", "refused", "limited"}
    OBVIOUS
  <2>3. SiblingsOK(NoRows)
    BY NoSiblings
  <2>4. RowOK(row)
    BY <1>1, <2>1, <2>2, <2>3, MadeRowOK
  <2> QED
    BY <1>1, <2>4 DEF MadeRow
<1> QED
  BY <1>0, <1>2, NoSiblings

LEMMA ReadSiblingRow ==
  ASSUME ReadersOK, NEW r \in Readers, ReadSibling(r)
  PROVE  \E row : /\ reader' = [reader EXCEPT ![r] = row]
                  /\ RowOK(row) /\ Level(r) \in Levels
                  /\ row.pc = reader[r].pc /\ row.index = reader[r].index
                  /\ row.root = reader[r].root /\ row.snapshot = reader[r].snapshot
                  /\ row.moves = reader[r].moves
                  /\ DOMAIN row.siblings = DOMAIN reader[r].siblings \cup {Level(r)}
                  /\ \A l \in DOMAIN row.siblings : row.siblings[l] =
                       IF l = Level(r)
                       THEN Node(db.nodes, l, Sibling(Ancestor(reader[r].index)[l]))
                       ELSE reader[r].siblings[l]
<1> DEFINE old == reader[r]
           l == Level(r)
           sibs == Upsert(old.siblings, l, Node(db.nodes, l, Sibling(Ancestor(old.index)[l])))
           row == [old EXCEPT !.siblings = sibs]
<1>0. RowOK(old)
  BY DEF ReadersOK
<1>1. reader' = [reader EXCEPT ![r] = row]
  BY DEF ReadSibling, ReadersOK
<1>2. PICK n \in 0..MerkleDepth : DOMAIN old.siblings = 0..(n - 1)
  BY <1>0 DEF RowOK
<1>3. MerkleDepth \in Nat /\ n \in Nat
  BY <1>2, TreeShape
<1>4. l = n /\ l \in Levels /\ l + 1 \in 0..MerkleDepth
  <2>1. l = n
    BY <1>2, <1>3, LevelIs
  <2>2. l < MerkleDepth
    BY DEF ReadSibling
  <2> QED
    BY <1>3, <2>1, <2>2 DEF Levels
<1>5. DOMAIN sibs = DOMAIN old.siblings \cup {l}
  BY DEF Upsert
<1>6. 0..(n - 1) \cup {n} = 0..((n + 1) - 1)
  BY <1>3
<1>7. DOMAIN sibs = 0..((n + 1) - 1)
  BY <1>2, <1>4, <1>5, <1>6
<1>8. sibs = [k \in DOMAIN sibs |-> sibs[k]]
  BY DEF Upsert
<1>9. \A k \in DOMAIN sibs : sibs[k] =
        IF k = l THEN Node(db.nodes, k, Sibling(Ancestor(old.index)[k])) ELSE old.siblings[k]
  BY DEF Upsert
<1> HIDE DEF sibs, l
<1>10. row = MadeRow(old.pc, old.index, old.commitment, old.attempt, old.root, sibs,
                     old.snapshot, old.moves)
  BY <1>0 DEF RowOK, MadeRow
<1> HIDE DEF row
<1>11. SiblingsOK(sibs)
  BY <1>4, <1>7, <1>8 DEF SiblingsOK
<1>12. /\ RowOK(row) /\ row.pc = old.pc /\ row.index = old.index /\ row.root = old.root
       /\ row.snapshot = old.snapshot /\ row.moves = old.moves /\ row.siblings = sibs
  <2>1. /\ old.pc \in {"idle", "root", "walk", "done", "refused", "limited"}
        /\ old.index \in LeafIndex /\ old.commitment \in Commitments \cup {Null}
        /\ old.attempt \in 0..1 /\ old.moves \in 0..2 /\ SiblingsOK(old.siblings)
    BY <1>0, RowParts
  <2> QED
    BY <1>10, <1>11, <2>1, MadeRowOK
<1> QED
  BY <1>1, <1>4, <1>5, <1>9, <1>12 DEF l

LEMMA RootUnmovedRow ==
  ASSUME ReadersOK, NEW r \in Readers, RootUnmoved(r)
  PROVE  \E row : /\ reader' = [reader EXCEPT ![r] = row]
                  /\ RowOK(row) /\ row.pc = "done" /\ row.index = reader[r].index
                  /\ row.root = reader[r].root /\ row.snapshot = reader[r].snapshot
                  /\ row.moves = reader[r].moves /\ row.siblings = reader[r].siblings
                  /\ DOMAIN row.siblings = Levels
<1> DEFINE old == reader[r]
           row == [old EXCEPT !.pc = "done"]
<1>0. RowOK(old) /\ reader' = [reader EXCEPT ![r] = row]
  BY DEF ReadersOK, RootUnmoved
<1>1. PICK n \in 0..MerkleDepth : DOMAIN old.siblings = 0..(n - 1)
  BY <1>0 DEF RowOK
<1>2. DOMAIN old.siblings = Levels
  <2>1. n \in Nat
    BY <1>1, TreeShape
  <2>2. Level(r) = n /\ Level(r) = MerkleDepth
    BY <1>1, <2>1, LevelIs DEF RootUnmoved
  <2> QED
    BY <1>1, <2>2 DEF Levels
<1>3. row = MadeRow("done", old.index, old.commitment, old.attempt, old.root, old.siblings,
                    old.snapshot, old.moves)
  BY <1>0 DEF RowOK, MadeRow
<1> HIDE DEF row
<1>4. /\ RowOK(row) /\ row.pc = "done" /\ row.index = old.index /\ row.root = old.root
      /\ row.snapshot = old.snapshot /\ row.moves = old.moves
      /\ row.siblings = old.siblings
  <2>1. /\ old.pc \in {"idle", "root", "walk", "done", "refused", "limited"}
        /\ old.index \in LeafIndex /\ old.commitment \in Commitments \cup {Null}
        /\ old.attempt \in 0..1 /\ old.moves \in 0..2 /\ SiblingsOK(old.siblings)
    BY <1>0, RowParts
  <2>2. "done" \in {"idle", "root", "walk", "done", "refused", "limited"}
    OBVIOUS
  <2>3. RowOK(row)
    BY <1>3, <2>1, <2>2, MadeRowOK
  <2> QED
    BY <1>3, <2>3 DEF MadeRow
<1> QED
  BY <1>0, <1>2, <1>4

LEMMA RootMovedRow ==
  ASSUME ReadersOK, NEW r \in Readers, RootMoved(r)
  PROVE  \E row : /\ reader' = [reader EXCEPT ![r] = row]
                  /\ RowOK(row) /\ row.pc \in {"root", "limited"}
<1> DEFINE old == reader[r]
           row == [old EXCEPT !.pc = "root", !.attempt = 1]
<1>0. RowOK(old)
  BY DEF ReadersOK
<1>1. CASE old.attempt = 0
  <2>1. row = MadeRow("root", old.index, old.commitment, 1, old.root, old.siblings,
                      old.snapshot, old.moves)
    <3> DEFINE a == [old EXCEPT !.pc = "root"]
               b == [a EXCEPT !.attempt = 1]
    <3>1. row = b
      OBVIOUS
    <3>2. a = MadeRow("root", old.index, old.commitment, old.attempt, old.root, old.siblings,
                      old.snapshot, old.moves)
      BY <1>0, RowParts DEF MadeRow
    <3> HIDE DEF a, row
    <3> QED
      BY <3>1, <3>2 DEF MadeRow
  <2>2. reader' = [reader EXCEPT ![r] = row]
    BY <1>1 DEF RootMoved, ReadersOK
  <2> HIDE DEF row
  <2>3. RowOK(row) /\ row.pc = "root"
    BY <1>0, <2>1, RowParts, MadeRowOK
  <2> QED
    BY <2>2, <2>3
<1>2. CASE old.attempt # 0
  <2>1. reader' = [reader EXCEPT ![r] = [IdleReader EXCEPT !.pc = "limited"]]
    BY <1>2 DEF RootMoved, Answer
  <2> QED
    BY <2>1, IdleRowOK
<1> QED
  BY <1>1, <1>2

LEMMA RefuseRow ==
  ASSUME NEW r \in Readers, NEW i, Refuse(r, i)
  PROVE  \E row : /\ reader' = [reader EXCEPT ![r] = row]
                  /\ RowOK(row) /\ row.pc = "refused"
<1>1. reader' = [reader EXCEPT ![r] = [IdleReader EXCEPT !.pc = "refused"]]
  BY DEF Refuse, Answer
<1> QED
  BY <1>1, IdleRowOK

\* What a writer's step does to the row of a walk.
LEMMA TreeNextRow ==
  ASSUME ReadersOK, TreeNext, NEW r \in Readers
  PROVE  /\ RowOK(reader'[r])
         /\ reader'[r].pc = reader[r].pc /\ reader'[r].index = reader[r].index
         /\ reader'[r].root = reader[r].root /\ reader'[r].snapshot = reader[r].snapshot
         /\ reader'[r].siblings = reader[r].siblings
         /\ reader'[r].moves =
              IF reader[r].pc = "walk" /\ CurrentRoot(db') # CurrentRoot(db)
              THEN Min2(reader[r].moves + 1) ELSE reader[r].moves
<1> DEFINE old == reader[r]
           row == [old EXCEPT !.moves = Min2(old.moves + 1)]
<1>0. RowOK(old) /\ Min2(old.moves + 1) \in 0..2
  BY DEF ReadersOK, RowOK, Min2
<1>1. reader'[r] = IF old.pc = "walk" /\ CurrentRoot(db') # CurrentRoot(db)
                   THEN row ELSE old
  BY DEF TreeNext
<1>2. row = MadeRow(old.pc, old.index, old.commitment, old.attempt, old.root, old.siblings,
                    old.snapshot, Min2(old.moves + 1))
  BY <1>0 DEF RowOK, MadeRow
<1> HIDE DEF row
<1>3. /\ RowOK(row) /\ row.pc = old.pc /\ row.index = old.index /\ row.root = old.root
      /\ row.snapshot = old.snapshot /\ row.siblings = old.siblings
      /\ row.moves = Min2(old.moves + 1)
  <2>1. /\ old.pc \in {"idle", "root", "walk", "done", "refused", "limited"}
        /\ old.index \in LeafIndex /\ old.commitment \in Commitments \cup {Null}
        /\ old.attempt \in 0..1 /\ old.moves \in 0..2 /\ SiblingsOK(old.siblings)
    BY <1>0, RowParts
  <2> QED
    BY <1>0, <1>2, <2>1, MadeRowOK
<1> QED
  BY <1>0, <1>1, <1>3

\* Without collisions two trees with one root have the same nodes.
LEMMA SameRootSameNodes ==
  ASSUME CollisionFree, NEW t, TableMatches(t), NEW s, TableMatches(s),
         Parent(t, MerkleDepth - 1, 0) = Parent(s, MerkleDepth - 1, 0)
  PROVE  SameNodes(t, s)
<1>1. Folds(Labels(t)) /\ Folds(Labels(s))
  BY TableFolds DEF TableMatches
<1>2. Labels(t)[MerkleDepth][0] = Labels(s)[MerkleDepth][0]
  BY LabelsOfTable
<1>3. \A l \in 0..MerkleDepth : \A i \in Positions(l) : Labels(t)[l][i] = Labels(s)[l][i]
  BY <1>1, <1>2, SameTop
<1>4. \A l \in Levels : l \in 0..MerkleDepth
  BY TreeShape DEF Levels
<1> QED
  BY <1>3, <1>4, LabelsOfTable DEF SameNodes

\* The committed tree has the form of a snapshot.
LEMMA CommittedMatches ==
  ASSUME TreeInv
  PROVE  TableMatches(db.nodes) /\ CurrentRoot(db) = Parent(db.nodes, MerkleDepth - 1, 0)
BY DEF TreeInv, TreeIsConsistent, Consistent, NodesFold, RootFolds, TableMatches

\* The readers keep their types.
LEMMA ReadersStep == TypeOK /\ ReadersOK /\ [PathNext]_pvars => ReadersOK'
<1> SUFFICES ASSUME TypeOK, ReadersOK, [PathNext]_pvars PROVE ReadersOK'
  OBVIOUS
<1>1. CASE UNCHANGED pvars
  BY <1>1 DEF pvars, ReadersOK, RowOK
<1>2. CASE TreeNext
  <2>1. reader' = [r \in Readers |-> reader'[r]]
    BY <1>2 DEF TreeNext
  <2>2. \A r \in Readers : RowOK(reader'[r])
    BY <1>2, TreeNextRow
  <2> QED
    BY <2>1, <2>2 DEF ReadersOK, RowOK
<1>3. ASSUME NEW r \in Readers, NEW row, RowOK(row), reader' = [reader EXCEPT ![r] = row]
      PROVE  ReadersOK'
  BY <1>3, ReaderStep
<1>4. ASSUME NEW r \in Readers, NEW i \in LeafIndex, Refuse(r, i) \/ ReadCredential(r, i)
      PROVE  ReadersOK'
  BY <1>3, <1>4, RefuseRow, ReadCredentialRow
<1>5. ASSUME NEW r \in Readers, ReadRoot(r) PROVE ReadersOK'
  BY <1>3, <1>5, ReadRootRow
<1>6. ASSUME NEW r \in Readers, ReadSibling(r) PROVE ReadersOK'
  BY <1>3, <1>6, ReadSiblingRow
<1>7. ASSUME NEW r \in Readers, RootUnmoved(r) PROVE ReadersOK'
  BY <1>3, <1>7, RootUnmovedRow
<1>8. ASSUME NEW r \in Readers, RootMoved(r) PROVE ReadersOK'
  BY <1>3, <1>8, RootMovedRow
<1> QED
  BY <1>1, <1>2, <1>4, <1>5, <1>6, <1>7, <1>8 DEF PathNext

LEMMA ReadersInit == PathInit => ReadersOK
<1> SUFFICES ASSUME PathInit PROVE ReadersOK
  OBVIOUS
<1>1. reader = [r \in Readers |-> IdleReader]
  BY DEF PathInit
<1>2. \A r \in Readers : RowOK(reader[r])
  BY <1>1, IdleRowOK
<1> QED
  BY <1>1, <1>2 DEF ReadersOK

\* The writers beside the readers are those of MembershipTree.
LEMMA PathSpecImpliesSpec == PathSpec => Spec
<1>1. PathInit => Init
  BY DEF PathInit
<1>2. [PathNext]_pvars => [Next]_vars
  BY DEF PathNext, TreeNext, pvars
<1> QED
  BY <1>1, <1>2, PTL DEF PathSpec, Spec

LEMMA ReadersInvariant == PathSpec => []ReadersOK
<1>1. TypeOK /\ ReadersOK /\ [PathNext]_pvars => ReadersOK'
  BY ReadersStep
<1> QED
  BY <1>1, ReadersInit, PathSpecImpliesSpec, TypeCorrect, PTL DEF PathSpec

\* ReaderTypeOK: every call of Path keeps its types, and its loop reads the levels
\* bottom up and never past the top.
THEOREM ReadersTyped == PathSpec => []ReaderTypeOK
<1>1. ReadersOK => ReaderTypeOK
  <2> SUFFICES ASSUME ReadersOK, NEW r \in Readers
               PROVE  /\ reader[r].pc \in {"idle", "root", "walk", "done", "refused", "limited"}
                      /\ reader[r].index \in LeafIndex
                      /\ reader[r].commitment \in Commitments \cup {Null}
                      /\ reader[r].attempt \in 0..1 /\ reader[r].moves \in 0..2
                      /\ DOMAIN reader[r].siblings = 0..(Level(r) - 1)
                      /\ Level(r) <= MerkleDepth
    BY DEF ReaderTypeOK
  <2>1. RowOK(reader[r])
    BY DEF ReadersOK
  <2>2. PICK n \in 0..MerkleDepth : DOMAIN reader[r].siblings = 0..(n - 1)
    BY <2>1 DEF RowOK
  <2>3. n \in Nat /\ n <= MerkleDepth
    BY <2>2, TreeShape
  <2>4. Level(r) = n
    BY <2>2, <2>3, LevelIs
  <2> QED
    BY <2>1, <2>2, <2>3, <2>4 DEF RowOK
<1> QED
  BY <1>1, ReadersInvariant, PTL

\* A step of a writer or the clock, seen by a walk.
LEMMA TreeNextWalk ==
  ASSUME CollisionFree, TreeInv, TreeInv', ReadersOK, WalksInv, TreeNext, NEW r \in Readers
  PROVE  WalkInv(reader[r])'
<1> DEFINE old == reader[r]
           new == reader'[r]
<1>1. /\ new.pc = old.pc /\ new.index = old.index /\ new.root = old.root
      /\ new.snapshot = old.snapshot /\ new.siblings = old.siblings
      /\ new.moves = IF old.pc = "walk" /\ CurrentRoot(db') # CurrentRoot(db)
                     THEN Min2(old.moves + 1) ELSE old.moves
  BY TreeNextRow
<1>2. WalkInv(old) /\ old.moves \in 0..2
  BY DEF WalksInv, ReadersOK, RowOK
<1>3. TableMatches(db'.nodes) /\ CurrentRoot(db') = Parent(db'.nodes, MerkleDepth - 1, 0)
  BY DEF TreeInv, TreeIsConsistent, Consistent, NodesFold, RootFolds, TableMatches
<1>4. new.pc = "walk" /\ new.moves = 0 =>
        CurrentRoot(db') = new.root /\ SameNodes(db'.nodes, new.snapshot)
  <2> SUFFICES ASSUME new.pc = "walk", new.moves = 0
               PROVE  CurrentRoot(db') = new.root /\ SameNodes(db'.nodes, new.snapshot)
    OBVIOUS
  <2>1. CurrentRoot(db') = CurrentRoot(db) /\ old.moves = 0
    BY <1>1, <1>2 DEF Min2
  <2>2. CurrentRoot(db') = new.root
    BY <1>1, <1>2, <2>1 DEF WalkInv
  <2>3. TableMatches(new.snapshot) /\ new.root = Parent(new.snapshot, MerkleDepth - 1, 0)
    BY <1>1, <1>2 DEF WalkInv
  <2> QED
    BY <1>3, <2>2, <2>3, SameRootSameNodes
<1>5. new.pc = "walk" /\ new.moves = 1 => CurrentRoot(db') # new.root
  <2> SUFFICES ASSUME new.pc = "walk", new.moves = 1 PROVE CurrentRoot(db') # new.root
    OBVIOUS
  <2>1. CASE CurrentRoot(db') # CurrentRoot(db)
    <3>1. old.moves = 0
      BY <1>1, <1>2, <2>1 DEF Min2
    <3> QED
      BY <1>1, <1>2, <2>1, <3>1 DEF WalkInv
  <2>2. CASE CurrentRoot(db') = CurrentRoot(db)
    BY <1>1, <1>2, <2>2 DEF WalkInv
  <2> QED
    BY <2>1, <2>2
<1>6. new.moves = 0 => old.moves = 0
  BY <1>1, <1>2 DEF Min2
<1>7. new.pc \in {"walk", "done"} =>
        /\ TableMatches(new.snapshot)
        /\ new.root = Parent(new.snapshot, MerkleDepth - 1, 0)
        /\ new.moves = 0 =>
             \A l \in DOMAIN new.siblings :
               new.siblings[l] = Node(new.snapshot, l, Sibling(Ancestor(new.index)[l]))
  BY <1>1, <1>2, <1>6 DEF WalkInv
<1>8. new.pc = "done" => new.moves # 1 /\ DOMAIN new.siblings = Levels
  BY <1>1, <1>2 DEF WalkInv
<1> QED
  BY <1>4, <1>5, <1>7, <1>8 DEF WalkInv, SameNodes, TableMatches

\* The row of a call changes while the tables stay.
LEMMA WalkReaderStep ==
  ASSUME ReadersOK, WalksInv, UNCHANGED vars, NEW r \in Readers, NEW row, RowOK(row),
         reader' = [reader EXCEPT ![r] = row], WalkInv(row)
  PROVE  WalksInv'
<1>1. \A s \in Readers : reader'[s] = IF s = r THEN row ELSE reader[s]
  BY ReaderStep
<1>2. db' = db
  BY DEF vars
<1>3. \A s \in Readers : WalkInv(reader'[s])
  BY <1>1 DEF WalksInv
<1>4. ASSUME NEW s \in Readers PROVE WalkInv(reader[s])'
  <2>1. WalkInv(reader'[s])
    BY <1>3
  <2> QED
    BY <1>2, <2>1 DEF WalkInv, SameNodes, TableMatches
<1> QED
  BY <1>4 DEF WalksInv

LEMMA WalksStep ==
  ASSUME CollisionFree
  PROVE  TreeInv /\ TreeInv' /\ ReadersOK /\ WalksInv /\ [PathNext]_pvars => WalksInv'
<1> SUFFICES ASSUME TreeInv, TreeInv', ReadersOK, WalksInv, [PathNext]_pvars PROVE WalksInv'
  OBVIOUS
<1>0. \A r \in Readers : RowOK(reader[r]) /\ WalkInv(reader[r])
  BY DEF ReadersOK, WalksInv
<1>1. CASE UNCHANGED pvars
  BY <1>1 DEF pvars, vars, WalksInv, WalkInv, SameNodes, TableMatches
<1>2. CASE TreeNext
  BY <1>2, TreeNextWalk DEF WalksInv
<1>3. ASSUME UNCHANGED vars, NEW r \in Readers, NEW row, RowOK(row),
             reader' = [reader EXCEPT ![r] = row],
             row.pc \notin {"walk", "done"}
      PROVE  WalksInv'
  BY <1>3, WalkReaderStep DEF WalkInv
<1>4. ASSUME UNCHANGED vars, NEW r \in Readers, NEW i \in LeafIndex,
             Refuse(r, i) \/ ReadCredential(r, i)
      PROVE  WalksInv'
  <2>1. PICK row : RowOK(row) /\ reader' = [reader EXCEPT ![r] = row]
                   /\ row.pc \notin {"walk", "done"}
    BY <1>4, RefuseRow, ReadCredentialRow DEF TreeInv
  <2> QED
    BY <1>3, <1>4, <2>1
<1>5. ASSUME UNCHANGED vars, NEW r \in Readers, ReadRoot(r) PROVE WalksInv'
  <2>1. PICK row : /\ reader' = [reader EXCEPT ![r] = row]
                   /\ RowOK(row) /\ row.pc = "walk" /\ row.root = CurrentRoot(db)
                   /\ row.snapshot = db.nodes /\ row.moves = 0 /\ DOMAIN row.siblings = {}
    BY <1>5, ReadRootRow
  <2>2. WalkInv(row)
    BY <2>1, CommittedMatches DEF WalkInv, SameNodes
  <2> QED
    BY <1>5, <2>1, <2>2, WalkReaderStep
<1>6. ASSUME UNCHANGED vars, NEW r \in Readers, ReadSibling(r) PROVE WalksInv'
  <2> DEFINE old == reader[r]
             n == Level(r)
  <2>1. PICK row :
          /\ reader' = [reader EXCEPT ![r] = row]
          /\ RowOK(row) /\ n \in Levels
          /\ row.pc = old.pc /\ row.index = old.index
          /\ row.root = old.root /\ row.snapshot = old.snapshot
          /\ row.moves = old.moves
          /\ DOMAIN row.siblings = DOMAIN old.siblings \cup {n}
          /\ \A l \in DOMAIN row.siblings : row.siblings[l] =
               IF l = n THEN Node(db.nodes, l, Sibling(Ancestor(old.index)[l]))
                        ELSE old.siblings[l]
    BY <1>6, ReadSiblingRow
  <2>2. old.pc = "walk" /\ WalkInv(old) /\ old.index \in LeafIndex
    BY <1>0, <1>6 DEF ReadSibling, RowOK
  <2>3. Sibling(Ancestor(old.index)[n]) \in Positions(n)
    <3>1. n \in 0..MerkleDepth
      BY <2>1, TreeShape DEF Levels
    <3> QED
      BY <2>1, <2>2, <3>1, AncestorIsPosition, SiblingIsPosition
  <2> HIDE DEF n, old
  <2>4. ASSUME row.moves = 0, NEW l \in DOMAIN row.siblings
        PROVE  row.siblings[l] = Node(row.snapshot, l, Sibling(Ancestor(row.index)[l]))
    <3>1. CASE l = n
      <4>1. SameNodes(db.nodes, old.snapshot)
        BY <2>1, <2>2, <2>4 DEF WalkInv
      <4> QED
        BY <2>1, <2>3, <3>1, <4>1 DEF SameNodes
    <3>2. CASE l # n
      BY <2>1, <2>2, <2>4, <3>2 DEF WalkInv
    <3> QED
      BY <3>1, <3>2
  <2>5. WalkInv(row)
    BY <2>1, <2>2, <2>4 DEF WalkInv
  <2> QED
    BY <1>6, <2>1, <2>5, WalkReaderStep
<1>7. ASSUME UNCHANGED vars, NEW r \in Readers, RootUnmoved(r) PROVE WalksInv'
  <2>1. PICK row : /\ reader' = [reader EXCEPT ![r] = row]
                   /\ RowOK(row) /\ row.pc = "done" /\ row.index = reader[r].index
                   /\ row.root = reader[r].root /\ row.snapshot = reader[r].snapshot
                   /\ row.moves = reader[r].moves /\ row.siblings = reader[r].siblings
                   /\ DOMAIN row.siblings = Levels
    BY <1>7, RootUnmovedRow
  <2>2. reader[r].pc = "walk" /\ CurrentRoot(db) = reader[r].root
    BY <1>7 DEF RootUnmoved
  <2>3. WalkInv(row)
    BY <1>0, <2>1, <2>2 DEF WalkInv
  <2> QED
    BY <1>7, <2>1, <2>3, WalkReaderStep
<1>8. ASSUME UNCHANGED vars, NEW r \in Readers, RootMoved(r) PROVE WalksInv'
  <2>1. PICK row : RowOK(row) /\ reader' = [reader EXCEPT ![r] = row]
                   /\ row.pc \notin {"walk", "done"}
    BY <1>8, RootMovedRow
  <2> QED
    BY <1>3, <1>8, <2>1
<1> QED
  BY <1>1, <1>2, <1>4, <1>5, <1>6, <1>7, <1>8 DEF PathNext

LEMMA WalksInvariant == ASSUME CollisionFree PROVE PathSpec => [](ReadersOK /\ WalksInv)
<1>1. PathInit => WalksInv
  <2> SUFFICES ASSUME PathInit, NEW r \in Readers PROVE WalkInv(reader[r])
    BY DEF WalksInv
  <2>1. reader[r].pc = "idle"
    BY DEF PathInit, IdleReader
  <2> QED
    BY <2>1 DEF WalkInv
<1>2. TreeInv /\ TreeInv' /\ ReadersOK /\ WalksInv /\ [PathNext]_pvars => WalksInv'
  BY WalksStep
<1> QED
  BY <1>1, <1>2, ReadersInvariant, PathSpecImpliesSpec, TreeInvariant, PTL DEF PathSpec

\* MixedPathTookTwoMoves: comparing the root before and after a walk hides no single
\* publication: a path with siblings of two trees took the root away and back.
THEOREM MixedPathsTookTwoMoves == ASSUME CollisionFree PROVE PathSpec => []MixedPathTookTwoMoves
<1>1. ReadersOK /\ WalksInv => MixedPathTookTwoMoves
  <2> SUFFICES ASSUME ReadersOK, WalksInv, NEW r \in Readers,
                      reader[r].pc = "done", reader[r].moves # 2
               PROVE  ~ Mixed(r)
    BY DEF MixedPathTookTwoMoves
  <2>1. RowOK(reader[r]) /\ WalkInv(reader[r])
    BY DEF ReadersOK, WalksInv
  <2>2. reader[r].moves = 0 /\ DOMAIN reader[r].siblings = Levels
    BY <2>1 DEF RowOK, WalkInv
  <2>3. \A l \in Levels : reader[r].siblings[l]
          = Node(reader[r].snapshot, l, Sibling(Ancestor(reader[r].index)[l]))
    BY <2>1, <2>2 DEF WalkInv
  <2>4. reader[r].siblings = [l \in Levels |-> reader[r].siblings[l]]
    BY <2>1, <2>2 DEF RowOK
  <2>5. reader[r].siblings = SiblingsOf(reader[r].snapshot, reader[r].index)
    BY <2>3, <2>4 DEF SiblingsOf
  <2> QED
    BY <2>5 DEF Mixed
<1> QED
  BY <1>1, WalksInvariant, PTL

\* QuietPathVerifies: a path read while no root was published verifies against the
\* root it names, though writers are half way through their own walks, exactly when
\* its leaf was still in the tree as the walk began.
THEOREM QuietPathsVerify == ASSUME CollisionFree PROVE PathSpec => []QuietPathVerifies
<1>1. ReadersOK /\ WalksInv /\ MixedPathTookTwoMoves => QuietPathVerifies
  <2> SUFFICES ASSUME ReadersOK, WalksInv, MixedPathTookTwoMoves, NEW r \in Readers,
                      reader[r].pc = "done", reader[r].moves = 0
               PROVE  PathVerifies(r) <=>
                        Node(reader[r].snapshot, 0, reader[r].index)
                          = LeafHash(reader[r].commitment)
    BY DEF QuietPathVerifies
  <2> DEFINE d == [nodes |-> reader[r].snapshot]
             node == Labels(d.nodes)
  <2>1. RowOK(reader[r]) /\ WalkInv(reader[r])
    BY DEF ReadersOK, WalksInv
  <2>2. reader[r].siblings = SiblingsOf(reader[r].snapshot, reader[r].index)
    BY DEF MixedPathTookTwoMoves, Mixed
  <2>3. d.nodes = reader[r].snapshot
    OBVIOUS
  <2> HIDE DEF d
  <2>4. NodesFold(d) /\ reader[r].root = Parent(d.nodes, MerkleDepth - 1, 0)
        /\ reader[r].index \in LeafIndex
    BY <2>1, <2>3 DEF WalkInv, TableMatches, NodesFold, RowOK
  <2>5. ASSUME Node(d.nodes, 0, reader[r].index) = LeafHash(reader[r].commitment)
        PROVE  PathVerifies(r)
    <3>1. PathRoot(reader[r]) = Parent(d.nodes, MerkleDepth - 1, 0)
      BY <2>2, <2>3, <2>4, <2>5, TablePathVerifies
    <3> QED
      BY <2>4, <3>1 DEF PathVerifies
  <2>6. ASSUME PathVerifies(r)
        PROVE  Node(d.nodes, 0, reader[r].index) = LeafHash(reader[r].commitment)
    <3>1. Folds(node)
      BY <2>4, TableFolds DEF NodesFold
    <3>2. node[MerkleDepth][0] = Parent(d.nodes, MerkleDepth - 1, 0)
      BY LabelsOfTable
    <3>3. node[0][reader[r].index] = Node(d.nodes, 0, reader[r].index)
      <4>1. 0 \in Levels /\ reader[r].index \in Positions(0)
        BY <2>4, TreeShape DEF Levels, Positions, LeafIndex
      <4> QED
        BY <4>1, LabelsOfTable
    <3>4. PathRoot(reader[r]) = node[MerkleDepth][0]
      BY <2>4, <2>6, <3>2 DEF PathVerifies
    <3> HIDE DEF node
    <3> QED
      BY <2>4, <3>1, <3>3, <3>4, VerifyingPathIsTheTrees
  <2> QED
    BY <2>3, <2>5, <2>6
<1> QED
  BY <1>1, WalksInvariant, MixedPathsTookTwoMoves, PTL
=============================================================================
