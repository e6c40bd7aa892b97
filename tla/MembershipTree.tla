--------------------------- MODULE MembershipTree ---------------------------
(***************************************************************************)
(* The writers of the credential tree (zkauthn/tree.go, sql.go):           *)
(* IssueCredential, RevokeCredential and RevokeCredentialsForUser, each    *)
(* run by any replica inside a PostgreSQL transaction, its own or the     *)
(* caller's (withTx).  Every one takes the advisory lock first, rewrites   *)
(* the nodes from its leaf to the top one level at a time, and publishes a *)
(* root.  Nothing is seen by others before Commit; any statement can fail, *)
(* which rolls the transaction back.                                       *)
(*                                                                         *)
(* A transaction's view of the tables is a copy taken with the lock: at    *)
(* READ COMMITTED its later statements see the same rows, for only a      *)
(* holder of that lock writes these tables and the lock is kept to the end *)
(* of the transaction.                                                     *)
(***************************************************************************)
EXTENDS SparseMerkle

CONSTANTS
  Writers,       \* transactions that mutate the tree
  Users,         \* auth_users ids a credential can be linked to
  Commitments,   \* commitments that issuers draw; the column is unique
  Null,          \* SQL null
  RootGrace,     \* revocation latency allowance, in ticks
  MaxTime,       \* bound: the clock stops here
  MaxOps         \* bound: operations one transaction runs

ASSUME Bounds == /\ RootGrace \in Nat /\ MaxTime \in Nat /\ MaxOps \in Nat
                 /\ Null \notin Writers

VARIABLES
  now,      \* the database clock
  db,       \* the committed tables: [creds, nodes, roots]
  lock,     \* holder of the advisory lock, or Null
  pc,       \* where each transaction stands
  start,    \* now() of each transaction: the time it began
  ops,      \* operations it has started
  work,     \* the tables as the transaction sees them
  todo,     \* leaves RevokeCredential(sForUser) has still to remove
  at,       \* writeLeaf's parameters and loop variables
  got,      \* the path IssueCredential has read, or Null
  goneAt    \* history: when the revocation of each leaf was committed

txvars == <<pc, start, ops, work, todo, at, got>>
vars == <<now, db, lock, txvars, goneAt>>

NotRetired == -1        \* retired_at is null; also goneAt of a live leaf
EmptyDB == [creds |-> NoRows, nodes |-> NoRows, roots |-> NoRows]
NoWalk  == [index |-> 0, empty |-> TRUE, level |-> 0, pos |-> 0, cur |-> zeros[0]]

WithCreds(d, creds) == [creds |-> creds, nodes |-> d.nodes, roots |-> d.roots]
WithNodes(d, nodes) == [creds |-> d.creds, nodes |-> nodes, roots |-> d.roots]
WithRoots(d, roots) == [creds |-> d.creds, nodes |-> d.nodes, roots |-> roots]

(* auth_zk_roots: root -> [retired, leaves]; leaves is history, the live  *)
(* leaves the root was last published for.                                 *)
CurrentRoots(d) == {r \in DOMAIN d.roots : d.roots[r].retired = NotRetired}
CurrentRoot(d) == IF CurrentRoots(d) = {} THEN zeros[MerkleDepth]
                  ELSE CHOOSE r \in CurrentRoots(d) : TRUE

(* Mutant of RootAccepted: the last instant of the window is inside it. *)
RootAcceptedLonger(d, r) ==
  /\ r \in DOMAIN d.roots
  /\ \/ d.roots[r].retired = NotRetired
     \/ RootGrace > 0 /\ d.roots[r].retired >= now - RootGrace

RootAccepted(d, r) ==
  /\ r \in DOMAIN d.roots
  /\ \/ d.roots[r].retired = NotRetired
     \/ RootGrace > 0 /\ d.roots[r].retired > now - RootGrace

Init ==
  /\ now = 0 /\ db = EmptyDB /\ lock = Null
  /\ pc = [w \in Writers |-> "idle"]
  /\ start = [w \in Writers |-> 0]
  /\ ops = [w \in Writers |-> 0]
  /\ work = [w \in Writers |-> EmptyDB]
  /\ todo = [w \in Writers |-> {}]
  /\ at = [w \in Writers |-> NoWalk]
  /\ got = [w \in Writers |-> Null]
  /\ goneAt = [i \in LeafIndex |-> NotRetired]

Tick == now < MaxTime /\ now' = now + 1 /\ UNCHANGED <<db, lock, txvars, goneAt>>

-----------------------------------------------------------------------------
(* Transactions. *)

Begin(w) ==
  /\ pc[w] = "idle"
  /\ pc' = [pc EXCEPT ![w] = "open"]
  /\ start' = [start EXCEPT ![w] = now]
  /\ UNCHANGED <<now, db, lock, ops, work, todo, at, got, goneAt>>

(* lockTree: blocks while another transaction holds the lock; a second     *)
(* operation of the holder's own transaction passes.                       *)
LockTree(w) == lock \in {Null, w} /\ lock' = w
Tables(w) == IF lock = w THEN work[w] ELSE db

(* Mutant of EndTx: a lock of the session, not of the transaction. *)
EndTxLocked(w) ==
  /\ pc' = [pc EXCEPT ![w] = "idle"]
  /\ start' = [start EXCEPT ![w] = 0]
  /\ ops' = [ops EXCEPT ![w] = 0]
  /\ work' = [work EXCEPT ![w] = EmptyDB]
  /\ todo' = [todo EXCEPT ![w] = {}]
  /\ at' = [at EXCEPT ![w] = NoWalk]
  /\ got' = [got EXCEPT ![w] = Null]
  /\ lock' = lock

EndTx(w) ==
  /\ pc' = [pc EXCEPT ![w] = "idle"]
  /\ start' = [start EXCEPT ![w] = 0]
  /\ ops' = [ops EXCEPT ![w] = 0]
  /\ work' = [work EXCEPT ![w] = EmptyDB]
  /\ todo' = [todo EXCEPT ![w] = {}]
  /\ at' = [at EXCEPT ![w] = NoWalk]
  /\ got' = [got EXCEPT ![w] = Null]
  /\ lock' = IF lock = w THEN Null ELSE lock

Commit(w) ==
  /\ pc[w] = "open" /\ lock = w
  /\ db' = work[w]
  /\ goneAt' = [i \in LeafIndex |->
                  IF i \in DOMAIN db'.creds \ Live(db'.creds) /\ goneAt[i] = NotRetired
                  THEN now ELSE goneAt[i]]
  /\ EndTx(w)
  /\ UNCHANGED now

(* A failed statement, a cancelled request, a lost connection, a crash, or *)
(* a caller that rolls its own transaction back.                           *)
Rollback(w) == pc[w] # "idle" /\ EndTx(w) /\ UNCHANGED <<now, db, goneAt>>

-----------------------------------------------------------------------------
(* Operations.  Each starts with the lock and its first read, one step:    *)
(* with the lock held nothing can come between them.                       *)

Start(w) ==
  /\ pc[w] = "open" /\ ops[w] < MaxOps
  /\ LockTree(w)
  /\ ops' = [ops EXCEPT ![w] = @ + 1]
  /\ got' = [got EXCEPT ![w] = Null]
  /\ UNCHANGED <<now, db, start, goneAt>>

WalkFrom(i, empty, hash) ==
  [index |-> i, empty |-> empty, level |-> 0, pos |-> i, cur |-> hash]

(* The tree is full: INVALID_INPUT, and nothing is written. *)
IssueFull(w) ==
  /\ Start(w)
  /\ NextLeaf(Tables(w).creds, Width[0])
  /\ work' = [work EXCEPT ![w] = Tables(w)]
  /\ UNCHANGED <<pc, todo, at>>

(* The commitment is there already: CONFLICT, the transaction is aborted. *)
IssueConflict(w, c) ==
  /\ Start(w)
  /\ \E i \in LeafIndex : NextLeaf(Tables(w).creds, i)
  /\ \E i \in DOMAIN Tables(w).creds : Tables(w).creds[i].commitment = c
  /\ work' = [work EXCEPT ![w] = Tables(w)]
  /\ pc' = [pc EXCEPT ![w] = "aborted"]
  /\ UNCHANGED <<todo, at>>

IssueCredential(w, c, u) ==
  /\ Start(w)
  /\ \A i \in DOMAIN Tables(w).creds : Tables(w).creds[i].commitment # c
  /\ \E i \in LeafIndex :
       /\ NextLeaf(Tables(w).creds, i)
       /\ work' = [work EXCEPT ![w] = WithCreds(Tables(w),
            Upsert(Tables(w).creds, i,
                   [commitment |-> c, issuedTo |-> u, revoked |-> FALSE]))]
       /\ at' = [at EXCEPT ![w] = WalkFrom(i, FALSE, LeafHash(c))]
  /\ pc' = [pc EXCEPT ![w] = "write"]
  /\ UNCHANGED todo

StartRevoking(w, leaves) ==
  /\ Start(w)
  /\ work' = [work EXCEPT ![w] = Tables(w)]
  /\ todo' = [todo EXCEPT ![w] = leaves]
  /\ pc' = [pc EXCEPT ![w] = IF leaves = {} THEN "open" ELSE "revoke"]
  /\ UNCHANGED at

(* An unknown or already revoked leaf is no error and writes nothing. *)
RevokeCredential(w, i) == StartRevoking(w, {i} \cap Live(Tables(w).creds))

RevokeCredentialsForUser(w, u) ==
  StartRevoking(w, {i \in Live(Tables(w).creds) : Tables(w).creds[i].issuedTo = u})

MarkRevoked(creds, i) == [creds EXCEPT ![i] = [creds[i] EXCEPT !.revoked = TRUE]]

(* Mutant of RevokeNext: the row is marked and the tree is not rewritten. *)
RevokeNextMarking(w) ==
  /\ pc[w] = "revoke"
  /\ \E i \in todo[w] :
       /\ \A j \in todo[w] : i <= j
       /\ work' = [work EXCEPT ![w] = WithCreds(work[w], MarkRevoked(work[w].creds, i))]
       /\ todo' = [todo EXCEPT ![w] = @ \ {i}]
       /\ pc' = [pc EXCEPT ![w] = IF todo[w] = {i} THEN "open" ELSE "revoke"]
  /\ UNCHANGED <<now, db, lock, start, ops, at, got, goneAt>>

(* markRevoked on the lowest leaf left, then writeLeaf with an empty leaf. *)
RevokeNext(w) ==
  /\ pc[w] = "revoke"
  /\ \E i \in todo[w] :
       /\ \A j \in todo[w] : i <= j
       /\ work' = [work EXCEPT ![w] = WithCreds(work[w], MarkRevoked(work[w].creds, i))]
       /\ todo' = [todo EXCEPT ![w] = @ \ {i}]
       /\ at' = [at EXCEPT ![w] = WalkFrom(i, TRUE, zeros[0])]
  /\ pc' = [pc EXCEPT ![w] = "write"]
  /\ UNCHANGED <<now, db, lock, start, ops, got, goneAt>>

-----------------------------------------------------------------------------
(* writeLeaf. *)

(* Mutants of Climb: the position is not halved; left and right are swapped. *)
ClimbStaying(walk, nodes) ==
  [index |-> walk.index, empty |-> walk.empty, level |-> walk.level + 1, pos |-> walk.pos,
   cur |-> H(walk.cur, Node(nodes, walk.level, Sibling(walk.pos)))]
ClimbSwapped(walk, nodes) ==
  LET sibling == Node(nodes, walk.level, Sibling(walk.pos))
  IN  [index |-> walk.index, empty |-> walk.empty,
       level |-> walk.level + 1, pos |-> walk.pos \div 2,
       cur |-> IF walk.pos % 2 = 1 THEN H(walk.cur, sibling) ELSE H(sibling, walk.cur)]

(* One turn of the loop: store the node, read its sibling, hash upwards. *)
Climb(walk, nodes) ==
  LET sibling == Node(nodes, walk.level, Sibling(walk.pos))
  IN  [index |-> walk.index, empty |-> walk.empty,
       level |-> walk.level + 1,
       pos   |-> walk.pos \div 2,
       cur   |-> IF walk.pos % 2 = 0 THEN H(walk.cur, sibling)
                                     ELSE H(sibling, walk.cur)]

WriteNode(w) ==
  /\ pc[w] = "write" /\ at[w].level < MerkleDepth
  /\ LET nodes == StoreNode(work[w].nodes, at[w].level, at[w].pos, at[w].cur)
     IN  /\ work' = [work EXCEPT ![w] = WithNodes(work[w], nodes)]
         /\ at' = [at EXCEPT ![w] = Climb(at[w], nodes)]
  /\ UNCHANGED <<now, db, lock, pc, start, ops, todo, got, goneAt>>

(* Mutants of RetireRoots: nothing is retired; the time stored is the end of *)
(* the grace window.                                                         *)
RetireRootsNever(roots, time) == roots
RetireRootsAhead(roots, time) ==
  [r \in DOMAIN roots |->
     IF roots[r].retired = NotRetired
     THEN [roots[r] EXCEPT !.retired = time + RootGrace] ELSE roots[r]]

(* retireRoot: retired_at is now(), the time the transaction began. *)
RetireRoots(roots, time) ==
  [r \in DOMAIN roots |->
     IF roots[r].retired = NotRetired THEN [roots[r] EXCEPT !.retired = time]
                                      ELSE roots[r]]

(* retireRoot, then insertRoot, which un-retires a root met before. *)
PublishRoot(w) ==
  /\ pc[w] = "write" /\ at[w].level = MerkleDepth
  /\ work' = [work EXCEPT ![w] = WithRoots(work[w],
       Upsert(RetireRoots(work[w].roots, start[w]), at[w].cur,
              [retired |-> NotRetired, leaves |-> Live(work[w].creds)]))]
  /\ pc' = [pc EXCEPT ![w] = IF ~at[w].empty THEN "path"
                             ELSE IF todo[w] = {} THEN "open" ELSE "revoke"]
  /\ UNCHANGED <<now, db, lock, start, ops, todo, at, got, goneAt>>

(* Mutant of SiblingsOf: the index is not shifted on the way up. *)
SiblingsOfLeaf(nodes, i) == [l \in Levels |-> Node(nodes, l, Sibling(i))]

(* path: the siblings of a leaf in a node table, bottom up. *)
SiblingsOf(nodes, i) == [l \in Levels |-> Node(nodes, l, Sibling(Ancestor(i)[l]))]

(* IssueCredential reads the new leaf's path in its own transaction. *)
ReadPath(w) ==
  /\ pc[w] = "path"
  /\ got' = [got EXCEPT ![w] =
       [index |-> at[w].index, root |-> at[w].cur,
        commitment |-> work[w].creds[at[w].index].commitment,
        siblings |-> SiblingsOf(work[w].nodes, at[w].index)]]
  /\ pc' = [pc EXCEPT ![w] = "open"]
  /\ UNCHANGED <<now, db, lock, start, ops, work, todo, at, goneAt>>

-----------------------------------------------------------------------------
Step(w) == RevokeNext(w) \/ WriteNode(w) \/ PublishRoot(w) \/ ReadPath(w)

Next ==
  \/ Tick
  \/ \E w \in Writers :
       \/ Begin(w)
       \/ Commit(w)
       \/ Rollback(w)
       \/ IssueFull(w)
       \/ \E c \in Commitments : IssueConflict(w, c)
       \/ \E c \in Commitments, u \in Users \cup {Null} : IssueCredential(w, c, u)
       \/ \E i \in LeafIndex : RevokeCredential(w, i)
       \/ \E u \in Users : RevokeCredentialsForUser(w, u)
       \/ RevokeNext(w)
       \/ WriteNode(w)
       \/ PublishRoot(w)
       \/ ReadPath(w)

Spec == Init /\ [][Next]_vars

(* RunInTransaction always ends a transaction it began, and the operations *)
(* are straight-line code, so neither the steps, nor the commit of what is *)
(* done, nor the rollback of an aborted transaction is put off forever.    *)
(* Nobody has to start an operation, and nothing has to fail.              *)
Fairness ==
  \A w \in Writers :
    /\ WF_vars(Step(w))
    /\ WF_vars(Commit(w))
    /\ WF_vars(pc[w] = "aborted" /\ Rollback(w))

FairSpec == Spec /\ Fairness

-----------------------------------------------------------------------------
(* Properties. *)

CredRows == [commitment : Commitments, issuedTo : Users \cup {Null}, revoked : BOOLEAN]
RootRows == [retired : Nat \cup {NotRetired}, leaves : SUBSET LeafIndex]

TablesOK(d) ==
  /\ DOMAIN d.creds \subseteq LeafIndex
  /\ \A i \in DOMAIN d.creds : d.creds[i] \in CredRows
  /\ \A k \in DOMAIN d.nodes : \E l \in Levels : \E i \in Positions(l) : k = <<l, i>>
  /\ \A r \in DOMAIN d.roots : d.roots[r] \in RootRows

PerWriter(f) == f = [w \in Writers |-> f[w]]

WalkOK(walk) == /\ walk.index \in LeafIndex
                /\ walk.level \in 0..MerkleDepth
                /\ walk.pos \in Positions(walk.level)

WritersOK ==
  /\ PerWriter(work) /\ PerWriter(todo) /\ PerWriter(at)
  /\ \A w \in Writers : TablesOK(work[w]) /\ todo[w] \subseteq LeafIndex /\ WalkOK(at[w])

(* The type invariant: every table and every local variable of a writer has *)
(* its type, and writeLeaf's position stays inside the level it is on.      *)
TypeOK ==
  /\ now \in 0..MaxTime
  /\ TablesOK(db)
  /\ lock \in Writers \cup {Null}
  /\ pc \in [Writers -> {"idle", "open", "revoke", "write", "path", "aborted"}]
  /\ start \in [Writers -> 0..MaxTime]
  /\ ops \in [Writers -> 0..MaxOps]
  /\ WritersOK
  /\ goneAt \in [LeafIndex -> Nat \cup {NotRetired}]

(* What the tables of a transaction that has published its root hold.      *)
LeavesMatch(d) == \A i \in LeafIndex : Node(d.nodes, 0, i) = LeafValue(d.creds, i)
NodesFold(d) ==
  \A l \in Levels \ {0} : \A i \in Positions(l) :
    Node(d.nodes, l, i) = Parent(d.nodes, l - 1, i)
RootFolds(d) == CurrentRoot(d) = Parent(d.nodes, MerkleDepth - 1, 0)

(* The committed node table is a Merkle tree over exactly the live          *)
(* credentials and the current root is its top, however issuers and         *)
(* revokers interleave, fail and share transactions (gotcha 54: "Concurrent *)
(* appends can publish a root no path verifies against").                   *)
Consistent(d) == LeavesMatch(d) /\ NodesFold(d) /\ RootFolds(d)
TreeIsConsistent == Consistent(db)

(* writeLeaf half way: below the walk the tree is done, its own position    *)
(* waits for cur, and every other node already matches its children.        *)
HalfWritten(d, walk) ==
  /\ \A i \in LeafIndex :
       walk.level > 0 \/ i # walk.index => Node(d.nodes, 0, i) = LeafValue(d.creds, i)
  /\ walk.level = 0 => /\ walk.pos = walk.index
                       /\ walk.cur = LeafValue(d.creds, walk.index)
  /\ walk.level > 0 => walk.cur = Parent(d.nodes, walk.level - 1, walk.pos)
  /\ \A l \in Levels \ {0} : \A i \in Positions(l) :
       l # walk.level \/ i # walk.pos => Node(d.nodes, l, i) = Parent(d.nodes, l - 1, i)

(* The inductive invariant behind TreeIsConsistent.  Only the holder of the *)
(* lock has tables of its own; they are consistent whenever it can commit   *)
(* and half written while it is inside writeLeaf.                           *)
WriterInv(w) ==
  /\ pc[w] \in {"revoke", "write", "path"} => lock = w
  /\ lock = w =>
       /\ pc[w] # "idle"
       /\ pc[w] \in {"open", "revoke", "path"} => Consistent(work[w])
       /\ pc[w] = "write" => HalfWritten(work[w], at[w])

(* The committed tree is consistent, and so is what each transaction is     *)
(* about to commit.                                                         *)
TreeInv == TypeOK /\ TreeIsConsistent /\ \A w \in Writers : WriterInv(w)

(* A node has a row exactly when a live leaf lies under it: revocation      *)
(* takes the rows out again all the way up, and no row is left behind that  *)
(* a later leaf would hash against (the deleteNode branch of writeLeaf).    *)
RowsOnlyAboveLiveLeaves ==
  \A l \in Levels : \A i \in Positions(l) :
    <<l, i>> \in DOMAIN db.nodes <=> \E j \in Live(db.creds) : Ancestor(j)[l] = i

(* The path IssueCredential hands out verifies against the root it names,   *)
(* and that root is the current one of its transaction, so the credential   *)
(* works as soon as the transaction commits.                                *)
IssuedPathVerifies ==
  \A w \in Writers :
    pc[w] = "open" /\ got[w] # Null =>
      /\ PathRoot(got[w]) = got[w].root
      /\ got[w].root = CurrentRoot(work[w])

(* Once a credential has been issued there is always exactly one current    *)
(* root, also when a mutation brings back a root met before: the partial    *)
(* unique index auth_zk_roots_current_key is never hit (sql.go:128-135).    *)
OneCurrentRoot ==
  /\ \A r, s \in CurrentRoots(db) : r = s
  /\ DOMAIN db.creds # {} => CurrentRoots(db) # {}

(* A leaf index is given to one credential for good and a revocation is     *)
(* never undone: nextLeaf counts revoked rows and no statement clears       *)
(* revoked_at.  A reused index would bring back old roots with new leaves.  *)
CredentialsArePermanent ==
  [][\A i \in DOMAIN db.creds :
       /\ i \in DOMAIN db'.creds
       /\ db'.creds[i].commitment = db.creds[i].commitment
       /\ db.creds[i].revoked => db'.creds[i].revoked]_vars

(* RootGrace bounds how long a revoked leaf can still be proved: from       *)
(* RootGrace after the commit of its revocation no accepted root holds the  *)
(* leaf, though retired_at is the start of a transaction that may have      *)
(* waited for the lock, revocations of several leaves publish roots in      *)
(* between, and roots come back (gotcha 55).                                *)
RevocationLatency ==
  \A r \in DOMAIN db.roots :
    RootAccepted(db, r) =>
      \A i \in db.roots[r].leaves :
        goneAt[i] = NotRetired \/ now < goneAt[i] + RootGrace

(* The inductive invariant behind the three above.  A root that is current   *)
(* holds no leaf whose revocation is committed, and one that holds such a    *)
(* leaf was retired no later than that commit, though the time it carries is *)
(* the start of a transaction; credentials are only ever added or revoked;   *)
(* and whoever can commit has one current root, for its own live leaves.     *)
Permanent(old, new) ==
  \A i \in DOMAIN old :
    /\ i \in DOMAIN new /\ new[i].commitment = old[i].commitment
    /\ old[i].revoked => new[i].revoked

RetiredInTime(row) ==
  IF row.retired = NotRetired
  THEN \A i \in row.leaves : goneAt[i] = NotRetired
  ELSE /\ row.retired <= now
       /\ \A i \in row.leaves : goneAt[i] = NotRetired \/ row.retired <= goneAt[i]
RootsInTime(roots) == \A r \in DOMAIN roots : RetiredInTime(roots[r])

Committable(d) ==
  /\ \A r, s \in CurrentRoots(d) : r = s
  /\ DOMAIN d.creds # {} => CurrentRoots(d) # {}
  /\ \A r \in CurrentRoots(d) : d.roots[r].leaves \subseteq Live(d.creds)

HolderInv(w) ==
  lock = w => /\ Permanent(db.creds, work[w].creds)
              /\ RootsInTime(work[w].roots)
              /\ pc[w] \in {"open", "revoke", "path"} => Committable(work[w])

LedgerInv ==
  /\ \A i \in LeafIndex : goneAt[i] # NotRetired =>
       i \in DOMAIN db.creds /\ db.creds[i].revoked
  /\ RootsInTime(db.roots) /\ Committable(db)
  /\ \A w \in Writers : start[w] <= now /\ HolderInv(w)

(* Whoever gets the advisory lock gives it back: the loops over levels and  *)
(* over a user's leaves end, on success and on failure.                     *)
LockIsReleased == \A w \in Writers : lock = w ~> lock # w

(* Each transaction of one operation is one step of the registry. *)
Registry == INSTANCE CredentialRegistry WITH creds <- db.creds, root <- CurrentRoot(db)
RefinesRegistry == Registry!Spec
=============================================================================
