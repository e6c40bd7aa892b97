----------------------------- MODULE PathReader -----------------------------
(***************************************************************************)
(* Path (zkauthn/tree.go): a member reads the current root and the         *)
(* siblings of its leaf while writers go on publishing.  Path takes no     *)
(* lock.  It runs at READ COMMITTED, so each of its statements sees what   *)
(* is committed when it starts: the credential, the root, the siblings one *)
(* by one, the root again.  Equal roots end the read; it walks twice at    *)
(* most.                                                                   *)
(***************************************************************************)
EXTENDS MembershipTree

CONSTANTS Readers

VARIABLE reader   \* Path's local variables, per call
pvars == <<vars, reader>>

(* snapshot and moves are history: the node table when the walk began, and *)
(* how often the current root has changed since (2 stands for more).       *)
IdleReader ==
  [pc |-> "idle", index |-> 0, commitment |-> Null, attempt |-> 0,
   root |-> zeros[MerkleDepth], siblings |-> NoRows,
   snapshot |-> NoRows, moves |-> 0]

PathInit == Init /\ reader = [r \in Readers |-> IdleReader]

Level(r) == Cardinality(DOMAIN reader[r].siblings)   \* the loop variable of path
Min2(n) == IF n > 2 THEN 2 ELSE n

Answer(r, pc_) == reader' = [reader EXCEPT ![r] = [IdleReader EXCEPT !.pc = pc_]]

(* credentialByIndex: an unknown or revoked leaf is refused. *)
Refuse(r, i) ==
  /\ reader[r].pc = "idle"
  /\ i \notin Live(db.creds)
  /\ Answer(r, "refused")

ReadCredential(r, i) ==
  /\ reader[r].pc = "idle"
  /\ i \in Live(db.creds)
  /\ reader' = [reader EXCEPT ![r] =
       [IdleReader EXCEPT !.pc = "root", !.index = i,
                          !.commitment = db.creds[i].commitment]]

ReadRoot(r) ==
  /\ reader[r].pc = "root"
  /\ reader' = [reader EXCEPT ![r] =
       [@ EXCEPT !.pc = "walk", !.root = CurrentRoot(db), !.siblings = NoRows,
                 !.snapshot = db.nodes, !.moves = 0]]

(* Mutant of ReadSibling: a node is read in the place of its sibling. *)
ReadSiblingSelf(r) ==
  /\ reader[r].pc = "walk" /\ Level(r) < MerkleDepth
  /\ LET l == Level(r)
     IN  reader' = [reader EXCEPT ![r].siblings =
                      Upsert(@, l, Node(db.nodes, l, Ancestor(reader[r].index)[l]))]

(* One turn of path's loop: one statement, one sibling. *)
ReadSibling(r) ==
  /\ reader[r].pc = "walk" /\ Level(r) < MerkleDepth
  /\ LET l == Level(r)
         sibling == Node(db.nodes, l, Sibling(Ancestor(reader[r].index)[l]))
     IN  reader' = [reader EXCEPT ![r].siblings = Upsert(@, l, sibling)]

(* Mutant of RootUnmoved: the root is not looked at again. *)
RootUnmovedUnread(r) ==
  /\ reader[r].pc = "walk" /\ Level(r) = MerkleDepth
  /\ reader' = [reader EXCEPT ![r].pc = "done"]

RootUnmoved(r) ==
  /\ reader[r].pc = "walk" /\ Level(r) = MerkleDepth
  /\ CurrentRoot(db) = reader[r].root
  /\ reader' = [reader EXCEPT ![r].pc = "done"]

(* Mutant of RootMoved: the walk is retried against the root read first. *)
RootMovedForever(r) ==
  /\ reader[r].pc = "walk" /\ Level(r) = MerkleDepth
  /\ CurrentRoot(db) # reader[r].root
  /\ reader' = [reader EXCEPT ![r].siblings = NoRows]

(* The root moved: walk once more, then give up with RATE_LIMITED. *)
RootMoved(r) ==
  /\ reader[r].pc = "walk" /\ Level(r) = MerkleDepth
  /\ CurrentRoot(db) # reader[r].root
  /\ IF reader[r].attempt = 0
     THEN reader' = [reader EXCEPT ![r] = [@ EXCEPT !.pc = "root", !.attempt = 1]]
     ELSE Answer(r, "limited")

PathStep(r) == ReadRoot(r) \/ ReadSibling(r) \/ RootUnmoved(r) \/ RootMoved(r)

(* A step of a writer or the clock, with the history of the walks. *)
TreeNext ==
  /\ Next
  /\ reader' = [r \in Readers |->
       IF reader[r].pc = "walk" /\ CurrentRoot(db') # CurrentRoot(db)
       THEN [reader[r] EXCEPT !.moves = Min2(@ + 1)] ELSE reader[r]]

PathNext ==
  \/ TreeNext
  \/ /\ UNCHANGED vars
     /\ \E r \in Readers :
          \/ \E i \in LeafIndex : Refuse(r, i)
          \/ \E i \in LeafIndex : ReadCredential(r, i)
          \/ ReadRoot(r)
          \/ ReadSibling(r)
          \/ RootUnmoved(r)
          \/ RootMoved(r)

(* A call of Path goes on to its end: it waits for nothing. *)
PathSpec ==
  /\ PathInit /\ [][PathNext]_pvars
  /\ Fairness
  /\ \A r \in Readers : WF_pvars(UNCHANGED vars /\ PathStep(r))

-----------------------------------------------------------------------------
(* Properties. *)

(* The type invariant of the readers. *)
ReaderTypeOK ==
  \A r \in Readers :
    /\ reader[r].pc \in {"idle", "root", "walk", "done", "refused", "limited"}
    /\ reader[r].index \in LeafIndex
    /\ reader[r].commitment \in Commitments \cup {Null}
    /\ reader[r].attempt \in 0..1 /\ reader[r].moves \in 0..2
    /\ DOMAIN reader[r].siblings = 0..(Level(r) - 1) /\ Level(r) <= MerkleDepth

Mixed(r) == reader[r].siblings # SiblingsOf(reader[r].snapshot, reader[r].index)

PathVerifies(r) == PathRoot(reader[r]) = reader[r].root

(* A path that mixes the siblings of two trees is handed out only if the    *)
(* root has left and come back during the walk: comparing the root before   *)
(* and after hides no single publication (the retry loop of Path).          *)
MixedPathTookTwoMoves ==
  \A r \in Readers : reader[r].pc = "done" /\ Mixed(r) => reader[r].moves = 2

(* When no root was published during the walk, the path verifies against    *)
(* the root it names (gotcha 54 read backwards), though writers were half   *)
(* way through their own walks; unless the credential was revoked between   *)
(* the statement that found it and the one that read the root: the path     *)
(* that is then handed out proves nothing.                                  *)
QuietPathVerifies ==
  \A r \in Readers : reader[r].pc = "done" /\ reader[r].moves = 0 =>
    (PathVerifies(r) <=>
       Node(reader[r].snapshot, 0, reader[r].index) = LeafHash(reader[r].commitment))

(* Every call of Path is answered, under any rate of publication. *)
PathAnswers ==
  \A r \in Readers :
    reader[r].pc \in {"root", "walk"} ~> reader[r].pc \in {"done", "limited"}
=============================================================================
