------------------------- MODULE CredentialRegistry -------------------------
(***************************************************************************)
(* What the membership tree promises its callers: a registry of            *)
(* credentials in which every operation is one step, with a published root *)
(* that always commits to exactly the live ones.  MembershipTree           *)
(* implements it with locks, transactions and a node table.                *)
(***************************************************************************)
EXTENDS SparseMerkle

CONSTANTS Users, Commitments, Null

VARIABLES creds, root
rvars == <<creds, root>>

Init == creds = NoRows /\ root = zeros[MerkleDepth]

Publish == root' = TreeRoot(creds')

(* One unused commitment becomes the next leaf; a full tree takes none. *)
Issue(c, u) ==
  /\ Cardinality(DOMAIN creds) < Width[0]
  /\ \A i \in DOMAIN creds : creds[i].commitment # c
  /\ creds' = Upsert(creds, Cardinality(DOMAIN creds),
                     [commitment |-> c, issuedTo |-> u, revoked |-> FALSE])
  /\ Publish

(* A set of live leaves goes for good, all in one step. *)
Remove(leaves) ==
  /\ leaves # {}
  /\ creds' = [i \in DOMAIN creds |->
                 IF i \in leaves THEN [creds[i] EXCEPT !.revoked = TRUE] ELSE creds[i]]
  /\ Publish

Revoke(i) == Remove({i} \cap Live(creds))
RevokeForUser(u) == Remove({i \in Live(creds) : creds[i].issuedTo = u})

Next ==
  \/ \E c \in Commitments, u \in Users \cup {Null} : Issue(c, u)
  \/ \E i \in LeafIndex : Revoke(i)
  \/ \E u \in Users : RevokeForUser(u)

Spec == Init /\ [][Next]_rvars
=============================================================================
