------------------------------ MODULE Circuits ------------------------------
(***************************************************************************)
(* What the two circuits of zkauthn/circuits.go constrain, the plain-Go    *)
(* oracles of proof.go they are tested against, and the hashes of hash.go  *)
(* that tie a secret to a commitment, a leaf and a nullifier.  No state:   *)
(* Proving has clients and a server use them.                              *)
(*                                                                         *)
(* Circuit variables are elements of a field of order P, Go's uint64       *)
(* values are the first WordSize of them.  Secrets and domain labels are   *)
(* opaque, as the hashes are.                                              *)
(***************************************************************************)
EXTENDS SparseMerkle

CONSTANTS
  P,              \* order of the BN254 scalar field
  WordSize,       \* 2^64
  H3(_, _, _),    \* nativeHash of three inputs; H and LeafHash take two and one
  DomKnowledge, DomLeaf, DomNullifier, DomEmpty,
  ZeroSecret      \* Secret{}: 31 zero bytes

(* BN254 has room for the difference of two words, and for every index.     *)
ASSUME FieldHoldsWords == P \in Nat /\ WordSize \in Nat \ {0} /\ 2 * WordSize <= P
ASSUME FieldHoldsIndexes == Width[0] <= P

(* emptyLeaf: what an index nobody has stands for. *)
ASSUME EmptyLeafIsItsDomain == zeros[0] = LeafHash(DomEmpty)

FieldElements == 0..(P - 1)
Words == 0..(WordSize - 1)

-----------------------------------------------------------------------------
(* hash.go. *)

(* Mutant of NullifierFor: it shares the domain of the leaves. *)
NullifierOfLeaf(secret, audience) == H3(DomLeaf, secret, audience)

KnowledgeCommitment(secret) == H(DomKnowledge, secret)
MembershipCommitment(secret, attribute) == H3(DomLeaf, secret, attribute)
NullifierFor(secret, audience) == H3(DomNullifier, secret, audience)

(* generateSecret and newChallengeToken: what the entropy source answers,   *)
(* attempt by attempt, settles what is returned, if anything.               *)
GeneratesLast(draws, drawn) ==         \* mutant: the last answer is not looked at
  \E k \in DOMAIN draws :
    /\ \A j \in DOMAIN draws : j < k => draws[j] = ZeroSecret
    /\ draws[k] # ZeroSecret \/ k + 1 \notin DOMAIN draws
    /\ drawn = draws[k]
Generates(draws, drawn) ==
  \E k \in DOMAIN draws :
    /\ \A j \in DOMAIN draws : j < k => draws[j] = ZeroSecret
    /\ draws[k] # ZeroSecret
    /\ drawn = draws[k]

-----------------------------------------------------------------------------
(* gnark.  A decomposition into n bits has a solution only for the first   *)
(* 2^n elements; the bounded comparator decomposes the difference, as an    *)
(* element of the field, into the bits of a word.                           *)
Decomposes(x, n) == x \in 0..(n - 1)
AssertIsLessEq(a, b) == Decomposes((b - a) % P, WordSize)

(* merkle.MerkleProof.VerifyProof: the index decomposes into one bit per   *)
(* level, Path[0] is hashed once, and the climb ends at the public root.    *)
VerifyProof(w) == Decomposes(w.index, Width[0]) /\ PathRoot(w) = w.root

-----------------------------------------------------------------------------
(* The circuits: witnesses for which every constraint holds.                *)

KnowledgeCircuit(w) == KnowledgeCommitment(w.secret) = w.commitment

(* Mutants of MembershipCircuit: a statement left out. *)
MembershipCircuitAnyLeaf(w) ==
  /\ Decomposes(w.attribute, WordSize) /\ Decomposes(w.threshold, WordSize)
  /\ VerifyProof(w)
  /\ AssertIsLessEq(w.threshold, w.attribute)
  /\ NullifierFor(w.secret, w.audience) = w.nullifier
MembershipCircuitAnyWord(w) ==
  /\ MembershipCommitment(w.secret, w.attribute) = w.commitment
  /\ VerifyProof(w)
  /\ AssertIsLessEq(w.threshold, w.attribute)
  /\ NullifierFor(w.secret, w.audience) = w.nullifier

MembershipCircuit(w) ==
  /\ Decomposes(w.attribute, WordSize) /\ Decomposes(w.threshold, WordSize)
  /\ MembershipCommitment(w.secret, w.attribute) = w.commitment
  /\ VerifyProof(w)
  /\ AssertIsLessEq(w.threshold, w.attribute)
  /\ NullifierFor(w.secret, w.audience) = w.nullifier

(* The public inputs a proof is bound to: those some constraint mentions.   *)
(* The square of the challenge is there to make it one of them, in either   *)
(* circuit (circuits.go:67 and 126).                                        *)
BoundNoChallenge(kind) ==                                    \* mutant
  IF kind = "knowledge" THEN {"commitment"}
  ELSE {"root", "audience", "threshold", "nullifier"}
Bound(kind) ==
  {"challenge"} \cup IF kind = "knowledge" THEN {"commitment"}
                     ELSE {"root", "audience", "threshold", "nullifier"}

(* VerifyingKey.verify: a proof of the key's own circuit, for these public  *)
(* inputs.  Soundness of Groth16: it was made from a satisfying witness.    *)
VerifyAccepts(proof, kind, public) ==
  /\ proof.kind = kind
  /\ \A f \in Bound(kind) : proof.witness[f] = public[f]

-----------------------------------------------------------------------------
(* proof.go: the oracles.  Their integers are Go's, so a witness they are   *)
(* asked about has words for attribute and threshold and a uint32 index.    *)
OracleDomain(w) == w.attribute \in Words /\ w.threshold \in Words /\ w.index \in LeafIndex

MembershipValid(w) ==
  /\ MembershipCommitment(w.secret, w.attribute) = w.commitment
  /\ ~(w.attribute < w.threshold)
  /\ NullifierFor(w.secret, w.audience) = w.nullifier
  /\ PathRoot(w) = w.root

PathOfItself(creds, i) ==             \* mutant: the nodes on the way, not beside it
  LET nodes == TreeNodes(creds)
  IN  [siblings |-> [l \in Levels |-> nodes[l][Ancestor(i)[l]]],
       index |-> i, root |-> nodes[MerkleDepth][0]]

(* path: siblings, index and root of one leaf of the published tree.        *)
PathOf(creds, i) ==
  LET nodes == TreeNodes(creds)
  IN  [siblings |-> [l \in Levels |-> nodes[l][Sibling(Ancestor(i)[l])]],
       index |-> i, root |-> nodes[MerkleDepth][0]]

(* SingleLeafPath: the path of the first and only credential, no database.  *)
SingleLeafPath(commitment) ==
  LET path == [siblings |-> [l \in Levels |-> zeros[l]], index |-> 0,
               commitment |-> commitment]
  IN  [siblings |-> path.siblings, index |-> 0, root |-> PathRoot(path)]

(* MembershipWitnessFor: what the client proves from. *)
MembershipWitnessFor(credential, path, policy, nullifier, challenge) ==
  [secret |-> credential.secret, attribute |-> credential.attribute,
   commitment |-> MembershipCommitment(credential.secret, credential.attribute),
   siblings |-> path.siblings, index |-> path.index, root |-> path.root,
   audience |-> policy.audience, threshold |-> policy.threshold,
   nullifier |-> nullifier, challenge |-> challenge]
=============================================================================
