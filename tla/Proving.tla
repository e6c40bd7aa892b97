------------------------------ MODULE Proving ------------------------------
(***************************************************************************)
(* Clients that prove and the server that decides what a proof is for.     *)
(* The server issues credentials and knowledge secrets, draws challenges,  *)
(* and verifies against public inputs it chose itself, except for root and *)
(* nullifier; a client puts into a witness whatever it knows.              *)
(*                                                                         *)
(* Only the current root is accepted here and a verified challenge is      *)
(* consumed at once: MembershipTree has the grace of older roots, and      *)
(* KnowledgeFactor and MembershipProofs have what happens in between.      *)
(***************************************************************************)
EXTENDS Circuits

CONSTANTS
  Persons,          \* clients, each with one session
  Secrets,          \* non-zero answers of the entropy source for a secret
  Tokens,           \* non-zero answers for a challenge
  Attributes,       \* attributes the operator grants: words
  Policies,         \* [audience, threshold]
  StrayElements,    \* field elements nobody is granted, tried as attribute
  MadeUp,           \* paths clients put together: [siblings, index, root]
  EntropyAttempts,  \* 3
  None

ASSUME AttributesAreWords == Attributes \subseteq Words
ASSUME ThresholdsAreWords == \A policy \in Policies : policy.threshold \in Words
ASSUME StraysAreInTheField == StrayElements \subseteq FieldElements
ASSUME ZeroIsNoSecret == ZeroSecret \notin Secrets
(* The hash is taken to be free of collisions, here for knowledge secrets.  *)
ASSUME CommitmentsDiffer ==
  \A s, t \in Secrets \cup {ZeroSecret} :
    KnowledgeCommitment(s) = KnowledgeCommitment(t) => s = t
ASSUME AttemptsArePositive == EntropyAttempts \in Nat \ {0}

VARIABLES
  creds,       \* auth_zk_credentials: leaf index -> [commitment, revoked]
  held,        \* person -> the credentials returned to that person
  enrolled,    \* auth_zk_commitments: person -> commitment, or None
  known,       \* person -> secrets it was given, and the one everybody knows
  open,        \* challenges drawn and not yet used
  spent,       \* challenges that have been used
  proof,       \* the last proof made: [kind, by, witness], or None
  accepted     \* history: [proof, kind, person, policy, challenge]

registry == <<creds, held, enrolled, known>>
pvars == <<creds, held, enrolled, known, open, spent, proof, accepted>>

dummyCommitment == KnowledgeCommitment(ZeroSecret)

Init ==
  /\ creds = NoRows
  /\ held = [p \in Persons |-> {}]
  /\ enrolled = [p \in Persons |-> None]
  /\ known = [p \in Persons |-> {ZeroSecret}]
  /\ open = {} /\ spent = {} /\ proof = None /\ accepted = {}

-----------------------------------------------------------------------------
(* The operator's and the server's side. *)

Draws(pool) == [1..EntropyAttempts -> pool \cup {ZeroSecret}]

(* Random secrets and tokens do not repeat. *)
FreshSecrets == Secrets \ UNION {known[p] : p \in Persons}
FreshTokens == Tokens \ (open \cup spent)

Learn(p, secret) == known' = [known EXCEPT ![p] = @ \cup {secret}]

IssueCredential(p, attribute, index, secret) ==
  LET commitment == MembershipCommitment(secret, attribute)
  IN  /\ \E draws \in Draws(FreshSecrets) : Generates(draws, secret)
      /\ NextLeaf(creds, index) /\ index < Width[0]
      /\ \A i \in DOMAIN creds : creds[i].commitment # commitment
      /\ creds' = Upsert(creds, index, [commitment |-> commitment, revoked |-> FALSE])
      /\ held' = [held EXCEPT ![p] =
           @ \cup {[secret |-> secret, attribute |-> attribute, index |-> index]}]
      /\ Learn(p, secret)
      /\ UNCHANGED <<enrolled, open, spent, proof, accepted>>

RevokeCredential(i) ==
  /\ i \in Live(creds)
  /\ creds' = [creds EXCEPT ![i].revoked = TRUE]
  /\ UNCHANGED <<held, enrolled, known, open, spent, proof, accepted>>

EnrollKnowledge(p, secret) ==
  /\ \E draws \in Draws(FreshSecrets) : Generates(draws, secret)
  /\ enrolled' = [enrolled EXCEPT ![p] = KnowledgeCommitment(secret)]
  /\ Learn(p, secret)
  /\ UNCHANGED <<creds, held, open, spent, proof, accepted>>

IssueChallenge(token) ==
  /\ \E draws \in Draws(FreshTokens) : Generates(draws, token)
  /\ open' = open \cup {token}
  /\ UNCHANGED <<registry, spent, proof, accepted>>

-----------------------------------------------------------------------------
(* The client's side.  Every commitment, path, root and challenge is        *)
(* public; a secret is known to whom it was given.                          *)

Commitments == {creds[i].commitment : i \in DOMAIN creds}
(* Of every row, and of the first index that has none. *)
PublishedPaths ==
  {PathOf(creds, i) : i \in LeafIndex \cap (0..Cardinality(DOMAIN creds))}
Nullifiers ==
  {NullifierFor(secret, policy.audience) :
     secret \in UNION {known[p] : p \in Persons}, policy \in Policies}

ProveKnowledge(p, secret, commitment, challenge) ==
  LET w == [secret |-> secret, commitment |-> commitment, challenge |-> challenge]
  IN  /\ KnowledgeCircuit(w)
      /\ proof' = [kind |-> "knowledge", by |-> p, witness |-> w]
      /\ UNCHANGED <<registry, open, spent, accepted>>

(* A published path or one of the client's own making, with any leaf,       *)
(* secret, attribute and nullifier.  The root is the one the path ends at,  *)
(* the tree's or another: the circuit takes no other.                       *)
ProveMembership(p, w, commitment) ==
  LET climbed == [w EXCEPT !.commitment = commitment]
      tried == [climbed EXCEPT !.root = PathRoot(climbed)]
  IN  /\ MembershipCircuit(tried)
      /\ proof' = [kind |-> "membership", by |-> p, witness |-> tried]
      /\ UNCHANGED <<registry, open, spent, accepted>>

-----------------------------------------------------------------------------
(* VerifyKnowledge for the session of p, and verifyMembershipRequest; a      *)
(* refusal changes nothing.                                                 *)

Accept(token, record) ==
  /\ accepted' = accepted \cup {record}
  /\ open' = open \ {token} /\ spent' = spent \cup {token}
  /\ UNCHANGED <<registry, proof>>

(* Mutant of VerifyKnowledge: the answer of the pairing is the answer. *)
VerifyKnowledgeOfAnyone(p, token) ==
  /\ token \in open /\ proof # None
  /\ VerifyAccepts(proof, "knowledge",
       [challenge |-> token,
        commitment |-> IF enrolled[p] = None THEN dummyCommitment ELSE enrolled[p]])
  /\ Accept(token, [proof |-> proof, challenge |-> token, person |-> p, policy |-> None])

VerifyKnowledge(p, token) ==
  /\ token \in open /\ proof # None
  /\ VerifyAccepts(proof, "knowledge",
       [challenge |-> token,
        commitment |-> IF enrolled[p] = None THEN dummyCommitment ELSE enrolled[p]])
  /\ enrolled[p] # None
  /\ Accept(token, [proof |-> proof, challenge |-> token, person |-> p, policy |-> None])

(* Mutant of VerifyMembership: the root is taken from the proof. *)
VerifyMembershipAnyRoot(policy, token) ==
  /\ token \in open /\ proof # None /\ proof.kind = "membership"
  /\ \E nullifier \in Nullifiers :
       VerifyAccepts(proof, "membership",
         [challenge |-> token, root |-> proof.witness.root, nullifier |-> nullifier,
          audience |-> policy.audience, threshold |-> policy.threshold])
  /\ Accept(token, [proof |-> proof, challenge |-> token, person |-> None, policy |-> policy])

VerifyMembership(policy, token) ==
  /\ token \in open /\ proof # None
  /\ \E nullifier \in Nullifiers :
       VerifyAccepts(proof, "membership",
         [challenge |-> token, root |-> TreeRoot(creds), nullifier |-> nullifier,
          audience |-> policy.audience, threshold |-> policy.threshold])
  /\ Accept(token, [proof |-> proof, challenge |-> token, person |-> None, policy |-> policy])

Next ==
  \/ \E p \in Persons, attribute \in Attributes, index \in LeafIndex,
        secret \in Secrets \cup {ZeroSecret} : IssueCredential(p, attribute, index, secret)
  \/ \E i \in LeafIndex : RevokeCredential(i)
  \/ \E p \in Persons, secret \in Secrets \cup {ZeroSecret} : EnrollKnowledge(p, secret)
  \/ \E token \in Tokens \cup {ZeroSecret} : IssueChallenge(token)
  \/ \E p \in Persons, token \in open :
       \E secret \in known[p],
          commitment \in {enrolled[q] : q \in Persons}
                          \cup {KnowledgeCommitment(s) : s \in known[p]} :
         ProveKnowledge(p, secret, commitment, token)
  \/ \E p \in Persons, token \in open,
        path \in PublishedPaths \cup MadeUp :
       \E secret \in known[p], attribute \in Attributes \cup StrayElements, policy \in Policies,
          nullifier \in Nullifiers :
       \E commitment \in Commitments \cup {DomEmpty, MembershipCommitment(secret, attribute)} :
         ProveMembership(p, MembershipWitnessFor(
           [secret |-> secret, attribute |-> attribute], path, policy, nullifier, token),
           commitment)
  \/ \E p \in Persons, token \in open : VerifyKnowledge(p, token)
  \/ \E policy \in Policies, token \in open : VerifyMembership(policy, token)

Spec == Init /\ [][Next]_pvars

-----------------------------------------------------------------------------
(* Properties. *)

(* The type invariant, and that what a client was handed is what the        *)
(* registry holds at that index.                                            *)
TypeOK ==
  /\ DOMAIN creds \subseteq LeafIndex
  /\ \A p \in Persons :
       /\ known[p] \subseteq Secrets \cup {ZeroSecret}
       /\ \A c \in held[p] :
            /\ c.secret \in known[p] /\ c.attribute \in Words
            /\ c.index \in DOMAIN creds
            /\ creds[c.index].commitment = MembershipCommitment(c.secret, c.attribute)
  /\ open \cup spent \subseteq Tokens \cup {ZeroSecret} /\ open \cap spent = {}

(* Witnesses whose numbers are any elements of the field, whose root is the *)
(* published one or the one their own path ends at.                         *)
Candidate(secret, attribute, path, turn, audience, threshold) ==
  [MembershipWitnessFor([secret |-> secret, attribute |-> attribute], path,
                        [audience |-> audience, threshold |-> threshold],
                        NullifierFor(secret, audience), None)
     EXCEPT !.index = @ + turn]
Candidates ==
  {Candidate(secret, attribute, path, turn, audience, threshold) :
     secret \in Secrets, attribute \in Attributes \cup StrayElements,
     path \in {PathOf(creds, i) : i \in DOMAIN creds}, turn \in {0, Width[0]},
     audience \in {policy.audience : policy \in Policies},
     threshold \in StrayElements \cup {policy.threshold : policy \in Policies}}

(* The circuit, with its field arithmetic, accepts exactly what the oracle  *)
(* of proof.go accepts, and nothing that is no uint64 or uint32: neither a  *)
(* threshold nor an index wraps around the field (circuits.go, 102-122).    *)
CircuitMatchesOracle ==
  \A w \in Candidates : \A root \in {w.root, PathRoot(w)} :
    LET x == [w EXCEPT !.root = root]
    IN  MembershipCircuit(x) <=> OracleDomain(x) /\ MembershipValid(x)

(* A proof the server accepts was made by someone who was given what it     *)
(* shows: the live credential at its index with an attribute that meets the *)
(* policy and the pseudonym of its own secret for the policy's audience, or *)
(* the secret the person enrolled.  Nothing follows from a public leaf, an  *)
(* empty index or the dummies, and no pseudonym is in the registry.         *)
ShownBy(a) ==
  LET w == a.proof.witness
  IN  IF a.proof.kind = "knowledge"
      THEN a.proof.by = a.person
      ELSE /\ \E c \in held[a.proof.by] :
                /\ c.index = w.index /\ c.index \in Live(creds)
                /\ c.attribute >= a.policy.threshold
                /\ w.nullifier = NullifierFor(c.secret, a.policy.audience)
           /\ w.nullifier \notin Commitments
AcceptedIsOwn == [][\A a \in accepted' \ accepted : ShownBy(a)]_pvars

(* A proof is good for the one challenge it was made for: with that         *)
(* challenge used, it is never accepted again (circuits.go, 50-52).         *)
AcceptedOnce == \A a, b \in accepted : a.proof = b.proof => a = b

(* The client's own code is enough: from the published path of a credential *)
(* MembershipWitnessFor builds a witness that proves, unless the credential *)
(* was revoked or falls short; SingleLeafPath is that path for a first leaf. *)
HonestWitnessProves ==
  /\ \A p \in Persons : \A c \in held[p] : \A policy \in Policies :
       MembershipCircuit(MembershipWitnessFor(c, PathOf(creds, c.index), policy,
                           NullifierFor(c.secret, policy.audience), None))
         <=> c.index \in Live(creds) /\ c.attribute >= policy.threshold
  /\ Live(creds) = {0} => SingleLeafPath(creds[0].commitment) = PathOf(creds, 0)
=============================================================================
