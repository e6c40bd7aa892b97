---------------------------- MODULE CircuitProofs ----------------------------
(***************************************************************************)
(* For every field, word size, tree and hash: the circuit's field          *)
(* arithmetic is the oracle's integer comparison, and a proof is accepted  *)
(* for one challenge only.  For every collision-free hash: what is         *)
(* accepted was shown by its owner, and an owner can show what it has.     *)
(***************************************************************************)
EXTENDS Proving, MerkleProofs, TLAPS

-----------------------------------------------------------------------------
(* A difference of two words, taken modulo P, is a word exactly when it did *)
(* not go below zero: P has room for two words.                             *)
LEMMA ComparatorIsLessEq ==
  ASSUME NEW a \in Words, NEW b \in Words
  PROVE  AssertIsLessEq(a, b) <=> a <= b
<1>1. /\ P \in Nat /\ WordSize \in Nat /\ 2 * WordSize <= P
      /\ a \in Nat /\ b \in Nat /\ a < WordSize /\ b < WordSize
  BY FieldHoldsWords DEF Words
<1>2. CASE a <= b
  <2>1. b - a \in 0..(P - 1)
    BY <1>1, <1>2
  <2>2. (b - a) % P = b - a
    BY <1>1, <2>1
  <2>3. QED  BY <1>1, <1>2, <2>2 DEF AssertIsLessEq, Decomposes
<1>3. CASE b < a
  <2>1. b - a + P \in WordSize..(P - 1)
    BY <1>1, <1>3
  <2>2. (b - a) % P = b - a + P
    BY <1>1, <2>1
  <2>3. QED  BY <1>1, <1>3, <2>1, <2>2 DEF AssertIsLessEq, Decomposes
<1>4. QED  BY <1>1, <1>2, <1>3

(* Each constraint of the membership circuit has its counterpart in the     *)
(* oracle once the decompositions have cut the field down to Go's integers. *)
LEMMA CircuitIsOracle ==
  ASSUME NEW w, w.attribute \in FieldElements, w.threshold \in FieldElements
  PROVE  MembershipCircuit(w) <=> OracleDomain(w) /\ MembershipValid(w)
<1>1. /\ Decomposes(w.attribute, WordSize) <=> w.attribute \in Words
      /\ Decomposes(w.threshold, WordSize) <=> w.threshold \in Words
      /\ Decomposes(w.index, Width[0]) <=> w.index \in LeafIndex
  BY DEF Decomposes, Words, LeafIndex
<1>2. ASSUME w.attribute \in Words, w.threshold \in Words
      PROVE  AssertIsLessEq(w.threshold, w.attribute) <=> ~(w.attribute < w.threshold)
  <2>1. AssertIsLessEq(w.threshold, w.attribute) <=> w.threshold <= w.attribute
    BY <1>2, ComparatorIsLessEq
  <2>2. w.threshold \in Int /\ w.attribute \in Int
    BY <1>2, FieldHoldsWords DEF Words
  <2>3. QED  BY <2>1, <2>2
<1>3. QED  BY <1>1, <1>2, Zenon DEF MembershipCircuit, MembershipValid, OracleDomain, VerifyProof

-----------------------------------------------------------------------------
(* The circuit and the oracle agree on every candidate witness of every      *)
(* reachable state.                                                          *)
LEMMA CandidateNumbers ==
  ASSUME NEW w \in Candidates
  PROVE  w.attribute \in FieldElements /\ w.threshold \in FieldElements
<1>1. Words \subseteq FieldElements
  BY FieldHoldsWords DEF Words, FieldElements
<1>2. PICK secret \in Secrets, attribute \in Attributes \cup StrayElements,
           path \in {PathOf(creds, i) : i \in DOMAIN creds}, turn \in {0, Width[0]},
           audience \in {policy.audience : policy \in Policies},
           threshold \in StrayElements \cup {policy.threshold : policy \in Policies} :
         w = Candidate(secret, attribute, path, turn, audience, threshold)
  BY DEF Candidates
<1>3. w.attribute = attribute /\ w.threshold = threshold
  BY <1>2 DEF Candidate, MembershipWitnessFor
<1>4. attribute \in FieldElements /\ threshold \in FieldElements
  BY <1>1, AttributesAreWords, ThresholdsAreWords, StraysAreInTheField
<1>5. QED  BY <1>3, <1>4

(* MembershipCircuit.Define accepts exactly the witnesses MembershipValid    *)
(* accepts of uint64 and uint32 arguments: no comparison wraps the field.    *)
THEOREM CircuitAgreesWithOracle == Spec => []CircuitMatchesOracle
<1>1. CircuitMatchesOracle
  <2>1. SUFFICES ASSUME NEW w \in Candidates, NEW root
                 PROVE  LET x == [w EXCEPT !.root = root]
                        IN  MembershipCircuit(x) <=> OracleDomain(x) /\ MembershipValid(x)
    BY DEF CircuitMatchesOracle
  <2> DEFINE x == [w EXCEPT !.root = root]
  <2>2. x.attribute \in FieldElements /\ x.threshold \in FieldElements
    BY CandidateNumbers
  <2>3. QED  BY <2>2, CircuitIsOracle
<1>2. QED  BY <1>1, PTL

-----------------------------------------------------------------------------
(* The inductive invariant of the challenges: what was accepted used one up. *)
ChallengeInv ==
  /\ open \cup spent \subseteq Tokens \cup {ZeroSecret} /\ open \cap spent = {}
  /\ \A a \in accepted :
       a.challenge \in spent /\ a.proof.witness["challenge"] = a.challenge
  /\ \A a, b \in accepted : a.challenge = b.challenge => a = b

LEMMA AcceptUsesUp ==
  ASSUME NEW token \in open, NEW record, ChallengeInv, Accept(token, record),
         record.challenge = token, record.proof.witness["challenge"] = token
  PROVE  ChallengeInv'
<1>1. /\ accepted' = accepted \cup {record}
      /\ open' = open \ {token} /\ spent' = spent \cup {token}
  BY DEF Accept
<1>2. token \notin spent
  BY DEF ChallengeInv
<1>3. \A a \in accepted : a.challenge # token
  BY <1>2 DEF ChallengeInv
<1>4. QED  BY <1>1, <1>2, <1>3 DEF ChallengeInv

LEMMA ChallengeStep ==
  ASSUME ChallengeInv, [Next]_pvars
  PROVE  ChallengeInv'
<1>1. ASSUME UNCHANGED <<open, spent, accepted>>
      PROVE  ChallengeInv'
  BY <1>1 DEF ChallengeInv
<1>2. ASSUME NEW token, IssueChallenge(token)
      PROVE  ChallengeInv'
  <2>1. token \in FreshTokens
    <3>1. PICK draws \in Draws(FreshTokens) : Generates(draws, token)
      BY <1>2 DEF IssueChallenge
    <3>2. QED  BY <3>1 DEF Generates, Draws
  <2>2. token \notin spent
    BY <2>1 DEF FreshTokens
  <2>3. open' = open \cup {token} /\ UNCHANGED <<spent, accepted>>
    BY <1>2 DEF IssueChallenge
  <2>4. token \in Tokens
    BY <2>1 DEF FreshTokens
  <2>5. QED  BY <2>2, <2>3, <2>4 DEF ChallengeInv
<1>3. ASSUME NEW p \in Persons, NEW token \in open, VerifyKnowledge(p, token)
      PROVE  ChallengeInv'
  <2> DEFINE public == [challenge |-> token,
        commitment |-> IF enrolled[p] = None THEN dummyCommitment ELSE enrolled[p]]
             record == [proof |-> proof, challenge |-> token, person |-> p, policy |-> None]
  <2>1. VerifyAccepts(proof, "knowledge", public) /\ Accept(token, record)
    BY <1>3 DEF VerifyKnowledge
  <2>2. proof.witness["challenge"] = public["challenge"]
    BY <2>1 DEF VerifyAccepts, Bound
  <2>3. record.challenge = token /\ record.proof.witness["challenge"] = token
    BY <2>2
  <2> HIDE DEF record
  <2>4. QED  BY <2>1, <2>3, AcceptUsesUp
<1>4. ASSUME NEW policy \in Policies, NEW token \in open, VerifyMembership(policy, token)
      PROVE  ChallengeInv'
  <2> DEFINE public(nullifier) ==
               [challenge |-> token, root |-> TreeRoot(creds), nullifier |-> nullifier,
                audience |-> policy.audience, threshold |-> policy.threshold]
             record == [proof |-> proof, challenge |-> token, person |-> None, policy |-> policy]
  <2>1. PICK nullifier \in Nullifiers : VerifyAccepts(proof, "membership", public(nullifier))
    BY <1>4 DEF VerifyMembership
  <2>2. proof.witness["challenge"] = public(nullifier)["challenge"]
    BY <2>1 DEF VerifyAccepts, Bound
  <2>3. record.challenge = token /\ record.proof.witness["challenge"] = token
    BY <2>2
  <2>4. Accept(token, record)
    BY <1>4 DEF VerifyMembership
  <2> HIDE DEF record
  <2>5. QED  BY <2>3, <2>4, AcceptUsesUp
<1>5. CASE UNCHANGED pvars
  BY <1>1, <1>5 DEF pvars
<1>6. CASE Next
  <2>1. ASSUME NEW p, NEW attribute, NEW index, NEW secret,
               IssueCredential(p, attribute, index, secret)
        PROVE  ChallengeInv'
    BY <1>1, <2>1 DEF IssueCredential
  <2>2. ASSUME NEW i, RevokeCredential(i)
        PROVE  ChallengeInv'
    BY <1>1, <2>2 DEF RevokeCredential
  <2>3. ASSUME NEW p, NEW secret, EnrollKnowledge(p, secret)
        PROVE  ChallengeInv'
    BY <1>1, <2>3 DEF EnrollKnowledge
  <2>4. ASSUME NEW p, NEW secret, NEW commitment, NEW token,
               ProveKnowledge(p, secret, commitment, token)
        PROVE  ChallengeInv'
    BY <1>1, <2>4 DEF ProveKnowledge
  <2>5. ASSUME NEW p, NEW w, NEW commitment, ProveMembership(p, w, commitment)
        PROVE  ChallengeInv'
    BY <1>1, <2>5 DEF ProveMembership
  <2>6. QED  BY <1>2, <1>3, <1>4, <1>6, <2>1, <2>2, <2>3, <2>4, <2>5, Zenon DEF Next
<1>7. QED  BY <1>5, <1>6

(* A proof is accepted at most once: the circuits bind it to a challenge and *)
(* the challenge is used up by the acceptance.                               *)
THEOREM ProofIsAcceptedOnce == Spec => []AcceptedOnce
<1>1. Init => ChallengeInv
  BY DEF Init, ChallengeInv
<1>2. ChallengeInv => AcceptedOnce
  BY DEF ChallengeInv, AcceptedOnce
<1>3. QED  BY <1>1, <1>2, ChallengeStep, PTL DEF Spec

-----------------------------------------------------------------------------
(* Who knows what: a secret belongs to one person, an enrolled commitment is *)
(* of a secret its person was given, and a proof is made from a secret its   *)
(* maker knows and a witness its circuit accepts.                            *)
KnownInv ==
  /\ known \in [Persons -> SUBSET (Secrets \cup {ZeroSecret})]
  /\ \A p, q \in Persons : p # q => known[p] \cap known[q] \subseteq {ZeroSecret}
  /\ enrolled \in [Persons -> {KnowledgeCommitment(s) : s \in Secrets} \cup {None}]
  /\ \A p \in Persons : enrolled[p] # None =>
       \E s \in known[p] : s # ZeroSecret /\ enrolled[p] = KnowledgeCommitment(s)

ProofInv ==
  proof # None =>
    /\ proof.by \in Persons
    /\ proof.witness.secret \in known[proof.by]
    /\ proof.kind = "knowledge" => KnowledgeCircuit(proof.witness)
    /\ proof.kind = "membership" => MembershipCircuit(proof.witness)

OwnInv == KnownInv /\ ProofInv

LEMMA DrawnSecretIsFresh ==
  ASSUME NEW secret, NEW draws \in Draws(FreshSecrets), Generates(draws, secret)
  PROVE  /\ secret \in Secrets /\ secret # ZeroSecret
         /\ \A p \in Persons : secret \notin known[p]
<1>1. secret \in FreshSecrets /\ secret # ZeroSecret
  BY DEF Generates, Draws
<1>2. QED  BY <1>1 DEF FreshSecrets

LEMMA LearningKeeps ==
  ASSUME NEW p \in Persons, NEW secret \in Secrets, KnownInv, ProofInv,
         \A q \in Persons : secret \notin known[q],
         Learn(p, secret), UNCHANGED proof
  PROVE  /\ known' \in [Persons -> SUBSET (Secrets \cup {ZeroSecret})]
         /\ \A q, r \in Persons : q # r => known'[q] \cap known'[r] \subseteq {ZeroSecret}
         /\ \A q \in Persons : known[q] \subseteq known'[q]
         /\ secret \in known'[p]
         /\ ProofInv'
<1>1. /\ known' = [known EXCEPT ![p] = known[p] \cup {secret}]
      /\ known \in [Persons -> SUBSET (Secrets \cup {ZeroSecret})]
  BY DEF Learn, KnownInv
<1>2. \A q \in Persons : known'[q] = IF q = p THEN known[p] \cup {secret} ELSE known[q]
  BY <1>1
<1>3. \A q \in Persons : known[q] \subseteq known'[q]
  BY <1>2
<1>4. ProofInv'
  BY <1>3 DEF ProofInv
<1>5. ASSUME NEW q \in Persons, NEW r \in Persons, q # r
      PROVE  known'[q] \cap known'[r] \subseteq {ZeroSecret}
  <2>1. known[q] \cap known[r] \subseteq {ZeroSecret}
    BY <1>5 DEF KnownInv
  <2>2. QED  BY <1>2, <1>5, <2>1
<1>6. QED  BY <1>1, <1>2, <1>3, <1>4, <1>5

LEMMA OwnStep ==
  ASSUME OwnInv, [Next]_pvars
  PROVE  OwnInv'
<1>0. KnownInv /\ ProofInv
  BY DEF OwnInv
<1>1. ASSUME UNCHANGED <<known, enrolled, proof>>
      PROVE  OwnInv'
  BY <1>0, <1>1 DEF OwnInv, KnownInv, ProofInv
<1>2. ASSUME NEW p \in Persons, NEW attribute, NEW index, NEW secret,
             IssueCredential(p, attribute, index, secret)
      PROVE  OwnInv'
  <2>1. PICK draws \in Draws(FreshSecrets) : Generates(draws, secret)
    BY <1>2 DEF IssueCredential
  <2>2. secret \in Secrets /\ \A q \in Persons : secret \notin known[q]
    BY <2>1, DrawnSecretIsFresh
  <2>3. Learn(p, secret) /\ UNCHANGED proof /\ UNCHANGED enrolled
    BY <1>2 DEF IssueCredential
  <2>4. /\ known' \in [Persons -> SUBSET (Secrets \cup {ZeroSecret})]
        /\ \A q, r \in Persons : q # r => known'[q] \cap known'[r] \subseteq {ZeroSecret}
        /\ \A q \in Persons : known[q] \subseteq known'[q]
        /\ ProofInv'
    BY <1>0, <2>2, <2>3, LearningKeeps
  <2>5. KnownInv'
    BY <1>0, <2>3, <2>4 DEF KnownInv
  <2>6. QED  BY <2>4, <2>5 DEF OwnInv
<1>3. ASSUME NEW p \in Persons, NEW secret, EnrollKnowledge(p, secret)
      PROVE  OwnInv'
  <2>1. PICK draws \in Draws(FreshSecrets) : Generates(draws, secret)
    BY <1>3 DEF EnrollKnowledge
  <2>2. /\ secret \in Secrets /\ secret # ZeroSecret
        /\ \A q \in Persons : secret \notin known[q]
    BY <2>1, DrawnSecretIsFresh
  <2>3. /\ Learn(p, secret) /\ UNCHANGED proof
        /\ enrolled' = [enrolled EXCEPT ![p] = KnowledgeCommitment(secret)]
    BY <1>3 DEF EnrollKnowledge
  <2>4. /\ known' \in [Persons -> SUBSET (Secrets \cup {ZeroSecret})]
        /\ \A q, r \in Persons : q # r => known'[q] \cap known'[r] \subseteq {ZeroSecret}
        /\ \A q \in Persons : known[q] \subseteq known'[q]
        /\ secret \in known'[p] /\ ProofInv'
    BY <1>0, <2>2, <2>3, LearningKeeps
  <2>5. enrolled' \in [Persons -> {KnowledgeCommitment(s) : s \in Secrets} \cup {None}]
    BY <1>0, <2>2, <2>3 DEF KnownInv
  <2>6. ASSUME NEW q \in Persons, enrolled'[q] # None
        PROVE  \E s \in known'[q] : s # ZeroSecret /\ enrolled'[q] = KnowledgeCommitment(s)
    <3>1. CASE q = p
      <4>1. enrolled'[q] = KnowledgeCommitment(secret)
        BY <1>0, <2>3, <3>1 DEF KnownInv
      <4>2. QED  BY <2>2, <2>4, <3>1, <4>1
    <3>2. CASE q # p
      <4>1. enrolled'[q] = enrolled[q]
        BY <1>0, <2>3, <3>2 DEF KnownInv
      <4>2. QED  BY <1>0, <2>4, <2>6, <4>1 DEF KnownInv
    <3>3. QED  BY <3>1, <3>2
  <2>7. KnownInv'
    BY <2>4, <2>5, <2>6 DEF KnownInv
  <2>8. QED  BY <2>4, <2>7 DEF OwnInv
<1>4. ASSUME NEW p \in Persons, NEW secret \in known[p], NEW commitment, NEW token,
             ProveKnowledge(p, secret, commitment, token)
      PROVE  OwnInv'
  <2> DEFINE w == [secret |-> secret, commitment |-> commitment, challenge |-> token]
  <2>1. /\ KnowledgeCommitment(secret) = commitment
        /\ proof' = [kind |-> "knowledge", by |-> p, witness |-> w]
        /\ UNCHANGED <<known, enrolled>>
    BY <1>4 DEF ProveKnowledge, KnowledgeCircuit, registry
  <2>2. /\ proof'.by = p /\ proof'.witness = w /\ proof'.kind = "knowledge"
        /\ w.secret = secret /\ KnowledgeCircuit(w)
    BY <2>1 DEF KnowledgeCircuit
  <2> HIDE DEF w
  <2>3. ProofInv'
    BY <2>1, <2>2 DEF ProofInv
  <2>4. KnownInv'
    BY <1>0, <2>1 DEF KnownInv
  <2>5. QED  BY <2>3, <2>4 DEF OwnInv
<1>5. ASSUME NEW p \in Persons, NEW secret \in known[p], NEW attribute, NEW path, NEW policy,
             NEW nullifier, NEW token, NEW commitment,
             ProveMembership(p, MembershipWitnessFor(
               [secret |-> secret, attribute |-> attribute], path, policy, nullifier, token),
               commitment)
      PROVE  OwnInv'
  <2> DEFINE w == MembershipWitnessFor(
                    [secret |-> secret, attribute |-> attribute], path, policy, nullifier, token)
             climbed == [w EXCEPT !.commitment = commitment]
             tried == [climbed EXCEPT !.root = PathRoot(climbed)]
  <2>1. /\ MembershipCircuit(tried)
        /\ proof' = [kind |-> "membership", by |-> p, witness |-> tried]
        /\ UNCHANGED <<known, enrolled>>
    BY <1>5 DEF ProveMembership, registry
  <2>2. tried.secret = secret
    BY DEF MembershipWitnessFor
  <2> HIDE DEF tried
  <2>3. proof'.by = p /\ proof'.witness = tried /\ proof'.kind = "membership"
    BY <2>1
  <2>4. ProofInv'
    BY <2>1, <2>2, <2>3 DEF ProofInv
  <2>5. KnownInv'
    BY <1>0, <2>1 DEF KnownInv
  <2>6. QED  BY <2>4, <2>5 DEF OwnInv
<1>6. CASE UNCHANGED pvars
  BY <1>1, <1>6 DEF pvars
<1>7. CASE Next
  <2>1. ASSUME NEW i, RevokeCredential(i)
        PROVE  OwnInv'
    BY <1>1, <2>1 DEF RevokeCredential
  <2>2. ASSUME NEW token, IssueChallenge(token)
        PROVE  OwnInv'
    BY <1>1, <2>2 DEF IssueChallenge, registry
  <2>3. ASSUME NEW p, NEW token, VerifyKnowledge(p, token)
        PROVE  OwnInv'
    BY <1>1, <2>3 DEF VerifyKnowledge, Accept, registry
  <2>4. ASSUME NEW policy, NEW token, VerifyMembership(policy, token)
        PROVE  OwnInv'
    BY <1>1, <2>4 DEF VerifyMembership, Accept, registry
  <2>5. QED  BY <1>2, <1>3, <1>4, <1>5, <1>7, <2>1, <2>2, <2>3, <2>4, Zenon DEF Next
<1>8. QED  BY <1>6, <1>7

StepUpShown == \A a \in accepted' \ accepted :
  a.proof.kind = "knowledge" => a.proof.by = a.person

LEMMA StepUpStep ==
  ASSUME OwnInv, [Next]_pvars
  PROVE  StepUpShown
<1>0. KnownInv /\ ProofInv
  BY DEF OwnInv
<1>1. ASSUME UNCHANGED accepted
      PROVE  StepUpShown
  BY <1>1 DEF StepUpShown
<1>2. ASSUME NEW p \in Persons, NEW token \in open, VerifyKnowledge(p, token)
      PROVE  StepUpShown
  <2> DEFINE public == [challenge |-> token,
        commitment |-> IF enrolled[p] = None THEN dummyCommitment ELSE enrolled[p]]
             record == [proof |-> proof, challenge |-> token, person |-> p, policy |-> None]
  <2>1. /\ VerifyAccepts(proof, "knowledge", public) /\ accepted' = accepted \cup {record}
        /\ proof # None /\ enrolled[p] # None
    BY <1>2 DEF VerifyKnowledge, Accept
  <2>2. proof.kind = "knowledge" /\ proof.witness["commitment"] = public["commitment"]
    BY <2>1 DEF VerifyAccepts, Bound
  <2>3. proof.witness.commitment = enrolled[p]
    BY <2>1, <2>2
  <2>4. PICK s \in known[p] : s # ZeroSecret /\ enrolled[p] = KnowledgeCommitment(s)
    BY <1>0, <2>1 DEF KnownInv
  <2>5. /\ proof.by \in Persons /\ proof.witness.secret \in known[proof.by]
        /\ KnowledgeCommitment(proof.witness.secret) = KnowledgeCommitment(s)
    BY <1>0, <2>1, <2>2, <2>3, <2>4 DEF ProofInv, KnowledgeCircuit
  <2>6. proof.witness.secret = s
    BY <1>0, <2>4, <2>5, CommitmentsDiffer DEF KnownInv
  <2>7. proof.by = p
    BY <1>0, <2>4, <2>5, <2>6 DEF KnownInv
  <2>8. record.proof.by = record.person
    BY <2>7
  <2>9. QED  BY <2>1, <2>8 DEF StepUpShown
<1>3. ASSUME NEW policy, NEW token, VerifyMembership(policy, token)
      PROVE  StepUpShown
  <2> DEFINE record == [proof |-> proof, challenge |-> token, person |-> None, policy |-> policy]
  <2>1. accepted' = accepted \cup {record} /\ proof.kind = "membership"
    BY <1>3 DEF VerifyMembership, Accept, VerifyAccepts
  <2>2. record.proof.kind # "knowledge"
    BY <2>1
  <2>3. QED  BY <2>1, <2>2 DEF StepUpShown
<1>4. CASE UNCHANGED pvars
  BY <1>1, <1>4 DEF pvars
<1>5. CASE Next
  <2>1. ASSUME NEW p, NEW attribute, NEW index, NEW secret,
               IssueCredential(p, attribute, index, secret)
        PROVE  StepUpShown
    BY <1>1, <2>1 DEF IssueCredential
  <2>2. ASSUME NEW i, RevokeCredential(i)
        PROVE  StepUpShown
    BY <1>1, <2>2 DEF RevokeCredential
  <2>3. ASSUME NEW p, NEW secret, EnrollKnowledge(p, secret)
        PROVE  StepUpShown
    BY <1>1, <2>3 DEF EnrollKnowledge
  <2>4. ASSUME NEW token, IssueChallenge(token)
        PROVE  StepUpShown
    BY <1>1, <2>4 DEF IssueChallenge
  <2>5. ASSUME NEW p, NEW secret, NEW commitment, NEW token,
               ProveKnowledge(p, secret, commitment, token)
        PROVE  StepUpShown
    BY <1>1, <2>5 DEF ProveKnowledge
  <2>6. ASSUME NEW p, NEW w, NEW commitment, ProveMembership(p, w, commitment)
        PROVE  StepUpShown
    BY <1>1, <2>6 DEF ProveMembership
  <2>7. QED  BY <1>2, <1>3, <1>5, <2>1, <2>2, <2>3, <2>4, <2>5, <2>6, Zenon DEF Next
<1>6. QED  BY <1>4, <1>5

(* The knowledge half of AcceptedIsOwn, for any number of persons and        *)
(* secrets: a step-up succeeds only with a proof the person made, neither    *)
(* the zero secret nor somebody else's ever does.                            *)
THEOREM StepUpIsOwn == Spec => [][StepUpShown]_pvars
<1>1. Init => OwnInv
  BY DEF Init, OwnInv, KnownInv, ProofInv
<1>2. OwnInv /\ [Next]_pvars => OwnInv' /\ [StepUpShown]_pvars
  BY OwnStep, StepUpStep
<1>3. QED  BY <1>1, <1>2, PTL DEF Spec

-----------------------------------------------------------------------------
(* The registry and what it handed out: the row of a credential stays at its *)
(* index with the commitment of what its holder was given, and every row has *)
(* a holder.  Revoking a row touches neither.                                *)
CredentialRow ==
  [commitment : {MembershipCommitment(s, a) : s \in Secrets, a \in Attributes},
   revoked : BOOLEAN]

HandedOut(p, c) ==
  /\ c.secret \in known[p] /\ c.secret # ZeroSecret /\ c.attribute \in Words
  /\ c.index \in DOMAIN creds
  /\ creds[c.index].commitment = MembershipCommitment(c.secret, c.attribute)

RegistryInv ==
  /\ DOMAIN creds \subseteq LeafIndex
  /\ creds \in [DOMAIN creds -> CredentialRow]
  /\ DOMAIN held = Persons
  /\ \A p \in Persons : \A c \in held[p] : HandedOut(p, c)
  /\ \A i \in DOMAIN creds : \E p \in Persons : \E c \in held[p] : c.index = i

\* What a person was handed survives any step that keeps rows and commitments.
LEMMA HandedOutStays ==
  ASSUME NEW p \in Persons, NEW c, HandedOut(p, c), known[p] \subseteq known'[p],
         DOMAIN creds \subseteq DOMAIN creds',
         \A i \in DOMAIN creds : creds'[i].commitment = creds[i].commitment
  PROVE  HandedOut(p, c)'
BY DEF HandedOut

LEMMA IssueKeepsRegistry ==
  ASSUME OwnInv, RegistryInv,
         NEW p \in Persons, NEW attribute \in Attributes, NEW index \in LeafIndex, NEW secret,
         IssueCredential(p, attribute, index, secret)
  PROVE  RegistryInv'
<1> DEFINE commitment == MembershipCommitment(secret, attribute)
           row == [commitment |-> commitment, revoked |-> FALSE]
           credential == [secret |-> secret, attribute |-> attribute, index |-> index]
<1>0. KnownInv /\ ProofInv
  BY DEF OwnInv
<1>1. PICK draws \in Draws(FreshSecrets) : Generates(draws, secret)
  BY DEF IssueCredential
<1>2. /\ secret \in Secrets /\ secret # ZeroSecret
      /\ \A q \in Persons : secret \notin known[q]
  BY <1>1, DrawnSecretIsFresh
<1>3. /\ NextLeaf(creds, index) /\ creds' = Upsert(creds, index, row)
      /\ held' = [held EXCEPT ![p] = held[p] \cup {credential}]
      /\ Learn(p, secret) /\ UNCHANGED proof
  BY DEF IssueCredential
<1>4. \A q \in Persons : known[q] \subseteq known'[q]
  BY <1>0, <1>2, <1>3, LearningKeeps
<1>5. secret \in known'[p]
  BY <1>0, <1>2, <1>3, LearningKeeps
<1>6. index \notin DOMAIN creds
  <2>1. index \in Int /\ \A i \in DOMAIN creds : i < index
    BY <1>3, TreeShape DEF NextLeaf, LeafIndex
  <2> QED
    BY <2>1
<1>7. /\ row \in CredentialRow /\ row.commitment = commitment
      /\ credential.secret = secret /\ credential.attribute = attribute
      /\ credential.index = index /\ attribute \in Words
  BY <1>2, AttributesAreWords DEF CredentialRow
<1> HIDE DEF row, credential
<1>8. /\ DOMAIN creds' = DOMAIN creds \cup {index}
      /\ creds'[index] = row
      /\ \A i \in DOMAIN creds : creds'[i] = creds[i]
  BY <1>3, <1>6 DEF Upsert
<1>9. creds' \in [DOMAIN creds' -> CredentialRow]
  BY <1>3, <1>7 DEF Upsert, RegistryInv
<1>10. /\ DOMAIN held' = Persons
       /\ held'[p] = held[p] \cup {credential}
       /\ \A q \in Persons : q # p => held'[q] = held[q]
  BY <1>3 DEF RegistryInv
<1>11. ASSUME NEW q \in Persons, NEW c \in held'[q]
       PROVE  HandedOut(q, c)'
  <2>1. CASE c \in held[q]
    BY <1>4, <1>8, <2>1, HandedOutStays DEF RegistryInv
  <2>2. CASE c \notin held[q]
    <3>1. q = p /\ c = credential
      BY <1>10, <1>11, <2>2
    <3> QED
      BY <1>2, <1>5, <1>7, <1>8, <3>1 DEF HandedOut
  <2> QED
    BY <2>1, <2>2
<1>12. ASSUME NEW i \in DOMAIN creds'
       PROVE  \E q \in Persons : \E c \in held'[q] : c.index = i
  <2>1. CASE i = index
    BY <1>7, <1>10, <2>1
  <2>2. CASE i # index
    <3>1. PICK q \in Persons : \E c \in held[q] : c.index = i
      BY <1>8, <2>2 DEF RegistryInv
    <3>2. held[q] \subseteq held'[q]
      BY <1>10
    <3> QED
      BY <3>1, <3>2
  <2> QED
    BY <2>1, <2>2
<1> QED
  BY <1>8, <1>9, <1>10, <1>11, <1>12 DEF RegistryInv

LEMMA RevokeKeepsRegistry ==
  ASSUME RegistryInv, NEW i, RevokeCredential(i)
  PROVE  RegistryInv'
<1>1. /\ i \in DOMAIN creds /\ creds' = [creds EXCEPT ![i].revoked = TRUE]
      /\ UNCHANGED <<held, known>>
  BY DEF RevokeCredential, Live
<1>2. /\ DOMAIN creds' = DOMAIN creds
      /\ \A j \in DOMAIN creds : creds'[j] \in CredentialRow
                                 /\ creds'[j].commitment = creds[j].commitment
  <2> DEFINE row == [creds[i] EXCEPT !.revoked = TRUE]
  <2>1. creds \in [DOMAIN creds -> CredentialRow]
    BY DEF RegistryInv
  <2>2. row \in CredentialRow /\ row.commitment = creds[i].commitment
    <3> DEFINE C == {MembershipCommitment(s, a) : s \in Secrets, a \in Attributes}
    <3>1. creds[i] \in [commitment : C, revoked : BOOLEAN]
      BY <1>1, <2>1 DEF CredentialRow
    <3>2. CredentialRow = [commitment : C, revoked : BOOLEAN]
      BY DEF CredentialRow
    <3> HIDE DEF C
    <3> QED
      BY <3>1, <3>2
  <2>3. creds' = [creds EXCEPT ![i] = row]
    BY <1>1
  <2> HIDE DEF row
  <2> QED
    BY <1>1, <2>1, <2>2, <2>3
<1>3. \A p \in Persons : known[p] \subseteq known'[p] /\ held'[p] = held[p]
  BY <1>1
<1>4. \A p \in Persons : \A c \in held'[p] : HandedOut(p, c)'
  BY <1>2, <1>3, HandedOutStays DEF RegistryInv
<1>5. creds' \in [DOMAIN creds' -> CredentialRow]
  BY <1>1, <1>2
<1> QED
  BY <1>1, <1>2, <1>3, <1>4, <1>5 DEF RegistryInv

LEMMA RegistryStep ==
  ASSUME OwnInv, RegistryInv, [Next]_pvars
  PROVE  RegistryInv'
<1>1. ASSUME UNCHANGED <<creds, held>>, \A p \in Persons : known[p] \subseteq known'[p]
      PROVE  RegistryInv'
  <2>1. \A p \in Persons : \A c \in held'[p] : HandedOut(p, c)'
    BY <1>1, HandedOutStays DEF RegistryInv
  <2> QED
    BY <1>1, <2>1 DEF RegistryInv
<1>2. ASSUME UNCHANGED <<creds, held, known>>
      PROVE  RegistryInv'
  BY <1>1, <1>2
<1>3. CASE UNCHANGED pvars
  BY <1>2, <1>3 DEF pvars
<1>4. CASE Next
  <2>1. ASSUME NEW p \in Persons, NEW secret, EnrollKnowledge(p, secret)
        PROVE  RegistryInv'
    <3>1. PICK draws \in Draws(FreshSecrets) : Generates(draws, secret)
      BY <2>1 DEF EnrollKnowledge
    <3>2. secret \in Secrets /\ \A q \in Persons : secret \notin known[q]
      BY <3>1, DrawnSecretIsFresh
    <3>3. Learn(p, secret) /\ UNCHANGED proof /\ UNCHANGED <<creds, held>>
      BY <2>1 DEF EnrollKnowledge
    <3>4. \A q \in Persons : known[q] \subseteq known'[q]
      BY <3>2, <3>3, LearningKeeps DEF OwnInv
    <3> QED
      BY <1>1, <3>3, <3>4
  <2>2. ASSUME NEW token, IssueChallenge(token)
        PROVE  RegistryInv'
    BY <1>2, <2>2 DEF IssueChallenge, registry
  <2>3. ASSUME NEW p, NEW secret, NEW commitment, NEW token,
               ProveKnowledge(p, secret, commitment, token)
        PROVE  RegistryInv'
    BY <1>2, <2>3 DEF ProveKnowledge, registry
  <2>4. ASSUME NEW p, NEW w, NEW commitment, ProveMembership(p, w, commitment)
        PROVE  RegistryInv'
    BY <1>2, <2>4 DEF ProveMembership, registry
  <2>5. ASSUME NEW p, NEW token, VerifyKnowledge(p, token)
        PROVE  RegistryInv'
    BY <1>2, <2>5 DEF VerifyKnowledge, Accept, registry
  <2>6. ASSUME NEW policy, NEW token, VerifyMembership(policy, token)
        PROVE  RegistryInv'
    BY <1>2, <2>6 DEF VerifyMembership, Accept, registry
  <2> QED
    BY <1>4, <2>1, <2>2, <2>3, <2>4, <2>5, <2>6, IssueKeepsRegistry, RevokeKeepsRegistry, Zenon
       DEF Next
<1> QED
  BY <1>3, <1>4

ClientsInv == OwnInv /\ ChallengeInv /\ RegistryInv

LEMMA ClientsInductive ==
  /\ Init => ClientsInv
  /\ ClientsInv /\ [Next]_pvars => ClientsInv'
<1>1. Init => OwnInv
  BY DEF Init, OwnInv, KnownInv, ProofInv
<1>2. Init => ChallengeInv
  BY DEF Init, ChallengeInv
<1>3. Init => RegistryInv
  BY DEF Init, RegistryInv, NoRows
<1> QED
  BY <1>1, <1>2, <1>3, OwnStep, ChallengeStep, RegistryStep DEF ClientsInv

(* Proving.TypeOK: what a client was handed is what the registry holds, at   *)
(* its index, and a challenge is open or used but never both.                *)
THEOREM ClientsTyped == Spec => []TypeOK
<1>1. ClientsInv => TypeOK
  BY DEF ClientsInv, OwnInv, KnownInv, ChallengeInv, RegistryInv, HandedOut, TypeOK
<1> QED
  BY <1>1, ClientsInductive, PTL DEF Spec

-----------------------------------------------------------------------------
(* So far nothing was assumed of the tree's hashes.  What follows is about a *)
(* prover who may look for collisions, and takes it that there are none: a   *)
(* pair, a leaf and a triple each hash to their own, the two labels differ,  *)
(* and no triple hashes to the label of the empty leaf.                      *)
HashesDiffer ==
  /\ CollisionFree
  /\ \A c, d : LeafHash(c) = LeafHash(d) => c = d
  /\ \A a, b, c, x, y, z : H3(a, b, c) = H3(x, y, z) => a = x /\ b = y /\ c = z
  /\ DomLeaf # DomNullifier
  /\ \A a, b, c : H3(a, b, c) # DomEmpty

LEMMA CommitmentsOpenOneWay ==
  ASSUME HashesDiffer, NEW s, NEW a, NEW t, NEW b,
         MembershipCommitment(s, a) = MembershipCommitment(t, b)
  PROVE  s = t /\ a = b
BY DEF HashesDiffer, MembershipCommitment

\* The leaves of the tree are those of the rows, and only of the live ones.
LEMMA LeafOfTheTree ==
  ASSUME NEW i \in LeafIndex
  PROVE  /\ TreeNodes(creds)[0][i] = LeafValue(creds, i)
         /\ i \in Live(creds) => TreeNodes(creds)[0][i] = LeafHash(creds[i].commitment)
         /\ i \notin Live(creds) => TreeNodes(creds)[0][i] = LeafHash(DomEmpty)
<1>1. TreeNodes(creds)[0] = Leaves(creds) /\ i \in Positions(0)
  BY TreeSteps DEF LeafIndex, Positions
<1>2. TreeNodes(creds)[0][i] = LeafValue(creds, i)
  BY <1>1 DEF Leaves
<1> QED
  BY <1>2, EmptyLeafIsItsDomain DEF LeafValue

(* A path that verifies against the current tree for the commitment of a     *)
(* secret and an attribute is the path of the live row of that commitment.   *)
LEMMA VerifyingLeafIsLive ==
  ASSUME HashesDiffer,
         NEW w, w.index \in LeafIndex, PathRoot(w) = TreeRoot(creds),
         NEW s, NEW a, w.commitment = MembershipCommitment(s, a)
  PROVE  w.index \in Live(creds) /\ creds[w.index].commitment = w.commitment
<1>1. Folds(TreeNodes(creds)) /\ CollisionFree
  BY TreeFolds DEF HashesDiffer
<1>2. LeafHash(w.commitment) = TreeNodes(creds)[0][w.index]
  BY <1>1, VerifyingPathIsTheTrees DEF TreeRoot
<1>3. w.commitment # DomEmpty
  BY DEF HashesDiffer, MembershipCommitment
<1>4. w.index \in Live(creds)
  BY <1>2, <1>3, LeafOfTheTree DEF HashesDiffer
<1> QED
  BY <1>2, <1>4, LeafOfTheTree DEF HashesDiffer

-----------------------------------------------------------------------------
(* What the server accepts was shown by its owner. *)
LEMMA MembershipIsShown ==
  ASSUME HashesDiffer, ClientsInv,
         NEW policy \in Policies, NEW token \in open, VerifyMembership(policy, token),
         NEW a, a = [proof |-> proof, challenge |-> token, person |-> None, policy |-> policy]
  PROVE  ShownBy(a)
<1> DEFINE w == proof.witness
           public(nullifier) ==
             [challenge |-> token, root |-> TreeRoot(creds), nullifier |-> nullifier,
              audience |-> policy.audience, threshold |-> policy.threshold]
<1>1. PICK nullifier \in Nullifiers : VerifyAccepts(proof, "membership", public(nullifier))
  BY DEF VerifyMembership
<1>2. /\ proof # None /\ proof.kind = "membership"
      /\ w["root"] = public(nullifier)["root"]
      /\ w["audience"] = public(nullifier)["audience"]
      /\ w["threshold"] = public(nullifier)["threshold"]
  BY <1>1 DEF VerifyAccepts, Bound, VerifyMembership
<1>3. w.root = TreeRoot(creds) /\ w.audience = policy.audience /\ w.threshold = policy.threshold
  BY <1>2
<1>4. /\ proof.by \in Persons /\ w.secret \in known[proof.by]
      /\ MembershipCircuit(w)
  BY <1>2 DEF ClientsInv, OwnInv, ProofInv
<1> HIDE DEF w
<1>5. /\ w.commitment = MembershipCommitment(w.secret, w.attribute)
      /\ w.index \in LeafIndex /\ PathRoot(w) = TreeRoot(creds)
      /\ AssertIsLessEq(w.threshold, w.attribute)
      /\ w.nullifier = NullifierFor(w.secret, policy.audience)
      /\ w.attribute \in Words /\ w.threshold \in Words
  BY <1>3, <1>4 DEF MembershipCircuit, VerifyProof, Decomposes, LeafIndex, Words
<1>6. w.index \in Live(creds) /\ creds[w.index].commitment = w.commitment
  BY <1>5, VerifyingLeafIsLive
<1>7a. PICK p \in Persons : \E d \in held[p] : d.index = w.index
  BY <1>6 DEF ClientsInv, RegistryInv, Live
<1>7. PICK c \in held[p] : c.index = w.index
  BY <1>7a
<1>8. /\ c.secret \in known[p] /\ c.secret # ZeroSecret
      /\ creds[c.index].commitment = MembershipCommitment(c.secret, c.attribute)
  BY <1>7 DEF ClientsInv, RegistryInv, HandedOut
<1>9. c.secret = w.secret /\ c.attribute = w.attribute
  <2>1. MembershipCommitment(c.secret, c.attribute) = MembershipCommitment(w.secret, w.attribute)
    BY <1>5, <1>6, <1>7, <1>8
  <2> QED
    BY <2>1, CommitmentsOpenOneWay
<1>10. p = proof.by
  BY <1>4, <1>8, <1>9 DEF ClientsInv, OwnInv, KnownInv
<1>11. c.attribute >= policy.threshold
  <2>1. w.threshold <= w.attribute
    BY <1>5, ComparatorIsLessEq
  <2>2. w.threshold \in Int /\ w.attribute \in Int
    BY <1>5, FieldHoldsWords DEF Words
  <2> QED
    BY <1>3, <1>9, <2>1, <2>2
<1>12. w.nullifier \notin Commitments
  <2>1. ASSUME NEW i \in DOMAIN creds
        PROVE  creds[i].commitment # w.nullifier
    <3>1. \E s, b : creds[i].commitment = MembershipCommitment(s, b)
      BY DEF ClientsInv, RegistryInv, CredentialRow
    <3> QED
      BY <1>5, <3>1 DEF HashesDiffer, MembershipCommitment, NullifierFor
  <2> QED
    BY <2>1 DEF Commitments
<1>13. /\ a.proof.kind # "knowledge" /\ a.proof.by = proof.by /\ a.policy = policy
       /\ a.proof.witness = w
  BY <1>2 DEF w
<1>14. \E d \in held[a.proof.by] :
         /\ d.index = w.index /\ d.index \in Live(creds)
         /\ d.attribute >= a.policy.threshold
         /\ w.nullifier = NullifierFor(d.secret, a.policy.audience)
  BY <1>5, <1>6, <1>7, <1>9, <1>10, <1>11, <1>13
<1> QED
  BY <1>12, <1>13, <1>14 DEF ShownBy

LEMMA AcceptedStep ==
  ASSUME HashesDiffer, ClientsInv, [Next]_pvars, NEW a \in accepted' \ accepted
  PROVE  ShownBy(a)
<1>1. StepUpShown
  BY StepUpStep DEF ClientsInv
<1>2. CASE a.proof.kind = "knowledge"
  BY <1>1, <1>2 DEF StepUpShown, ShownBy
<1>3. CASE a.proof.kind # "knowledge"
  <2>1. ASSUME UNCHANGED accepted
        PROVE  FALSE
    BY <2>1
  <2>2. ASSUME NEW p \in Persons, NEW token \in open, VerifyKnowledge(p, token)
        PROVE  FALSE
    <3> DEFINE record == [proof |-> proof, challenge |-> token, person |-> p, policy |-> None]
    <3>1. accepted' = accepted \cup {record} /\ proof.kind = "knowledge"
      BY <2>2 DEF VerifyKnowledge, Accept, VerifyAccepts
    <3>2. record.proof.kind = "knowledge"
      BY <3>1
    <3> HIDE DEF record
    <3> QED
      BY <1>3, <3>1, <3>2
  <2>3. ASSUME NEW policy \in Policies, NEW token \in open, VerifyMembership(policy, token)
        PROVE  ShownBy(a)
    <3>1. a = [proof |-> proof, challenge |-> token, person |-> None, policy |-> policy]
      BY <2>3 DEF VerifyMembership, Accept
    <3> QED
      BY <2>3, <3>1, MembershipIsShown
  <2>4. ASSUME NEW p, NEW attribute, NEW index, NEW secret,
               IssueCredential(p, attribute, index, secret)
        PROVE  FALSE
    BY <2>1, <2>4 DEF IssueCredential
  <2>5. ASSUME NEW i, RevokeCredential(i)
        PROVE  FALSE
    BY <2>1, <2>5 DEF RevokeCredential
  <2>6. ASSUME NEW p, NEW secret, EnrollKnowledge(p, secret)
        PROVE  FALSE
    BY <2>1, <2>6 DEF EnrollKnowledge
  <2>7. ASSUME NEW token, IssueChallenge(token)
        PROVE  FALSE
    BY <2>1, <2>7 DEF IssueChallenge
  <2>8. ASSUME NEW p, NEW secret, NEW commitment, NEW token,
               ProveKnowledge(p, secret, commitment, token)
        PROVE  FALSE
    BY <2>1, <2>8 DEF ProveKnowledge
  <2>9. ASSUME NEW p, NEW w, NEW commitment, ProveMembership(p, w, commitment)
        PROVE  FALSE
    BY <2>1, <2>9 DEF ProveMembership
  <2>10. ~ UNCHANGED pvars
    BY <2>1 DEF pvars
  <2> QED
    BY <2>2, <2>3, <2>4, <2>5, <2>6, <2>7, <2>8, <2>9, <2>10, Zenon DEF Next
<1> QED
  BY <1>2, <1>3

(* AcceptedIsOwn, for any field, tree, number of persons and credentials,    *)
(* and for any set MadeUp of paths that clients put together themselves,     *)
(* each with the root it ends at: a login that verifyMembershipRequest       *)
(* accepts is by the holder of a live credential that meets the policy,      *)
(* under the pseudonym of its own secret.                                    *)
THEOREM AcceptedProofIsOwn ==
  ASSUME HashesDiffer
  PROVE  Spec => AcceptedIsOwn
<1>1. ClientsInv /\ [Next]_pvars => [\A a \in accepted' \ accepted : ShownBy(a)]_pvars
  BY AcceptedStep
<1> QED
  BY <1>1, ClientsInductive, PTL DEF Spec, AcceptedIsOwn

-----------------------------------------------------------------------------
(* The client's own witness: from the published path of the index it was     *)
(* given, MembershipWitnessFor builds what the circuit accepts exactly when  *)
(* the row is live and the attribute is enough.                              *)
LEMMA PublishedPathProves ==
  ASSUME HashesDiffer, ClientsInv,
         NEW p \in Persons, NEW c \in held[p], NEW policy \in Policies
  PROVE  MembershipCircuit(MembershipWitnessFor(c, PathOf(creds, c.index), policy,
                             NullifierFor(c.secret, policy.audience), None))
           <=> c.index \in Live(creds) /\ c.attribute >= policy.threshold
<1> DEFINE path == PathOf(creds, c.index)
           w == MembershipWitnessFor(c, path, policy, NullifierFor(c.secret, policy.audience), None)
<1>1. /\ c.attribute \in Words /\ c.index \in DOMAIN creds /\ c.index \in LeafIndex
      /\ creds[c.index].commitment = MembershipCommitment(c.secret, c.attribute)
  BY DEF ClientsInv, RegistryInv, HandedOut
<1>2. /\ path.index = c.index /\ path.root = TreeRoot(creds)
      /\ \A l \in Levels :
           path.siblings[l] = TreeNodes(creds)[l][Sibling(Ancestor(c.index)[l])]
  BY DEF PathOf, TreeRoot
<1> HIDE DEF path
<1>3. /\ w.secret = c.secret /\ w.attribute = c.attribute
      /\ w.commitment = MembershipCommitment(c.secret, c.attribute)
      /\ w.siblings = path.siblings /\ w.index = path.index /\ w.root = path.root
      /\ w.audience = policy.audience /\ w.threshold = policy.threshold
      /\ w.nullifier = NullifierFor(c.secret, policy.audience)
  BY DEF MembershipWitnessFor
<1> HIDE DEF w
<1>4. /\ w.attribute \in Words /\ w.threshold \in Words
  BY <1>1, <1>3, ThresholdsAreWords
<1>5. AssertIsLessEq(w.threshold, w.attribute) <=> c.attribute >= policy.threshold
  <2>1. AssertIsLessEq(w.threshold, w.attribute) <=> w.threshold <= w.attribute
    BY <1>4, ComparatorIsLessEq
  <2>2. w.threshold \in Int /\ w.attribute \in Int
    BY <1>4, FieldHoldsWords DEF Words
  <2> QED
    BY <1>3, <2>1, <2>2
<1>6. PathRoot(w) = w.root <=> c.index \in Live(creds)
  <2>1. /\ w.index \in LeafIndex /\ w.root = TreeRoot(creds)
        /\ w.commitment = creds[c.index].commitment /\ w.index = c.index
    BY <1>1, <1>2, <1>3
  <2>2. ASSUME c.index \in Live(creds)
        PROVE  PathRoot(w) = w.root
    <3>1. Folds(TreeNodes(creds))
      BY TreeFolds
    <3>2. LeafHash(w.commitment) = TreeNodes(creds)[0][w.index]
      BY <2>1, <2>2, LeafOfTheTree
    <3>3. \A l \in Levels : w.siblings[l] = TreeNodes(creds)[l][Sibling(Ancestor(w.index)[l])]
      BY <1>2, <1>3
    <3> QED
      BY <2>1, <3>1, <3>2, <3>3, PathReachesTop DEF TreeRoot
  <2>3. ASSUME PathRoot(w) = w.root
        PROVE  c.index \in Live(creds)
    <3>1. PathRoot(w) = TreeRoot(creds)
      BY <2>1, <2>3
    <3> QED
      BY <1>3, <2>1, <3>1, VerifyingLeafIsLive
  <2> QED
    BY <2>2, <2>3
<1>7. /\ Decomposes(w.attribute, WordSize) /\ Decomposes(w.threshold, WordSize)
      /\ Decomposes(w.index, Width[0])
      /\ MembershipCommitment(w.secret, w.attribute) = w.commitment
      /\ NullifierFor(w.secret, w.audience) = w.nullifier
  BY <1>1, <1>2, <1>3, <1>4 DEF Decomposes, Words, LeafIndex
<1>8. MembershipCircuit(w) <=> c.index \in Live(creds) /\ c.attribute >= policy.threshold
  BY <1>5, <1>6, <1>7, Zenon DEF MembershipCircuit, VerifyProof
<1> QED
  BY <1>8 DEF w, path

\* The way up from the first leaf is the first position of every level.
LEMMA FirstLeafClimbsFirst ==
  \A l \in 0..MerkleDepth : Ancestor(0)[l] = 0
<1> DEFINE S == {l \in 0..MerkleDepth : Ancestor(0)[l] = 0}
<1>1. 0 \in S
  BY AncestorSteps, TreeShape
<1>2. ASSUME NEW l \in Levels, l \in S
      PROVE  l + 1 \in S
  <2>1. l + 1 \in 0..MerkleDepth
    BY TreeShape DEF Levels
  <2>2. Ancestor(0)[l + 1] = 0
    BY <1>2, AncestorSteps
  <2> QED
    BY <2>1, <2>2
<1>3. \A l \in 0..MerkleDepth : l \in S
  <2> HIDE DEF S
  <2> QED
    BY <1>1, <1>2, LevelsUp
<1> QED
  BY <1>3

(* SingleLeafPath needs no database: beside the only leaf of a tree there    *)
(* are empty subtrees all the way up.                                        *)
LEMMA SingleLeafPathIsPublished ==
  ASSUME HashesDiffer, ClientsInv, Live(creds) = {0}
  PROVE  SingleLeafPath(creds[0].commitment) = PathOf(creds, 0)
<1> DEFINE node == TreeNodes(creds)
           path == [siblings |-> [l \in Levels |-> zeros[l]], index |-> 0,
                    commitment |-> creds[0].commitment]
<1>1. 0 \in DOMAIN creds /\ 0 \in LeafIndex /\ {0} \in SUBSET LeafIndex
  BY DEF Live, ClientsInv, RegistryInv
<1>2. Folds(node) /\ CollisionFree
  BY TreeFolds DEF HashesDiffer
<1>3. ASSUME NEW i \in LeafIndex
      PROVE  node[0][i] = zeros[0] <=> i \notin {0}
  <2>1. CASE i = 0
    <3>1. node[0][i] = LeafHash(creds[0].commitment)
      BY <2>1, LeafOfTheTree
    <3>2. \E s, a : creds[0].commitment = MembershipCommitment(s, a)
      BY <1>1 DEF ClientsInv, RegistryInv, CredentialRow
    <3>3. creds[0].commitment # DomEmpty
      BY <3>2 DEF HashesDiffer, MembershipCommitment
    <3> QED
      BY <2>1, <3>1, <3>3, EmptyLeafIsItsDomain DEF HashesDiffer
  <2>2. CASE i # 0
    BY <2>2, LeafOfTheTree, EmptyLeafIsItsDomain
  <2> QED
    BY <2>1, <2>2
<1> HIDE DEF node
<1>4. \A l \in 0..MerkleDepth : \A i \in Positions(l) :
        node[l][i] = zeros[l] <=> \A j \in {0} : Ancestor(j)[l] # i
  BY <1>1, <1>2, <1>3, EmptyAboveNoLeaf
<1>5. ASSUME NEW l \in Levels
      PROVE  node[l][Sibling(Ancestor(0)[l])] = zeros[l]
  <2>1. l \in 0..MerkleDepth /\ 1 \in Positions(l)
    <3>1. l \in 0..MerkleDepth /\ l + 1 \in 0..MerkleDepth
      BY TreeShape DEF Levels
    <3>2. Width[l] = 2 * Width[l + 1] /\ Width[l + 1] \in Nat \ {0}
      BY <3>1, TreeShape DEF Levels
    <3> QED
      BY <3>1, <3>2 DEF Positions
  <2>2. Ancestor(0)[l] = 0 /\ Sibling(0) = 1
    BY <2>1, FirstLeafClimbsFirst DEF Sibling
  <2>3. \A j \in {0} : Ancestor(j)[l] # 1
    BY <2>2
  <2> QED
    BY <1>4, <2>1, <2>2, <2>3
<1>6. path.index = 0 /\ path.commitment = creds[0].commitment
      /\ \A l \in Levels : path.siblings[l] = zeros[l]
  OBVIOUS
<1>7. SingleLeafPath(creds[0].commitment)
        = [siblings |-> path.siblings, index |-> 0, root |-> PathRoot(path)]
  BY DEF SingleLeafPath
<1>8. path.siblings = [l \in Levels |-> node[l][Sibling(Ancestor(0)[l])]]
  BY <1>5
<1> HIDE DEF path
<1>9. PathRoot(path) = node[MerkleDepth][0]
  <2>1. LeafHash(path.commitment) = node[0][path.index]
    BY <1>1, <1>6, LeafOfTheTree DEF node
  <2>2. \A l \in Levels : path.siblings[l] = node[l][Sibling(Ancestor(path.index)[l])]
    BY <1>5, <1>6
  <2> QED
    BY <1>1, <1>2, <1>6, <2>1, <2>2, PathReachesTop
<1>10. PathOf(creds, 0)
         = [siblings |-> [l \in Levels |-> node[l][Sibling(Ancestor(0)[l])]],
            index |-> 0, root |-> node[MerkleDepth][0]]
  BY DEF PathOf, node
<1> QED
  BY <1>7, <1>8, <1>9, <1>10

(* HonestWitnessProves, for any tree and any number of credentials: the      *)
(* client's code is enough for a live credential that meets the policy, and  *)
(* for no other; revocation and threshold are what the circuit refuses.      *)
THEOREM HonestWitnessIsEnough ==
  ASSUME HashesDiffer
  PROVE  Spec => []HonestWitnessProves
<1>1. ClientsInv => HonestWitnessProves
  BY PublishedPathProves, SingleLeafPathIsPublished DEF HonestWitnessProves
<1> QED
  BY <1>1, ClientsInductive, PTL DEF Spec
=============================================================================
