# kal-zk in TLA+

Specifications, model-checking configurations and proofs for kal-zk, the
zero-knowledge factor of the kal authentication library: anonymous membership
login, claims proved against a Merkle tree of credentials, and a knowledge
step-up factor. Paths are relative to the repository (`src/` here); every
definition is translated from the Go source and its SQL, and
`PROJECT.json` names, for each, the lines it stands for.

To run one: `tlc -workers 2 -config Tree.cfg MCMembershipTree`. To check the
proofs of one module: `tlapm MembershipTreeProofs.tla`, and so on for
`MerkleProofs`, `NullifierProofs`, `KnowledgeProofs`, `RequestClaimsProofs`,
`AdmissionProofs`, `CircuitProofs` and `MutationProofs`.

## The system

kal-zk is a Go library. Any number of replicas of an application call it at the
same time, and all durable state is in PostgreSQL at READ COMMITTED; the
replicas share nothing else. Inside one replica there are two more places where
things meet: the semaphore in front of the pairing check, and the request-local
holder of proven claims that GraphQL field resolvers share.

| Part | Source | State | Operations | What makes it correct |
|---|---|---|---|---|
| Tree writers | `zkauthn/tree.go`, `sql.go`, `service.go` (withTx) | `auth_zk_credentials`, `auth_zk_nodes`, `auth_zk_roots`, an advisory lock | IssueCredential, RevokeCredential, RevokeCredentialsForUser | the node table is the Merkle tree of the live credentials, one current root, an index is given once, a revoked leaf stops being provable in time |
| Path reader | `tree.go` (Path) | none of its own | Path | what it hands out verifies; it answers |
| Challenges | `protocol.go`, `sql.go` | `auth_zk_challenges` | issue with purge, peek, consume | one challenge serves one call, for its purpose and session, before it expires |
| Knowledge factor | `protocol.go` | `auth_zk_commitments`, kal's sessions | EnrollKnowledge, KnowledgeChallenge, VerifyKnowledge | MFA rests on the commitment an account has now; replacing one is authorized |
| Membership factor | `protocol.go`, `tree.go`, `sql.go` | `auth_zk_claims`, `auth_zk_nullifiers`, `auth_zk_session_claims`, kal's users and sessions | EnsureClaim, LoginChallenge, ClaimChallenge, Login, ProveClaim | a nullifier is decided once, a login stays on its pseudonym, an allowance is spent once |
| Request claims | `zkauthz/zkauthz.go` | the holder: recurring names, one-shot counters, a mutex | Middleware, Add, Proofs | concurrent fields never share a grant; a demand is met whole or not at all |
| Admission | `zkauthn/service.go` | a weighted semaphore | acquire, verify, verifyDummyMembership | the ceiling holds, no slot is lost, what a refusal cost tells nothing of claims and roots |
| Circuits, hashing | `circuits.go`, `hash.go`, `proof.go` | none | Define, the oracles, drawField, ProveKnowledge, ProveMembership, verify | the circuits accept what the oracles accept; what an accepted proof shows, its maker has |
| Mutation runner | `internal/cmd/zktestmutate` | a snapshot, a child process, a report | validate, copy, baseline, patch, mutated run, exit | a kill is evidence, and the runner ends |
| Keys, construction | `keys.go`, `service.go` (New) | files | load, pin, validate | sequential, no shared state |

How they meet. Writers and the path reader share the three tree tables. The
membership factor looks a root up in `auth_zk_roots` and never locks the tree.
Both factors use the challenge table. Both pass through admission before their
transaction. ProveClaim calls back into the request's holder (ProofSink) from
inside its transaction; the `@auth` directive empties the holder.

What is hard here. Every decision of a request except the last is taken outside
a transaction (policy, root, peek, commitment, pairing), so everything it read
can be old when it writes. Writers wait for an advisory lock inside
transactions whose `now()` is already fixed. A Merkle update is 64 statements,
any of which may fail. Unique keys make first logins wait for each other. The
holder is filled before a commit that may fail. Timeouts race the hand-over of
a slot. A prover chooses its own witness, in a field where a comparison can
wrap. `PROJECT.json` lists these as hazards, each at its line, with the
properties that cover it; there is none left without one.

## The modules

    SparseMerkle          tables as functions, StoreNode, the tree and path hash
      MerkleProofs        levels, paths and roots of any tree
      CredentialRegistry  abstract: every tree operation is one step
      MembershipTree      writers, transactions, the lock, writeLeaf, roots
        PathReader        the unlocked reader beside the writers
          MembershipTreeProofs  consistency, roots and grace, paths, refinement
    Challenges            the statements on auth_zk_challenges, as operators
      KnowledgeFactor     enrolment and step-up, any number of calls
        KnowledgeProofs
      MembershipProofs    Login and ProveClaim, statement by statement
        NullifierProofs
    Allowances            abstract: a demand is met in one step
      RequestClaims       the holder, its mutex and the two loops of Proofs
        RequestClaimsProofs
    Admission             the semaphore and the branches that pay for a pairing
      AdmissionProofs
    Circuits              SparseMerkle, the two circuits, the oracles, the hashes
      Proving             clients with any witness, and the server they prove to
        CircuitProofs
    MutationRun           the release mutation runner and its surroundings
      MutationProofs
    MC*                   constants and symmetry for TLC

A definition that starts a comment with "Mutant of" is a wrong version of the
one after it; substituting it must break the property that `PROJECT.json` pairs
it with. No specification uses them.

**SparseMerkle.** A table is a function from key to row, an absent row is
outside the domain. Hashes are operators without any assumption, so nothing
that is proved depends on them unless a theorem says so in a hypothesis; TLC
gets `MCHash(a, b) == <<a, b>>`, which has no collisions. `Ancestor(i)` is the
way up from leaf i, one shift per level, `Climbed` what a path hashes to on it,
`TreeNodes` the tree over a set of credentials, level over level. `zeros` is
the array New computes, with the fold as a named assumption (`ZerosFold`), and
`TreeShape` says each level is half as wide.

**MembershipTree.** A writer is a transaction: the caller's own or one that the
library begins (`withTx`). `Begin` fixes `start`, its `now()`; each operation
takes the lock with its first read (`Start`), `RevokeNext`, `WriteNode` (one
turn of writeLeaf's loop), `PublishRoot` (retireRoot and insertRoot) and
`ReadPath` follow the code; `Commit` copies the transaction's tables to `db`,
`Rollback` may happen at any point and stands for failed statements, crashes,
cancellations and callers that change their mind. `work` is the transaction's
view of the tables, taken with the lock: only holders of that lock write these
tables and it is kept to the end of the transaction, so later statements of the
holder see the same committed rows. One transaction can run several operations
(`MaxOps`). A credential's secret, attributes and salt are inside its opaque
commitment. `goneAt` and `leaves` are history variables.

**PathReader.** Path takes no lock, so each of its statements sees what is
committed when it starts: the credential, the root, each sibling, the root
again. `attempt` bounds it to two walks. `snapshot` and `moves` are history.

**Challenges.** A token stands for its hash and for the field it encodes, all
functions of each other. Issuing purges expired rows in the same statement.

**KnowledgeFactor.** A call arrives with the principal that kal's middleware
resolved, reads and decides outside a transaction (`EnrollRead`, `VerifyRead`),
then writes in one. Enrolment's transaction is statement by statement:
`EnrollUpsert` locks the account's commitment (`CommitmentFree`), `EnrollRevoke`
fixes the sessions there are as RevokeAllForUser's update starts and locks them
(`SessionFree`), `EnrollCommit` makes all of it visible. Between the last two
others still read the old commitment, and a session may sign in that the
revocation has not seen. Step-up's transaction is one step (`VerifyCommit`), for
all that it reads, it has locked. A secret is named by the call that generated
it. kal's sessions are environment: signing in and out may happen at any time,
RecordMFA needs a live session that nobody is ending, RevokeAllForUser is one
update over the rows its statement sees.

**MembershipProofs.** `Submit` is the policy and root reads, `Verify` the peek,
the pairing and Login's policy checks (the pairing reads nothing and the peek
decides nothing that the consuming update does not decide again, so they are
one step), and from then on every SQL statement of the transaction is a step.
Uncommitted writes are in the request's own record (`row`, `user`); a statement
that would write a key another open transaction has written waits (`TokenFree`,
`KeyFree`), as PostgreSQL's unique indexes and row locks make it. `Fail` may
strike before every statement and before the commit. A proof is what it convinces the
verifier of; a proof of anything else is refused and is `Fail`. The credential
tree appears as `RootMayHold`, which is what `RevocationLatency` establishes
for MembershipTree.

**RequestClaims.** A demand is a bag of names, for `Proofs` never looks at the
order. `Lock`, `Check`, one `SpendOne` per entry of the map, in any order,
`Unlock`; the error returns are `NoLock` and `CheckFails`. What Middleware
loads is the initial state, the failed query included (`loadErr`).

**Admission.** The semaphore is golang.org/x/sync's and outside this
repository; it is modelled by its contract: first come first served, the
releaser hands over, a waiter that gives up after it was handed a slot passes
it on. A request has an operation and a set of flaws, those the server finds
before it looks at the proof; `RefusedAtOnce` are the refusals without a
pairing, the others spend one, on the dummy statement or against the dummy
commitment. `paid` is history.

**Circuits.** The two circuits as predicates on a witness whose numbers are
field elements: `AssertIsLessEq` subtracts modulo `P` and asks that the
difference decomposes into a word, `Words` are the numbers uint64Field makes.
`KnowledgeCircuit` and `MembershipCircuit` are the assertions of Define in
their order, `Bound` the square that ties the challenge in. The oracles of
proof.go are `MembershipValid` and `OracleDomain`, on integers. `Generates` is
generateSecret's retry over what the entropy source answers. `VerifyAccepts` is
Groth16 by its soundness: a proof is accepted for its own circuit and for
exactly the public inputs it was made for.

**Proving.** The server issues, revokes, enrols, draws challenges and verifies;
a client tries any leaf, attribute, secret it was given and nullifier, the
empty leaf and the zero secret included (`ProveMembership`, `ProveKnowledge`),
with a published path or one from `MadeUp`, paths that clients put together
themselves. The root of a witness is the one its path ends at, since the circuit
takes no other: that is a tree of the client's own as soon as leaf or path is.
TLC's `MadeUp` holds paths of trees with one leaf and with two, and an index
outside the tree; the proofs assume nothing of it.
What happens between a check and its transaction is in the modules above, so
here verifying and consuming are one step and only the current root is
accepted.

**MutationRun.** The runner is one sequential process: `Validate`, `Select`,
`CopyFile` once per file, `RunBaseline`, `Baseline`, `Patch`, `Mutated`,
`Summary`, the error returns inside each. A file is what it is to a patch:
anchored once, edited, patched, or a link that no snapshot takes. Beside it a
contributor edits the sources (`MaxEdits`), the database comes and goes, and
the go command starts, hangs or ends. `Timeout` is the goroutine of goCommand
that kills the process if it has been started by then. An event of the named
test is its `outcome`, with the fixture's failure to reach the database told
apart from a failure that saw the mutation.

## The runs

Times are with two workers on an ordinary machine; every passing run finishes
its whole state space.

| Run | Module, bounds | Question | Answer |
|---|---|---|---|
| tree | 2 writers, 4 leaves, 4 commitments, 1 user, no clock | Is the committed tree always the tree of the live credentials, and is each commit one step of CredentialRegistry? | yes: `TreeIsConsistent`, `TreeInv`, `RowsOnlyAboveLiveLeaves`, `IssuedPathVerifies`, `CredentialsArePermanent`, `RefinesRegistry` |
| tree_grace | 2 writers of 2 operations each, 2 leaves, clock to 3, grace 2 | Is there one current root, and does grace bound how long a revoked leaf is provable? | yes: `OneCurrentRoot`, `RevocationLatency`, and `LedgerInv` behind them |
| path | 1 reader, 1 writer, 4 leaves, 2 commitments | What can an unlocked reader hand out, and does it answer? | a mixed path only if the root left and came back, a path that verifies if none was published and its leaf was still there: `MixedPathTookTwoMoves`, `QuietPathVerifies`, `PathAnswers`, `LockIsReleased` |
| knowledge | 2 users, 2 sessions, 2 tokens, 4 calls, clock to 2 | Does a step-up always rest on the present commitment? | yes, but for a secret that another first enrolment overwrote and a session that signed in between revocation and commit: `MFARestsOnCurrentCommitment`, `OneStepUpPerChallenge` |
| enroll_race | the same | Is every replacement authorized? | **no**, see findings |
| membership | 2 persons, 1 shared credential, 2 tokens, 2 requests, 2 policies | Are nullifiers, pseudonyms and allowances settled once, and does everybody get an answer? | yes: `NullifierIsForGood`, `LoginStaysOnPseudonym`, `SpentOnce`, `GrantsAreBurnt`, `StandingClaimsAreProved`, `RequestsAnswered` |
| last_start | 1 person, 1 request, clock to 5 | How long after a revocation can a transaction for it begin? | less than RootGrace + ChallengeTTL: `LastStartOfRevoked`; its waits for rows come on top |
| request_claims | 2 fields, 2 names and the blank one, demands of up to 3 entries, 2 grants per name | Is meeting a demand atomic? | yes: `GrantsAreNotShared`, `ProofsReturn`, `RefinesAllowances` |
| admission | 4 requests of three kinds, 2 slots | Are slots ever lost, is every request answered, and does the cost of a refusal tell what was wrong? | no, yes, and not which claim, root, commitment or proof it was: `SlotsAccountedFor`, `EveryRequestIsAnswered`, `RefusalsCostAlike` |
| circuits | 2 clients, 2 secrets, 2 challenges, 4 leaves, 3 self-made paths, field of 9, words of 2 bits, 2 policies | Do the circuits agree with the oracles, what does an accepted proof show, and how often? | that its maker holds it, once: `CircuitMatchesOracle`, `AcceptedIsOwn`, `AcceptedOnce`, `HonestWitnessProves` |
| mutation | 2 files, 2 mutants, 2 edits | Is a killed mutant evidence, and does the runner end? | yes, unless a timeout comes before the process exists: `KilledIsEvidence`, `RunnerFinishes` |
| mutation_db | the same | Is a lost database never a kill? | **no**, see findings |

Why these bounds. A tree of four leaves has an inner level between leaf and
root, which is where a wrong position, order or stale row shows, and four
commitments fill it, so that `IssueFull` happens. Two writers are enough for
the lock: a third only waits too. Roots and the clock are checked on two
leaves, where two operations per transaction bring old roots back and three
ticks exceed a grace of two. Two requests with two tokens are the least that
can share either or neither of token and nullifier, one credential makes both
persons meet on the nullifier. Four calls allow two racing enrolments, a
replacement and a step-up. Four requests for two slots have two that run and
two that queue, one that may succeed, one that is refused after its pairing and
one that is refused at once are the kinds; two slots and not one, because with
one the queue is a lock. All other flaws and the step-up's dummy commitment are
in the theorem `RefusalsTellNothing`. The field of nine holds two words of two
bits and has elements that are no word, so that a difference can wrap and be caught: 8
is one, and 3 a word that nobody is granted. The granted attribute 1 lies
between the thresholds 0 and 2, and one audience has its number, so that a
shared hash domain would show. Two challenges are what a replay needs. Two
mutants, one of which patches both files, let an edit fall between the files of
one snapshot and between two snapshots.
`MaxTime`, `MaxOps`, `MaxGrants` and `MaxEdits` are the only bounds in guards; sessions,
tokens, calls and requests are used once each.

`CHECK_DEADLOCK FALSE` is in the configurations in which calls, tokens or the
clock run out: a system that has answered its last call stops there. Waiting
on each other is what `RequestsAnswered`, `EveryRequestIsAnswered` and
`ProofsReturn` look for.

Symmetry is used where only invariants, action properties and safety
refinements are checked, on sets whose members no definition tells apart.

### Fairness

Weak fairness of each call's own steps: a handler that has started is
straight-line code and the runtime schedules it. Nobody has to call, nothing
has to fail, no timeout has to fire. In MembershipTree, `withTx` always commits
or rolls back, so `Commit` and the rollback of an aborted transaction are fair.
In RequestClaims it is strong fairness, since Go's mutex hands itself to a
waiter after a millisecond (starvation mode). In Admission weak fairness is
enough, as the semaphore is first come first served. In MutationRun the runner
is one goroutine, the timeout is a timer, and a process that does not hang
starts and ends; nobody edits or restores the database of necessity. goCommand
does not wait for the process to exist before it arms the timer: a timeout that
finds none (`missed`) is the exception `RunnerFinishes` states.

### Findings

1. `enroll_race`: whether a commitment exists is read outside the transaction
   that upserts, so the later of two concurrent first enrolments overwrites the
   earlier without password or MFA, and without ending sessions.
   `MFARestsOnCurrentCommitment` has to name those sessions as an exception.
2. `mutation_db`: the runner takes any failure that carries the test's name for
   a kill, also that of its own database fixture; the document of the test
   suite says such a failure is not enough.

Five observations that no run reports as a violation, for what holds is stated
instead:

- retireRoot stamps `retired_at` with `now()`, the start of the transaction. A
  writer that waited for the lock for RootGrace retires the root with a window
  that is already over. The error is on the safe side (`RevocationLatency`).
- If a credential is issued and then revoked during a walk of Path, the root
  comes back and the siblings are mixed, though the comment at tree.go:91-92
  takes equal roots to mean that nothing was published. The client gets a path
  that does not verify and asks again (`MixedPathTookTwoMoves`).
- The holder gets a one-shot grant before the commit; if that fails, the grant
  stays in the request and the allowance can be proved again. The repository
  documents it (F-3); `GrantsAreBurnt` says that no other request leaves such a
  grant.
- RevokeAllForUser ends the sessions its statement sees, and VerifyKnowledge
  reads the commitment outside a transaction and never again. A session that
  signs in between that statement and the commit, and checks its proof against
  the commitment that is still there, steps up with the old secret after it was
  replaced. `src/README.md:142-143` says that replacement revokes every other
  session, `src/docs/vulnurability-test-cases.md:3014-3015` that the old secret
  stops working. These sessions are the second exception (`during`) of
  `MFARestsOnCurrentCommitment`; without it TLC exhibits one.
- With a challenge that is not open, a membership request is refused without a
  pairing if its claim and root are good and with one if they are not, because
  the challenge is looked at after them. `RefusalsCostAlike` therefore speaks of
  open challenges; anybody can draw one.

## What is proved

Eight modules hold TLAPS proofs. Every safety property that a passing run
checks is stated by a theorem for every value of the constants: the invariants,
the action properties and both refinements, that of CredentialRegistry for
transactions of one operation. What is left to TLC alone is liveness.

Some theorems have `CollisionFree` as a hypothesis, `CircuitProofs` the wider
`HashesDiffer`: different inputs have different hashes, the two domain labels
differ and no leaf hashes like the empty one. No code can establish that; it is
the assumption about MiMC under which a root or a nullifier means anything.
Pairs and triples as they are meet it, so the hypotheses are not empty. Each
theorem says whether it needs them.

`MerkleProofs`, for every `MerkleDepth` and width that satisfy `TreeShape` and
any hash, has what the model's recursive functions compute. The prover cannot
instantiate the library's induction theorems, whose parameter is an operator, so
induction is done by hand: `LeastNumber` (a set of naturals has a least
element, from `WFMin`) gives `LevelsUp` and `LevelsDown`, in which the property
is a set of levels. A recursive function is first shown to exist, level by
level, and `AncestorSteps`, `ClimbSteps` and `TreeSteps` are then its equations.
A labelling of the positions `Folds` if each node hashes its children; the tree
of a set of credentials does, and so does a consistent node table.

- `PathReachesTop`: a path with the siblings of its index climbs along the nodes
  to the top. Any hash.
- `VerifyingPathIsTheTrees`: the converse, binding. Without collisions a path
  that ends at the top of a tree holds the leaf and siblings it has there.
- `TableRootIsTreeRoot`: a table that is consistent level by level over the
  leaves of some credentials has the root of their recursive tree. Any hash.
- `EmptyAboveNoLeaf`: without collisions a node is the zero of its level exactly
  if no live leaf is below.

`MembershipTreeProofs`, for every such tree, every hash, every `zeros` that
satisfies `ZerosFold`, every set of writers, users and commitments, every grace
and bound (`Bounds`):

- `TypeCorrect`: `Spec => []TypeOK`. Besides types this says that writeLeaf's
  position stays inside its level.
- `TreeInvariant`: `Spec => []TreeInv`.
- `CommittedTreeIsConsistent`: `Spec => []TreeIsConsistent`. Whatever
  transactions interleave, fail and share, each leaf node is the hash of its
  live credential or the zero, each inner node is the hash of its children, and
  the current root is the top.

The argument. `TreeIsConsistent` is not inductive: `Commit` replaces the tables
by the transaction's own, about which it says nothing. `TreeInv` adds, for the
holder of the lock, that its tables are consistent whenever it can commit, and
`HalfWritten` while it is inside writeLeaf: the tree is right except at the
walk's own position, which waits for `cur`. `ClimbKeepsHalfWritten` carries
that up one level; it rests on `OneLevelUp`, the arithmetic of position,
sibling and parent, and on `StoreNodeReads`: leaving out the row of an empty
subtree changes nothing that a reader sees. At the top,
`PublishMakesConsistent` gives consistency back. Nobody but the holder has
tables to commit, so nobody else can disturb it.

The roots and the past, in the same module under the same assumptions:

- `LedgerInvariant`: `Spec => []LedgerInv`.
- `CurrentRootIsUnique`: `Spec => []OneCurrentRoot`.
- `GraceBoundsRevocation`: `Spec => []RevocationLatency`. The bound is the
  configured grace however long the transaction waited for the lock, however
  many leaves it revokes, and although roots come back.
- `CommittedCredentialsArePermanent`: `Spec => CredentialsArePermanent`.

The argument. None of the three is inductive, for `Commit` again replaces the
tables by ones they say nothing about. `LedgerInv` says what the holder's tables
keep of the committed ones: every credential with its commitment and revocation
(`Permanent`), and one current root that holds only its own live leaves
whenever it can commit (`Committable`). `RootsInTime` is the link to the clock:
a root that is not retired holds no leaf whose revocation is committed, and a
root that holds such a leaf was retired no later than that commit. The time a
transaction stamps is its start, which is at most the time of its commit; that
is all that is needed, and it is why a long wait shortens the window and never
lengthens it. A root that comes back is stamped for live leaves, and no live
leaf is gone, since revocations are permanent (`LiveIsNotGone`). When a
revocation commits, the leaf is not live, so the one current root does not hold
it, and every other root is retired already. What a root holds is the set of leaves
it was last published for; if the hash has collisions that says no more than
the table does, and TLC's hash has none.

Paths, rows and the refinement:

- `IssuedPathsVerify`: `Spec => []IssuedPathVerifies`, for any hash. `IssuedInv`
  says that between insertRoot and the reading of the siblings the writer's
  `cur` is still its current root and its leaf still live; `PathReachesTop` does
  the rest.
- `RowsAreMinimal`: `Spec => []RowsOnlyAboveLiveLeaves`, if the hash is
  collision-free and no commitment's leaf is the empty one. `RowsInv` is that no
  row, committed or not, holds its level's zero; that the other positions have
  one is `EmptyAboveNoLeaf` on the consistent table.
- `TreeRefinesRegistry`: `Spec => RefinesRegistry` for `MaxOps <= 1`, any hash.
  `OneOpInv` says what an open transaction's tables are of the committed ones:
  nothing changed, one credential issued at the next index, or the walk so far
  of one revocation. `Commit` is then the registry's step, everything else a
  stutter, and `TableRootIsTreeRoot` turns the published root into the fold.
  A transaction of several operations is several steps of the registry at once
  and is no refinement of it; `TreeIsConsistent` is what holds then.
- `ReadersTyped`, for any hash: Path's variables keep their types and its climb
  stays inside the tree, which no run repeats. `MixedPathsTookTwoMoves` and
  `QuietPathsVerify`, collision-free. `WalksInv` relates a reader in mid-walk to the tables now:
  while no root was published since its first read they are its snapshot, and
  after one publication the root differs, for an equal root would be an equal
  tree (`SameTop`).

`NullifierProofs`, for any number of requests, persons, credentials, claims,
policies and challenges, any grace and any time to live; assumed are that a
request's ids are nobody else's (`IdsDiffer`), that None is no row
(`NoneIsNoRow`) and that times are natural:

- `MembershipTypes`, `NullifiersAreSettledOnce`, `LoginsStayOnPseudonyms`,
  `ChallengesAndAllowancesAreSpentOnce`, `CommittedGrantsAreBurnt`,
  `StandingClaimsRestOnProofs` and `RevokedCredentialsExpire`: every safety
  property of the membership and last_start runs. The last one bounds when a
  transaction for a revoked credential begins. Nothing bounds when it commits:
  the consuming update compares with `now()`, which is the transaction's start,
  and a wait for a row is as long as another transaction stays open.

The argument. Each property is about committed rows, and each can be broken by
what a transaction holds and has not committed, so `MembershipInv` describes
that. `Apart`: two transactions past their first write have different
challenges, and two that write a row have different nullifiers; the waits
(`TokenFree`, `KeyFree`) establish it and nothing after them can undo it.
`RowInv`: a transaction that carries a row has a nullifier that no table has
yet, one that carries none has found a row that is not spent. `LoginInv` and
`ClaimInv` say whose account the row names, `UsedInv` that a challenge of a
committed request is burnt or purged, `LastInv` that a challenge drawn while
the root was still accepted ends the request in time. `Moved` is the common
part of all statements that only change a request's own record; `Commit` is
taken table by table.

`KnowledgeProofs`, for any number of accounts, sessions, challenges and calls:
`FactorTypes`, `StepUpsRestOnCommitment`, `ChallengeStepsUpOnce`. `VouchInv`
adds to the property the calls between their read and their transaction: the
commitment such a call verified against is the present one, or its session is
over, or one of the two exceptions holds. While a replacement is between its
revocation and its commit, `RevocationSeen` says that every live session of the
account is one it will end or one that signed in since. `SpentInv` adds that a challenge that stepped up is
consumed, or purged and never drawn again.

`RequestClaimsProofs`, for any number of fields, names, grants and demands:
`HolderTypes`, and `HolderImplementsAllowances`: `Spec => RefinesAllowances`,
the refinement of Allowances step by step. `HolderInv` says that who has checked
holds the mutex, and that every entry it has still to spend is covered; `Unlock`
is the step that meets the demand, everything before it a stutter.
`GrantsNotShared`: `Spec => []GrantsAreNotShared`, for a finite set of fields
(`RequestIsFinite`). The sum over the fields is a fold, about which `SumMoves`
is proved first, by induction on the size of the subset summed (`SubsetsUp`):
one entry moves by d and so does the sum. Then `SpendOne` takes from a counter
what it gives to a field (`Counted`), and a field that passed has been given
what it demanded, one that was denied nothing (`Settled`); as counters stay
natural, the fields that passed demanded no more than was added.

`AdmissionProofs`, for any number of requests and slots: `AdmissionTypes`,
`SlotsAreNeverLost`, `RefusalsTellNothing`. `AdmissionInv` says that the queue has no
duplicates, that who was handed a slot is waiting and no longer queues,
that slots are counted by the finite sets of the two, and for which flaws a
request that was refused has paid.

`CircuitProofs`, for every field that holds two words (`FieldHoldsWords`,
`FieldHoldsIndexes`) and every tree:

- `CircuitAgreesWithOracle`: the heart is that subtraction modulo `P` of two
  words is a word exactly if it does not wrap. Nothing is assumed of the hash.
- `ProofIsAcceptedOnce`: with the challenge in the witness and used challenges
  gone for good.
- `ClientsTyped`: `Spec => []TypeOK` of Proving.
- `StepUpIsOwn`: needs a hash with no collisions among knowledge secrets
  (`CommitmentsDiffer`) and that the zero secret is never drawn (`ZeroIsNoSecret`
  with generateSecret's refusal).
- `AcceptedProofIsOwn`: `Spec => AcceptedIsOwn`, and `HonestWitnessIsEnough`:
  `Spec => []HonestWitnessProves`, if `HashesDiffer`.

The argument. `ClientsInv` says that a secret is known to one person, that a
proof was made from a secret its maker knows and a witness its circuit accepts
(`OwnInv`), that a challenge is open or used (`ChallengeInv`), and that each row
of the registry has a holder who was given what it commits to (`RegistryInv`).
An accepted membership witness climbs to the current root from an arbitrary
path, which `VerifyingPathIsTheTrees` makes the tree's own; its leaf is then a
live row (`VerifyingLeafIsLive`), the row has a holder, the holder's secret is
the witness's, and only its maker knows that. Where path, index and root of the
witness come from plays no part in this: `MadeUp` is any set. The honest direction is
`PathReachesTop`, and `EmptyAboveNoLeaf` for the tree of one leaf.

`MutationProofs`, for any manifest and any number of files and edits:
`KillsAreEvidence`, from `RunInv`, which says what the snapshot is in each phase.

Only model-checked: liveness (`PathAnswers`, `LockIsReleased`,
`RequestsAnswered`, `ProofsReturn`, `EveryRequestIsAnswered`, `RunnerFinishes`),
as TLAPS does not reason about ENABLED; and the two violations, which TLC
exhibits.

## Not modelled, and why

- gnark's keys, serialization and the pairing itself; loading and pinning files.
  Sequential, no state; a proof is what it convinces the verifier of, for the
  key of its own circuit.
- Validation of options in New, names, formats, error wording. Sequential.
- The bits of MiMC: hashes are opaque, and without collisions for TLC.
- Flags, JSON and file formats of the mutation runner, and its report.
- kal itself is another repository; what kal-zk relies on is in environment
  actions (SignIn, SignOut, DeleteUser) and in the guards of those that call it.
- SERIALIZABLE callers: a transaction handed to the tree by an application may
  run at a stricter level; the model is at the default.
- Login, ProveClaim, EnrollKnowledge and VerifyKnowledge inside a transaction of
  the application's own: there they commit when the application does. Only the
  tree's writers are modelled with transactions of several operations.
- Proving with older roots: the grace is in MembershipTree, and its consequence
  for a request in `LastStartOfRevoked`.

## Plan

The plan of modules is done. What could still be added, in order:

1. ProveClaim beside the fields that spend what it grants: one module that
   composes MembershipProofs with RequestClaims, so that a commit that fails and
   a field that has already used the grant meet in one behaviour.
2. Two path readers, or a reader whose credential is reissued; a depth of three.
3. Callers' own transactions around Login and ProveClaim.
