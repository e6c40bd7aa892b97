--------------------------- MODULE MembershipProofs ---------------------------
(***************************************************************************)
(* The membership factor (zkauthn/protocol.go): Login and ProveClaim as    *)
(* concurrent requests against PostgreSQL at READ COMMITTED.  A request    *)
(* reads the claim's policy and checks the root, then peeks at the         *)
(* challenge and verifies, all outside any transaction; its transaction    *)
(* burns the challenge, settles the nullifier and commits.  Every          *)
(* statement of the transaction is a step.  A statement that would write a *)
(* key another open transaction has written waits for that transaction     *)
(* (Free); what is written is seen by others after Commit.                 *)
(*                                                                         *)
(* A proof stands for what it convinces the verifier of: the holder of     *)
(* credential m satisfies the policy read, and Nullifier(m, audience) is   *)
(* its nullifier.  A proof made for anything else is refused.              *)
(***************************************************************************)
EXTENDS Challenges, FiniteSets

CONSTANTS
  Persons,       \* accounts that are nobody's pseudonym
  SessionOf,     \* the kal session each of them has: [Persons -> session]
  Members,       \* credentials
  ClaimNames,
  Policies,      \* [audience, kind, login] an operator may install
  Tokens,        \* challenge tokens, each drawn once
  Requests,      \* calls of Login and ProveClaim; also the ids of the accounts
                 \* and sessions they create
  None,
  RootGrace,
  MaxTime        \* bound: the clock stops here

Audiences == {policy.audience : policy \in Policies}
Keys == Members \X Audiences
Rows == [audience : Audiences, user : Persons \cup Requests \cup {None}, consumed : BOOLEAN]

ASSUME IdsDiffer ==
  Requests \cap (Persons \cup {SessionOf[p] : p \in Persons} \cup {None}) = {}
ASSUME NoneIsNoRow == None \notin Rows \cup Keys
ASSUME TimesAreNatural == {RootGrace, ChallengeTTL, MaxTime} \subseteq Nat

VARIABLES
  now,
  claims,        \* auth_zk_claims: name -> policy, or None
  challenges,    \* auth_zk_challenges
  drawn,         \* tokens drawn so far
  users,         \* auth_users: id -> [email, deleted]; a person's email is None
  nullifiers,    \* auth_zk_nullifiers: nullifier -> [audience, user, consumed]
  sessions,      \* kal: id -> [user, live, via]; via is history
  sessionClaims, \* auth_zk_session_claims: pairs of a session and a claim name
  goneAt,        \* when each credential's revocation was committed
  req,           \* local state of each request
  granted        \* requests whose one-shot grant reached the holder

tables == <<claims, challenges, drawn, users, nullifiers, sessions, sessionClaims>>
mvars == <<now, tables, goneAt, req, granted>>

NotGone == -1
Nullifier(m, audience) == <<m, audience>>

IdleRequest ==
  [pc |-> "idle", op |-> "none", session |-> None, claim |-> None, policy |-> None,
   token |-> None, member |-> None, began |-> 0, user |-> None, row |-> None]

Ended == {"done", "refused", "failed"}
Key(r) == Nullifier(req[r].member, req[r].policy.audience)
Home(r) == IF req[r].op = "login" THEN r ELSE req[r].session
Purpose(r) == IF req[r].op = "login" THEN "login" ELSE "claim"
ChallengeSession(r) == IF req[r].op = "login" THEN None ELSE req[r].session
Put(f, k, v) == [x \in DOMAIN f \cup {k} |-> IF x = k THEN v ELSE f[x]]

Init ==
  /\ now = 0
  /\ claims = [c \in ClaimNames |-> None]
  /\ challenges = [t \in {} |-> None] /\ drawn = {}
  /\ users = [p \in Persons |-> [email |-> None, deleted |-> FALSE]]
  /\ nullifiers = [n \in {} |-> None]
  /\ sessions = [s \in {SessionOf[p] : p \in Persons} |->
       [user |-> CHOOSE p \in Persons : SessionOf[p] = s, live |-> TRUE, via |-> None]]
  /\ sessionClaims = {}
  /\ goneAt = [m \in Members |-> NotGone]
  /\ req = [r \in Requests |-> IdleRequest] /\ granted = {}

-----------------------------------------------------------------------------
(* Surroundings: the clock, operators, kal's accounts, the credential tree. *)

Tick == now < MaxTime /\ now' = now + 1 /\ UNCHANGED <<tables, goneAt, req, granted>>

EnsureClaim(c, policy) ==
  /\ claims' = [claims EXCEPT ![c] = policy]
  /\ UNCHANGED <<now, challenges, drawn, users, nullifiers, sessions, sessionClaims,
                 goneAt, req, granted>>

(* A pseudonymous account is soft-deleted; its nullifier row stays. *)
DeleteUser(u) ==
  /\ u \in DOMAIN users \ Persons /\ ~users[u].deleted
  /\ users' = [users EXCEPT ![u] = [@ EXCEPT !.deleted = TRUE]]
  /\ UNCHANGED <<now, claims, challenges, drawn, nullifiers, sessions, sessionClaims,
                 goneAt, req, granted>>

RevokeMember(m) ==
  /\ goneAt[m] = NotGone
  /\ goneAt' = [goneAt EXCEPT ![m] = now]
  /\ UNCHANGED <<now, tables, req, granted>>

(* A root a revoked credential is under is accepted for RootGrace at most:  *)
(* RevocationLatency of MembershipTree.                                     *)
RootMayHold(m) == goneAt[m] = NotGone \/ now < goneAt[m] + RootGrace

-----------------------------------------------------------------------------
(* LoginChallenge, and ClaimChallenge for the session of the caller. *)
DrawChallenge(t, purpose, session) ==
  /\ t \notin drawn
  /\ challenges' = IssueChallenge(challenges, t, purpose, session, now)
  /\ drawn' = drawn \cup {t}
  /\ UNCHANGED <<now, claims, users, nullifiers, sessions, sessionClaims,
                 goneAt, req, granted>>

LoginChallenge(t) == DrawChallenge(t, "login", None)
ClaimChallenge(t, s) == sessions[s].live /\ DrawChallenge(t, "claim", s)

-----------------------------------------------------------------------------
(* verifyMembershipRequest. *)

(* The policy is read and the root looked up; the client already holds the *)
(* token its proof is made for.  Login may carry a prior session.           *)
Submit(r, op, s, c, t, m) ==
  /\ req[r].pc = "idle"
  /\ s = None => op = "login"
  /\ s # None => s \in DOMAIN sessions /\ sessions[s].live
  /\ claims[c] # None /\ t \in drawn /\ RootMayHold(m)
  /\ req' = [req EXCEPT ![r] =
       [IdleRequest EXCEPT !.pc = "submitted", !.op = op, !.session = s, !.claim = c,
                           !.policy = claims[c], !.token = t, !.member = m]]
  /\ UNCHANGED <<now, tables, goneAt, granted>>

GoTo(r, pc) == req' = [req EXCEPT ![r] = [@ EXCEPT !.pc = pc]]
Only(r, pc) == GoTo(r, pc) /\ UNCHANGED <<now, tables, goneAt, granted>>

(* Peek, pairing, the policy checks of Login; then the transaction begins,  *)
(* which fixes its now().                                                   *)
MayProceed(r) ==
  /\ Usable(challenges, req[r].token, Purpose(r), ChallengeSession(r), now)
  /\ req[r].op = "login" => req[r].policy.kind = "recurring" /\ req[r].policy.login

Verify(r) ==
  /\ req[r].pc = "submitted"
  /\ IF MayProceed(r)
     THEN /\ req' = [req EXCEPT ![r] = [@ EXCEPT !.pc = "consume", !.began = now]]
          /\ UNCHANGED <<now, tables, goneAt, granted>>
     ELSE Only(r, "refused")

-----------------------------------------------------------------------------
(* The transaction. *)

Writing == {"resolve", "create", "again", "issue", "bind", "sink", "commit"}

(* No other open transaction has written this challenge, this nullifier or  *)
(* an account for its email.                                                *)
TokenFree(r) ==
  \A q \in Requests \ {r} : req[q].pc \in Writing => req[q].token # req[r].token
KeyFree(r) ==
  \A q \in Requests \ {r} :
    req[q].pc \in Writing /\ req[q].row # None => Key(q) # Key(r)

(* Mutant of ConsumeChallenge: the update no longer asks for an unused row. *)
ConsumeChallengeAgain(r) ==
  /\ req[r].pc = "consume" /\ TokenFree(r)
  /\ Only(r, IF req[r].op = "login" THEN "resolve" ELSE "bind")

ConsumeChallenge(r) ==
  /\ req[r].pc = "consume" /\ TokenFree(r)
  /\ Only(r, IF Usable(challenges, req[r].token, Purpose(r), ChallengeSession(r),
                       req[r].began)
             THEN IF req[r].op = "login" THEN "resolve" ELSE "bind"
             ELSE "refused")

(* Mutant of Resolves: any live account the nullifier names will do. *)
ResolvesAnyone(r, u) ==
  /\ Key(r) \in DOMAIN nullifiers
  /\ nullifiers[Key(r)].user = u
  /\ nullifiers[Key(r)].audience = req[r].policy.audience
  /\ ~nullifiers[Key(r)].consumed
  /\ u \in DOMAIN users /\ ~users[u].deleted

(* resolveNullifier: the row must name a live account whose email is the    *)
(* one derived from the nullifier itself.                                   *)
Resolves(r, u) ==
  /\ Key(r) \in DOMAIN nullifiers
  /\ nullifiers[Key(r)].user = u
  /\ nullifiers[Key(r)].audience = req[r].policy.audience
  /\ ~nullifiers[Key(r)].consumed
  /\ u \in DOMAIN users /\ ~users[u].deleted /\ users[u].email = Key(r)

Resolved(r, u) ==
  /\ req' = [req EXCEPT ![r] = [@ EXCEPT !.pc = "issue", !.user = u]]
  /\ UNCHANGED <<now, tables, goneAt, granted>>

ResolvePseudonym(r) ==
  /\ req[r].pc = "resolve"
  /\ \/ \E u \in DOMAIN users : Resolves(r, u) /\ Resolved(r, u)
     \/ (\A u \in DOMAIN users : ~Resolves(r, u)) /\ Only(r, "create")

EmailTaken(n) == \E u \in DOMAIN users : users[u].email = n /\ ~users[u].deleted

(* Mutant of CreatePseudonym: the id of the new account is not returned. *)
CreatePseudonymUnread(r) ==
  /\ req[r].pc = "create" /\ KeyFree(r)
  /\ IF EmailTaken(Key(r)) \/ Key(r) \in DOMAIN nullifiers
     THEN Only(r, "again")
     ELSE /\ req' = [req EXCEPT ![r] = [@ EXCEPT !.pc = "issue",
                  !.row = [audience |-> req[r].policy.audience, user |-> r,
                           consumed |-> FALSE]]]
          /\ UNCHANGED <<now, tables, goneAt, granted>>

(* createNullifier: account and nullifier, or no row when either is there.  *)
CreatePseudonym(r) ==
  /\ req[r].pc = "create" /\ KeyFree(r)
  /\ IF EmailTaken(Key(r)) \/ Key(r) \in DOMAIN nullifiers
     THEN Only(r, "again")
     ELSE /\ req' = [req EXCEPT ![r] = [@ EXCEPT !.pc = "issue", !.user = r,
                  !.row = [audience |-> req[r].policy.audience, user |-> r,
                           consumed |-> FALSE]]]
          /\ UNCHANGED <<now, tables, goneAt, granted>>

(* Mutant of ResolveAgain: create and resolve until one of them succeeds. *)
ResolveAgainAndAgain(r) ==
  /\ req[r].pc = "again"
  /\ \/ \E u \in DOMAIN users : Resolves(r, u) /\ Resolved(r, u)
     \/ (\A u \in DOMAIN users : ~Resolves(r, u)) /\ Only(r, "create")

(* The one bounded re-resolve. *)
ResolveAgain(r) ==
  /\ req[r].pc = "again"
  /\ \/ \E u \in DOMAIN users : Resolves(r, u) /\ Resolved(r, u)
     \/ (\A u \in DOMAIN users : ~Resolves(r, u)) /\ Only(r, "refused")

(* Revoke the prior session, Issue, Lookup, storeSessionClaim: Lookup finds *)
(* no principal for an account deleted meanwhile.                           *)
IssueSession(r) ==
  /\ req[r].pc = "issue"
  /\ Only(r, IF req[r].user \in DOMAIN users /\ users[req[r].user].deleted
             THEN "failed" ELSE "commit")

(* Mutant of BindRecurring: the last session to prove a nullifier owns it. *)
BindRecurringAnew(r) ==
  /\ req[r].pc = "bind" /\ req[r].policy.kind = "recurring" /\ KeyFree(r)
  /\ req' = [req EXCEPT ![r] = [@ EXCEPT !.pc = "sink",
       !.row = [audience |-> req[r].policy.audience,
                user |-> sessions[req[r].session].user, consumed |-> FALSE]]]
  /\ UNCHANGED <<now, tables, goneAt, granted>>

(* bindRecurringNullifier, then storeSessionClaim: an existing row must     *)
(* already be this user's.                                                  *)
BindRecurring(r) ==
  /\ req[r].pc = "bind" /\ req[r].policy.kind = "recurring" /\ KeyFree(r)
  /\ LET row == [audience |-> req[r].policy.audience,
                 user |-> sessions[req[r].session].user, consumed |-> FALSE]
     IN  IF Key(r) \in DOMAIN nullifiers
         THEN Only(r, IF nullifiers[Key(r)] = row THEN "sink" ELSE "refused")
         ELSE /\ req' = [req EXCEPT ![r] = [@ EXCEPT !.pc = "sink", !.row = row]]
              /\ UNCHANGED <<now, tables, goneAt, granted>>

(* Mutant of BurnOneShot: nobody asks whether the insert wrote a row. *)
BurnOneShotUnasked(r) ==
  /\ req[r].pc = "bind" /\ req[r].policy.kind = "one_shot" /\ KeyFree(r)
  /\ IF Key(r) \in DOMAIN nullifiers
     THEN Only(r, "sink")
     ELSE /\ req' = [req EXCEPT ![r] = [@ EXCEPT !.pc = "sink",
                  !.row = [audience |-> req[r].policy.audience, user |-> None,
                           consumed |-> TRUE]]]
          /\ UNCHANGED <<now, tables, goneAt, granted>>

(* oneShotNullifier: any row there already means the allowance is spent.    *)
BurnOneShot(r) ==
  /\ req[r].pc = "bind" /\ req[r].policy.kind = "one_shot" /\ KeyFree(r)
  /\ IF Key(r) \in DOMAIN nullifiers
     THEN Only(r, "refused")
     ELSE /\ req' = [req EXCEPT ![r] = [@ EXCEPT !.pc = "sink",
                  !.row = [audience |-> req[r].policy.audience, user |-> None,
                           consumed |-> TRUE]]]
          /\ UNCHANGED <<now, tables, goneAt, granted>>

(* The claim reaches the request's holder, before the commit.               *)
ProofSink(r) ==
  /\ req[r].pc = "sink"
  /\ GoTo(r, "commit")
  /\ granted' = IF req[r].policy.kind = "one_shot" THEN granted \cup {r} ELSE granted
  /\ UNCHANGED <<now, tables, goneAt>>

(* Mutant of StoresClaim: whatever was proved is stored. *)
StoresAnyClaim(r) == TRUE

StoresClaim(r) == req[r].op = "login" \/ req[r].policy.kind = "recurring"

Commit(r) ==
  LET x == req[r]
  IN  /\ x.pc = "commit"
      /\ challenges' = IF x.token \in DOMAIN challenges
                       THEN Consume(challenges, x.token) ELSE challenges
      /\ nullifiers' = IF x.row = None THEN nullifiers ELSE Put(nullifiers, Key(r), x.row)
      /\ users' = IF x.user = r
                  THEN Put(users, r, [email |-> Key(r), deleted |-> FALSE]) ELSE users
      /\ sessions' = IF x.op = "login"
           THEN [s \in DOMAIN sessions \cup {r} |->
                   IF s = r THEN [user |-> x.user, live |-> TRUE, via |-> Key(r)]
                   ELSE IF s = x.session THEN [sessions[s] EXCEPT !.live = FALSE]
                   ELSE sessions[s]]
           ELSE sessions
      /\ sessionClaims' = IF StoresClaim(r)
                          THEN sessionClaims \cup {<<Home(r), x.claim>>} ELSE sessionClaims
      /\ GoTo(r, "done")
      /\ UNCHANGED <<now, claims, drawn, goneAt, granted>>

(* A failed statement or commit, no verification slot, no holder mounted, a *)
(* cancelled request: rolled back, except for what the holder got.          *)
Fail(r) == req[r].pc \notin Ended \cup {"idle"} /\ Only(r, "failed")

-----------------------------------------------------------------------------
Step(r) ==
  \/ Verify(r)
  \/ ConsumeChallenge(r)
  \/ ResolvePseudonym(r)
  \/ CreatePseudonym(r)
  \/ ResolveAgain(r)
  \/ IssueSession(r)
  \/ BindRecurring(r)
  \/ BurnOneShot(r)
  \/ ProofSink(r)
  \/ Commit(r)

Next ==
  \/ Tick
  \/ \E c \in ClaimNames, policy \in Policies : EnsureClaim(c, policy)
  \/ \E u \in DOMAIN users : DeleteUser(u)
  \/ \E m \in Members : RevokeMember(m)
  \/ \E t \in Tokens : LoginChallenge(t)
  \/ \E t \in Tokens, s \in DOMAIN sessions : ClaimChallenge(t, s)
  \/ \E r \in Requests, op \in {"login", "claim"}, s \in DOMAIN sessions \cup {None},
        c \in ClaimNames, t \in Tokens, m \in Members : Submit(r, op, s, c, t, m)
  \/ \E r \in Requests : Step(r) \/ Fail(r)

Spec == Init /\ [][Next]_mvars

(* A handler that has started runs to its end: no step of it waits for      *)
(* anything but a row another transaction is about to release.              *)
FairSpec == Spec /\ \A r \in Requests : WF_mvars(Step(r))

-----------------------------------------------------------------------------
(* Properties. *)

(* The type invariant. *)
TypeOK ==
  /\ now \in 0..MaxTime
  /\ claims \in [ClaimNames -> Policies \cup {None}]
  /\ DOMAIN challenges \subseteq drawn /\ drawn \subseteq Tokens
  /\ \A u \in DOMAIN users : users[u].email = None <=> u \in Persons
  /\ \A n \in DOMAIN nullifiers : nullifiers[n] \in Rows
  /\ \A s \in DOMAIN sessions : sessions[s].user \in DOMAIN users
  /\ sessionClaims \subseteq (DOMAIN sessions) \X ClaimNames
  /\ \A r \in Requests :
       /\ req[r].pc \in {"idle", "submitted", "consume"} \cup Writing \cup Ended
       /\ req[r].row = None \/ req[r].row \in Rows
  /\ granted \subseteq Requests

(* What a nullifier names is decided once: concurrent first logins, binds,  *)
(* burns, deleted accounts and policies that change kind or audience never  *)
(* rewrite or drop a row.                                                   *)
NullifierIsForGood ==
  [][\A n \in DOMAIN nullifiers :
       n \in DOMAIN nullifiers' /\ nullifiers'[n] = nullifiers[n]]_mvars

(* Login only ever mints a session for the one account its own nullifier    *)
(* derives, never for a person who bound the nullifier with ProveClaim, and *)
(* leaves no account behind that no nullifier names.                        *)
LoginStaysOnPseudonym ==
  /\ \A s \in DOMAIN sessions :
       sessions[s].via # None => users[sessions[s].user].email = sessions[s].via
  /\ \A u \in DOMAIN users \ Persons :
       /\ users[u].email \in DOMAIN nullifiers
       /\ nullifiers[users[u].email].user = u

(* A challenge serves one request and a one-shot allowance one successful   *)
(* request, though peek, policy and pairing are over before any row lock is *)
(* taken.  A holder that was filled keeps its grant when the commit fails   *)
(* and nothing is burned (docs/vulnurability-test-cases.md, F-3): such a    *)
(* grant is the only one there may be beside an effective request.          *)
Effective(r) == req[r].pc = "done" \/ (r \in granted /\ req[r].pc # "failed")
SpentOnce ==
  \A r, q \in Requests :
    r # q /\ Effective(r) /\ Effective(q) =>
      /\ req[r].token # req[q].token
      /\ r \in granted => Key(r) # Key(q)

(* A grant whose allowance is not burnt is of a request that did not commit: *)
(* the holder is filled first, and whatever the policy was meanwhile or      *)
(* another request did with the nullifier, a commit burns it.                *)
GrantsAreBurnt ==
  \A r \in granted :
    \/ req[r].pc \in {"commit", "failed"}
    \/ Key(r) \in DOMAIN nullifiers /\ nullifiers[Key(r)].consumed

(* The last moment the transaction of a revoked credential can begin: the   *)
(* root is looked up before it and never again, but the challenge had been  *)
(* drawn by then and must outlive the start.  It bounds the start, not the  *)
(* effect: a transaction may wait for its rows as long as another one keeps *)
(* them, and nothing in it looks at the time again.                         *)
LastStartOfRevoked ==
  \A r \in Requests :
    req[r].pc \in {"consume", "done"} \cup Writing /\ goneAt[req[r].member] # NotGone =>
      \/ req[r].began <= goneAt[req[r].member]
      \/ req[r].began < goneAt[req[r].member] + RootGrace + ChallengeTTL

(* Every request is answered: no set of transactions waits in a circle for  *)
(* each other's rows.                                                       *)
RequestsAnswered ==
  \A r \in Requests : req[r].pc \notin Ended \cup {"idle"} ~> req[r].pc \in Ended

(* What a session holds for good was proved in it, under a policy that was  *)
(* recurring, with a nullifier that still names the session's own user: a   *)
(* one-shot proof never outlives its request, a login inherits nothing from *)
(* the session it replaces, and a shared credential serves one person.      *)
StandingClaimsAreProved ==
  \A s \in DOMAIN sessions, c \in ClaimNames : <<s, c>> \in sessionClaims =>
    \E r \in Requests :
      /\ req[r].pc = "done" /\ Home(r) = s /\ req[r].claim = c
      /\ req[r].policy.kind = "recurring"
      /\ nullifiers[Key(r)] = [audience |-> req[r].policy.audience,
                               user |-> sessions[s].user, consumed |-> FALSE]
=============================================================================
