--------------------------- MODULE KnowledgeFactor ---------------------------
(***************************************************************************)
(* The knowledge factor (zkauthn/protocol.go): EnrollKnowledge,            *)
(* KnowledgeChallenge and VerifyKnowledge, as concurrent calls of any      *)
(* number of sessions of an account.  A call first resolves its principal  *)
(* (kal's session middleware and authz.Require); enrolment then reads and  *)
(* decides outside any transaction and writes in one, step-up reads and    *)
(* verifies outside and burns the challenge in one.  The transaction of    *)
(* enrolment is statement by statement: each sees what is committed when   *)
(* it starts, and what it writes is locked until the end and seen then.    *)
(* The one of step-up is a single step: all it reads, it has locked.       *)
(*                                                                         *)
(* A generated secret is named by the call that generated it.  Sessions    *)
(* are kal's: signing in and out are environment actions, and RecordMFA    *)
(* and RevokeAllForUser are modelled by what this code relies on.          *)
(***************************************************************************)
EXTENDS Challenges, FiniteSets

CONSTANTS
  Users,
  HasPassword,   \* the users with a password hash
  Sessions,      \* session ids, each issued once
  Tokens,        \* challenge tokens, each drawn once
  Calls,         \* calls of EnrollKnowledge and VerifyKnowledge
  None,
  MFAWindow,     \* how recent a step-up must be to replace a commitment
  MaxTime        \* bound: the clock stops here

ASSUME TimeIsNatural == MaxTime \in Nat /\ ChallengeTTL \in Nat

VARIABLES
  now,
  sessions,      \* kal: id -> [user, live, mfaAt, mfaBy, during]; mfaBy and
                 \* during are history: the secret that stepped it up, and the
                 \* replacements that were past their revocation as it signed in
  challenges,    \* auth_zk_challenges
  drawn,         \* tokens drawn so far
  commitments,   \* auth_zk_commitments: user -> secret, or None
  calls,         \* local state of each call
  stepups,       \* history: every step-up recorded
  ended          \* history: which secret each commit of a call put an end to

kvars == <<now, sessions, challenges, drawn, commitments, calls, stepups, ended>>

Never == -1
IdleCall == [pc |-> "idle", session |-> None, mfaAt |-> Never,
             token |-> None, secret |-> None, replacing |-> FALSE, ends |-> {}]

UserOf(s) == sessions[s].user
Caller(c) == UserOf(calls[c].session)
LiveSession(s) == s \in DOMAIN sessions /\ sessions[s].live

(* Locks: an open enrolment has the account's commitment from its upsert    *)
(* on, and the sessions it ends from its revocation on.                     *)
CommitmentFree(c) ==
  \A d \in Calls \ {c} : calls[d].pc \in {"upserted", "revoked"} => Caller(d) # Caller(c)
SessionFree(s) == \A d \in Calls : calls[d].pc = "revoked" => s \notin calls[d].ends

Init ==
  /\ now = 0
  /\ sessions = [s \in {} |-> None]
  /\ challenges = [t \in {} |-> None] /\ drawn = {}
  /\ commitments = [u \in Users |-> None]
  /\ calls = [c \in Calls |-> IdleCall]
  /\ stepups = {} /\ ended = {}

Tick ==
  /\ now < MaxTime /\ now' = now + 1
  /\ UNCHANGED <<sessions, challenges, drawn, commitments, calls, stepups, ended>>

-----------------------------------------------------------------------------
(* kal's sessions. *)

SignIn(s, u) ==
  /\ s \notin DOMAIN sessions
  /\ sessions' = [x \in DOMAIN sessions \cup {s} |->
       IF x = s THEN [user |-> u, live |-> TRUE, mfaAt |-> Never, mfaBy |-> None,
                      during |-> {c \in Calls : calls[c].pc = "revoked" /\ Caller(c) = u}]
                ELSE sessions[x]]
  /\ UNCHANGED <<now, challenges, drawn, commitments, calls, stepups, ended>>

SignOut(s) ==
  /\ LiveSession(s) /\ SessionFree(s)
  /\ sessions' = [sessions EXCEPT ![s].live = FALSE]
  /\ UNCHANGED <<now, challenges, drawn, commitments, calls, stepups, ended>>

(* The middleware resolves the principal once; authz.Require reads it later. *)
Arrive(c, s) ==
  /\ calls[c].pc = "idle" /\ LiveSession(s)
  /\ calls' = [calls EXCEPT ![c] =
       [IdleCall EXCEPT !.pc = "arrived", !.session = s, !.mfaAt = sessions[s].mfaAt]]
  /\ UNCHANGED <<now, sessions, challenges, drawn, commitments, stepups, ended>>

(* Any refusal or failure: a factor that is missing, a proof that does not  *)
(* verify, no verification slot, a failed statement, a transaction rolled  *)
(* back.  Nothing of the call stays.                                       *)
Refuse(c) ==
  /\ calls[c].pc \notin {"idle", "enrolled", "steppedUp", "refused"}
  /\ calls' = [calls EXCEPT ![c] = [IdleCall EXCEPT !.pc = "refused"]]
  /\ UNCHANGED <<now, sessions, challenges, drawn, commitments, stepups, ended>>

-----------------------------------------------------------------------------
(* EnrollKnowledge. *)

(* authorizeReplacement: the password if the account has one, else a recent *)
(* step-up by the principal the call arrived with.                          *)
AuthorizeReplacement(c, password) ==
  IF Caller(c) \in HasPassword
  THEN password
  ELSE calls[c].mfaAt # Never /\ now - calls[c].mfaAt <= MFAWindow

(* The commitment is read and the replacement decided outside any transaction. *)
EnrollRead(c, password) ==
  /\ calls[c].pc = "arrived"
  /\ LET replacing == commitments[Caller(c)] # None
     IN  /\ replacing => AuthorizeReplacement(c, password)
         /\ calls' = [calls EXCEPT ![c] = [@ EXCEPT !.pc = "enroll", !.replacing = replacing]]
  /\ UNCHANGED <<now, sessions, challenges, drawn, commitments, stepups, ended>>

(* upsertCommitment waits for another enrolment of the account to end.      *)
EnrollUpsert(c) ==
  /\ calls[c].pc = "enroll" /\ CommitmentFree(c)
  /\ calls' = [calls EXCEPT ![c].pc = "upserted"]
  /\ UNCHANGED <<now, sessions, challenges, drawn, commitments, stepups, ended>>

(* Mutant of EnrollRevoke: only sessions that have stepped up are ended. *)
EnrollRevokeSteppedUp(c) ==
  /\ calls[c].pc = "upserted" /\ calls[c].replacing
  /\ calls' = [calls EXCEPT ![c] = [@ EXCEPT !.pc = "revoked",
       !.ends = {s \in DOMAIN sessions :
                   LiveSession(s) /\ UserOf(s) = Caller(c) /\ sessions[s].mfaAt # Never}]]
  /\ UNCHANGED <<now, sessions, challenges, drawn, commitments, stepups, ended>>

(* RevokeAllForUser, if replacing: the sessions there are as it starts.  No  *)
(* lock keeps another from being issued before the commit.                  *)
EnrollRevoke(c) ==
  /\ calls[c].pc = "upserted" /\ calls[c].replacing
  /\ calls' = [calls EXCEPT ![c] = [@ EXCEPT !.pc = "revoked",
       !.ends = {s \in DOMAIN sessions : LiveSession(s) /\ UserOf(s) = Caller(c)}]]
  /\ UNCHANGED <<now, sessions, challenges, drawn, commitments, stepups, ended>>

(* Mutant of EnrollCommit: the revoked sessions lose their rows. *)
EnrollCommitDeleting(c) ==
  /\ calls[c].pc = IF calls[c].replacing THEN "revoked" ELSE "upserted"
  /\ commitments' = [commitments EXCEPT ![Caller(c)] = c]
  /\ sessions' = [s \in DOMAIN sessions \ calls[c].ends |-> sessions[s]]
  /\ calls' = [calls EXCEPT ![c].pc = "enrolled"]
  /\ UNCHANGED <<now, challenges, drawn, stepups, ended>>

(* What the transaction wrote becomes visible, all of it at once. *)
EnrollCommit(c) ==
  /\ calls[c].pc = IF calls[c].replacing THEN "revoked" ELSE "upserted"
  /\ commitments' = [commitments EXCEPT ![Caller(c)] = c]
  /\ sessions' = [s \in DOMAIN sessions |->
       [sessions[s] EXCEPT !.live = @ /\ s \notin calls[c].ends]]
  /\ ended' = ended \cup
       {[secret |-> k, by |-> c] : k \in {commitments[Caller(c)]} \ {None}}
  /\ calls' = [calls EXCEPT ![c].pc = "enrolled"]
  /\ UNCHANGED <<now, challenges, drawn, stepups>>

-----------------------------------------------------------------------------
(* KnowledgeChallenge and VerifyKnowledge. *)

KnowledgeChallenge(s, t) ==
  /\ LiveSession(s) /\ t \notin drawn
  /\ challenges' = IssueChallenge(challenges, t, "knowledge", s, now)
  /\ drawn' = drawn \cup {t}
  /\ UNCHANGED <<now, sessions, commitments, calls, stepups, ended>>

(* Phases 1 and 2: peek, read the commitment, verify against what was read. *)
VerifyRead(c, t) ==
  /\ calls[c].pc = "arrived"
  /\ Usable(challenges, t, "knowledge", calls[c].session, now)
  /\ commitments[Caller(c)] # None
  /\ calls' = [calls EXCEPT ![c] =
       [@ EXCEPT !.pc = "verified", !.token = t, !.secret = commitments[Caller(c)]]]
  /\ UNCHANGED <<now, sessions, challenges, drawn, commitments, stepups, ended>>

(* Mutant of VerifyCommit: the peek is trusted to have decided. *)
VerifyCommitTrusting(c) ==
  LET s == calls[c].session
  IN  /\ calls[c].pc = "verified" /\ LiveSession(s) /\ SessionFree(s)
      /\ sessions' = [sessions EXCEPT ![s] = [@ EXCEPT !.mfaAt = now, !.mfaBy = calls[c].secret]]
      /\ stepups' = stepups \cup
           {[call |-> c, session |-> s, token |-> calls[c].token, at |-> now]}
      /\ calls' = [calls EXCEPT ![c].pc = "steppedUp"]
      /\ UNCHANGED <<now, challenges, drawn, commitments, ended>>

(* Phase 3, one transaction: burn the challenge, RecordMFA on a session that *)
(* must still be live, Rotate its credential.  RecordMFA waits for a         *)
(* replacement that is ending the session.                                   *)
VerifyCommit(c) ==
  LET s == calls[c].session
      t == calls[c].token
  IN  /\ calls[c].pc = "verified"
      /\ Usable(challenges, t, "knowledge", s, now)
      /\ LiveSession(s) /\ SessionFree(s)
      /\ challenges' = Consume(challenges, t)
      /\ sessions' = [sessions EXCEPT ![s] = [@ EXCEPT !.mfaAt = now, !.mfaBy = calls[c].secret]]
      /\ stepups' = stepups \cup {[call |-> c, session |-> s, token |-> t, at |-> now]}
      /\ calls' = [calls EXCEPT ![c].pc = "steppedUp"]
      /\ UNCHANGED <<now, drawn, commitments, ended>>

-----------------------------------------------------------------------------
Next ==
  \/ Tick
  \/ \E s \in Sessions, u \in Users : SignIn(s, u)
  \/ \E s \in Sessions : SignOut(s)
  \/ \E s \in Sessions, t \in Tokens : KnowledgeChallenge(s, t)
  \/ \E c \in Calls :
       \/ \E s \in Sessions : Arrive(c, s)
       \/ Refuse(c)
       \/ \E password \in BOOLEAN : EnrollRead(c, password)
       \/ EnrollUpsert(c)
       \/ EnrollRevoke(c)
       \/ EnrollCommit(c)
       \/ \E t \in Tokens : VerifyRead(c, t)
       \/ VerifyCommit(c)

Spec == Init /\ [][Next]_kvars

-----------------------------------------------------------------------------
(* Properties. *)

(* The type invariant. *)
SessionRow == [user : Users, live : BOOLEAN, mfaAt : 0..MaxTime \cup {Never},
               mfaBy : Calls \cup {None}, during : SUBSET Calls]
ChallengeRow == [purpose : {"knowledge"}, session : DOMAIN sessions, expires : Nat,
                 consumed : BOOLEAN]
CallState ==
  [pc : {"idle", "arrived", "enroll", "upserted", "revoked", "enrolled",
         "verified", "steppedUp", "refused"},
   session : DOMAIN sessions \cup {None}, mfaAt : 0..MaxTime \cup {Never},
   token : drawn \cup {None}, secret : Calls \cup {None}, replacing : BOOLEAN,
   ends : SUBSET DOMAIN sessions]
TypeOK ==
  /\ now \in 0..MaxTime
  /\ DOMAIN sessions \subseteq Sessions /\ sessions \in [DOMAIN sessions -> SessionRow]
  /\ DOMAIN challenges \subseteq drawn /\ drawn \subseteq Tokens
  /\ challenges \in [DOMAIN challenges -> ChallengeRow]
  /\ commitments \in [Users -> Calls \cup {None}]
  /\ calls \in [Calls -> CallState]
  /\ ended \subseteq [secret : Calls, by : Calls]

(* A step-up of a live session was proved with the commitment its account   *)
(* has now: replacing a commitment ends every session the old one vouched   *)
(* for, also while a proof against the old one is between its read and its  *)
(* transaction.  There are two exceptions: a secret that another first      *)
(* enrolment overwrote, and a session that signed in after the revocation   *)
(* statement of the replacement and before its commit.                      *)
MFARestsOnCurrentCommitment ==
  \A s \in DOMAIN sessions :
    LiveSession(s) /\ sessions[s].mfaAt # Never =>
      \/ sessions[s].mfaBy = commitments[UserOf(s)]
      \/ \E e \in ended :
           /\ e.secret = sessions[s].mfaBy
           /\ ~calls[e.by].replacing \/ e.by \in sessions[s].during

(* A challenge raises one session once, however many calls carry it at the  *)
(* same time: the peek decides nothing, the single-use update does.         *)
OneStepUpPerChallenge ==
  \A x, y \in stepups : x.token = y.token => x = y

(* Replacing an existing commitment requires re-authentication               *)
(* (protocol.go:63-64): a call overwrites a commitment only after           *)
(* authorizeReplacement has let it.                                         *)
ReplacementIsAuthorized ==
  [][\A u \in Users :
       commitments[u] # None /\ commitments'[u] # commitments[u]
         => calls[commitments'[u]].replacing]_kvars
=============================================================================
