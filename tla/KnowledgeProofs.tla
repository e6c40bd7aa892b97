--------------------------- MODULE KnowledgeProofs ---------------------------
(***************************************************************************)
(* For any number of accounts, sessions, challenges and calls: a step-up   *)
(* of a live session rests on the commitment its account has now, two      *)
(* windows excepted, and a challenge steps up once.                        *)
(***************************************************************************)
EXTENDS KnowledgeFactor, TLAPS

(* A call that has a principal has one that was resolved. *)
Working == {"arrived", "enroll", "upserted", "revoked", "verified"}
Resolved ==
  \A c \in Calls : calls[c].pc \in Working => calls[c].session \in DOMAIN sessions

(* Secret k vouches for session s of user u: it is u's commitment now, or it *)
(* was ended by a racing first enrolment or behind the back of s.            *)
Excused(e, s) == ~calls[e.by].replacing \/ e.by \in sessions[s].during
Vouches(k, s) ==
  /\ k # None
  /\ \/ k = commitments[sessions[s].user]
     \/ \E e \in ended : e.secret = k /\ Excused(e, s)

SessionVouched(s) ==
  sessions[s].live /\ sessions[s].mfaAt # Never => Vouches(sessions[s].mfaBy, s)
CallVouched(c) ==
  calls[c].pc = "verified" /\ sessions[calls[c].session].live =>
    Vouches(calls[c].secret, calls[c].session)

(* An open replacement past its revocation knows every session of its       *)
(* account: it ends it, or the session signed in meanwhile.                  *)
RevocationSeen(c) ==
  calls[c].pc = "revoked" =>
    \A s \in DOMAIN sessions :
      sessions[s].live /\ sessions[s].user = Caller(c) =>
        s \in calls[c].ends \/ c \in sessions[s].during

(* The missing half: a proof between its read and its transaction rests on  *)
(* the present commitment as long as its session lives, and no replacement  *)
(* overlooks a session that was there before its revocation.                *)
VouchInv ==
  /\ Resolved
  /\ \A e \in ended : calls[e.by].pc = "enrolled"
  /\ \A c \in Calls : RevocationSeen(c)
  /\ \A s \in DOMAIN sessions : SessionVouched(s)
  /\ \A c \in Calls : CallVouched(c)

(* A challenge that stepped up is burned, or purged and never drawn again.  *)
SpentInv ==
  /\ \A x \in stepups :
       /\ x.token \in drawn
       /\ x.token \in DOMAIN challenges => challenges[x.token].consumed
  /\ OneStepUpPerChallenge

-----------------------------------------------------------------------------
(* Types. *)

LEMMA InitTypes == Init => TypeOK
BY TimeIsNatural DEF Init, TypeOK, IdleCall, CallState, SessionRow, ChallengeRow, Never

LEMMA SignInTypes ==
  ASSUME TypeOK, NEW s \in Sessions, NEW u \in Users, SignIn(s, u)
  PROVE  TypeOK'
<1>1. DOMAIN sessions' = DOMAIN sessions \cup {s}
  BY DEF SignIn
<1>2. \A x \in DOMAIN sessions' : sessions'[x] \in SessionRow
  <2>1. [user |-> u, live |-> TRUE, mfaAt |-> Never, mfaBy |-> None,
         during |-> {c \in Calls : calls[c].pc = "revoked" /\ Caller(c) = u}] \in SessionRow
    BY DEF SessionRow
  <2>2. QED  BY <2>1 DEF SignIn, TypeOK
<1>3. ChallengeRow \subseteq ChallengeRow' /\ CallState \subseteq CallState'
  BY <1>1 DEF SignIn, ChallengeRow, CallState
<1>4. QED  BY <1>1, <1>2, <1>3 DEF SignIn, TypeOK

LEMMA SessionsTyped ==
  ASSUME TypeOK, sessions' \in [DOMAIN sessions -> SessionRow],
         UNCHANGED <<now, challenges, drawn, commitments, calls, ended>>
  PROVE  TypeOK'
<1>1. DOMAIN sessions' = DOMAIN sessions
  OBVIOUS
<1>2. ChallengeRow' = ChallengeRow /\ CallState' = CallState
  BY <1>1 DEF ChallengeRow, CallState
<1>3. QED  BY <1>1, <1>2 DEF TypeOK, SessionRow

LEMMA CallsTyped ==
  ASSUME TypeOK, calls' \in [Calls -> CallState],
         UNCHANGED <<now, sessions, challenges, drawn, commitments, ended>>
  PROVE  TypeOK'
BY DEF TypeOK, SessionRow, ChallengeRow, CallState

LEMMA ChallengeTypes ==
  ASSUME TypeOK, NEW s \in Sessions, NEW t \in Tokens, KnowledgeChallenge(s, t)
  PROVE  TypeOK'
<1>1. DOMAIN challenges' \subseteq DOMAIN challenges \cup {t}
  BY DEF KnowledgeChallenge, IssueChallenge
<1>2. now + ChallengeTTL \in Nat
  BY TimeIsNatural DEF TypeOK
<1>3. challenges' \in [DOMAIN challenges' -> ChallengeRow]
  <2>1. [purpose |-> "knowledge", session |-> s,
         expires |-> now + ChallengeTTL, consumed |-> FALSE] \in ChallengeRow
    BY <1>2 DEF ChallengeRow, KnowledgeChallenge, LiveSession
  <2>2. QED  BY <2>1 DEF KnowledgeChallenge, IssueChallenge, TypeOK
<1>4. ChallengeRow' = ChallengeRow /\ CallState \subseteq CallState'
  BY DEF KnowledgeChallenge, ChallengeRow, CallState
<1>5. QED  BY <1>1, <1>3, <1>4 DEF KnowledgeChallenge, TypeOK, SessionRow

LEMMA EnrollRow ==
  ASSUME NEW row \in CallState, NEW b \in BOOLEAN
  PROVE  [row EXCEPT !.pc = "enroll", !.replacing = b] \in CallState
BY DEF CallState

LEMMA UpsertRow ==
  ASSUME NEW row \in CallState  PROVE [row EXCEPT !.pc = "upserted"] \in CallState
BY DEF CallState

LEMMA RevokeRow ==
  ASSUME NEW row \in CallState, NEW S \in SUBSET DOMAIN sessions
  PROVE  [row EXCEPT !.pc = "revoked", !.ends = S] \in CallState
BY DEF CallState

LEMMA VerifyRow ==
  ASSUME NEW row \in CallState, NEW t \in drawn, NEW k \in Calls \cup {None}
  PROVE  [row EXCEPT !.pc = "verified", !.token = t, !.secret = k] \in CallState
BY DEF CallState

LEMMA StepUpRow ==
  ASSUME NEW row \in SessionRow, NEW at \in 0..MaxTime, NEW k \in Calls \cup {None}
  PROVE  [row EXCEPT !.mfaAt = at, !.mfaBy = k] \in SessionRow
BY DEF SessionRow

LEMMA OverRow ==
  ASSUME NEW row \in SessionRow, NEW b \in BOOLEAN  PROVE [row EXCEPT !.live = b] \in SessionRow
BY DEF SessionRow

LEMMA TypesKept == TypeOK /\ [Next]_kvars => TypeOK'
<1> SUFFICES ASSUME TypeOK, [Next]_kvars PROVE TypeOK'
  OBVIOUS
<1>1. CASE Tick
  BY <1>1, TimeIsNatural DEF Tick, TypeOK, SessionRow, ChallengeRow, CallState
<1>2. ASSUME NEW s \in Sessions, NEW u \in Users, SignIn(s, u)  PROVE TypeOK'
  BY <1>2, SignInTypes
<1>3. ASSUME NEW s \in Sessions, SignOut(s)  PROVE TypeOK'
  <2>1. sessions' \in [DOMAIN sessions -> SessionRow]
    <3>1. sessions \in [DOMAIN sessions -> SessionRow] /\ s \in DOMAIN sessions
      BY <1>3 DEF SignOut, LiveSession, TypeOK
    <3>2. PICK row : row = [sessions[s] EXCEPT !.live = FALSE]
      OBVIOUS
    <3>3. row \in SessionRow
      BY <3>1, <3>2, OverRow
    <3>4. sessions' = [sessions EXCEPT ![s] = row]
      BY <1>3, <3>2 DEF SignOut
    <3>5. QED  BY <3>1, <3>3, <3>4
  <2>2. QED  BY <1>3, <2>1, SessionsTyped DEF SignOut
<1>4. ASSUME NEW s \in Sessions, NEW t \in Tokens, KnowledgeChallenge(s, t)  PROVE TypeOK'
  BY <1>4, ChallengeTypes
<1>5. ASSUME NEW c \in Calls, NEW s \in Sessions, Arrive(c, s)  PROVE TypeOK'
  <2>1. [IdleCall EXCEPT !.pc = "arrived", !.session = s, !.mfaAt = sessions[s].mfaAt]
          \in CallState
    BY <1>5 DEF Arrive, LiveSession, IdleCall, CallState, TypeOK, SessionRow
  <2>2. QED  BY <1>5, <2>1, CallsTyped DEF Arrive, TypeOK
<1>6. ASSUME NEW c \in Calls, Refuse(c)  PROVE TypeOK'
  <2>1. [IdleCall EXCEPT !.pc = "refused"] \in CallState
    BY DEF IdleCall, CallState
  <2>2. QED  BY <1>6, <2>1, CallsTyped DEF Refuse, TypeOK
<1>7. ASSUME NEW c \in Calls, NEW password \in BOOLEAN, EnrollRead(c, password)  PROVE TypeOK'
  <2>1. PICK b \in BOOLEAN :
          calls' = [calls EXCEPT ![c] = [@ EXCEPT !.pc = "enroll", !.replacing = b]]
    BY <1>7 DEF EnrollRead
  <2>2. [calls[c] EXCEPT !.pc = "enroll", !.replacing = b] \in CallState
    BY EnrollRow DEF TypeOK
  <2>3. calls' \in [Calls -> CallState]
    BY <2>1, <2>2 DEF TypeOK
  <2>4. QED  BY <1>7, <2>3, CallsTyped DEF EnrollRead
<1>8. ASSUME NEW c \in Calls, EnrollCommit(c)  PROVE TypeOK'
  <2>1. sessions' \in [DOMAIN sessions -> SessionRow]
    <3>1. sessions \in [DOMAIN sessions -> SessionRow]
      BY DEF TypeOK
    <3>2. ASSUME NEW s \in DOMAIN sessions
          PROVE  [sessions[s] EXCEPT !.live = @ /\ s \notin calls[c].ends] \in SessionRow
      <4>1. PICK b \in BOOLEAN : b = (sessions[s].live /\ s \notin calls[c].ends)
        OBVIOUS
      <4>2. QED  BY <3>1, <4>1, OverRow
    <3>3. QED  BY <1>8, <3>2 DEF EnrollCommit
  <2>2. DOMAIN sessions' = DOMAIN sessions
    BY <2>1
  <2>3. commitments' \in [Users -> Calls \cup {None}]
    BY <1>8 DEF EnrollCommit, TypeOK
  <2>4. calls' \in [Calls -> CallState]
    BY <1>8 DEF EnrollCommit, TypeOK, CallState
  <2>5. ChallengeRow' = ChallengeRow /\ CallState' = CallState
    BY <1>8, <2>2 DEF EnrollCommit, ChallengeRow, CallState
  <2>6. QED  BY <1>8, <2>1, <2>2, <2>3, <2>4, <2>5 DEF EnrollCommit, TypeOK, SessionRow
<1>13. ASSUME NEW c \in Calls, EnrollUpsert(c)  PROVE TypeOK'
  <2>1. [calls[c] EXCEPT !.pc = "upserted"] \in CallState
    BY UpsertRow DEF TypeOK
  <2>2. calls' \in [Calls -> CallState]
    BY <1>13, <2>1 DEF EnrollUpsert, TypeOK
  <2>3. QED  BY <1>13, <2>2, CallsTyped DEF EnrollUpsert
<1>14. ASSUME NEW c \in Calls, EnrollRevoke(c)  PROVE TypeOK'
  <2>1. PICK S \in SUBSET DOMAIN sessions :
          calls' = [calls EXCEPT ![c] = [@ EXCEPT !.pc = "revoked", !.ends = S]]
    BY <1>14 DEF EnrollRevoke
  <2>2. [calls[c] EXCEPT !.pc = "revoked", !.ends = S] \in CallState
    BY RevokeRow DEF TypeOK
  <2>3. calls' \in [Calls -> CallState]
    BY <2>1, <2>2 DEF TypeOK
  <2>4. QED  BY <1>14, <2>3, CallsTyped DEF EnrollRevoke
<1>9. ASSUME NEW c \in Calls, NEW t \in Tokens, VerifyRead(c, t)  PROVE TypeOK'
  <2>1. t \in drawn
    BY <1>9 DEF VerifyRead, Usable, TypeOK
  <2>2. commitments[Caller(c)] \in Calls \cup {None}
    <3>1. challenges[t] \in ChallengeRow
      BY <1>9 DEF VerifyRead, Usable, TypeOK
    <3>2. calls[c].session \in DOMAIN sessions
      BY <1>9, <3>1 DEF VerifyRead, Usable, ChallengeRow
    <3>3. QED  BY <3>2 DEF Caller, UserOf, TypeOK, SessionRow
  <2>3. calls' \in [Calls -> CallState]
    <3>1. [calls[c] EXCEPT !.pc = "verified", !.token = t,
                           !.secret = commitments[Caller(c)]] \in CallState
      BY <2>1, <2>2, VerifyRow DEF TypeOK
    <3>2. QED  BY <1>9, <3>1 DEF VerifyRead, TypeOK
  <2>4. QED  BY <1>9, <2>3, CallsTyped DEF VerifyRead
<1>10. ASSUME NEW c \in Calls, VerifyCommit(c)  PROVE TypeOK'
  <2>1. sessions' \in [DOMAIN sessions -> SessionRow]
    <3>1. calls[c].secret \in Calls \cup {None} /\ now \in 0..MaxTime
      BY DEF TypeOK, CallState
    <3>2. sessions[calls[c].session] \in SessionRow
      BY <1>10 DEF VerifyCommit, LiveSession, TypeOK
    <3>3. [sessions[calls[c].session] EXCEPT !.mfaAt = now, !.mfaBy = calls[c].secret]
            \in SessionRow
      BY <3>1, <3>2, StepUpRow
    <3>4. QED  BY <1>10, <3>3 DEF VerifyCommit, TypeOK
  <2>2. DOMAIN sessions' = DOMAIN sessions
    BY <2>1
  <2>3. calls' \in [Calls -> CallState]
    BY <1>10 DEF VerifyCommit, TypeOK, CallState
  <2>4. /\ DOMAIN challenges' = DOMAIN challenges
        /\ challenges' \in [DOMAIN challenges -> ChallengeRow]
    BY <1>10 DEF VerifyCommit, Consume, TypeOK, ChallengeRow
  <2>5. ChallengeRow' = ChallengeRow /\ CallState' = CallState
    BY <1>10, <2>2 DEF VerifyCommit, ChallengeRow, CallState
  <2>6. QED  BY <1>10, <2>1, <2>2, <2>3, <2>4, <2>5 DEF VerifyCommit, TypeOK, SessionRow
<1>11. CASE UNCHANGED kvars
  BY <1>11 DEF kvars, TypeOK, SessionRow, ChallengeRow, CallState
<1>12. QED
  BY <1>1, <1>2, <1>3, <1>4, <1>5, <1>6, <1>7, <1>8, <1>9, <1>10, <1>11, <1>13, <1>14 DEF Next

(* Whatever enrolments, replacements and step-ups interleave and expire, no  *)
(* challenge outlives its draw and sessions, commitments and calls keep      *)
(* their types.                                                             *)
THEOREM FactorTypes == Spec => []TypeOK
BY InitTypes, TypesKept, PTL DEF Spec

-----------------------------------------------------------------------------
(* Who vouches. *)

LEMMA InitVouched == Init => VouchInv
<1> SUFFICES ASSUME Init PROVE VouchInv
  OBVIOUS
<1>1. \A c \in Calls : calls[c].pc = "idle"
  BY DEF Init, IdleCall
<1>2. DOMAIN sessions = {} /\ ended = {}
  BY DEF Init
<1>3. Resolved /\ \A c \in Calls : RevocationSeen(c) /\ CallVouched(c)
  BY <1>1 DEF Resolved, Working, RevocationSeen, CallVouched
<1>4. QED  BY <1>2, <1>3 DEF VouchInv

(* What stood still is vouched for as before, if whatever vouched for a      *)
(* session that lives on still does.                                        *)
LEMMA StillVouched ==
  ASSUME VouchInv,
         \A s \in DOMAIN sessions :
           sessions'[s].live =>
             /\ sessions[s].live
             /\ \A k : Vouches(k, s) => Vouches(k, s)'
  PROVE  /\ \A s \in DOMAIN sessions :
              UNCHANGED <<sessions[s].mfaAt, sessions[s].mfaBy>> => SessionVouched(s)'
         /\ \A c \in Calls : calls'[c] = calls[c] => CallVouched(c)'
<1>1. ASSUME NEW s \in DOMAIN sessions, UNCHANGED <<sessions[s].mfaAt, sessions[s].mfaBy>>
      PROVE  SessionVouched(s)'
  BY <1>1 DEF VouchInv, SessionVouched
<1>2. ASSUME NEW c \in Calls, calls'[c] = calls[c]
      PROVE  CallVouched(c)'
  BY <1>2 DEF VouchInv, Resolved, CallVouched, Working
<1>3. QED  BY <1>1, <1>2

(* Excuses last: an enrolment that has ended a secret is over.              *)
LEMMA VouchesKept ==
  ASSUME VouchInv, NEW s, NEW k, Vouches(k, s), ended \subseteq ended',
         \A d \in Calls : calls[d].pc = "enrolled" => calls'[d] = calls[d],
         ended \subseteq [secret : Calls, by : Calls],
         sessions[s].during \subseteq sessions'[s].during,
         sessions'[s].user = sessions[s].user,
         commitments'[sessions[s].user] = commitments[sessions[s].user]
  PROVE  Vouches(k, s)'
<1>1. \A e \in ended : calls'[e.by] = calls[e.by]
  BY DEF VouchInv
<1>2. \A e \in ended : Excused(e, s) => Excused(e, s)'
  BY <1>1 DEF Excused
<1>3. QED  BY <1>2 DEF Vouches

LEMMA EnrollVouched ==
  ASSUME TypeOK, VouchInv, NEW c \in Calls, EnrollCommit(c)
  PROVE  VouchInv'
<1>1. /\ calls[c].session \in DOMAIN sessions /\ calls[c].pc \in {"upserted", "revoked"}
      /\ Caller(c) \in Users /\ Caller(c) = sessions[calls[c].session].user
  BY DEF EnrollCommit, VouchInv, Resolved, Working, TypeOK, SessionRow, Caller, UserOf
<1>2. /\ DOMAIN sessions' = DOMAIN sessions
      /\ \A s \in DOMAIN sessions :
           /\ sessions'[s].live => sessions[s].live /\ s \notin calls[c].ends
           /\ UNCHANGED <<sessions[s].user, sessions[s].mfaAt, sessions[s].mfaBy,
                          sessions[s].during>>
  BY DEF EnrollCommit, TypeOK, SessionRow
<1>3. /\ calls'[c].pc = "enrolled" /\ calls'[c].replacing = calls[c].replacing
      /\ \A k \in Calls : k # c => calls'[k] = calls[k]
  BY DEF EnrollCommit, TypeOK, CallState
<1>4. /\ ended \subseteq ended' /\ ended \subseteq [secret : Calls, by : Calls]
      /\ \A e \in ended' \ ended : e.by = c
      /\ \A k : k = commitments[Caller(c)] /\ k # None => [secret |-> k, by |-> c] \in ended'
  <2> DEFINE old == commitments[Caller(c)]
  <2>1. ended' = ended \cup {[secret |-> k, by |-> c] : k \in {old} \ {None}}
    BY DEF EnrollCommit
  <2>2. ended \subseteq [secret : Calls, by : Calls]
    BY DEF TypeOK
  <2> HIDE DEF old
  <2>3. \A e \in ended' \ ended : e.by = c
    BY <2>1
  <2>4. old # None => [secret |-> old, by |-> c] \in ended'
    BY <2>1
  <2>5. QED  BY <2>1, <2>2, <2>3, <2>4 DEF old
<1>5. \A d \in Calls : calls[d].pc = "enrolled" => calls'[d] = calls[d]
  BY <1>1, <1>3
<1>6. ASSUME NEW s \in DOMAIN sessions, sessions'[s].live, NEW k, Vouches(k, s)
      PROVE  Vouches(k, s)'
  <2>1. CASE sessions[s].user = Caller(c) /\ k = commitments[Caller(c)]
    <3>1. [secret |-> k, by |-> c] \in ended' /\ k # None
      BY <1>4, <1>6, <2>1 DEF Vouches
    <3>2. ~calls[c].replacing \/ c \in sessions[s].during
      BY <1>2, <1>6, <2>1 DEF EnrollCommit, VouchInv, RevocationSeen
    <3>3. Excused([secret |-> k, by |-> c], s)'
      BY <1>2, <1>3, <3>2 DEF Excused
    <3>4. QED  BY <3>1, <3>3 DEF Vouches
  <2>2. CASE sessions[s].user # Caller(c)
    <3>1. commitments'[sessions[s].user] = commitments[sessions[s].user]
      BY <2>2 DEF EnrollCommit, TypeOK, SessionRow
    <3>2. QED  BY <1>2, <1>4, <1>5, <1>6, <3>1, VouchesKept
  <2>3. CASE sessions[s].user = Caller(c) /\ k # commitments[Caller(c)]
    <3>1. PICK e \in ended : e.secret = k /\ Excused(e, s)
      BY <1>6, <2>3 DEF Vouches
    <3>2. Excused(e, s)' /\ e \in ended'
      BY <1>2, <1>4, <1>5, <3>1 DEF Excused, VouchInv
    <3>3. QED  BY <1>6, <3>1, <3>2 DEF Vouches
  <2>4. QED  BY <2>1, <2>2, <2>3
<1>7. /\ \A s \in DOMAIN sessions : SessionVouched(s)'
      /\ \A k \in Calls : calls'[k] = calls[k] => CallVouched(k)'
  BY <1>2, <1>6, StillVouched
<1>8. CallVouched(c)' /\ RevocationSeen(c)'
  BY <1>3 DEF CallVouched, RevocationSeen
<1>9. Resolved'
  BY <1>2, <1>3 DEF VouchInv, Resolved, Working
<1>10. \A d \in Calls : d # c => RevocationSeen(d)'
  BY <1>2, <1>3 DEF VouchInv, RevocationSeen, Resolved, Working, Caller, UserOf
<1>11. \A e \in ended' : calls'[e.by].pc = "enrolled"
  BY <1>3, <1>4, <1>5 DEF VouchInv
<1>12. QED  BY <1>2, <1>3, <1>7, <1>8, <1>9, <1>10, <1>11 DEF VouchInv

(* A step of one call that leaves sessions and commitments alone.           *)
LEMMA CallMovesVouched ==
  ASSUME TypeOK, VouchInv, NEW c \in Calls, UNCHANGED <<sessions, commitments, ended>>,
         calls[c].pc # "enrolled",
         \A k \in Calls : k # c => calls'[k] = calls[k],
         calls'[c].pc \in Working => calls'[c].session \in DOMAIN sessions,
         CallVouched(c)', RevocationSeen(c)'
  PROVE  VouchInv'
<1>1. \A s \in DOMAIN sessions : \A k : Vouches(k, s) => Vouches(k, s)'
  BY VouchesKept DEF TypeOK
<1>2. /\ \A s \in DOMAIN sessions : SessionVouched(s)'
      /\ \A k \in Calls : calls'[k] = calls[k] => CallVouched(k)'
  BY <1>1, StillVouched
<1>3. Resolved'
  BY DEF VouchInv, Resolved
<1>4. \A d \in Calls : d # c => RevocationSeen(d)'
  BY DEF VouchInv, RevocationSeen, Caller, UserOf
<1>5. \A e \in ended' : calls'[e.by].pc = "enrolled"
  BY DEF VouchInv, TypeOK
<1>6. QED  BY <1>2, <1>3, <1>4, <1>5 DEF VouchInv

LEMMA VerifyVouched ==
  ASSUME TypeOK, VouchInv, NEW c \in Calls, VerifyCommit(c)
  PROVE  VouchInv'
<1>0. PICK s : s = calls[c].session
  OBVIOUS
<1>1. /\ s \in DOMAIN sessions /\ sessions[s].live /\ calls[c].pc = "verified"
      /\ Vouches(calls[c].secret, s)
  BY <1>0 DEF VerifyCommit, LiveSession, VouchInv, CallVouched
<1>2. /\ DOMAIN sessions' = DOMAIN sessions
      /\ sessions'[s].mfaBy = calls[c].secret
      /\ \A x \in DOMAIN sessions : x # s => sessions'[x] = sessions[x]
      /\ \A x \in DOMAIN sessions :
           UNCHANGED <<sessions[x].user, sessions[x].live, sessions[x].during>>
  BY <1>0, <1>1 DEF VerifyCommit, TypeOK, SessionRow
<1>3. UNCHANGED <<commitments, ended>>
  BY DEF VerifyCommit
<1>4. /\ calls'[c].pc = "steppedUp"
      /\ \A k \in Calls : k # c => calls'[k] = calls[k]
  BY DEF VerifyCommit, TypeOK, CallState
<1>5. \A x \in DOMAIN sessions : \A k : Vouches(k, x) => Vouches(k, x)'
  BY <1>1, <1>2, <1>3, <1>4, VouchesKept DEF TypeOK
<1>6. /\ \A x \in DOMAIN sessions :
            UNCHANGED <<sessions[x].mfaAt, sessions[x].mfaBy>> => SessionVouched(x)'
      /\ \A k \in Calls : calls'[k] = calls[k] => CallVouched(k)'
  BY <1>2, <1>5, StillVouched
<1>7. SessionVouched(s)'
  BY <1>1, <1>2, <1>5 DEF SessionVouched
<1>8. \A x \in DOMAIN sessions' : SessionVouched(x)'
  BY <1>2, <1>6, <1>7
<1>9. \A k \in Calls : CallVouched(k)'
  BY <1>4, <1>6 DEF CallVouched
<1>10. Resolved'
  BY <1>2, <1>4 DEF VouchInv, Resolved, Working
<1>11. \A k \in Calls : RevocationSeen(k)'
  BY <1>2, <1>4 DEF VouchInv, RevocationSeen, Resolved, Working, Caller, UserOf
<1>12. \A e \in ended' : calls'[e.by].pc = "enrolled"
  BY <1>1, <1>3, <1>4 DEF VouchInv, TypeOK
<1>13. QED  BY <1>8, <1>9, <1>10, <1>11, <1>12 DEF VouchInv

LEMMA VouchKept == TypeOK /\ VouchInv /\ [Next]_kvars => VouchInv'
<1> SUFFICES ASSUME TypeOK, VouchInv, [Next]_kvars PROVE VouchInv'
  OBVIOUS
<1>1. CASE UNCHANGED <<sessions, commitments, calls, ended>>
  BY <1>1 DEF VouchInv, Resolved, RevocationSeen, SessionVouched, CallVouched, Vouches,
              Excused, Caller, UserOf
<1>2. ASSUME NEW s \in Sessions, NEW u \in Users, SignIn(s, u)  PROVE VouchInv'
  <2>1. /\ s \notin DOMAIN sessions /\ DOMAIN sessions' = DOMAIN sessions \cup {s}
        /\ sessions'[s].mfaAt = Never /\ sessions'[s].user = u
        /\ sessions'[s].during = {c \in Calls : calls[c].pc = "revoked" /\ Caller(c) = u}
        /\ \A x \in DOMAIN sessions : sessions'[x] = sessions[x]
        /\ UNCHANGED <<calls, commitments, ended>>
    BY <1>2 DEF SignIn
  <2>2. \A x \in DOMAIN sessions : \A k : Vouches(k, x) => Vouches(k, x)'
    BY <2>1, VouchesKept DEF TypeOK
  <2>3. /\ \A x \in DOMAIN sessions : SessionVouched(x)'
        /\ \A c \in Calls : CallVouched(c)'
    BY <2>1, <2>2, StillVouched
  <2>4. SessionVouched(s)'
    BY <2>1 DEF SessionVouched
  <2>5. Resolved'
    BY <2>1 DEF VouchInv, Resolved
  <2>6. ASSUME NEW c \in Calls  PROVE RevocationSeen(c)'
    <3>1. SUFFICES ASSUME calls[c].pc = "revoked", NEW x \in DOMAIN sessions',
                          sessions'[x].live, sessions'[x].user = Caller(c)'
                   PROVE  x \in calls[c].ends \/ c \in sessions'[x].during
      BY <2>1 DEF RevocationSeen
    <3>2. Caller(c)' = Caller(c)
      BY <2>1, <3>1 DEF VouchInv, Resolved, Working, Caller, UserOf
    <3>3. QED  BY <2>1, <3>1, <3>2 DEF VouchInv, RevocationSeen
  <2>7. QED  BY <2>1, <2>3, <2>4, <2>5, <2>6 DEF VouchInv
<1>3. ASSUME NEW s \in Sessions, SignOut(s)  PROVE VouchInv'
  <2>1. /\ DOMAIN sessions' = DOMAIN sessions
        /\ \A x \in DOMAIN sessions :
             /\ UNCHANGED <<sessions[x].user, sessions[x].mfaAt, sessions[x].mfaBy,
                            sessions[x].during>>
             /\ sessions'[x].live => sessions[x].live
        /\ UNCHANGED <<calls, commitments, ended>>
    BY <1>3 DEF SignOut, LiveSession, TypeOK, SessionRow
  <2>2. \A x \in DOMAIN sessions : \A k : Vouches(k, x) => Vouches(k, x)'
    BY <2>1, VouchesKept DEF TypeOK
  <2>3. /\ \A x \in DOMAIN sessions : SessionVouched(x)'
        /\ \A c \in Calls : CallVouched(c)'
    BY <2>1, <2>2, StillVouched
  <2>4. Resolved' /\ \A c \in Calls : RevocationSeen(c)'
    BY <2>1 DEF VouchInv, Resolved, RevocationSeen, Working, Caller, UserOf
  <2>5. QED  BY <2>1, <2>3, <2>4 DEF VouchInv
<1>4. ASSUME NEW c \in Calls, NEW s \in Sessions, Arrive(c, s)  PROVE VouchInv'
  <2>1. /\ calls[c].pc = "idle" /\ calls'[c].pc = "arrived"
        /\ calls'[c].session = s /\ s \in DOMAIN sessions
        /\ \A k \in Calls : k # c => calls'[k] = calls[k]
        /\ UNCHANGED <<sessions, commitments, ended>>
    BY <1>4 DEF Arrive, LiveSession, TypeOK, CallState, IdleCall
  <2>2. CallVouched(c)' /\ RevocationSeen(c)'
    BY <2>1 DEF CallVouched, RevocationSeen
  <2>3. QED  BY <2>1, <2>2, CallMovesVouched
<1>5. ASSUME NEW c \in Calls, Refuse(c)  PROVE VouchInv'
  <2>1. /\ calls[c].pc # "enrolled" /\ calls'[c].pc = "refused"
        /\ \A k \in Calls : k # c => calls'[k] = calls[k]
        /\ UNCHANGED <<sessions, commitments, ended>>
    BY <1>5 DEF Refuse, TypeOK, CallState, IdleCall
  <2>2. CallVouched(c)' /\ RevocationSeen(c)'
    BY <2>1 DEF CallVouched, RevocationSeen
  <2>3. QED  BY <2>1, <2>2, CallMovesVouched DEF Working
<1>6. ASSUME NEW c \in Calls, NEW password \in BOOLEAN, EnrollRead(c, password)
      PROVE  VouchInv'
  <2>1. /\ calls[c].pc = "arrived" /\ calls'[c].pc = "enroll"
        /\ calls'[c].session = calls[c].session
        /\ \A k \in Calls : k # c => calls'[k] = calls[k]
        /\ UNCHANGED <<sessions, commitments, ended>>
    BY <1>6 DEF EnrollRead, TypeOK, CallState
  <2>2. CallVouched(c)' /\ RevocationSeen(c)'
    BY <2>1 DEF CallVouched, RevocationSeen
  <2>3. QED  BY <2>1, <2>2, CallMovesVouched DEF VouchInv, Resolved, Working
<1>7. ASSUME NEW c \in Calls, EnrollUpsert(c)  PROVE VouchInv'
  <2>1. /\ calls[c].pc = "enroll" /\ calls'[c].pc = "upserted"
        /\ calls'[c].session = calls[c].session
        /\ \A k \in Calls : k # c => calls'[k] = calls[k]
        /\ UNCHANGED <<sessions, commitments, ended>>
    BY <1>7 DEF EnrollUpsert, TypeOK, CallState
  <2>2. CallVouched(c)' /\ RevocationSeen(c)'
    BY <2>1 DEF CallVouched, RevocationSeen
  <2>3. QED  BY <2>1, <2>2, CallMovesVouched DEF VouchInv, Resolved, Working
<1>8. ASSUME NEW c \in Calls, EnrollRevoke(c)  PROVE VouchInv'
  <2>1. /\ calls[c].pc = "upserted" /\ calls'[c].pc = "revoked"
        /\ calls'[c].session = calls[c].session
        /\ calls'[c].ends = {s \in DOMAIN sessions : LiveSession(s) /\ UserOf(s) = Caller(c)}
        /\ \A k \in Calls : k # c => calls'[k] = calls[k]
        /\ UNCHANGED <<sessions, commitments, ended>>
    BY <1>8 DEF EnrollRevoke, TypeOK, CallState
  <2>2. CallVouched(c)'
    BY <2>1 DEF CallVouched
  <2>3. RevocationSeen(c)'
    BY <2>1 DEF RevocationSeen, LiveSession, Caller, UserOf
  <2>4. QED  BY <2>1, <2>2, <2>3, CallMovesVouched DEF VouchInv, Resolved, Working
<1>9. ASSUME NEW c \in Calls, EnrollCommit(c)  PROVE VouchInv'
  BY <1>9, EnrollVouched
<1>10. ASSUME NEW c \in Calls, NEW t \in Tokens, VerifyRead(c, t)  PROVE VouchInv'
  <2>1. /\ calls[c].pc = "arrived" /\ calls'[c].pc = "verified"
        /\ calls'[c].session = calls[c].session
        /\ calls'[c].secret = commitments[Caller(c)] /\ commitments[Caller(c)] # None
        /\ \A k \in Calls : k # c => calls'[k] = calls[k]
        /\ UNCHANGED <<sessions, commitments, ended>>
    BY <1>10 DEF VerifyRead, TypeOK, CallState
  <2>2. CallVouched(c)' /\ RevocationSeen(c)'
    BY <2>1 DEF CallVouched, RevocationSeen, Vouches, Caller, UserOf
  <2>3. QED  BY <2>1, <2>2, CallMovesVouched DEF VouchInv, Resolved, Working
<1>11. ASSUME NEW c \in Calls, VerifyCommit(c)  PROVE VouchInv'
  BY <1>11, VerifyVouched
<1>12. QED
  BY <1>1, <1>2, <1>3, <1>4, <1>5, <1>6, <1>7, <1>8, <1>9, <1>10, <1>11
  DEF Next, Tick, KnowledgeChallenge, kvars

(* MFARestsOnCurrentCommitment: what row locks and the revocation inside the *)
(* transaction of a replacement achieve, and the two windows they leave: a   *)
(* racing first enrolment, and a sign-in between that revocation and the     *)
(* commit.                                                                  *)
THEOREM StepUpsRestOnCommitment == Spec => []MFARestsOnCurrentCommitment
<1>1. VouchInv => MFARestsOnCurrentCommitment
  BY DEF VouchInv, SessionVouched, Vouches, Excused, MFARestsOnCurrentCommitment,
         LiveSession, UserOf
<1>2. QED
  BY <1>1, InitTypes, TypesKept, InitVouched, VouchKept, PTL DEF Spec

-----------------------------------------------------------------------------
(* One step-up per challenge. *)

LEMMA SpentKept == TypeOK /\ SpentInv /\ [Next]_kvars => SpentInv'
<1> SUFFICES ASSUME TypeOK, SpentInv, [Next]_kvars PROVE SpentInv'
  OBVIOUS
<1>1. CASE UNCHANGED <<challenges, drawn, stepups>>
  BY <1>1 DEF SpentInv, OneStepUpPerChallenge
<1>2. ASSUME NEW s \in Sessions, NEW t \in Tokens, KnowledgeChallenge(s, t)
      PROVE  SpentInv'
  <2>1. /\ t \notin drawn /\ drawn' = drawn \cup {t} /\ stepups' = stepups
        /\ \A k \in DOMAIN challenges' : k # t =>
             k \in DOMAIN challenges /\ challenges'[k] = challenges[k]
    BY <1>2 DEF KnowledgeChallenge, IssueChallenge
  <2>2. QED  BY <2>1 DEF SpentInv, OneStepUpPerChallenge
<1>3. ASSUME NEW c \in Calls, VerifyCommit(c)
      PROVE  SpentInv'
  <2> DEFINE t == calls[c].token
             x == [call |-> c, session |-> calls[c].session, token |-> t, at |-> now]
  <2>1. /\ t \in DOMAIN challenges /\ ~challenges[t].consumed
        /\ stepups' = stepups \cup {x} /\ drawn' = drawn
    BY <1>3 DEF VerifyCommit, Usable
  <2>2. /\ DOMAIN challenges' = DOMAIN challenges /\ challenges'[t].consumed
        /\ \A k \in DOMAIN challenges : k # t => challenges'[k] = challenges[k]
    BY <1>3, <2>1 DEF VerifyCommit, Consume, TypeOK, ChallengeRow
  <2>3. x.token = t /\ t \in drawn
    BY <2>1 DEF TypeOK
  <2>4. \A y \in stepups : y.token # t
    BY <2>1 DEF SpentInv
  <2> HIDE DEF t, x
  <2>5. QED  BY <2>1, <2>2, <2>3, <2>4 DEF SpentInv, OneStepUpPerChallenge
<1>4. QED
  BY <1>1, <1>2, <1>3
  DEF Next, Tick, SignIn, SignOut, Arrive, Refuse, EnrollRead, EnrollUpsert, EnrollRevoke,
      EnrollCommit, VerifyRead, kvars

(* However many calls peeked at a challenge, consumeChallenge lets one of    *)
(* them record MFA.                                                         *)
THEOREM ChallengeStepsUpOnce == Spec => []OneStepUpPerChallenge
<1>1. Init => SpentInv
  BY DEF Init, SpentInv, OneStepUpPerChallenge
<1>2. SpentInv => OneStepUpPerChallenge
  BY DEF SpentInv
<1>3. QED
  BY <1>1, <1>2, InitTypes, TypesKept, SpentKept, PTL DEF Spec
=============================================================================
