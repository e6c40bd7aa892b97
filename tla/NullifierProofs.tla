-------------------------- MODULE NullifierProofs --------------------------
(***************************************************************************)
(* For any number of requests, persons, credentials, claims and challenges *)
(* MembershipProofs settles every nullifier once, spends every challenge   *)
(* and every allowance once, keeps logins on pseudonyms and standing       *)
(* claims on proofs, and bounds when the last transaction of a revoked     *)
(* credential begins.                                                      *)
(***************************************************************************)
EXTENDS MembershipProofs, TLAPS

SessionIds == {SessionOf[p] : p \in Persons} \cup Requests

ChallengeRow == [purpose : {"login", "claim"}, session : SessionIds \cup {None},
                 expires : Int, consumed : BOOLEAN]
UserRow == [email : Keys \cup {None}, deleted : BOOLEAN]
SessionRow == [user : Persons \cup Requests, live : BOOLEAN, via : Keys \cup {None}]
Pcs == {"idle", "submitted", "consume"} \cup Writing \cup Ended
ReqRow ==
  [pc : Pcs, op : {"none", "login", "claim"}, session : SessionIds \cup {None},
   claim : ClaimNames \cup {None}, policy : Policies \cup {None},
   token : Tokens \cup {None}, member : Members \cup {None}, began : 0..MaxTime,
   user : Persons \cup Requests \cup {None}, row : Rows \cup {None}]

TablesInv ==
  /\ now \in 0..MaxTime
  /\ claims \in [ClaimNames -> Policies \cup {None}]
  /\ DOMAIN challenges \subseteq drawn /\ drawn \subseteq Tokens
  /\ \A t \in DOMAIN challenges :
       challenges[t] \in ChallengeRow /\ challenges[t].expires <= now + ChallengeTTL
  /\ \A n \in DOMAIN nullifiers : nullifiers[n] \in Rows
  /\ goneAt \in [Members -> {NotGone} \cup 0..MaxTime]
  /\ granted \subseteq Requests

AccountsInv ==
  /\ \A u \in DOMAIN users : /\ u \in Persons \cup Requests /\ users[u] \in UserRow
                             /\ users[u].email = None <=> u \in Persons
  /\ \A s \in DOMAIN sessions : /\ s \in SessionIds /\ sessions[s] \in SessionRow
                                /\ sessions[s].user \in DOMAIN users
  /\ sessionClaims \subseteq (DOMAIN sessions) \X ClaimNames

(* What a request has fixed once it was submitted.                          *)
Asked(r) ==
  req[r].pc # "idle" =>
    /\ req[r].policy \in Policies /\ req[r].member \in Members
    /\ req[r].token \in drawn /\ req[r].claim \in ClaimNames
    /\ req[r].op \in {"login", "claim"} /\ req[r].began <= now
    /\ req[r].op = "claim" => req[r].session \in DOMAIN sessions /\ req[r].user = None

(* Which way it takes. *)
Place(r) ==
  /\ req[r].pc \in {"resolve", "create", "again", "issue"} => req[r].op = "login"
  /\ req[r].pc \in {"bind", "sink"} => req[r].op = "claim"
  /\ req[r].op = "login" /\ req[r].pc \notin {"idle", "submitted", "refused", "failed"}
       => req[r].policy.kind = "recurring"
  /\ req[r].pc \in {"idle", "submitted", "consume", "resolve", "create", "again", "bind"}
       => req[r].row = None

(* A transaction that is past its nullifier: it writes the row itself, for  *)
(* a nullifier that has none, or has found one that is not spent.           *)
Holding == {"issue", "sink", "commit"}

RowInv(r) ==
  /\ req[r].row # None /\ req[r].pc \in Holding => Key(r) \notin DOMAIN nullifiers
  /\ req[r].row # None /\ req[r].pc = "done" =>
       Key(r) \in DOMAIN nullifiers /\ nullifiers[Key(r)] = req[r].row
  /\ req[r].row = None /\ req[r].pc \in Holding \cup {"done"} =>
       Key(r) \in DOMAIN nullifiers /\ ~nullifiers[Key(r)].consumed

Own(r, u) == [audience |-> req[r].policy.audience, user |-> u, consumed |-> FALSE]

LoginInv(r) ==
  req[r].pc \in {"issue", "commit"} /\ req[r].op = "login" =>
    \/ req[r].user = r /\ req[r].row = Own(r, r)
    \/ /\ req[r].row = None /\ req[r].user \in DOMAIN users
       /\ users[req[r].user].email = Key(r)
       /\ nullifiers[Key(r)] = Own(r, req[r].user)

ClaimInv(r) ==
  /\ req[r].pc \in {"sink", "commit"} /\ req[r].op = "claim"
       /\ req[r].policy.kind = "recurring" =>
       \/ req[r].row = Own(r, sessions[req[r].session].user)
       \/ /\ req[r].row = None
          /\ nullifiers[Key(r)] = Own(r, sessions[req[r].session].user)
  /\ req[r].pc \in {"sink", "commit", "done"} /\ req[r].op = "claim"
       /\ req[r].policy.kind = "one_shot" => req[r].row # None /\ req[r].row.consumed
  /\ r \in granted => /\ req[r].pc \in {"commit", "done", "failed"}
                      /\ req[r].op = "claim" /\ req[r].policy.kind = "one_shot"

(* An account or session named after a request is its commit's; a challenge *)
(* it used is used up.                                                      *)
UsedInv(r) ==
  /\ r \in DOMAIN users \cup DOMAIN sessions => req[r].pc = "done"
  /\ req[r].pc = "done" =>
       (req[r].token \in DOMAIN challenges => challenges[req[r].token].consumed)

LastInv(r) ==
  req[r].pc # "idle" /\ goneAt[req[r].member] # NotGone =>
    /\ req[r].pc = "submitted" /\ req[r].token \in DOMAIN challenges =>
         challenges[req[r].token].expires <= goneAt[req[r].member] + RootGrace + ChallengeTTL
    /\ req[r].pc \notin {"submitted", "refused", "failed"} =>
         \/ req[r].began <= goneAt[req[r].member]
         \/ req[r].began < goneAt[req[r].member] + RootGrace + ChallengeTTL

ReqInv(r) ==
  /\ Asked(r) /\ Place(r) /\ RowInv(r) /\ LoginInv(r) /\ ClaimInv(r)
  /\ UsedInv(r) /\ LastInv(r)

(* Two transactions past their first write differ in challenge, two rows in *)
(* nullifier.                                                               *)
Apart(r, q) ==
  /\ {req[r].pc, req[q].pc} \subseteq Writing \cup {"done"} => req[r].token # req[q].token
  /\ {req[r].pc, req[q].pc} \subseteq Holding \cup {"done"}
       /\ req[r].row # None /\ req[q].row # None => Key(r) # Key(q)

ReqTypes == req \in [Requests -> ReqRow]

MembershipInv ==
  /\ TablesInv /\ AccountsInv /\ ReqTypes
  /\ \A r \in Requests : ReqInv(r)
  /\ \A r, q \in Requests : r # q => Apart(r, q)
  /\ LoginStaysOnPseudonym /\ StandingClaimsAreProved

-----------------------------------------------------------------------------
LEMMA IdleTypes == IdleRequest \in ReqRow
BY TimesAreNatural DEF IdleRequest, ReqRow, Pcs

LEMMA InitInv == Init => MembershipInv
<1> SUFFICES ASSUME Init PROVE MembershipInv
  OBVIOUS
<1>1. req \in [Requests -> ReqRow]
  BY IdleTypes DEF Init
<1>2. \A r \in Requests : /\ req[r].pc = "idle" /\ req[r].row = None
                          /\ req[r].op = "none"
  BY DEF Init, IdleRequest
<1>3. /\ DOMAIN users = Persons
      /\ \A u \in Persons : users[u] = [email |-> None, deleted |-> FALSE]
  BY DEF Init
<1>4. DOMAIN sessions = {SessionOf[p] : p \in Persons}
  BY DEF Init
<1>5. ASSUME NEW s \in DOMAIN sessions
      PROVE  /\ s \in SessionIds /\ sessions[s] \in SessionRow
             /\ sessions[s].user \in Persons /\ sessions[s].via = None
  <2>1. PICK p \in Persons : SessionOf[p] = s
    BY <1>4
  <2>2. PICK u : u = CHOOSE x \in Persons : SessionOf[x] = s
    OBVIOUS
  <2>3. u \in Persons
    BY <2>1, <2>2
  <2>4. sessions[s] = [user |-> u, live |-> TRUE, via |-> None]
    BY <1>4, <2>2 DEF Init
  <2>5. QED  BY <1>4, <2>3, <2>4 DEF SessionIds, SessionRow
<1>6. AccountsInv
  BY <1>3, <1>5 DEF AccountsInv, UserRow, Init
<1>7. TablesInv
  BY TimesAreNatural DEF TablesInv, Init, NotGone
<1>8. \A r \in Requests : ReqInv(r)
  <2>1. \A r \in Requests : r \notin DOMAIN users /\ r \notin DOMAIN sessions /\ r \notin granted
    BY <1>3, <1>4, IdsDiffer DEF Init
  <2>2. QED
    BY <1>2, <2>1 DEF ReqInv, Asked, Place, RowInv, LoginInv, ClaimInv, UsedInv, LastInv, Holding
<1>9. \A r, q \in Requests : r # q => Apart(r, q)
  BY <1>2 DEF Apart, Writing
<1>10. LoginStaysOnPseudonym /\ StandingClaimsAreProved
  BY <1>3, <1>5 DEF LoginStaysOnPseudonym, StandingClaimsAreProved, Init
<1>11. QED  BY <1>1, <1>6, <1>7, <1>8, <1>9, <1>10 DEF MembershipInv, ReqTypes

-----------------------------------------------------------------------------
(* Steps of one request outside Commit. *)

Others(r) == \A q \in Requests : q # r => req'[q] = req[q]

SameCall(r) ==
  /\ req'[r].op = req[r].op /\ req'[r].session = req[r].session
  /\ req'[r].claim = req[r].claim /\ req'[r].policy = req[r].policy
  /\ req'[r].token = req[r].token /\ req'[r].member = req[r].member

(* The ways a step changes the row of its request.                          *)
GoToForm(x, pc) == [x EXCEPT !.pc = pc]

LEMMA GoToShape ==
  ASSUME NEW x \in ReqRow, NEW pc \in Pcs, NEW y, y = GoToForm(x, pc)
  PROVE  /\ y \in ReqRow /\ y.pc = pc
         /\ y.began = x.began /\ y.user = x.user /\ y.row = x.row
         /\ y.op = x.op /\ y.session = x.session /\ y.claim = x.claim
         /\ y.policy = x.policy /\ y.token = x.token /\ y.member = x.member
BY DEF ReqRow, Pcs, Writing, GoToForm

BeginForm(x, t) == [x EXCEPT !.pc = "consume", !.began = t]

LEMMA BeginShape ==
  ASSUME NEW x \in ReqRow, NEW t \in 0..MaxTime, NEW y, y = BeginForm(x, t)
  PROVE  /\ y \in ReqRow /\ y.pc = "consume"
         /\ y.began = t /\ y.user = x.user /\ y.row = x.row
         /\ y.op = x.op /\ y.session = x.session /\ y.claim = x.claim
         /\ y.policy = x.policy /\ y.token = x.token /\ y.member = x.member
BY DEF ReqRow, Pcs, Writing, BeginForm

ResolvedForm(x, u) == [x EXCEPT !.pc = "issue", !.user = u]

LEMMA ResolvedShape ==
  ASSUME NEW x \in ReqRow, NEW u \in Persons \cup Requests, NEW y, y = ResolvedForm(x, u)
  PROVE  /\ y \in ReqRow /\ y.pc = "issue"
         /\ y.began = x.began /\ y.user = u /\ y.row = x.row
         /\ y.op = x.op /\ y.session = x.session /\ y.claim = x.claim
         /\ y.policy = x.policy /\ y.token = x.token /\ y.member = x.member
BY DEF ReqRow, Pcs, Writing, ResolvedForm

CreatedForm(x, u, n) == [x EXCEPT !.pc = "issue", !.user = u, !.row = n]

LEMMA CreatedShape ==
  ASSUME NEW x \in ReqRow, NEW u \in Requests, NEW n \in Rows, NEW y, y = CreatedForm(x, u, n)
  PROVE  /\ y \in ReqRow /\ y.pc = "issue"
         /\ y.began = x.began /\ y.user = u /\ y.row = n
         /\ y.op = x.op /\ y.session = x.session /\ y.claim = x.claim
         /\ y.policy = x.policy /\ y.token = x.token /\ y.member = x.member
BY DEF ReqRow, Pcs, Writing, CreatedForm

BoundForm(x, n) == [x EXCEPT !.pc = "sink", !.row = n]

LEMMA BoundShape ==
  ASSUME NEW x \in ReqRow, NEW n \in Rows, NEW y, y = BoundForm(x, n)
  PROVE  /\ y \in ReqRow /\ y.pc = "sink"
         /\ y.began = x.began /\ y.user = x.user /\ y.row = n
         /\ y.op = x.op /\ y.session = x.session /\ y.claim = x.claim
         /\ y.policy = x.policy /\ y.token = x.token /\ y.member = x.member
BY DEF ReqRow, Pcs, Writing, BoundForm

LEMMA GoToRow ==
  ASSUME ReqTypes, NEW r \in Requests, NEW pc \in Pcs,
         GoTo(r, pc)
  PROVE  /\ ReqTypes' /\ Others(r) /\ SameCall(r) /\ req'[r].pc = pc
         /\ req'[r].began = req[r].began /\ req'[r].user = req[r].user /\ req'[r].row = req[r].row
<1>1. PICK y : y = GoToForm(req[r], pc)
  OBVIOUS
<1>2. req[r] \in ReqRow
  BY DEF ReqTypes
<1>3. req' = [req EXCEPT ![r] = y]
  BY <1>1 DEF ReqTypes, GoToForm, GoTo
<1>4. /\ y \in ReqRow /\ y.pc = pc
      /\ y.began = req[r].began /\ y.user = req[r].user /\ y.row = req[r].row
      /\ y.op = req[r].op /\ y.session = req[r].session /\ y.claim = req[r].claim
      /\ y.policy = req[r].policy /\ y.token = req[r].token /\ y.member = req[r].member
  BY <1>1, <1>2, GoToShape
<1>5. ReqTypes' /\ Others(r) /\ req'[r] = y
  BY <1>3, <1>4 DEF ReqTypes, Others
<1>6. QED  BY <1>4, <1>5 DEF SameCall

LEMMA BeginRow ==
  ASSUME ReqTypes, NEW r \in Requests, NEW t \in 0..MaxTime,
         req' = [req EXCEPT ![r] = [@ EXCEPT !.pc = "consume", !.began = t]]
  PROVE  /\ ReqTypes' /\ Others(r) /\ SameCall(r) /\ req'[r].pc = "consume"
         /\ req'[r].began = t /\ req'[r].user = req[r].user /\ req'[r].row = req[r].row
<1>1. PICK y : y = BeginForm(req[r], t)
  OBVIOUS
<1>2. req[r] \in ReqRow
  BY DEF ReqTypes
<1>3. req' = [req EXCEPT ![r] = y]
  BY <1>1 DEF ReqTypes, BeginForm
<1>4. /\ y \in ReqRow /\ y.pc = "consume"
      /\ y.began = t /\ y.user = req[r].user /\ y.row = req[r].row
      /\ y.op = req[r].op /\ y.session = req[r].session /\ y.claim = req[r].claim
      /\ y.policy = req[r].policy /\ y.token = req[r].token /\ y.member = req[r].member
  BY <1>1, <1>2, BeginShape
<1>5. ReqTypes' /\ Others(r) /\ req'[r] = y
  BY <1>3, <1>4 DEF ReqTypes, Others
<1>6. QED  BY <1>4, <1>5 DEF SameCall

LEMMA ResolvedRow ==
  ASSUME ReqTypes, NEW r \in Requests, NEW u \in Persons \cup Requests,
         Resolved(r, u)
  PROVE  /\ ReqTypes' /\ Others(r) /\ SameCall(r) /\ req'[r].pc = "issue"
         /\ req'[r].began = req[r].began /\ req'[r].user = u /\ req'[r].row = req[r].row
<1>1. PICK y : y = ResolvedForm(req[r], u)
  OBVIOUS
<1>2. req[r] \in ReqRow
  BY DEF ReqTypes
<1>3. req' = [req EXCEPT ![r] = y]
  BY <1>1 DEF ReqTypes, ResolvedForm, Resolved
<1>4. /\ y \in ReqRow /\ y.pc = "issue"
      /\ y.began = req[r].began /\ y.user = u /\ y.row = req[r].row
      /\ y.op = req[r].op /\ y.session = req[r].session /\ y.claim = req[r].claim
      /\ y.policy = req[r].policy /\ y.token = req[r].token /\ y.member = req[r].member
  BY <1>1, <1>2, ResolvedShape
<1>5. ReqTypes' /\ Others(r) /\ req'[r] = y
  BY <1>3, <1>4 DEF ReqTypes, Others
<1>6. QED  BY <1>4, <1>5 DEF SameCall

LEMMA CreatedRow ==
  ASSUME ReqTypes, NEW r \in Requests, NEW n \in Rows,
         req' = [req EXCEPT ![r] = [@ EXCEPT !.pc = "issue", !.user = r, !.row = n]]
  PROVE  /\ ReqTypes' /\ Others(r) /\ SameCall(r) /\ req'[r].pc = "issue"
         /\ req'[r].began = req[r].began /\ req'[r].user = r /\ req'[r].row = n
<1>1. PICK y : y = CreatedForm(req[r], r, n)
  OBVIOUS
<1>2. req[r] \in ReqRow
  BY DEF ReqTypes
<1>3. req' = [req EXCEPT ![r] = y]
  BY <1>1 DEF ReqTypes, CreatedForm
<1>4. /\ y \in ReqRow /\ y.pc = "issue"
      /\ y.began = req[r].began /\ y.user = r /\ y.row = n
      /\ y.op = req[r].op /\ y.session = req[r].session /\ y.claim = req[r].claim
      /\ y.policy = req[r].policy /\ y.token = req[r].token /\ y.member = req[r].member
  BY <1>1, <1>2, CreatedShape
<1>5. ReqTypes' /\ Others(r) /\ req'[r] = y
  BY <1>3, <1>4 DEF ReqTypes, Others
<1>6. QED  BY <1>4, <1>5 DEF SameCall

LEMMA BoundRow ==
  ASSUME ReqTypes, NEW r \in Requests, NEW n \in Rows,
         req' = [req EXCEPT ![r] = [@ EXCEPT !.pc = "sink", !.row = n]]
  PROVE  /\ ReqTypes' /\ Others(r) /\ SameCall(r) /\ req'[r].pc = "sink"
         /\ req'[r].began = req[r].began /\ req'[r].user = req[r].user /\ req'[r].row = n
<1>1. PICK y : y = BoundForm(req[r], n)
  OBVIOUS
<1>2. req[r] \in ReqRow
  BY DEF ReqTypes
<1>3. req' = [req EXCEPT ![r] = y]
  BY <1>1 DEF ReqTypes, BoundForm
<1>4. /\ y \in ReqRow /\ y.pc = "sink"
      /\ y.began = req[r].began /\ y.user = req[r].user /\ y.row = n
      /\ y.op = req[r].op /\ y.session = req[r].session /\ y.claim = req[r].claim
      /\ y.policy = req[r].policy /\ y.token = req[r].token /\ y.member = req[r].member
  BY <1>1, <1>2, BoundShape
<1>5. ReqTypes' /\ Others(r) /\ req'[r] = y
  BY <1>3, <1>4 DEF ReqTypes, Others
<1>6. QED  BY <1>4, <1>5 DEF SameCall

(* What such a step cannot disturb.                                         *)
LEMMA OtherRequest ==
  ASSUME MembershipInv, UNCHANGED <<now, tables, goneAt>>,
         NEW q \in Requests, req'[q] = req[q], q \in granted' <=> q \in granted
  PROVE  ReqInv(q)'
<1>1. ReqInv(q)
  BY DEF MembershipInv
<1>2. UNCHANGED <<now, claims, challenges, drawn, users, nullifiers, sessions, goneAt>>
  BY DEF tables
<1>3. Key(q)' = Key(q) /\ \A u : Own(q, u)' = Own(q, u)
  BY DEF Key, Own
<1>4. Asked(q)' /\ Place(q)'
  BY <1>1, <1>2 DEF ReqInv, Asked, Place
<1>5. RowInv(q)'
  BY <1>1, <1>2, <1>3 DEF ReqInv, RowInv
<1>6. LoginInv(q)'
  BY <1>1, <1>2, <1>3 DEF ReqInv, LoginInv, Own
<1>7. ClaimInv(q)'
  BY <1>1, <1>2, <1>3 DEF ReqInv, ClaimInv, Own
<1>8. UsedInv(q)' /\ LastInv(q)'
  BY <1>1, <1>2 DEF ReqInv, UsedInv, LastInv
<1>9. QED  BY <1>4, <1>5, <1>6, <1>7, <1>8 DEF ReqInv

LEMMA Moved ==
  ASSUME MembershipInv, NEW r \in Requests,
         UNCHANGED <<now, tables, goneAt>>, granted' \in {granted, granted \cup {r}},
         ReqTypes', Others(r), req[r].pc # "done", req'[r].pc # "done",
         Asked(r)', Place(r)', RowInv(r)', LoginInv(r)', ClaimInv(r)', LastInv(r)',
         \A q \in Requests : q # r => Apart(r, q)'
  PROVE  MembershipInv'
<1>1. UNCHANGED <<now, claims, challenges, drawn, users, nullifiers, sessions,
                  sessionClaims, goneAt>>
  BY DEF tables
<1>2. TablesInv' /\ AccountsInv'
  BY <1>1 DEF MembershipInv, TablesInv, AccountsInv
<1>3. UsedInv(r)'
  BY <1>1 DEF MembershipInv, ReqInv, UsedInv
<1>4. \A q \in Requests : ReqInv(q)'
  BY <1>3, OtherRequest DEF ReqInv, Others
<1>5. ASSUME NEW p \in Requests, NEW q \in Requests, p # q  PROVE Apart(p, q)'
  <2>1. CASE p = r
    BY <1>5, <2>1
  <2>2. CASE q = r
    <3>1. Apart(q, p)'
      BY <1>5, <2>2
    <3>2. QED  BY <3>1 DEF Apart
  <2>3. CASE p # r /\ q # r
    BY <1>5, <2>3 DEF MembershipInv, Others, Apart, Key
  <2>4. QED  BY <2>1, <2>2, <2>3
<1>6. LoginStaysOnPseudonym'
  BY <1>1 DEF MembershipInv, LoginStaysOnPseudonym
<1>7. StandingClaimsAreProved'
  <2> SUFFICES ASSUME NEW s \in DOMAIN sessions', NEW c \in ClaimNames, <<s, c>> \in sessionClaims'
               PROVE  \E q \in Requests :
                        /\ req'[q].pc = "done" /\ Home(q)' = s /\ req'[q].claim = c
                        /\ req'[q].policy.kind = "recurring"
                        /\ nullifiers'[Key(q)'] = [audience |-> req'[q].policy.audience,
                                                   user |-> sessions'[s].user, consumed |-> FALSE]
    BY DEF StandingClaimsAreProved
  <2>1. PICK q \in Requests :
          /\ req[q].pc = "done" /\ Home(q) = s /\ req[q].claim = c
          /\ req[q].policy.kind = "recurring"
          /\ nullifiers[Key(q)] = [audience |-> req[q].policy.audience,
                                   user |-> sessions[s].user, consumed |-> FALSE]
    BY <1>1 DEF MembershipInv, StandingClaimsAreProved
  <2>2. req'[q] = req[q]
    BY <2>1 DEF Others
  <2>3. Home(q)' = Home(q) /\ Key(q)' = Key(q)
    BY <2>2 DEF Home, Key
  <2>4. QED  BY <1>1, <2>1, <2>2, <2>3
<1>8. QED  BY <1>2, <1>4, <1>5, <1>6, <1>7 DEF MembershipInv

LEMMA SameKey ==
  ASSUME MembershipInv, NEW r \in Requests, SameCall(r), UNCHANGED <<now, tables>>,
         ReqTypes', req'[r].began <= now, req[r].pc # "idle",
         req[r].op = "login" \/ req'[r].user = req[r].user
  PROVE  /\ Key(r)' = Key(r) /\ (\A u : Own(r, u)' = Own(r, u)) /\ Asked(r)' /\ Asked(r)
<1>1. Asked(r) /\ UNCHANGED <<now, drawn, sessions>>
  BY DEF MembershipInv, ReqInv, tables
<1>2. QED  BY <1>1 DEF SameCall, Key, Own, Asked

(* A request that is refused or fails. *)
LEMMA GivesUp ==
  ASSUME MembershipInv, NEW r \in Requests, NEW pc \in {"refused", "failed"}, Only(r, pc),
         req[r].pc \notin Ended \cup {"idle"}, pc = "failed" \/ r \notin granted
  PROVE  MembershipInv'
<1>1. /\ GoTo(r, pc) /\ UNCHANGED <<now, tables, goneAt, granted>>
      /\ ReqTypes /\ ReqInv(r) /\ pc \in Pcs
  BY DEF Only, MembershipInv, Pcs, Ended
<1>2. /\ ReqTypes' /\ Others(r) /\ SameCall(r)
      /\ req'[r].pc = pc /\ req'[r].began = req[r].began
      /\ req'[r].user = req[r].user /\ req'[r].row = req[r].row
  BY <1>1, GoToRow
<1>3. Asked(r)'
  BY <1>1, <1>2, SameKey DEF ReqInv, Asked, Ended
<1>4. Place(r)' /\ RowInv(r)' /\ LoginInv(r)' /\ LastInv(r)'
  BY <1>2 DEF Place, RowInv, LoginInv, LastInv, Holding
<1>5. ClaimInv(r)'
  BY <1>1, <1>2 DEF ReqInv, ClaimInv, SameCall, Ended
<1>6. \A q \in Requests : q # r => Apart(r, q)'
  BY <1>2 DEF Apart, Writing, Holding
<1>7. QED
  BY <1>1, <1>2, <1>3, <1>4, <1>5, <1>6, Moved DEF Ended

(* A statement of the transaction that writes nothing. *)
LEMMA Advances ==
  ASSUME MembershipInv, NEW r \in Requests,
         UNCHANGED <<now, tables, goneAt>>, granted' \in {granted, granted \cup {r}},
         ReqTypes', Others(r), SameCall(r),
         req'[r].began = req[r].began, req'[r].row = req[r].row,
         req[r].op = "login" \/ req'[r].user = req[r].user,
         req[r].pc \in Writing, req'[r].pc \in Writing,
         req[r].row = None \/ req[r].pc \in Holding,
         Place(r)', RowInv(r)', LoginInv(r)', ClaimInv(r)'
  PROVE  MembershipInv'
<1>1. ReqInv(r) /\ \A q \in Requests : q # r => Apart(r, q)
  BY DEF MembershipInv
<1>2. req[r].began <= now
  BY <1>1 DEF ReqInv, Asked, Writing
<1>3. Key(r)' = Key(r) /\ Asked(r)'
  BY <1>2, SameKey DEF Writing
<1>4. LastInv(r)'
  BY <1>1 DEF ReqInv, LastInv, SameCall, Writing
<1>5. ASSUME NEW q \in Requests, q # r  PROVE Apart(r, q)'
  <2>1. req'[q] = req[q] /\ Key(q)' = Key(q)
    BY <1>5 DEF Others, Key
  <2>2. QED  BY <1>1, <1>3, <1>5, <2>1 DEF Apart, SameCall
<1>6. QED  BY <1>3, <1>4, <1>5, Moved DEF Writing

(* A transaction that writes a row for a nullifier nobody has. *)
LEMMA Inserts ==
  ASSUME MembershipInv, NEW r \in Requests, UNCHANGED <<now, tables, goneAt, granted>>,
         ReqTypes', Others(r), SameCall(r), req'[r].began = req[r].began,
         req[r].op = "login" \/ req'[r].user = req[r].user,
         req[r].pc \in Writing, req'[r].pc \in Holding, req'[r].row # None,
         KeyFree(r), Key(r) \notin DOMAIN nullifiers,
         Place(r)', LoginInv(r)', ClaimInv(r)'
  PROVE  MembershipInv'
<1>1. ReqInv(r) /\ \A q \in Requests : ReqInv(q) /\ (q # r => Apart(r, q))
  BY DEF MembershipInv
<1>2. req[r].began <= now
  BY <1>1 DEF ReqInv, Asked, Writing
<1>3. Key(r)' = Key(r) /\ Asked(r)'
  BY <1>2, SameKey DEF Writing
<1>4. LastInv(r)'
  BY <1>1 DEF ReqInv, LastInv, SameCall, Writing, Holding
<1>5. RowInv(r)'
  BY <1>3 DEF RowInv, Holding, tables
<1>6. ASSUME NEW q \in Requests, q # r  PROVE Apart(r, q)'
  <2>1. req'[q] = req[q] /\ Key(q)' = Key(q)
    BY <1>6 DEF Others, Key
  <2>2. req[q].pc \in Holding /\ req[q].row # None => Key(q) # Key(r)
    BY <1>6 DEF KeyFree, Holding, Writing
  <2>3. req[q].pc = "done" /\ req[q].row # None => Key(q) # Key(r)
    BY <1>1 DEF ReqInv, RowInv
  <2>4. {req'[r].pc, req'[q].pc} \subseteq Writing \cup {"done"} =>
          req'[r].token # req'[q].token
    BY <1>1, <1>6, <2>1 DEF Apart, SameCall
  <2>5. QED  BY <1>3, <2>1, <2>2, <2>3, <2>4 DEF Apart
<1>7. QED  BY <1>3, <1>4, <1>5, <1>6, Moved DEF Writing, Holding

-----------------------------------------------------------------------------
(* The steps of a request, one by one. *)

SubmitForm(op, s, c, policy, t, m) ==
  [IdleRequest EXCEPT !.pc = "submitted", !.op = op, !.session = s, !.claim = c,
                      !.policy = policy, !.token = t, !.member = m]

LEMMA SubmitKeeps ==
  ASSUME MembershipInv, NEW r \in Requests, NEW op \in {"login", "claim"},
         NEW s \in DOMAIN sessions \cup {None}, NEW c \in ClaimNames, NEW t \in Tokens,
         NEW m \in Members, Submit(r, op, s, c, t, m)
  PROVE  MembershipInv'
<1>1. /\ req[r].pc = "idle" /\ (s = None => op = "login")
      /\ (s # None => s \in DOMAIN sessions) /\ claims[c] \in Policies
      /\ t \in drawn /\ RootMayHold(m) /\ UNCHANGED <<now, tables, goneAt, granted>>
  BY DEF Submit, MembershipInv, TablesInv
<1>2. s \in SessionIds \cup {None}
  BY DEF MembershipInv, AccountsInv
<1> PICK policy \in Policies : policy = claims[c]
  BY <1>1
<1>3. PICK y : y = SubmitForm(op, s, c, policy, t, m)
  OBVIOUS
<1>4. /\ y \in ReqRow /\ y.pc = "submitted" /\ y.op = op /\ y.session = s
      /\ y.claim = c /\ y.policy = policy /\ y.token = t /\ y.member = m
      /\ y.began = 0 /\ y.user = None /\ y.row = None
  <2>1. y = [pc |-> "submitted", op |-> op, session |-> s, claim |-> c, policy |-> policy,
             token |-> t, member |-> m, began |-> 0, user |-> None, row |-> None]
    BY <1>3 DEF SubmitForm, IdleRequest
  <2>2. 0 \in 0..MaxTime
    BY TimesAreNatural
  <2>3. QED  BY <1>2, <2>1, <2>2 DEF ReqRow, Pcs
<1>5. req' = [req EXCEPT ![r] = y]
  BY <1>3 DEF Submit, SubmitForm
<1>6. ReqTypes' /\ Others(r) /\ req'[r] = y
  BY <1>4, <1>5 DEF MembershipInv, ReqTypes, Others
<1>7. Asked(r)'
  BY <1>1, <1>4, <1>6 DEF Asked, MembershipInv, TablesInv, tables
<1>8. Place(r)' /\ RowInv(r)' /\ LoginInv(r)'
  BY <1>4, <1>6 DEF Place, RowInv, LoginInv, Holding
<1>9. ClaimInv(r)'
  <2>1. r \notin granted
    BY <1>1 DEF MembershipInv, ReqInv, ClaimInv
  <2>2. QED  BY <1>1, <1>4, <1>6, <2>1 DEF ClaimInv
<1>10. LastInv(r)'
  <2>1. /\ goneAt[m] = NotGone \/ now < goneAt[m] + RootGrace
        /\ goneAt[m] \in {NotGone} \cup 0..MaxTime /\ now \in 0..MaxTime
        /\ \A k \in DOMAIN challenges :
             challenges[k] \in ChallengeRow /\ challenges[k].expires <= now + ChallengeTTL
    BY <1>1 DEF RootMayHold, MembershipInv, TablesInv
  <2>2. goneAt[m] # NotGone /\ t \in DOMAIN challenges =>
          challenges[t].expires <= goneAt[m] + RootGrace + ChallengeTTL
    BY <2>1, TimesAreNatural DEF ChallengeRow
  <2>3. QED  BY <1>1, <1>4, <1>6, <2>2 DEF LastInv, tables
<1>11. \A q \in Requests : q # r => Apart(r, q)'
  BY <1>4, <1>6 DEF Apart, Writing, Holding
<1>12. QED  BY <1>1, <1>4, <1>6, <1>7, <1>8, <1>9, <1>10, <1>11, Moved

LEMMA VerifyKeeps ==
  ASSUME MembershipInv, NEW r \in Requests, Verify(r)
  PROVE  MembershipInv'
<1>1. req[r].pc = "submitted" /\ ReqInv(r) /\ r \notin granted
  BY DEF Verify, MembershipInv, ReqInv, ClaimInv
<1>2. CASE MayProceed(r)
  <2>1. /\ req' = [req EXCEPT ![r] = [@ EXCEPT !.pc = "consume", !.began = now]]
        /\ UNCHANGED <<now, tables, goneAt, granted>> /\ now \in 0..MaxTime /\ ReqTypes
    BY <1>2 DEF Verify, MembershipInv, TablesInv
  <2>2. /\ ReqTypes' /\ Others(r) /\ SameCall(r) /\ req'[r].pc = "consume"
        /\ req'[r].began = now /\ req'[r].user = req[r].user /\ req'[r].row = req[r].row
    BY <2>1, BeginRow
  <2>3. req'[r].began <= now
    BY <2>1, <2>2
  <2>4. Asked(r)'
    BY <1>1, <2>1, <2>2, <2>3, SameKey
  <2>5. Place(r)'
    BY <1>1, <1>2, <2>2 DEF Place, ReqInv, SameCall, MayProceed
  <2>6. RowInv(r)' /\ LoginInv(r)' /\ ClaimInv(r)'
    BY <1>1, <2>1, <2>2 DEF RowInv, LoginInv, ClaimInv, Holding
  <2>7. LastInv(r)'
    <3>1. req[r].token \in DOMAIN challenges /\ challenges[req[r].token].expires > now
      BY <1>2 DEF MayProceed, Usable
    <3>2. goneAt[req[r].member] # NotGone =>
            challenges[req[r].token].expires <=
              goneAt[req[r].member] + RootGrace + ChallengeTTL
      BY <1>1, <3>1 DEF ReqInv, LastInv
    <3>3. /\ challenges[req[r].token].expires \in Int /\ now \in Int
          /\ goneAt[req[r].member] \in Int
      BY <1>1, <3>1 DEF MembershipInv, TablesInv, ChallengeRow, ReqInv, Asked, NotGone
    <3>4. goneAt[req[r].member] # NotGone =>
            now < goneAt[req[r].member] + RootGrace + ChallengeTTL
      BY <3>1, <3>2, <3>3, TimesAreNatural
    <3>5. QED  BY <2>1, <2>2, <3>4 DEF LastInv, SameCall
  <2>8. \A q \in Requests : q # r => Apart(r, q)'
    BY <2>2 DEF Apart, Writing, Holding
  <2>9. QED  BY <1>1, <2>1, <2>2, <2>4, <2>5, <2>6, <2>7, <2>8, Moved
<1>3. CASE ~MayProceed(r)
  <2>1. Only(r, "refused")
    BY <1>3 DEF Verify
  <2>2. QED  BY <1>1, <2>1, GivesUp DEF Ended
<1>4. QED  BY <1>2, <1>3

LEMMA ConsumeKeeps ==
  ASSUME MembershipInv, NEW r \in Requests, ConsumeChallenge(r)
  PROVE  MembershipInv'
<1>1. /\ req[r].pc = "consume" /\ ReqInv(r) /\ r \notin granted /\ TokenFree(r)
      /\ req[r].row = None
  BY DEF ConsumeChallenge, MembershipInv, ReqInv, ClaimInv, Place
<1>2. ASSUME NEW pc \in {"resolve", "bind"}, Only(r, pc),
             pc = IF req[r].op = "login" THEN "resolve" ELSE "bind",
             Usable(challenges, req[r].token, Purpose(r), ChallengeSession(r), req[r].began)
      PROVE  MembershipInv'
  <2>1. GoTo(r, pc) /\ UNCHANGED <<now, tables, goneAt, granted>> /\ pc \in Pcs /\ ReqTypes
    BY <1>2 DEF Only, Pcs, Writing, MembershipInv
  <2>2. /\ ReqTypes' /\ Others(r) /\ SameCall(r) /\ req'[r].pc = pc
        /\ req'[r].began = req[r].began /\ req'[r].user = req[r].user
        /\ req'[r].row = req[r].row
    BY <2>1, GoToRow
  <2>3. Asked(r) /\ Asked(r)'
    BY <1>1, <2>1, <2>2, SameKey DEF ReqInv, Asked
  <2>4. Place(r)'
    BY <1>1, <1>2, <2>2, <2>3 DEF Place, ReqInv, SameCall, Asked
  <2>5. RowInv(r)' /\ LoginInv(r)' /\ ClaimInv(r)'
    BY <1>1, <2>1, <2>2 DEF RowInv, LoginInv, ClaimInv, Holding
  <2>6. LastInv(r)'
    BY <1>1, <2>1, <2>2 DEF ReqInv, LastInv, SameCall, tables
  <2>7. ASSUME NEW q \in Requests, q # r  PROVE Apart(r, q)'
    <3>1. req'[q] = req[q]
      BY <2>2, <2>7 DEF Others
    <3>2. req[q].pc \in Writing => req[q].token # req[r].token
      BY <1>1, <2>7 DEF TokenFree
    <3>3. req[q].pc = "done" => req[q].token # req[r].token
      BY <1>2 DEF MembershipInv, ReqInv, UsedInv, Usable
    <3>4. QED  BY <1>1, <2>2, <3>1, <3>2, <3>3 DEF Apart, SameCall
  <2>8. QED  BY <1>1, <2>1, <2>2, <2>3, <2>4, <2>5, <2>6, <2>7, Moved
<1>3. ASSUME Only(r, "refused")  PROVE MembershipInv'
  BY <1>1, <1>3, GivesUp DEF Ended
<1>4. QED  BY <1>2, <1>3 DEF ConsumeChallenge

(* A row that is there and names u for this audience, not spent.            *)
LEMMA FoundRow ==
  ASSUME MembershipInv, NEW r \in Requests, NEW u,
         Key(r) \in DOMAIN nullifiers, nullifiers[Key(r)].user = u,
         nullifiers[Key(r)].audience = req[r].policy.audience, ~nullifiers[Key(r)].consumed
  PROVE  nullifiers[Key(r)] = Own(r, u)
<1>1. nullifiers[Key(r)] \in Rows
  BY DEF MembershipInv, TablesInv
<1>2. QED  BY <1>1 DEF Rows, Own

LEMMA OwnIsRow ==
  ASSUME NEW r \in Requests, NEW u \in Persons \cup Requests, req[r].policy \in Policies
  PROVE  Own(r, u) \in Rows
<1>1. req[r].policy.audience \in Audiences
  BY DEF Audiences
<1>2. QED  BY <1>1 DEF Own, Rows

LEMMA ResolvedKeeps ==
  ASSUME MembershipInv, NEW r \in Requests, NEW u \in DOMAIN users,
         req[r].pc \in {"resolve", "again"}, Resolves(r, u), Resolved(r, u)
  PROVE  MembershipInv'
<1>1. /\ ReqInv(r) /\ ReqTypes /\ u \in Persons \cup Requests
      /\ UNCHANGED <<now, tables, goneAt, granted>> /\ r \notin granted
      /\ req[r].row = None /\ req[r].op = "login"
  BY DEF MembershipInv, AccountsInv, Resolved, ReqInv, ClaimInv, Place
<1>2. /\ ReqTypes' /\ Others(r) /\ SameCall(r) /\ req'[r].pc = "issue"
      /\ req'[r].began = req[r].began /\ req'[r].user = u /\ req'[r].row = req[r].row
  BY <1>1, ResolvedRow
<1>3. req[r].began <= now
  BY <1>1 DEF ReqInv, Asked
<1>4. Key(r)' = Key(r) /\ Own(r, u)' = Own(r, u)
  BY <1>1, <1>2, <1>3, SameKey
<1>5. /\ Key(r) \in DOMAIN nullifiers /\ ~nullifiers[Key(r)].consumed
      /\ nullifiers[Key(r)] = Own(r, u) /\ users[u].email = Key(r)
  BY FoundRow DEF Resolves
<1>6. Place(r)' /\ RowInv(r)' /\ ClaimInv(r)'
  BY <1>1, <1>2, <1>4, <1>5 DEF ReqInv, Place, RowInv, ClaimInv, SameCall, Holding, tables
<1>7. LoginInv(r)'
  BY <1>1, <1>2, <1>4, <1>5 DEF LoginInv, tables
<1>8. QED  BY <1>1, <1>2, <1>6, <1>7, Advances DEF Writing

(* From one statement of resolvePseudonym to the next. *)
LEMMA TriesNext ==
  ASSUME MembershipInv, NEW r \in Requests, NEW pc \in {"create", "again"},
         req[r].pc \in {"resolve", "create"}, Only(r, pc)
  PROVE  MembershipInv'
<1>1. /\ ReqInv(r) /\ ReqTypes /\ GoTo(r, pc) /\ pc \in Pcs
      /\ UNCHANGED <<now, tables, goneAt, granted>> /\ r \notin granted
      /\ req[r].row = None /\ req[r].op = "login"
  BY DEF MembershipInv, Only, ReqInv, ClaimInv, Place, Pcs, Writing
<1>2. /\ ReqTypes' /\ Others(r) /\ SameCall(r) /\ req'[r].pc = pc
      /\ req'[r].began = req[r].began /\ req'[r].user = req[r].user
      /\ req'[r].row = req[r].row
  BY <1>1, GoToRow
<1>3. Place(r)' /\ RowInv(r)' /\ LoginInv(r)' /\ ClaimInv(r)'
  BY <1>1, <1>2 DEF ReqInv, Place, RowInv, LoginInv, ClaimInv, SameCall, Holding
<1>4. QED  BY <1>1, <1>2, <1>3, Advances DEF Writing

LEMMA CreateKeeps ==
  ASSUME MembershipInv, NEW r \in Requests, CreatePseudonym(r)
  PROVE  MembershipInv'
<1>1. /\ req[r].pc = "create" /\ ReqInv(r) /\ ReqTypes /\ KeyFree(r) /\ r \notin granted
      /\ req[r].row = None /\ req[r].op = "login" /\ req[r].policy \in Policies
  BY DEF CreatePseudonym, MembershipInv, ReqInv, ClaimInv, Place, Asked
<1>2. CASE EmailTaken(Key(r)) \/ Key(r) \in DOMAIN nullifiers
  BY <1>1, <1>2, TriesNext DEF CreatePseudonym
<1>3. CASE ~(EmailTaken(Key(r)) \/ Key(r) \in DOMAIN nullifiers)
  <2>1. PICK n \in Rows : n = Own(r, r) /\ n # None
    BY <1>1, OwnIsRow, NoneIsNoRow
  <2>2. /\ req' = [req EXCEPT ![r] = [@ EXCEPT !.pc = "issue", !.user = r, !.row = n]]
        /\ UNCHANGED <<now, tables, goneAt, granted>>
    BY <1>3, <2>1 DEF CreatePseudonym, Own
  <2>3. /\ ReqTypes' /\ Others(r) /\ SameCall(r) /\ req'[r].pc = "issue"
        /\ req'[r].began = req[r].began /\ req'[r].user = r /\ req'[r].row = n
    <3>1. ReqTypes /\ n \in Rows
      BY <1>1
    <3>2. req' = [req EXCEPT ![r] = [@ EXCEPT !.pc = "issue", !.user = r, !.row = n]]
      BY <2>2
    <3>3. QED  BY <3>1, <3>2, CreatedRow
  <2>4. Own(r, r)' = n
    BY <2>1, <2>3 DEF Own, SameCall
  <2>5. Place(r)' /\ LoginInv(r)' /\ ClaimInv(r)'
    BY <1>1, <2>2, <2>3, <2>4 DEF ReqInv, Place, LoginInv, ClaimInv, SameCall
  <2>6. QED
    BY <1>1, <1>3, <2>1, <2>2, <2>3, <2>5, Inserts DEF Writing, Holding
<1>4. QED  BY <1>2, <1>3

LEMMA IssueKeeps ==
  ASSUME MembershipInv, NEW r \in Requests, IssueSession(r)
  PROVE  MembershipInv'
<1>1. /\ req[r].pc = "issue" /\ ReqInv(r) /\ ReqTypes /\ r \notin granted
      /\ req[r].op = "login"
  BY DEF IssueSession, MembershipInv, ReqInv, ClaimInv, Place
<1>2. ASSUME Only(r, "failed")  PROVE MembershipInv'
  BY <1>1, <1>2, GivesUp DEF Ended
<1>3. ASSUME Only(r, "commit")  PROVE MembershipInv'
  <2>1. GoTo(r, "commit") /\ UNCHANGED <<now, tables, goneAt, granted>> /\ "commit" \in Pcs
    BY <1>3 DEF Only, Pcs, Writing
  <2>2. /\ ReqTypes' /\ Others(r) /\ SameCall(r) /\ req'[r].pc = "commit"
        /\ req'[r].began = req[r].began /\ req'[r].user = req[r].user
        /\ req'[r].row = req[r].row
    BY <1>1, <2>1, GoToRow
  <2>3. req[r].began <= now
    BY <1>1 DEF ReqInv, Asked
  <2>4. Key(r)' = Key(r) /\ \A u : Own(r, u)' = Own(r, u)
    BY <1>1, <2>1, <2>2, <2>3, SameKey
  <2>5. Place(r)' /\ ClaimInv(r)'
    BY <1>1, <2>1, <2>2 DEF ReqInv, Place, ClaimInv, SameCall
  <2>6. RowInv(r)'
    BY <1>1, <2>1, <2>2, <2>4 DEF ReqInv, RowInv, Holding, tables
  <2>7. LoginInv(r)'
    BY <1>1, <2>1, <2>2, <2>4 DEF ReqInv, LoginInv, tables
  <2>8. QED  BY <1>1, <2>1, <2>2, <2>5, <2>6, <2>7, Advances DEF Writing, Holding
<1>4. QED  BY <1>2, <1>3 DEF IssueSession

LEMMA ResolveKeeps ==
  ASSUME MembershipInv, NEW r \in Requests, ResolvePseudonym(r) \/ ResolveAgain(r)
  PROVE  MembershipInv'
<1>1. req[r].pc \in {"resolve", "again"} /\ r \notin granted
  BY DEF ResolvePseudonym, ResolveAgain, MembershipInv, ReqInv, ClaimInv
<1>2. ASSUME NEW u \in DOMAIN users, Resolves(r, u), Resolved(r, u)  PROVE MembershipInv'
  BY <1>1, <1>2, ResolvedKeeps
<1>3. ASSUME req[r].pc = "resolve", Only(r, "create")  PROVE MembershipInv'
  BY <1>3, TriesNext
<1>4. ASSUME Only(r, "refused")  PROVE MembershipInv'
  BY <1>1, <1>4, GivesUp DEF Ended
<1>5. QED  BY <1>2, <1>3, <1>4 DEF ResolvePseudonym, ResolveAgain

(* A claim whose nullifier is settled by a row of its own.                  *)
LEMMA BoundKeeps ==
  ASSUME MembershipInv, NEW r \in Requests, NEW n \in Rows,
         req[r].pc = "bind", KeyFree(r), Key(r) \notin DOMAIN nullifiers,
         \/ req[r].policy.kind = "recurring" /\ n = Own(r, sessions[req[r].session].user)
         \/ req[r].policy.kind = "one_shot" /\ n.consumed,
         req' = [req EXCEPT ![r] = [@ EXCEPT !.pc = "sink", !.row = n]],
         UNCHANGED <<now, tables, goneAt, granted>>
  PROVE  MembershipInv'
<1>1. /\ ReqInv(r) /\ ReqTypes /\ req[r].op = "claim" /\ r \notin granted
      /\ UNCHANGED sessions
  BY DEF MembershipInv, ReqInv, Place, ClaimInv, tables
<1>2. /\ ReqTypes' /\ Others(r) /\ SameCall(r) /\ req'[r].pc = "sink"
      /\ req'[r].began = req[r].began /\ req'[r].user = req[r].user /\ req'[r].row = n
  BY <1>1, BoundRow
<1>3. n # None
  BY NoneIsNoRow
<1>4. req[r].began <= now
  BY <1>1 DEF ReqInv, Asked
<1>5. \A u : Own(r, u)' = Own(r, u)
  BY <1>1, <1>2, <1>4, SameKey
<1>6. Place(r)' /\ LoginInv(r)'
  BY <1>1, <1>2 DEF Place, LoginInv, SameCall
<1>7. ClaimInv(r)'
  <2>1. CASE req[r].policy.kind = "recurring" /\ n = Own(r, sessions[req[r].session].user)
    BY <1>1, <1>2, <1>5, <2>1 DEF ClaimInv, SameCall
  <2>2. CASE req[r].policy.kind = "one_shot" /\ n.consumed
    BY <1>1, <1>2, <1>3, <2>2 DEF ClaimInv, SameCall
  <2>3. QED  BY <2>1, <2>2
<1>8. QED  BY <1>1, <1>2, <1>3, <1>6, <1>7, Inserts DEF Writing, Holding

LEMMA BindKeeps ==
  ASSUME MembershipInv, NEW r \in Requests, BindRecurring(r)
  PROVE  MembershipInv'
<1> DEFINE u == sessions[req[r].session].user
<1>1. /\ req[r].pc = "bind" /\ req[r].policy.kind = "recurring" /\ KeyFree(r)
      /\ ReqInv(r) /\ ReqTypes /\ r \notin granted /\ req[r].row = None
      /\ req[r].op = "claim" /\ req[r].policy \in Policies /\ req[r].began <= now
      /\ req[r].session \in DOMAIN sessions
  BY DEF BindRecurring, MembershipInv, ReqInv, ClaimInv, Place, Asked
<1>2. u \in Persons \cup Requests
  BY <1>1 DEF MembershipInv, AccountsInv, SessionRow
<1>3. PICK n \in Rows : n = Own(r, u)
  BY <1>1, <1>2, OwnIsRow
<1>4. CASE Key(r) \notin DOMAIN nullifiers
  <2>1. /\ req' = [req EXCEPT ![r] = [@ EXCEPT !.pc = "sink", !.row = n]]
        /\ UNCHANGED <<now, tables, goneAt, granted>>
    BY <1>3, <1>4 DEF BindRecurring, Own
  <2>2. QED  BY <1>1, <1>3, <1>4, <2>1, BoundKeeps
<1>5. ASSUME Key(r) \in DOMAIN nullifiers, nullifiers[Key(r)] = n, Only(r, "sink")
      PROVE  MembershipInv'
  <2>1. GoTo(r, "sink") /\ UNCHANGED <<now, tables, goneAt, granted>> /\ "sink" \in Pcs
    BY <1>5 DEF Only, Pcs, Writing
  <2>2. /\ ReqTypes' /\ Others(r) /\ SameCall(r) /\ req'[r].pc = "sink"
        /\ req'[r].began = req[r].began /\ req'[r].user = req[r].user
        /\ req'[r].row = req[r].row
    BY <1>1, <2>1, GoToRow
  <2>3. Key(r)' = Key(r) /\ \A v : Own(r, v)' = Own(r, v)
    BY <1>1, <2>1, <2>2, SameKey
  <2>4. ~n.consumed
    BY <1>3 DEF Own
  <2>5. Place(r)' /\ LoginInv(r)'
    BY <1>1, <2>1, <2>2 DEF Place, LoginInv, SameCall
  <2>6. RowInv(r)'
    BY <1>1, <1>5, <2>1, <2>2, <2>3, <2>4 DEF RowInv, Holding, tables
  <2>7. ClaimInv(r)'
    BY <1>1, <1>3, <1>5, <2>1, <2>2, <2>3 DEF ClaimInv, SameCall, tables
  <2>8. QED  BY <1>1, <2>1, <2>2, <2>5, <2>6, <2>7, Advances DEF Writing, Holding
<1>6. ASSUME Only(r, "refused")  PROVE MembershipInv'
  BY <1>1, <1>6, GivesUp DEF Ended
<1>7. QED  BY <1>3, <1>4, <1>5, <1>6 DEF BindRecurring, Own

LEMMA BurnKeeps ==
  ASSUME MembershipInv, NEW r \in Requests, BurnOneShot(r)
  PROVE  MembershipInv'
<1>1. /\ req[r].pc = "bind" /\ req[r].policy.kind = "one_shot" /\ KeyFree(r)
      /\ ReqInv(r) /\ r \notin granted /\ req[r].policy \in Policies
  BY DEF BurnOneShot, MembershipInv, ReqInv, ClaimInv, Asked
<1>2. PICK n : n = [audience |-> req[r].policy.audience, user |-> None, consumed |-> TRUE]
  OBVIOUS
<1>3. n \in Rows /\ n.consumed
  <2>1. req[r].policy.audience \in Audiences
    BY <1>1 DEF Audiences
  <2>2. QED  BY <1>2, <2>1 DEF Rows
<1>4. CASE Key(r) \notin DOMAIN nullifiers
  <2>1. /\ req' = [req EXCEPT ![r] = [@ EXCEPT !.pc = "sink", !.row = n]]
        /\ UNCHANGED <<now, tables, goneAt, granted>>
    BY <1>2, <1>4 DEF BurnOneShot
  <2>2. QED  BY <1>1, <1>3, <1>4, <2>1, BoundKeeps
<1>5. CASE Key(r) \in DOMAIN nullifiers
  <2>1. Only(r, "refused")
    BY <1>5 DEF BurnOneShot
  <2>2. QED  BY <1>1, <2>1, GivesUp DEF Ended
<1>6. QED  BY <1>4, <1>5

LEMMA SinkKeeps ==
  ASSUME MembershipInv, NEW r \in Requests, ProofSink(r)
  PROVE  MembershipInv'
<1>1. /\ req[r].pc = "sink" /\ ReqInv(r) /\ ReqTypes /\ req[r].op = "claim"
      /\ req[r].began <= now /\ r \notin granted /\ GoTo(r, "commit")
      /\ UNCHANGED <<now, tables, goneAt>> /\ "commit" \in Pcs
      /\ \/ req[r].policy.kind = "one_shot" /\ granted' = granted \cup {r}
         \/ granted' = granted
  BY DEF ProofSink, MembershipInv, ReqInv, ClaimInv, Place, Asked, Pcs, Writing
<1>2. /\ ReqTypes' /\ Others(r) /\ SameCall(r) /\ req'[r].pc = "commit"
      /\ req'[r].began = req[r].began /\ req'[r].user = req[r].user
      /\ req'[r].row = req[r].row
  BY <1>1, GoToRow
<1>3. Key(r)' = Key(r) /\ \A u : Own(r, u)' = Own(r, u)
  BY <1>1, <1>2, SameKey
<1>4. Place(r)' /\ LoginInv(r)'
  BY <1>1, <1>2 DEF Place, LoginInv, SameCall
<1>5. RowInv(r)'
  BY <1>1, <1>2, <1>3 DEF ReqInv, RowInv, Holding, tables
<1>6. ClaimInv(r)'
  BY <1>1, <1>2, <1>3 DEF ReqInv, ClaimInv, SameCall, tables
<1>7. QED  BY <1>1, <1>2, <1>4, <1>5, <1>6, Advances DEF Writing, Holding

-----------------------------------------------------------------------------
(* The surroundings. *)

LEMMA Around ==
  ASSUME MembershipInv, UNCHANGED <<nullifiers, sessions, sessionClaims, req, granted>>,
         TablesInv', AccountsInv', drawn \subseteq drawn', now \in Int, now' \in Int, now <= now',
         DOMAIN users' = DOMAIN users,
         \A u \in DOMAIN users : users'[u].email = users[u].email,
         \A r \in Requests : UsedInv(r)' /\ LastInv(r)'
  PROVE  MembershipInv'
<1>1. \A r \in Requests : Key(r)' = Key(r) /\ Home(r)' = Home(r) /\ \A u : Own(r, u)' = Own(r, u)
  BY DEF Key, Home, Own
<1>2. ASSUME NEW r \in Requests  PROVE ReqInv(r)'
  <2>1. ReqInv(r)
    BY DEF MembershipInv
  <2>2. Asked(r)'
    <3>1. req[r].began \in Int
      BY DEF MembershipInv, ReqTypes, ReqRow
    <3>2. QED  BY <2>1, <3>1 DEF ReqInv, Asked
  <2>3. Place(r)' /\ RowInv(r)' /\ ClaimInv(r)'
    BY <1>1, <2>1 DEF ReqInv, Place, RowInv, ClaimInv
  <2>4. LoginInv(r)'
    BY <1>1, <2>1 DEF ReqInv, LoginInv
  <2>5. QED  BY <2>2, <2>3, <2>4 DEF ReqInv
<1>3. \A r, q \in Requests : r # q => Apart(r, q)'
  BY DEF MembershipInv, Apart, Key
<1>4. LoginStaysOnPseudonym'
  BY DEF MembershipInv, LoginStaysOnPseudonym, AccountsInv
<1>5. StandingClaimsAreProved'
  BY <1>1 DEF MembershipInv, StandingClaimsAreProved
<1>6. QED
  BY <1>2, <1>3, <1>4, <1>5 DEF MembershipInv, ReqTypes

LEMMA TickKeeps == ASSUME MembershipInv, Tick PROVE MembershipInv'
<1>1. /\ now' = now + 1 /\ now \in Int /\ now' \in 0..MaxTime
      /\ UNCHANGED <<claims, challenges, drawn, users, nullifiers, sessions, sessionClaims,
                     goneAt, req, granted>>
  BY TimesAreNatural DEF Tick, tables, MembershipInv, TablesInv
<1>2. TablesInv'
  <2>1. \A t \in DOMAIN challenges : challenges[t].expires <= now' + ChallengeTTL
    BY <1>1, TimesAreNatural DEF MembershipInv, TablesInv, ChallengeRow
  <2>2. QED  BY <1>1, <2>1 DEF MembershipInv, TablesInv
<1>3. AccountsInv'
  BY <1>1 DEF MembershipInv, AccountsInv
<1>4. \A r \in Requests : UsedInv(r)' /\ LastInv(r)'
  BY <1>1 DEF MembershipInv, ReqInv, UsedInv, LastInv
<1>5. QED  BY <1>1, <1>2, <1>3, <1>4, Around

LEMMA EnsureClaimKeeps ==
  ASSUME MembershipInv, NEW c \in ClaimNames, NEW policy \in Policies, EnsureClaim(c, policy)
  PROVE  MembershipInv'
<1>1. /\ claims' = [claims EXCEPT ![c] = policy] /\ now \in Int
      /\ UNCHANGED <<now, challenges, drawn, users, nullifiers, sessions, sessionClaims,
                     goneAt, req, granted>>
  BY DEF EnsureClaim, MembershipInv, TablesInv
<1>2. TablesInv' /\ AccountsInv'
  BY <1>1 DEF MembershipInv, TablesInv, AccountsInv
<1>3. \A r \in Requests : UsedInv(r)' /\ LastInv(r)'
  BY <1>1 DEF MembershipInv, ReqInv, UsedInv, LastInv
<1>4. QED  BY <1>1, <1>2, <1>3, Around

LEMMA DeleteKeeps ==
  ASSUME MembershipInv, NEW d \in DOMAIN users, DeleteUser(d)
  PROVE  MembershipInv'
<1>1. /\ users' = [users EXCEPT ![d] = [@ EXCEPT !.deleted = TRUE]] /\ now \in Int
      /\ UNCHANGED <<now, claims, challenges, drawn, nullifiers, sessions, sessionClaims,
                     goneAt, req, granted>>
      /\ \A u \in DOMAIN users : users[u] \in UserRow
  BY DEF DeleteUser, MembershipInv, TablesInv, AccountsInv
<1>2. /\ DOMAIN users' = DOMAIN users
      /\ \A u \in DOMAIN users : users'[u] \in UserRow /\ users'[u].email = users[u].email
  BY <1>1 DEF UserRow
<1>3. TablesInv' /\ AccountsInv'
  BY <1>1, <1>2 DEF MembershipInv, TablesInv, AccountsInv
<1>4. \A r \in Requests : UsedInv(r)' /\ LastInv(r)'
  BY <1>1, <1>2 DEF MembershipInv, ReqInv, UsedInv, LastInv
<1>5. QED  BY <1>1, <1>2, <1>3, <1>4, Around

LEMMA RevokeKeeps ==
  ASSUME MembershipInv, NEW m \in Members, RevokeMember(m)
  PROVE  MembershipInv'
<1>1. /\ goneAt' = [goneAt EXCEPT ![m] = now] /\ goneAt[m] = NotGone /\ now \in 0..MaxTime
      /\ goneAt \in [Members -> {NotGone} \cup 0..MaxTime]
      /\ UNCHANGED <<now, claims, challenges, drawn, users, nullifiers, sessions, sessionClaims,
                     req, granted>>
  BY DEF RevokeMember, tables, MembershipInv, TablesInv
<1>2. TablesInv' /\ AccountsInv'
  BY <1>1 DEF MembershipInv, TablesInv, AccountsInv
<1>3. ASSUME NEW r \in Requests  PROVE UsedInv(r)' /\ LastInv(r)'
  <2>1. ReqInv(r)
    BY DEF MembershipInv
  <2>2. UsedInv(r)'
    BY <1>1, <2>1 DEF ReqInv, UsedInv
  <2>3. CASE req[r].member # m
    <3>1. goneAt'[req[r].member] = goneAt[req[r].member] \/ req[r].pc = "idle"
      BY <1>1, <2>1, <2>3 DEF ReqInv, Asked
    <3>2. QED  BY <1>1, <2>1, <2>2, <3>1 DEF ReqInv, LastInv
  <2>4. CASE req[r].member = m
    <3>1. goneAt'[m] = now
      BY <1>1
    <3>2. req[r].pc # "idle" => req[r].began <= now
      BY <2>1 DEF ReqInv, Asked
    <3>3. \A t \in DOMAIN challenges : challenges[t].expires <= now + RootGrace + ChallengeTTL
      BY <1>1, TimesAreNatural DEF MembershipInv, TablesInv, ChallengeRow
    <3>4. QED  BY <1>1, <2>2, <2>4, <3>1, <3>2, <3>3 DEF LastInv
  <2>5. QED  BY <2>3, <2>4
<1>4. QED  BY <1>1, <1>2, <1>3, Around

LEMMA DrawKeeps ==
  ASSUME MembershipInv, NEW t \in Tokens, NEW purpose \in {"login", "claim"},
         NEW s \in SessionIds \cup {None}, DrawChallenge(t, purpose, s)
  PROVE  MembershipInv'
<1>1. /\ t \notin drawn /\ drawn' = drawn \cup {t} /\ now \in 0..MaxTime
      /\ challenges' = IssueChallenge(challenges, t, purpose, s, now)
      /\ UNCHANGED <<now, claims, users, nullifiers, sessions, sessionClaims,
                     goneAt, req, granted>>
  BY DEF DrawChallenge, MembershipInv, TablesInv
<1>2. PICK row : row = [purpose |-> purpose, session |-> s,
                        expires |-> now + ChallengeTTL, consumed |-> FALSE]
  OBVIOUS
<1>3. row \in ChallengeRow /\ row.expires <= now + ChallengeTTL
  BY <1>1, <1>2, TimesAreNatural DEF ChallengeRow
<1>4. /\ DOMAIN challenges' \subseteq DOMAIN challenges \cup {t} /\ challenges'[t] = row
      /\ \A k \in DOMAIN challenges' : k # t => challenges'[k] = challenges[k]
  BY <1>1, <1>2 DEF IssueChallenge
<1>5. TablesInv' /\ AccountsInv'
  BY <1>1, <1>3, <1>4 DEF MembershipInv, TablesInv, AccountsInv
<1>6. ASSUME NEW r \in Requests  PROVE UsedInv(r)' /\ LastInv(r)'
  <2>1. ReqInv(r) /\ (req[r].pc # "idle" => req[r].token # t)
    BY <1>1 DEF MembershipInv, ReqInv, Asked
  <2>2. req[r].pc # "idle" /\ req[r].token \in DOMAIN challenges' =>
          /\ req[r].token \in DOMAIN challenges
          /\ challenges'[req[r].token] = challenges[req[r].token]
    BY <1>4, <2>1
  <2>3. QED  BY <1>1, <2>1, <2>2 DEF ReqInv, UsedInv, LastInv
<1>7. QED  BY <1>1, <1>5, <1>6, Around

-----------------------------------------------------------------------------
(* Commit. *)

LEMMA ConsumeRows ==
  ASSUME TablesInv, NEW t \in DOMAIN challenges,
         NEW table, table = Consume(challenges, t)
  PROVE  /\ DOMAIN table = DOMAIN challenges /\ table[t].consumed
         /\ \A k \in DOMAIN challenges :
              /\ table[k] \in ChallengeRow /\ table[k].expires = challenges[k].expires
              /\ k # t => table[k] = challenges[k]
<1>1. challenges[t] \in ChallengeRow
  BY DEF TablesInv
<1>2. PICK row : row = [challenges[t] EXCEPT !.consumed = TRUE]
  OBVIOUS
<1>3. row \in ChallengeRow /\ row.consumed /\ row.expires = challenges[t].expires
  BY <1>1, <1>2 DEF ChallengeRow
<1>4. table = [challenges EXCEPT ![t] = row]
  BY <1>2 DEF Consume
<1>5. QED  BY <1>1, <1>3, <1>4 DEF TablesInv

LEMMA KeyIsKey == ASSUME NEW r \in Requests, Asked(r), req[r].pc # "idle" PROVE Key(r) \in Keys
<1>1. req[r].policy.audience \in Audiences /\ req[r].member \in Members
  BY DEF Asked, Audiences
<1>2. QED  BY <1>1 DEF Key, Keys, Nullifier

(* What a commit does to each table.                                        *)
LEMMA CommitChallenges ==
  ASSUME MembershipInv, NEW r \in Requests, Commit(r)
  PROVE  /\ DOMAIN challenges' = DOMAIN challenges
         /\ req[r].token \in DOMAIN challenges => challenges'[req[r].token].consumed
         /\ \A k \in DOMAIN challenges :
              /\ challenges'[k] \in ChallengeRow
              /\ challenges'[k].expires = challenges[k].expires
              /\ k # req[r].token => challenges'[k] = challenges[k]
<1>1. TablesInv
  BY DEF MembershipInv
<1>2. CASE req[r].token \in DOMAIN challenges
  <2>1. challenges' = Consume(challenges, req[r].token)
    BY <1>2 DEF Commit
  <2>2. PICK t \in DOMAIN challenges : t = req[r].token
    BY <1>2
  <2>3. PICK table : table = Consume(challenges, t)
    OBVIOUS
  <2>4. challenges' = table
    BY <2>1, <2>2, <2>3
  <2>5. QED  BY <1>1, <2>2, <2>3, <2>4, ConsumeRows
<1>3. CASE req[r].token \notin DOMAIN challenges
  BY <1>1, <1>3 DEF Commit, TablesInv
<1>4. QED  BY <1>2, <1>3

LEMMA CommitNullifiers ==
  ASSUME MembershipInv, NEW r \in Requests, Commit(r)
  PROVE  /\ \A n \in DOMAIN nullifiers :
              n \in DOMAIN nullifiers' /\ nullifiers'[n] = nullifiers[n]
         /\ req[r].row = None => nullifiers' = nullifiers
         /\ req[r].row # None =>
              /\ DOMAIN nullifiers' = DOMAIN nullifiers \cup {Key(r)}
              /\ nullifiers'[Key(r)] = req[r].row
<1>1. req[r].row # None => Key(r) \notin DOMAIN nullifiers
  BY DEF Commit, MembershipInv, ReqInv, RowInv, Holding
<1>2. CASE req[r].row = None
  BY <1>2 DEF Commit
<1>3. CASE req[r].row # None
  <2>1. nullifiers' = [x \in DOMAIN nullifiers \cup {Key(r)} |->
                         IF x = Key(r) THEN req[r].row ELSE nullifiers[x]]
    BY <1>3 DEF Commit, Put
  <2>2. QED  BY <1>1, <1>3, <2>1
<1>4. QED  BY <1>2, <1>3

LEMMA CommitUsers ==
  ASSUME MembershipInv, NEW r \in Requests, Commit(r)
  PROVE  /\ r \notin DOMAIN users /\ r \notin DOMAIN sessions
         /\ \A u \in DOMAIN users : u \in DOMAIN users' /\ users'[u] = users[u]
         /\ req[r].user # r => users' = users
         /\ req[r].user = r =>
              /\ DOMAIN users' = DOMAIN users \cup {r}
              /\ users'[r] = [email |-> Key(r), deleted |-> FALSE]
<1>1. r \notin DOMAIN users /\ r \notin DOMAIN sessions
  BY DEF Commit, MembershipInv, ReqInv, UsedInv
<1>2. CASE req[r].user = r
  <2>1. users' = [x \in DOMAIN users \cup {r} |->
                    IF x = r THEN [email |-> Key(r), deleted |-> FALSE] ELSE users[x]]
    BY <1>2 DEF Commit, Put
  <2>2. QED  BY <1>1, <1>2, <2>1
<1>3. CASE req[r].user # r
  BY <1>1, <1>3 DEF Commit
<1>4. QED  BY <1>2, <1>3

LEMMA CommitSessions ==
  ASSUME MembershipInv, NEW r \in Requests, Commit(r)
  PROVE  /\ \A s \in DOMAIN sessions :
              /\ s \in DOMAIN sessions' /\ sessions'[s] \in SessionRow
              /\ sessions'[s].user = sessions[s].user /\ sessions'[s].via = sessions[s].via
         /\ req[r].op # "login" => sessions' = sessions
         /\ req[r].op = "login" =>
              /\ DOMAIN sessions' = DOMAIN sessions \cup {r}
              /\ sessions'[r] = [user |-> req[r].user, live |-> TRUE, via |-> Key(r)]
<1>1. r \notin DOMAIN sessions /\ \A s \in DOMAIN sessions : sessions[s] \in SessionRow
  BY CommitUsers DEF MembershipInv, AccountsInv
<1>2. CASE req[r].op # "login"
  BY <1>1, <1>2 DEF Commit
<1>3. CASE req[r].op = "login"
  <2>1. sessions' = [s \in DOMAIN sessions \cup {r} |->
                   IF s = r THEN [user |-> req[r].user, live |-> TRUE, via |-> Key(r)]
                   ELSE IF s = req[r].session THEN [sessions[s] EXCEPT !.live = FALSE]
                   ELSE sessions[s]]
    BY <1>3 DEF Commit
  <2>2. ASSUME NEW s \in DOMAIN sessions
        PROVE  /\ sessions'[s] \in SessionRow /\ sessions'[s].user = sessions[s].user
               /\ sessions'[s].via = sessions[s].via
    <3>1. \/ sessions'[s] = sessions[s]
          \/ sessions'[s] = [sessions[s] EXCEPT !.live = FALSE]
      BY <1>1, <2>1
    <3>2. sessions[s] \in SessionRow
      BY <1>1
    <3>3. CASE sessions'[s] = sessions[s]
      BY <3>2, <3>3
    <3>4. CASE sessions'[s] = [sessions[s] EXCEPT !.live = FALSE]
      BY <3>2, <3>4 DEF SessionRow
    <3>5. QED  BY <3>1, <3>3, <3>4
  <2>3. DOMAIN sessions' = DOMAIN sessions \cup {r}
    BY <2>1
  <2>4. sessions'[r] = [user |-> req[r].user, live |-> TRUE, via |-> Key(r)]
    BY <2>1
  <2>5. QED  BY <1>3, <2>2, <2>3, <2>4
<1>4. QED  BY <1>2, <1>3

LEMMA CommitRow ==
  ASSUME MembershipInv, NEW r \in Requests, Commit(r)
  PROVE  /\ ReqTypes' /\ Others(r) /\ SameCall(r) /\ req'[r].pc = "done"
         /\ req'[r].began = req[r].began /\ req'[r].user = req[r].user
         /\ req'[r].row = req[r].row /\ req[r].pc = "commit" /\ ReqInv(r)
         /\ Key(r)' = Key(r) /\ Home(r)' = Home(r) /\ \A u : Own(r, u)' = Own(r, u)
         /\ UNCHANGED <<now, claims, drawn, goneAt, granted>>
<1>1. /\ GoTo(r, "done") /\ "done" \in Pcs /\ ReqTypes /\ req[r].pc = "commit" /\ ReqInv(r)
      /\ UNCHANGED <<now, claims, drawn, goneAt, granted>>
  BY DEF Commit, MembershipInv, Pcs, Ended
<1>2. /\ ReqTypes' /\ Others(r) /\ SameCall(r) /\ req'[r].pc = "done"
      /\ req'[r].began = req[r].began /\ req'[r].user = req[r].user
      /\ req'[r].row = req[r].row
  BY <1>1, GoToRow
<1>3. QED  BY <1>1, <1>2 DEF SameCall, Key, Home, Own

LEMMA CommitOwnRequest ==
  ASSUME MembershipInv, NEW r \in Requests, Commit(r)
  PROVE  ReqInv(r)'
<1>1. /\ ReqInv(r) /\ SameCall(r) /\ req[r].pc = "commit" /\ req'[r].pc = "done"
      /\ req'[r].began = req[r].began /\ req'[r].user = req[r].user
      /\ req'[r].row = req[r].row /\ Key(r)' = Key(r)
      /\ UNCHANGED <<now, drawn, goneAt, granted>>
  BY CommitRow
<1>2. \A s \in DOMAIN sessions : s \in DOMAIN sessions'
  BY CommitSessions
<1>3. Asked(r)'
  BY <1>1, <1>2 DEF ReqInv, Asked, SameCall
<1>4. Place(r)'
  BY <1>1 DEF ReqInv, Place, SameCall
<1>5. LoginInv(r)'
  BY <1>1 DEF LoginInv
<1>6. RowInv(r)'
  <2>1. RowInv(r)
    BY <1>1 DEF ReqInv
  <2>2. /\ req[r].row = None => nullifiers' = nullifiers
        /\ req[r].row # None =>
             Key(r) \in DOMAIN nullifiers' /\ nullifiers'[Key(r)] = req[r].row
    BY CommitNullifiers
  <2>3. CASE req[r].row = None
    BY <1>1, <2>1, <2>2, <2>3 DEF RowInv, Holding
  <2>4. CASE req[r].row # None
    BY <1>1, <2>2, <2>4 DEF RowInv, Holding
  <2>5. QED  BY <2>3, <2>4
<1>7. ClaimInv(r)'
  BY <1>1 DEF ReqInv, ClaimInv, SameCall
<1>8. UsedInv(r)'
  <2>1. /\ DOMAIN challenges' = DOMAIN challenges
        /\ req[r].token \in DOMAIN challenges => challenges'[req[r].token].consumed
    BY CommitChallenges
  <2>2. QED  BY <1>1, <2>1 DEF UsedInv, SameCall
<1>9. LastInv(r)'
  BY <1>1 DEF ReqInv, LastInv, SameCall
<1>10. QED  BY <1>3, <1>4, <1>5, <1>6, <1>7, <1>8, <1>9 DEF ReqInv

LEMMA CommitOtherRequest ==
  ASSUME MembershipInv, NEW r \in Requests, Commit(r), NEW q \in Requests, q # r
  PROVE  ReqInv(q)'
<1>1. /\ req'[q] = req[q] /\ req[r].pc = "commit"
      /\ UNCHANGED <<now, drawn, goneAt, granted>>
  BY CommitRow DEF Others
<1>2. ReqInv(q) /\ Apart(r, q)
  BY DEF MembershipInv
<1>3. Key(q)' = Key(q) /\ \A u : Own(q, u)' = Own(q, u)
  BY <1>1 DEF Key, Own
<1>4. \A n \in DOMAIN nullifiers :
        n \in DOMAIN nullifiers' /\ nullifiers'[n] = nullifiers[n]
  BY CommitNullifiers
<1>5. \A s \in DOMAIN sessions :
        s \in DOMAIN sessions' /\ sessions'[s].user = sessions[s].user
  BY CommitSessions
<1>6. \A u \in DOMAIN users : u \in DOMAIN users' /\ users'[u] = users[u]
  BY CommitUsers
<1>7. Asked(q)'
  BY <1>1, <1>2, <1>5 DEF ReqInv, Asked
<1>8. Place(q)'
  BY <1>1, <1>2 DEF ReqInv, Place
<1>9. RowInv(q)'
  <2>1. RowInv(q)
    BY <1>2 DEF ReqInv
  <2>2. req[q].row # None /\ req[q].pc \in Holding /\ req[r].row # None => Key(q) # Key(r)
    BY <1>1, <1>2 DEF Apart, Holding
  <2>3. DOMAIN nullifiers' \subseteq DOMAIN nullifiers
          \/ (req[r].row # None /\ DOMAIN nullifiers' = DOMAIN nullifiers \cup {Key(r)})
    BY CommitNullifiers
  <2>4. req[q].row # None /\ req[q].pc \in Holding => Key(q) \notin DOMAIN nullifiers'
    BY <2>1, <2>2, <2>3 DEF RowInv
  <2>5. QED  BY <1>1, <1>3, <1>4, <2>1, <2>4 DEF RowInv
<1>10. LoginInv(q)'
  <2>1. LoginInv(q) /\ RowInv(q)
    BY <1>2 DEF ReqInv
  <2>2. QED  BY <1>1, <1>3, <1>4, <1>6, <2>1 DEF LoginInv, RowInv, Holding
<1>11. ClaimInv(q)'
  <2>1. ClaimInv(q)
    BY <1>2 DEF ReqInv
  <2>2. /\ req[q].pc \in Holding /\ req[q].row = None => Key(q) \in DOMAIN nullifiers
        /\ req[q].pc # "idle" /\ req[q].op = "claim" => req[q].session \in DOMAIN sessions
    BY <1>2 DEF ReqInv, RowInv, Asked
  <2>3. QED  BY <1>1, <1>3, <1>4, <1>5, <2>1, <2>2 DEF ClaimInv, Holding
<1>12. UsedInv(q)'
  <2>1. q \in DOMAIN users' \cup DOMAIN sessions' => q \in DOMAIN users \cup DOMAIN sessions
    <3>1. /\ req[r].user # r => users' = users
          /\ req[r].user = r => DOMAIN users' = DOMAIN users \cup {r}
      BY CommitUsers
    <3>2. /\ req[r].op # "login" => sessions' = sessions
          /\ req[r].op = "login" => DOMAIN sessions' = DOMAIN sessions \cup {r}
      BY CommitSessions
    <3>3. QED  BY <3>1, <3>2
  <2>2. UsedInv(q)
    BY <1>2 DEF ReqInv
  <2>3. /\ DOMAIN challenges' = DOMAIN challenges
        /\ req[r].token \in DOMAIN challenges => challenges'[req[r].token].consumed
        /\ \A k \in DOMAIN challenges : k # req[r].token => challenges'[k] = challenges[k]
    BY CommitChallenges
  <2>4. QED  BY <1>1, <2>1, <2>2, <2>3 DEF UsedInv
<1>13. LastInv(q)'
  <2>1. /\ DOMAIN challenges' = DOMAIN challenges
        /\ \A k \in DOMAIN challenges : challenges'[k].expires = challenges[k].expires
    BY CommitChallenges
  <2>2. QED  BY <1>1, <1>2, <2>1 DEF ReqInv, LastInv
<1>14. QED  BY <1>7, <1>8, <1>9, <1>10, <1>11, <1>12, <1>13 DEF ReqInv

LEMMA CommitTables ==
  ASSUME MembershipInv, NEW r \in Requests, Commit(r)
  PROVE  TablesInv' /\ AccountsInv'
<1>1. /\ ReqInv(r) /\ Asked(r) /\ req[r].pc = "commit" /\ req[r].row \in Rows \cup {None}
      /\ req[r].user \in Persons \cup Requests \cup {None}
  BY CommitRow DEF ReqInv, MembershipInv, ReqTypes, ReqRow
<1>2. \A n \in DOMAIN nullifiers' : nullifiers'[n] \in Rows
  <2>1. /\ req[r].row = None => nullifiers' = nullifiers
        /\ req[r].row # None => DOMAIN nullifiers' = DOMAIN nullifiers \cup {Key(r)}
                               /\ nullifiers'[Key(r)] = req[r].row
        /\ \A n \in DOMAIN nullifiers : nullifiers'[n] = nullifiers[n]
    BY CommitNullifiers
  <2>2. \A n \in DOMAIN nullifiers : nullifiers[n] \in Rows
    BY DEF MembershipInv, TablesInv
  <2>3. CASE req[r].row = None
    BY <2>1, <2>2, <2>3
  <2>4. CASE req[r].row # None
    <3>1. req[r].row \in Rows
      BY <1>1, <2>4
    <3>2. QED  BY <2>1, <2>2, <2>4, <3>1
  <2>5. QED  BY <2>3, <2>4
<1>3. TablesInv'
  BY <1>2, CommitRow, CommitChallenges DEF MembershipInv, TablesInv
<1>4. Key(r) \in Keys /\ Key(r) # None /\ r \notin Persons /\ r \in SessionIds /\ None # r
  BY <1>1, KeyIsKey, NoneIsNoRow, IdsDiffer DEF SessionIds
<1>5. ASSUME NEW u \in DOMAIN users'
      PROVE  /\ u \in Persons \cup Requests /\ users'[u] \in UserRow
             /\ users'[u].email = None <=> u \in Persons
  <2>1. CASE u \in DOMAIN users
    <3>1. users'[u] = users[u]
      BY <2>1, CommitUsers
    <3>2. /\ u \in Persons \cup Requests /\ users[u] \in UserRow
          /\ users[u].email = None <=> u \in Persons
      BY <2>1 DEF MembershipInv, AccountsInv
    <3>3. QED  BY <3>1, <3>2
  <2>2. CASE u \notin DOMAIN users
    <3>1. /\ req[r].user # r => users' = users
          /\ req[r].user = r =>
               /\ DOMAIN users' = DOMAIN users \cup {r}
               /\ users'[r] = [email |-> Key(r), deleted |-> FALSE]
      BY CommitUsers
    <3>2. u = r /\ users'[u] = [email |-> Key(r), deleted |-> FALSE]
      BY <2>2, <3>1
    <3>3. PICK key \in Keys : key = Key(r) /\ key # None
      BY <1>4
    <3>4. users'[u] = [email |-> key, deleted |-> FALSE]
      BY <3>2, <3>3
    <3>5. users'[u] \in UserRow /\ users'[u].email = key
      BY <3>4 DEF UserRow
    <3>6. QED  BY <1>4, <3>2, <3>3, <3>5
  <2>3. QED  BY <2>1, <2>2
<1>6. ASSUME NEW s \in DOMAIN sessions'
      PROVE  /\ s \in SessionIds /\ sessions'[s] \in SessionRow
             /\ sessions'[s].user \in DOMAIN users'
  <2>1. CASE s \in DOMAIN sessions
    <3>1. s \in SessionIds /\ sessions[s].user \in DOMAIN users
      BY <2>1 DEF MembershipInv, AccountsInv
    <3>2. sessions'[s] \in SessionRow /\ sessions'[s].user = sessions[s].user
      BY <2>1, CommitSessions
    <3>3. \A u \in DOMAIN users : u \in DOMAIN users'
      BY CommitUsers
    <3>4. QED  BY <3>1, <3>2, <3>3
  <2>2. CASE s \notin DOMAIN sessions
    <3>1. /\ req[r].op = "login" /\ s = r
          /\ sessions'[r] = [user |-> req[r].user, live |-> TRUE, via |-> Key(r)]
      BY <2>2, CommitSessions
    <3>2. req[r].user = r \/ req[r].user \in DOMAIN users
      BY <1>1, <3>1 DEF ReqInv, LoginInv
    <3>3. req[r].user \in DOMAIN users' /\ req[r].user \in Persons \cup Requests
      <4>1. /\ \A u \in DOMAIN users : u \in DOMAIN users'
            /\ req[r].user = r => r \in DOMAIN users'
        BY CommitUsers
      <4>2. DOMAIN users \subseteq Persons \cup Requests
        BY DEF MembershipInv, AccountsInv
      <4>3. QED  BY <3>2, <4>1, <4>2
    <3>4. QED  BY <1>4, <3>1, <3>3 DEF SessionRow
  <2>3. QED  BY <2>1, <2>2
<1>7. sessionClaims' \subseteq (DOMAIN sessions') \X ClaimNames
  <2>1. /\ \A s \in DOMAIN sessions : s \in DOMAIN sessions'
        /\ req[r].op = "login" => r \in DOMAIN sessions'
    BY CommitSessions
  <2>2. Home(r) \in DOMAIN sessions' /\ req[r].claim \in ClaimNames
    BY <1>1, <2>1 DEF Home, Asked
  <2>3. sessionClaims' \subseteq sessionClaims \cup {<<Home(r), req[r].claim>>}
    BY DEF Commit
  <2>4. sessionClaims \subseteq (DOMAIN sessions) \X ClaimNames
    BY DEF MembershipInv, AccountsInv
  <2>5. QED  BY <2>1, <2>2, <2>3, <2>4
<1>8. QED  BY <1>3, <1>5, <1>6, <1>7 DEF AccountsInv

(* A login that commits with an account of its own has written its row.     *)
LEMMA CommitPseudonym ==
  ASSUME MembershipInv, NEW r \in Requests, Commit(r)
  PROVE  LoginStaysOnPseudonym'
<1>1. ReqInv(r) /\ req[r].pc = "commit" /\ r \notin DOMAIN users
  BY CommitRow, CommitUsers
<1>2. ASSUME NEW s \in DOMAIN sessions', sessions'[s].via # None
      PROVE  users'[sessions'[s].user].email = sessions'[s].via
  <2>1. CASE s \in DOMAIN sessions
    <3>1. /\ sessions'[s].user = sessions[s].user /\ sessions'[s].via = sessions[s].via
          /\ sessions[s].user \in DOMAIN users
      BY <2>1, CommitSessions DEF MembershipInv, AccountsInv
    <3>2. users[sessions[s].user].email = sessions[s].via
      BY <1>2, <2>1, <3>1 DEF MembershipInv, LoginStaysOnPseudonym
    <3>3. users'[sessions[s].user] = users[sessions[s].user]
      BY <3>1, CommitUsers
    <3>4. QED  BY <3>1, <3>2, <3>3
  <2>2. CASE s \notin DOMAIN sessions
    <3>1. /\ req[r].op = "login"
          /\ sessions'[s] = [user |-> req[r].user, live |-> TRUE, via |-> Key(r)]
      <4>1. /\ req[r].op # "login" => sessions' = sessions
            /\ req[r].op = "login" =>
                 /\ DOMAIN sessions' = DOMAIN sessions \cup {r}
                 /\ sessions'[r] = [user |-> req[r].user, live |-> TRUE, via |-> Key(r)]
        BY CommitSessions
      <4>2. req[r].op = "login" /\ s = r
        BY <2>2, <4>1
      <4>3. QED  BY <4>1, <4>2
    <3>2. \/ req[r].user = r
          \/ req[r].user \in DOMAIN users /\ users[req[r].user].email = Key(r)
      BY <1>1, <3>1 DEF ReqInv, LoginInv
    <3>3. users'[req[r].user].email = Key(r)
      <4>1. /\ \A u \in DOMAIN users : users'[u] = users[u]
            /\ req[r].user = r => users'[r] = [email |-> Key(r), deleted |-> FALSE]
        BY CommitUsers
      <4>2. QED  BY <3>2, <4>1
    <3>4. QED  BY <3>1, <3>3
  <2>3. QED  BY <2>1, <2>2
<1>3. ASSUME NEW u \in DOMAIN users' \ Persons
      PROVE  /\ users'[u].email \in DOMAIN nullifiers'
             /\ nullifiers'[users'[u].email].user = u
  <2>1. CASE u \in DOMAIN users
    <3>1. /\ users[u].email \in DOMAIN nullifiers
          /\ nullifiers[users[u].email].user = u
      BY <2>1 DEF MembershipInv, LoginStaysOnPseudonym
    <3>2. users'[u] = users[u]
      BY <2>1, CommitUsers
    <3>3. \A n \in DOMAIN nullifiers :
            n \in DOMAIN nullifiers' /\ nullifiers'[n] = nullifiers[n]
      BY CommitNullifiers
    <3>4. QED  BY <3>1, <3>2, <3>3
  <2>2. CASE u \notin DOMAIN users
    <3>1. u = r /\ req[r].user = r /\ users'[r].email = Key(r)
      <4>1. /\ req[r].user # r => users' = users
            /\ req[r].user = r =>
                 /\ DOMAIN users' = DOMAIN users \cup {r}
                 /\ users'[r] = [email |-> Key(r), deleted |-> FALSE]
        BY CommitUsers
      <4>2. QED  BY <2>2, <4>1
    <3>2. req[r].op = "login"
      BY <1>1, <3>1, IdsDiffer DEF ReqInv, Asked
    <3>3. req[r].row = Own(r, r)
      BY <1>1, <3>1, <3>2 DEF ReqInv, LoginInv
    <3>4. Own(r, r) # None /\ Own(r, r).user = r
      BY <1>1, OwnIsRow, NoneIsNoRow DEF ReqInv, Asked, Own
    <3>5. QED  BY <3>1, <3>3, <3>4, CommitNullifiers
  <2>3. QED  BY <2>1, <2>2
<1>4. QED  BY <1>2, <1>3 DEF LoginStaysOnPseudonym

LEMMA CommitStanding ==
  ASSUME MembershipInv, NEW r \in Requests, Commit(r)
  PROVE  StandingClaimsAreProved'
<1>1. ReqInv(r) /\ Asked(r) /\ req[r].pc = "commit" /\ r \notin DOMAIN sessions
  BY CommitRow, CommitUsers DEF ReqInv
<1> SUFFICES ASSUME NEW s \in DOMAIN sessions', NEW c \in ClaimNames, <<s, c>> \in sessionClaims'
             PROVE  \E q \in Requests :
                      /\ req'[q].pc = "done" /\ Home(q)' = s /\ req'[q].claim = c
                      /\ req'[q].policy.kind = "recurring"
                      /\ nullifiers'[Key(q)'] = [audience |-> req'[q].policy.audience,
                                                 user |-> sessions'[s].user, consumed |-> FALSE]
  BY DEF StandingClaimsAreProved
<1>2. CASE <<s, c>> \in sessionClaims
  <2>1. s \in DOMAIN sessions
    BY <1>2 DEF MembershipInv, AccountsInv
  <2>2. PICK q \in Requests :
          /\ req[q].pc = "done" /\ Home(q) = s /\ req[q].claim = c
          /\ req[q].policy.kind = "recurring"
          /\ nullifiers[Key(q)] = [audience |-> req[q].policy.audience,
                                   user |-> sessions[s].user, consumed |-> FALSE]
    BY <1>2, <2>1 DEF MembershipInv, StandingClaimsAreProved
  <2>3. req'[q] = req[q] /\ Key(q) \in DOMAIN nullifiers
    <3>1. RowInv(q)
      BY DEF MembershipInv, ReqInv
    <3>2. QED  BY <1>1, <2>2, <3>1, CommitRow DEF Others, RowInv
  <2>4. Home(q)' = Home(q) /\ Key(q)' = Key(q)
    BY <2>3 DEF Home, Key
  <2>5. sessions'[s].user = sessions[s].user /\ nullifiers'[Key(q)] = nullifiers[Key(q)]
    BY <2>1, <2>3, CommitSessions, CommitNullifiers
  <2>6. QED  BY <2>2, <2>3, <2>4, <2>5
<1>3. CASE <<s, c>> \notin sessionClaims
  <2>1. s = Home(r) /\ c = req[r].claim /\ StoresClaim(r)
    BY <1>3 DEF Commit
  <2>2. req[r].policy.kind = "recurring"
    BY <1>1, <2>1 DEF ReqInv, Place, StoresClaim
  <2>3. nullifiers'[Key(r)] = Own(r, sessions'[s].user)
    <3>1. CASE req[r].op = "login"
      <4>1. sessions'[s].user = req[r].user
        <5>1. sessions'[r] = [user |-> req[r].user, live |-> TRUE, via |-> Key(r)]
          BY <3>1, CommitSessions
        <5>2. QED  BY <2>1, <3>1, <5>1 DEF Home
      <4>2. CASE req[r].user = r /\ req[r].row = Own(r, r)
        <5>1. Own(r, r) # None
          BY <1>1, OwnIsRow, NoneIsNoRow DEF Asked
        <5>2. QED  BY <4>1, <4>2, <5>1, CommitNullifiers
      <4>3. CASE req[r].row = None /\ nullifiers[Key(r)] = Own(r, req[r].user)
        BY <4>1, <4>3, CommitNullifiers
      <4>4. QED  BY <1>1, <3>1, <4>2, <4>3 DEF ReqInv, LoginInv
    <3>2. CASE req[r].op = "claim"
      <4>1. /\ s = req[r].session /\ s \in DOMAIN sessions
            /\ sessions'[s].user = sessions[s].user
        BY <1>1, <2>1, <3>2, CommitSessions DEF Home, Asked
      <4>2. CASE req[r].row = Own(r, sessions[s].user)
        <5>1. sessions[s].user \in Persons \cup Requests
          BY <4>1 DEF MembershipInv, AccountsInv, SessionRow
        <5>2. Own(r, sessions[s].user) # None
          BY <1>1, <5>1, OwnIsRow, NoneIsNoRow DEF Asked
        <5>3. QED  BY <4>1, <4>2, <5>2, CommitNullifiers
      <4>3. CASE req[r].row = None /\ nullifiers[Key(r)] = Own(r, sessions[s].user)
        BY <4>1, <4>3, CommitNullifiers
      <4>4. QED  BY <1>1, <2>2, <3>2, <4>1, <4>2, <4>3 DEF ReqInv, ClaimInv
    <3>3. QED  BY <1>1, <3>1, <3>2 DEF Asked
  <2>4. /\ req'[r].pc = "done" /\ Home(r)' = s /\ req'[r].claim = c
        /\ req'[r].policy = req[r].policy /\ Key(r)' = Key(r)
    BY <2>1, CommitRow DEF SameCall
  <2>5. QED  BY <2>2, <2>3, <2>4 DEF Own
<1>4. QED  BY <1>2, <1>3

LEMMA CommitKeeps ==
  ASSUME MembershipInv, NEW r \in Requests, Commit(r)
  PROVE  MembershipInv'
<1>1. \A q \in Requests : ReqInv(q)'
  BY CommitOwnRequest, CommitOtherRequest
<1>2. ASSUME NEW p \in Requests, NEW q \in Requests, p # q  PROVE Apart(p, q)'
  <2>1. Apart(p, q) /\ req[r].pc = "commit" /\ req'[r].pc = "done"
    BY <1>2, CommitRow DEF MembershipInv
  <2>2. ASSUME NEW x \in Requests
        PROVE  /\ Key(x)' = Key(x) /\ req'[x].token = req[x].token /\ req'[x].row = req[x].row
               /\ x # r => req'[x].pc = req[x].pc
    BY CommitRow DEF Others, SameCall, Key
  <2>3. QED
    BY <2>1, <2>2 DEF Apart, Holding, Writing
<1>3. QED
  BY <1>1, <1>2, CommitRow, CommitTables, CommitPseudonym, CommitStanding DEF MembershipInv

-----------------------------------------------------------------------------
LEMMA StepKeeps ==
  ASSUME MembershipInv, NEW r \in Requests, Step(r) \/ Fail(r)
  PROVE  MembershipInv'
<1>1. ASSUME Fail(r)  PROVE MembershipInv'
  BY <1>1, GivesUp DEF Fail
<1>2. ASSUME Step(r)  PROVE MembershipInv'
  <2>1. ASSUME Verify(r)  PROVE MembershipInv'
    BY <2>1, VerifyKeeps
  <2>2. ASSUME ConsumeChallenge(r)  PROVE MembershipInv'
    BY <2>2, ConsumeKeeps
  <2>3. ASSUME ResolvePseudonym(r) \/ ResolveAgain(r)  PROVE MembershipInv'
    BY <2>3, ResolveKeeps
  <2>4. ASSUME CreatePseudonym(r)  PROVE MembershipInv'
    BY <2>4, CreateKeeps
  <2>5. ASSUME IssueSession(r)  PROVE MembershipInv'
    BY <2>5, IssueKeeps
  <2>6. ASSUME BindRecurring(r)  PROVE MembershipInv'
    BY <2>6, BindKeeps
  <2>7. ASSUME BurnOneShot(r)  PROVE MembershipInv'
    BY <2>7, BurnKeeps
  <2>8. ASSUME ProofSink(r)  PROVE MembershipInv'
    BY <2>8, SinkKeeps
  <2>9. ASSUME Commit(r)  PROVE MembershipInv'
    BY <2>9, CommitKeeps
  <2>10. QED
    BY <1>2, <2>1, <2>2, <2>3, <2>4, <2>5, <2>6, <2>7, <2>8, <2>9 DEF Step
<1>3. QED  BY <1>1, <1>2

LEMMA StutterKeeps == ASSUME MembershipInv, UNCHANGED mvars PROVE MembershipInv'
<1>1. UNCHANGED <<now, claims, challenges, drawn, users, nullifiers, sessions,
                  sessionClaims, goneAt, req, granted>>
  BY DEF mvars, tables
<1>2. \A r \in Requests : Key(r)' = Key(r) /\ Home(r)' = Home(r) /\ \A u : Own(r, u)' = Own(r, u)
  BY <1>1 DEF Key, Home, Own
<1>3. TablesInv' /\ AccountsInv' /\ ReqTypes'
  BY <1>1 DEF MembershipInv, TablesInv, AccountsInv, ReqTypes
<1>4. ASSUME NEW r \in Requests  PROVE ReqInv(r)'
  BY <1>1, OtherRequest DEF tables
<1>5. \A r, q \in Requests : r # q => Apart(r, q)'
  BY <1>1, <1>2 DEF MembershipInv, Apart
<1>6. LoginStaysOnPseudonym' /\ StandingClaimsAreProved'
  BY <1>1 DEF MembershipInv, LoginStaysOnPseudonym, StandingClaimsAreProved, Home, Key
<1>7. QED  BY <1>3, <1>4, <1>5, <1>6 DEF MembershipInv

LEMMA InvKept == MembershipInv /\ [Next]_mvars => MembershipInv'
<1> SUFFICES ASSUME MembershipInv, [Next]_mvars PROVE MembershipInv'
  OBVIOUS
<1>1. ASSUME Tick  PROVE MembershipInv'
  BY <1>1, TickKeeps
<1>2. ASSUME NEW c \in ClaimNames, NEW policy \in Policies, EnsureClaim(c, policy)
      PROVE  MembershipInv'
  BY <1>2, EnsureClaimKeeps
<1>3. ASSUME NEW u \in DOMAIN users, DeleteUser(u)  PROVE MembershipInv'
  BY <1>3, DeleteKeeps
<1>4. ASSUME NEW m \in Members, RevokeMember(m)  PROVE MembershipInv'
  BY <1>4, RevokeKeeps
<1>5. ASSUME NEW t \in Tokens, LoginChallenge(t)  PROVE MembershipInv'
  BY <1>5, DrawKeeps DEF LoginChallenge
<1>6. ASSUME NEW t \in Tokens, NEW s \in DOMAIN sessions, ClaimChallenge(t, s)
      PROVE  MembershipInv'
  <2>1. s \in SessionIds /\ DrawChallenge(t, "claim", s)
    BY <1>6 DEF ClaimChallenge, MembershipInv, AccountsInv
  <2>2. QED  BY <2>1, DrawKeeps
<1>7. ASSUME NEW r \in Requests, NEW op \in {"login", "claim"},
             NEW s \in DOMAIN sessions \cup {None}, NEW c \in ClaimNames, NEW t \in Tokens,
             NEW m \in Members, Submit(r, op, s, c, t, m)
      PROVE  MembershipInv'
  BY <1>7, SubmitKeeps
<1>8. ASSUME NEW r \in Requests, Step(r) \/ Fail(r)  PROVE MembershipInv'
  BY <1>8, StepKeeps
<1>9. ASSUME UNCHANGED mvars  PROVE MembershipInv'
  BY <1>9, StutterKeeps
<1>10. QED
  BY <1>1, <1>2, <1>3, <1>4, <1>5, <1>6, <1>7, <1>8, <1>9 DEF Next

(* The inductive invariant holds in every state.                            *)
LEMMA MembershipIsInv == Spec => []MembershipInv
BY InitInv, InvKept, PTL DEF Spec

-----------------------------------------------------------------------------
(* Every table row, account, session, claim and request of Login and        *)
(* ProveClaim is of its kind, a session always names an account there is.   *)
THEOREM MembershipTypes == Spec => []TypeOK
<1>1. ASSUME MembershipInv  PROVE TypeOK
  <2>1. TablesInv /\ AccountsInv /\ ReqTypes
    BY <1>1 DEF MembershipInv
  <2>2. ASSUME NEW r \in Requests
        PROVE  /\ req[r].pc \in {"idle", "submitted", "consume"} \cup Writing \cup Ended
               /\ req[r].row = None \/ req[r].row \in Rows
    BY <2>1 DEF ReqTypes, ReqRow, Pcs
  <2>3. QED  BY <2>1, <2>2 DEF TypeOK, TablesInv, AccountsInv
<1>2. QED  BY <1>1, MembershipIsInv, PTL

(* createNullifier, bindRecurringNullifier and oneShotNullifier never       *)
(* rewrite what a nullifier names, and nothing drops it.                    *)
THEOREM NullifiersAreSettledOnce == Spec => NullifierIsForGood
<1> DEFINE Kept == \A n \in DOMAIN nullifiers :
                     n \in DOMAIN nullifiers' /\ nullifiers'[n] = nullifiers[n]
<1>1. ASSUME MembershipInv, Next  PROVE nullifiers' = nullifiers \/ Kept
  <2>1. ASSUME NEW r \in Requests, Commit(r)  PROVE Kept
    BY <1>1, <2>1, CommitNullifiers
  <2>2. ASSUME NEW r \in Requests, Step(r)  PROVE nullifiers' = nullifiers \/ Kept
    <3>1. CASE Commit(r)
      BY <2>1, <3>1
    <3>2. CASE Verify(r) \/ ConsumeChallenge(r) \/ IssueSession(r) \/ ProofSink(r)
      BY <3>2 DEF Verify, ConsumeChallenge, IssueSession, ProofSink, Only, tables
    <3>3. CASE ResolvePseudonym(r) \/ ResolveAgain(r)
      BY <3>3 DEF ResolvePseudonym, ResolveAgain, Resolved, Only, tables
    <3>4. CASE CreatePseudonym(r) \/ BindRecurring(r) \/ BurnOneShot(r)
      BY <3>4 DEF CreatePseudonym, BindRecurring, BurnOneShot, Only, tables
    <3>5. QED  BY <2>2, <3>1, <3>2, <3>3, <3>4 DEF Step
  <2>3. ASSUME Tick  PROVE nullifiers' = nullifiers
    BY <2>3 DEF Tick, tables
  <2>4. ASSUME NEW c, NEW policy, EnsureClaim(c, policy)  PROVE nullifiers' = nullifiers
    BY <2>4 DEF EnsureClaim
  <2>5. ASSUME NEW u, DeleteUser(u)  PROVE nullifiers' = nullifiers
    BY <2>5 DEF DeleteUser
  <2>6. ASSUME NEW m, RevokeMember(m)  PROVE nullifiers' = nullifiers
    BY <2>6 DEF RevokeMember, tables
  <2>7. ASSUME NEW t, NEW s, LoginChallenge(t) \/ ClaimChallenge(t, s)
        PROVE  nullifiers' = nullifiers
    BY <2>7 DEF LoginChallenge, ClaimChallenge, DrawChallenge
  <2>8. ASSUME NEW r, NEW op, NEW s, NEW c, NEW t, NEW m, Submit(r, op, s, c, t, m)
        PROVE  nullifiers' = nullifiers
    BY <2>8 DEF Submit, tables
  <2>9. ASSUME NEW r, Fail(r)  PROVE nullifiers' = nullifiers
    BY <2>9 DEF Fail, Only, tables
  <2> HIDE DEF Kept
  <2>10. QED
    BY <1>1, <2>2, <2>3, <2>4, <2>5, <2>6, <2>7, <2>8, <2>9 DEF Next
<1>2. MembershipInv /\ [Next]_mvars => [Kept]_mvars
  BY <1>1
<1>3. QED  BY <1>2, MembershipIsInv, PTL DEF Spec, NullifierIsForGood

(* resolvePseudonym signs a request in to the account its own nullifier     *)
(* derives, whatever ProveClaim bound or an administrator deleted meanwhile. *)
THEOREM LoginsStayOnPseudonyms == Spec => []LoginStaysOnPseudonym
BY MembershipIsInv, PTL DEF MembershipInv

(* storeSessionClaim records what a request of that session has proved.     *)
THEOREM StandingClaimsRestOnProofs == Spec => []StandingClaimsAreProved
BY MembershipIsInv, PTL DEF MembershipInv

(* consumeChallenge and oneShotNullifier give a challenge and an allowance  *)
(* to one request, though both are looked at before any row is locked.      *)
THEOREM ChallengesAndAllowancesAreSpentOnce == Spec => []SpentOnce
<1>1. ASSUME MembershipInv, NEW r \in Requests, NEW q \in Requests, r # q,
             Effective(r), Effective(q)
      PROVE  req[r].token # req[q].token /\ (r \in granted => Key(r) # Key(q))
  <2>1. /\ ClaimInv(r) /\ ClaimInv(q) /\ RowInv(r) /\ RowInv(q) /\ Apart(r, q)
    BY <1>1 DEF MembershipInv, ReqInv
  <2>2. req[r].pc \in {"commit", "done"} /\ req[q].pc \in {"commit", "done"}
    BY <1>1, <2>1 DEF Effective, ClaimInv
  <2>3. req[r].token # req[q].token
    BY <2>1, <2>2 DEF Apart, Writing
  <2>4. ASSUME r \in granted  PROVE Key(r) # Key(q)
    <3>1. req[r].row # None /\ req[r].row.consumed
      BY <2>1, <2>2, <2>4 DEF ClaimInv
    <3>2. CASE req[q].row # None
      BY <2>1, <2>2, <3>1, <3>2 DEF Apart, Holding
    <3>3. CASE req[q].row = None
      <4>1. Key(q) \in DOMAIN nullifiers /\ ~nullifiers[Key(q)].consumed
        BY <2>1, <2>2, <3>3 DEF RowInv, Holding
      <4>2. \/ Key(r) \notin DOMAIN nullifiers
            \/ nullifiers[Key(r)] = req[r].row
        BY <2>1, <2>2, <3>1 DEF RowInv, Holding
      <4>3. QED  BY <3>1, <4>1, <4>2
    <3>4. QED  BY <3>2, <3>3
  <2>5. QED  BY <2>3, <2>4
<1>2. MembershipInv => SpentOnce
  BY <1>1 DEF SpentOnce
<1>3. QED  BY <1>2, MembershipIsInv, PTL

(* ProofSink is called before the commit: only a request that did not       *)
(* commit leaves a grant whose allowance oneShotNullifier has not burnt.    *)
THEOREM CommittedGrantsAreBurnt == Spec => []GrantsAreBurnt
<1>1. ASSUME MembershipInv, NEW r \in granted, req[r].pc \notin {"commit", "failed"}
      PROVE  Key(r) \in DOMAIN nullifiers /\ nullifiers[Key(r)].consumed
  <2>1. r \in Requests /\ ClaimInv(r) /\ RowInv(r)
    BY <1>1 DEF MembershipInv, TablesInv, ReqInv
  <2>2. req[r].pc = "done" /\ req[r].row # None /\ req[r].row.consumed
    BY <1>1, <2>1 DEF ClaimInv
  <2>3. QED  BY <2>1, <2>2 DEF RowInv
<1>2. MembershipInv => GrantsAreBurnt
  BY <1>1 DEF GrantsAreBurnt
<1>3. QED  BY <1>2, MembershipIsInv, PTL

(* For every grace and time to live, the transaction of a request for a     *)
(* revoked credential that goes on or is done began within RootGrace and    *)
(* ChallengeTTL of the revocation, though the root is never looked at again *)
(* (protocol.go:513).                                                       *)
THEOREM RevokedCredentialsExpire == Spec => []LastStartOfRevoked
<1>1. ASSUME MembershipInv, NEW r \in Requests,
             req[r].pc \in {"consume", "done"} \cup Writing,
             goneAt[req[r].member] # NotGone
      PROVE  \/ req[r].began <= goneAt[req[r].member]
             \/ req[r].began < goneAt[req[r].member] + RootGrace + ChallengeTTL
  <2>1. LastInv(r)
    BY <1>1 DEF MembershipInv, ReqInv
  <2>2. QED  BY <1>1, <2>1 DEF LastInv, Writing
<1>2. MembershipInv => LastStartOfRevoked
  BY <1>1 DEF LastStartOfRevoked
<1>3. QED  BY <1>2, MembershipIsInv, PTL
=============================================================================
