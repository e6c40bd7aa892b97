------------------------------ MODULE Challenges ------------------------------
(***************************************************************************)
(* auth_zk_challenges (zkauthn/protocol.go, sql.go) as data: the statements *)
(* that issue, look up and burn a challenge, on a table that maps a token  *)
(* to [purpose, session, expires, consumed].  The table is keyed by the    *)
(* hash of the token and stores the field the token encodes; both are      *)
(* functions of the token, so the token stands for all three.              *)
(***************************************************************************)
EXTENDS Integers

CONSTANT ChallengeTTL     \* one minute in the code, in ticks

(* issueChallenge purges what has expired in the statement that inserts.  *)
IssueChallenge(table, token, purpose, session, time) ==
  [t \in {k \in DOMAIN table : table[k].expires >= time} \cup {token} |->
     IF t = token
     THEN [purpose |-> purpose, session |-> session,
           expires |-> time + ChallengeTTL, consumed |-> FALSE]
     ELSE table[t]]

(* Mutant of Usable: expiry is not looked at. *)
UsableForever(table, token, purpose, session, time) ==
  /\ token \in DOMAIN table
  /\ table[token].purpose = purpose
  /\ table[token].session = session
  /\ ~table[token].consumed

(* peekChallenge and consumeChallenge look for the same row: this token, *)
(* this purpose, this session or exactly none, not consumed, not expired. *)
Usable(table, token, purpose, session, time) ==
  /\ token \in DOMAIN table
  /\ table[token].purpose = purpose
  /\ table[token].session = session
  /\ ~table[token].consumed
  /\ table[token].expires > time

Consume(table, token) == [table EXCEPT ![token].consumed = TRUE]
=============================================================================
