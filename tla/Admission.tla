------------------------------ MODULE Admission ------------------------------
(***************************************************************************)
(* Admission to the pairing check (zkauthn/service.go: acquire, verify,    *)
(* verifyDummyMembership) and what verifyMembershipRequest and             *)
(* VerifyKnowledge refuse before it: a weighted semaphore bounds how many  *)
(* run at once, a request waits for a slot at most verifyWait, and some    *)
(* refusals spend a pairing on a dummy statement.  The semaphore is        *)
(* golang.org/x/sync's: first come first served, the slot is handed to the *)
(* waiter by the request that releases it, and a waiter that gives up      *)
(* after it was handed one passes it on.                                   *)
(***************************************************************************)
EXTENDS Integers, Sequences, FiniteSets, SequencesExt

CONSTANTS
  Requests,
  Limit,     \* how many may verify at once
  Asked      \* what the requests may ask, from AllAsked

(* A request asks for a step-up, or proves membership; its flaws are what   *)
(* the server finds wrong with it before it looks at the proof: lengths and *)
(* encodings, a claim name the deployment does not define, a root it does   *)
(* not accept, a challenge that is not open, an account with no commitment. *)
AllAsked ==
  [op : {"membership"}, flaws : SUBSET {"shape", "claim", "root", "challenge"}]
    \cup [op : {"knowledge"}, flaws : SUBSET {"shape", "challenge", "commitment"}]

ASSUME LimitIsPositive == Limit \in Nat \ {0}
ASSUME AskedAreRequests == Asked \subseteq AllAsked

VARIABLES
  cur,     \* slots taken
  waiters, \* the semaphore's queue
  ready,   \* waiters that were handed a slot and have not woken up
  req      \* [pc, asked, answer, paid] of each request; paid is history

avars == <<cur, waiters, ready, req>>

Flawless == [op |-> "membership", flaws |-> {}]

Init ==
  /\ cur = 0 /\ waiters = <<>> /\ ready = {}
  /\ req = [r \in Requests |->
       [pc |-> "idle", asked |-> Flawless, answer |-> "none", paid |-> FALSE]]

Answer(r, answer) ==
  req' = [req EXCEPT ![r] = [@ EXCEPT !.pc = "answered", !.answer = answer]]

(* Refused with no pairing: a malformed request; a challenge that is not    *)
(* open, unless the claim or the root was found wanting before it.          *)
RefusedAtOnce(asked) ==
  \/ "shape" \in asked.flaws
  \/ "challenge" \in asked.flaws /\ asked.flaws \cap {"claim", "root"} = {}

(* Mutant of Arrive: what cannot succeed is refused at once. *)
ArriveRefused(r, asked) ==
  /\ req[r].pc = "idle"
  /\ req' = [req EXCEPT ![r] =
       IF asked.flaws # {}
       THEN [@ EXCEPT !.asked = asked, !.pc = "answered", !.answer = "INVALID_PROOF"]
       ELSE [@ EXCEPT !.asked = asked, !.pc = "acquire"]]
  /\ UNCHANGED <<cur, waiters, ready>>

(* What is not refused at once goes to its pairing: an unknown claim or a   *)
(* root that is not accepted on the dummy statement, an account with no     *)
(* commitment against the dummy commitment.                                 *)
Arrive(r, asked) ==
  /\ req[r].pc = "idle"
  /\ req' = [req EXCEPT ![r] =
       IF RefusedAtOnce(asked)
       THEN [@ EXCEPT !.asked = asked, !.pc = "answered", !.answer = "INVALID_PROOF"]
       ELSE [@ EXCEPT !.asked = asked, !.pc = "acquire"]]
  /\ UNCHANGED <<cur, waiters, ready>>

(* Acquire: a free slot at once if nobody queues for it, else the queue. *)
AcquireFree(r) ==
  /\ req[r].pc = "acquire" /\ cur < Limit /\ waiters = <<>>
  /\ cur' = cur + 1
  /\ req' = [req EXCEPT ![r] = [@ EXCEPT !.pc = "pairing"]]
  /\ UNCHANGED <<waiters, ready>>

Queue(r) ==
  /\ req[r].pc = "acquire" /\ (cur = Limit \/ waiters # <<>>)
  /\ waiters' = Append(waiters, r)
  /\ req' = [req EXCEPT ![r] = [@ EXCEPT !.pc = "waiting"]]
  /\ UNCHANGED <<cur, ready>>

(* Release: the slot goes to the first waiter, or becomes free. *)
PassOn ==
  IF waiters = <<>>
  THEN cur' = cur - 1 /\ UNCHANGED waiters
  ELSE waiters' = Tail(waiters) /\ UNCHANGED cur

(* Mutant of Handed: the waiter is taken off the queue and never told. *)
HandedSilently == {}

Handed == IF waiters = <<>> THEN {} ELSE {Head(waiters)}

WakeUp(r) ==
  /\ req[r].pc = "waiting" /\ r \in ready
  /\ ready' = ready \ {r}
  /\ req' = [req EXCEPT ![r] = [@ EXCEPT !.pc = "pairing"]]
  /\ UNCHANGED <<cur, waiters>>

(* Mutant of GiveUp: a waiter that timed out stays in the queue. *)
GiveUpQueued(r) ==
  /\ req[r].pc \in {"acquire", "waiting"} /\ r \notin ready
  /\ UNCHANGED <<cur, waiters, ready>>
  /\ Answer(r, "RATE_LIMITED")

(* verifyWait has passed or the request was cancelled: RATE_LIMITED on      *)
(* every branch (isRateLimited), and no slot is kept, not even one that     *)
(* arrived together with the timeout.                                       *)
GiveUp(r) ==
  /\ \/ req[r].pc = "acquire" /\ UNCHANGED <<cur, waiters, ready>>
     \/ /\ req[r].pc = "waiting" /\ r \notin ready
        /\ \E i \in DOMAIN waiters : waiters[i] = r /\ waiters' = RemoveAt(waiters, i)
        /\ UNCHANGED <<cur, ready>>
     \/ /\ req[r].pc = "waiting" /\ r \in ready
        /\ PassOn
        /\ ready' = (ready \ {r}) \cup Handed
  /\ Answer(r, "RATE_LIMITED")

(* The pairing is over; its result counts only if nothing else was wrong.   *)
Verified(r) ==
  /\ req[r].pc = "pairing"
  /\ PassOn /\ ready' = ready \cup Handed
  /\ \E answer \in {"ok", "INVALID_PROOF"} :
       /\ req[r].asked.flaws # {} => answer = "INVALID_PROOF"
       /\ req' = [req EXCEPT ![r] =
            [@ EXCEPT !.pc = "answered", !.answer = answer, !.paid = TRUE]]

(* Mutant of Panic: the slot is released on the normal way out only. *)
PanicHolding(r) ==
  /\ req[r].pc = "pairing"
  /\ Answer(r, "panic")
  /\ UNCHANGED <<cur, waiters, ready>>

(* The verifier panics: the deferred Release runs all the same. *)
Panic(r) ==
  /\ req[r].pc = "pairing"
  /\ PassOn /\ ready' = ready \cup Handed
  /\ Answer(r, "panic")

Step(r) == AcquireFree(r) \/ Queue(r) \/ WakeUp(r) \/ Verified(r)

Next ==
  \E r \in Requests :
    \/ \E asked \in Asked : Arrive(r, asked)
    \/ Step(r)
    \/ GiveUp(r)
    \/ Panic(r)

(* A pairing ends and a request that can go on does.                         *)
Spec == /\ Init /\ [][Next]_avars
        /\ \A r \in Requests : WF_avars(Step(r))

-----------------------------------------------------------------------------
(* Properties. *)

Running == {r \in Requests : req[r].pc = "pairing"}

(* The type invariant. *)
TypeOK ==
  /\ cur \in 0..Limit
  /\ ready \subseteq Requests /\ waiters \in Seq(Requests)
  /\ \A i \in DOMAIN waiters : req[waiters[i]].pc = "waiting" /\ waiters[i] \notin ready
  /\ req \in [Requests -> [pc : {"idle", "acquire", "waiting", "pairing", "answered"},
                           asked : Asked \cup {Flawless}, paid : BOOLEAN,
                           answer : {"none", "ok", "INVALID_PROOF", "RATE_LIMITED", "panic"}]]

(* The ceiling holds and no slot is lost: every taken slot is running a     *)
(* pairing or on its way to a waiter, also after timeouts that race a       *)
(* hand-over and after panics, so an idle replica has all its slots; and    *)
(* nobody queues while one is free.                                         *)
SlotsAccountedFor ==
  /\ cur = Cardinality(Running) + Cardinality(ready)
  /\ cur <= Limit
  /\ waiters # <<>> => cur = Limit

(* What a refusal cost tells its caller nothing it did not know: of two     *)
(* refused requests of one kind, both well formed or both not, the one paid *)
(* for a pairing exactly if the other did, whatever claim, root, commitment *)
(* or proof was wrong (protocol.go, verifyMembershipRequest and gotcha 63). *)
(* This takes an open challenge; with a closed one a step-up is refused at  *)
(* once in any case, but a membership request only if its claim and root    *)
(* are good, for the challenge is looked at after them.                     *)
RefusalsCostAlike ==
  \A q, r \in Requests :
    LET a == req[q].asked
        b == req[r].asked
    IN  /\ req[q].answer = "INVALID_PROOF" /\ req[r].answer = "INVALID_PROOF"
        /\ a.op = b.op
        /\ "shape" \in a.flaws <=> "shape" \in b.flaws
        /\ "challenge" \in a.flaws <=> "challenge" \in b.flaws
        /\ a.op = "membership" => "challenge" \notin a.flaws
      => (req[q].paid <=> req[r].paid)

(* Every request for a pairing is answered, however many queue for a slot.  *)
EveryRequestIsAnswered ==
  \A r \in Requests : req[r].pc \in {"acquire", "waiting", "pairing"} ~>
                        req[r].pc = "answered"
=============================================================================
