------------------------------ MODULE Allowances ------------------------------
(***************************************************************************)
(* What @auth(proves: [...]) may rely on within one request: a demand for  *)
(* claims is met in one step or not at all, and meeting it spends one      *)
(* grant per entry that no standing claim covers.  RequestClaims           *)
(* implements it with a mutex and a map of counters.                       *)
(***************************************************************************)
EXTENDS Naturals

CONSTANTS Names, Fields, Demands, Blank

VARIABLES
  standing,   \* claims that hold for the whole session
  avail,      \* one-shot grants left, by name
  usable,     \* a holder is there and its claims could be read
  asked,      \* the demand of each field, or [any |-> FALSE]
  verdict     \* "none", "ok" or "denied"
avars == <<standing, avail, usable, asked, verdict>>

Nothing == [c \in Names |-> 0]

(* One grant per entry that is not standing. *)
Cost(demand) == [c \in Names |-> IF c \in standing THEN 0 ELSE demand[c]]

Init ==
  /\ standing \in SUBSET (Names \ {Blank}) /\ avail = Nothing /\ usable \in BOOLEAN
  /\ asked = [f \in Fields |-> Nothing]
  /\ verdict = [f \in Fields |-> "none"]

Grant(c) ==
  /\ avail' = [avail EXCEPT ![c] = @ + 1]
  /\ UNCHANGED <<standing, usable, asked, verdict>>

Stand(c) ==
  /\ standing' = standing \cup {c}
  /\ UNCHANGED <<avail, usable, asked, verdict>>

Ask(f, demand) ==
  /\ verdict[f] = "none" /\ asked[f] = Nothing
  /\ asked' = [asked EXCEPT ![f] = demand]
  /\ UNCHANGED <<standing, avail, usable, verdict>>

Met(f) ==
  /\ verdict[f] = "none"
  /\ asked[f] # Nothing => usable /\ asked[f][Blank] = 0
  /\ \A c \in Names : Cost(asked[f])[c] <= avail[c]
  /\ avail' = [c \in Names |-> avail[c] - Cost(asked[f])[c]]
  /\ verdict' = [verdict EXCEPT ![f] = "ok"]
  /\ UNCHANGED <<standing, usable, asked>>

Denied(f) ==
  /\ verdict[f] = "none" /\ asked[f] # Nothing
  /\ \/ ~usable
     \/ asked[f][Blank] > 0
     \/ \E c \in Names : Cost(asked[f])[c] > avail[c]
  /\ verdict' = [verdict EXCEPT ![f] = "denied"]
  /\ UNCHANGED <<standing, avail, usable, asked>>

Next ==
  \/ \E c \in Names \ {Blank} : Grant(c) \/ Stand(c)
  \/ \E f \in Fields, demand \in Demands : Ask(f, demand)
  \/ \E f \in Fields : Met(f) \/ Denied(f)

Spec == Init /\ [][Next]_avars
=============================================================================
