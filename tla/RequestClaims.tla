---------------------------- MODULE RequestClaims ----------------------------
(***************************************************************************)
(* zkauthz: the holder of one request's proven claims, shared by the       *)
(* goroutines that resolve its fields.  Middleware builds it; Add, called  *)
(* by ProveClaim through ProofSink, puts a claim in; Proofs, called by the *)
(* @auth directive, takes claims out.  Both work under the holder's mutex, *)
(* and Proofs checks and then spends counter by counter while it holds it. *)
(*                                                                         *)
(* A list of claim names is a bag, for its order is never looked at; Blank *)
(* is the empty name.                                                      *)
(***************************************************************************)
EXTENDS Integers, FiniteSets, Functions

CONSTANTS
  Names,       \* claim names, Blank among them
  Fields,      \* goroutines that call Proofs
  Demands,     \* the bags of names they may ask for: [Names -> Nat]
  Blank,
  None,
  MaxGrants    \* bound: grants of one name

ASSUME NamesAreNamed == Blank \in Names /\ Demands \subseteq [Names -> Nat]
ASSUME NobodyHoldsNothing == None \notin Fields
ASSUME RequestIsFinite == IsFiniteSet(Fields)
ASSUME GrantsAreNumbered == MaxGrants \in Nat

VARIABLES
  mounted,     \* the context carries a holder
  loadErr,     \* the recurring claims could not be read
  recurring,   \* the holder's claims that stay
  oneShot,     \* its counters
  mu,          \* who holds its mutex, or None
  field,       \* Proofs' local state, per goroutine
  added        \* history: grants added, by name

hvars == <<mounted, loadErr, recurring, oneShot, mu, field, added>>

Nothing == [c \in Names |-> 0]
IdleField == [pc |-> "idle", claims |-> Nothing, due |-> Nothing, taken |-> Nothing]

(* As Middleware leaves it: nothing one-shot yet; recurring is empty if the *)
(* query failed, the request is anonymous or nothing is mounted.            *)
Init ==
  /\ mounted \in BOOLEAN /\ loadErr \in BOOLEAN
  /\ recurring \in SUBSET (Names \ {Blank})
  /\ loadErr => mounted /\ recurring = {}
  /\ ~mounted => recurring = {}
  /\ oneShot = Nothing /\ mu = None
  /\ field = [f \in Fields |-> IdleField]
  /\ added = Nothing

(* Add fails without a holder, so nothing is added then. *)
AddOneShot(c) ==
  /\ mounted /\ mu = None /\ added[c] < MaxGrants
  /\ oneShot' = [oneShot EXCEPT ![c] = @ + 1]
  /\ added' = [added EXCEPT ![c] = @ + 1]
  /\ UNCHANGED <<mounted, loadErr, recurring, mu, field>>

AddRecurring(c) ==
  /\ mounted /\ mu = None
  /\ recurring' = recurring \cup {c}
  /\ UNCHANGED <<mounted, loadErr, oneShot, mu, field, added>>

-----------------------------------------------------------------------------
(* Proofs. *)

GoTo(f, pc) == field' = [field EXCEPT ![f].pc = pc]

Proofs(f, claims) ==
  /\ field[f].pc = "idle"
  /\ field' = [field EXCEPT ![f] = [@ EXCEPT !.claims = claims, !.pc = "called"]]
  /\ UNCHANGED <<mounted, loadErr, recurring, oneShot, mu, added>>

(* An empty list asks for nothing; no holder proves nothing. *)
NoLock(f) ==
  /\ field[f].pc = "called"
  /\ \/ field[f].claims = Nothing /\ GoTo(f, "ok")
     \/ field[f].claims # Nothing /\ ~mounted /\ GoTo(f, "denied")
  /\ UNCHANGED <<mounted, loadErr, recurring, oneShot, mu, added>>

(* Mutant of Lock: the mutex is not waited for. *)
LockAnyway(f) ==
  /\ field[f].pc = "called" /\ mounted /\ field[f].claims # Nothing
  /\ mu' = f /\ GoTo(f, "check")
  /\ UNCHANGED <<mounted, loadErr, recurring, oneShot, added>>

Lock(f) ==
  /\ field[f].pc = "called" /\ mounted /\ field[f].claims # Nothing
  /\ mu = None
  /\ mu' = f /\ GoTo(f, "check")
  /\ UNCHANGED <<mounted, loadErr, recurring, oneShot, added>>

(* required: what no recurring claim covers, counted per name. *)
Required(claims) == [c \in Names |-> IF c \in recurring THEN 0 ELSE claims[c]]

(* Mutant of Covered: one grant covers every entry of its name. *)
CoveredOnce(f) ==
  /\ ~loadErr
  /\ field[f].claims[Blank] = 0
  /\ \A c \in Names : Required(field[f].claims)[c] > 0 => oneShot[c] > 0

Covered(f) ==
  /\ ~loadErr
  /\ field[f].claims[Blank] = 0
  /\ \A c \in Names : oneShot[c] >= Required(field[f].claims)[c]

Check(f) ==
  /\ field[f].pc = "check" /\ Covered(f)
  /\ field' = [field EXCEPT ![f] =
       [@ EXCEPT !.pc = "spend", !.due = Required(field[f].claims)]]
  /\ UNCHANGED <<mounted, loadErr, recurring, oneShot, mu, added>>

(* Mutant of CheckFails: the refusal returns without unlocking. *)
CheckFailsLocked(f) ==
  /\ field[f].pc = "check" /\ ~Covered(f)
  /\ GoTo(f, "denied")
  /\ UNCHANGED <<mounted, loadErr, recurring, oneShot, mu, added>>

CheckFails(f) ==
  /\ field[f].pc = "check" /\ ~Covered(f)
  /\ GoTo(f, "denied") /\ mu' = None
  /\ UNCHANGED <<mounted, loadErr, recurring, oneShot, added>>

Take(row, c) == [row EXCEPT !.due = [@ EXCEPT ![c] = 0],
                            !.taken = [@ EXCEPT ![c] = row.due[c]]]

(* Mutant of SpendOne: the counter is cleared, not reduced. *)
SpendAll(f, c) ==
  /\ field[f].pc = "spend" /\ field[f].due[c] > 0
  /\ oneShot' = [oneShot EXCEPT ![c] = 0]
  /\ field' = [field EXCEPT ![f] = Take(@, c)]
  /\ UNCHANGED <<mounted, loadErr, recurring, mu, added>>

(* One entry of the map, in any order. *)
SpendOne(f, c) ==
  /\ field[f].pc = "spend" /\ field[f].due[c] > 0
  /\ oneShot' = [oneShot EXCEPT ![c] = @ - field[f].due[c]]
  /\ field' = [field EXCEPT ![f] = Take(@, c)]
  /\ UNCHANGED <<mounted, loadErr, recurring, mu, added>>

Unlock(f) ==
  /\ field[f].pc = "spend" /\ field[f].due = Nothing
  /\ GoTo(f, "ok") /\ mu' = None
  /\ UNCHANGED <<mounted, loadErr, recurring, oneShot, added>>

Step(f) ==
  \/ NoLock(f)
  \/ Lock(f)
  \/ Check(f)
  \/ CheckFails(f)
  \/ \E c \in Names : SpendOne(f, c)
  \/ Unlock(f)

Next ==
  \/ \E c \in Names \ {Blank} : AddOneShot(c) \/ AddRecurring(c)
  \/ \E f \in Fields, claims \in Demands : Proofs(f, claims)
  \/ \E f \in Fields : Step(f)

(* A goroutine that has called Proofs runs on, and a Go mutex is not denied *)
(* to a waiter for ever.                                                    *)
Spec == Init /\ [][Next]_hvars /\ \A f \in Fields : SF_hvars(Step(f))

-----------------------------------------------------------------------------
(* Properties. *)

(* The type invariant. *)
TypeOK ==
  /\ mounted \in BOOLEAN /\ loadErr \in BOOLEAN
  /\ recurring \subseteq Names \ {Blank}
  /\ oneShot \in [Names -> Nat] /\ added \in [Names -> 0..MaxGrants]
  /\ mu \in Fields \cup {None}
  /\ field \in [Fields -> [pc : {"idle", "called", "check", "spend", "ok", "denied"},
                          claims : Demands \cup {Nothing},
                          due : [Names -> Nat], taken : [Names -> Nat]]]

(* Sibling fields that run at the same time never pass on the same grant,   *)
(* and a field that is refused spends none: what the fields that passed     *)
(* demanded of a claim that is not recurring was granted before, and is     *)
(* what its counter lacks whenever the mutex is free.                       *)
GrantsAreNotShared ==
  \A c \in Names \ recurring :
    LET met == [f \in Fields |-> IF field[f].pc = "ok" THEN field[f].claims[c] ELSE 0]
    IN  /\ SumFunction(met) <= added[c]
        /\ mu = None => oneShot[c] = added[c] - SumFunction(met)

(* Every call of Proofs returns. *)
ProofsReturn ==
  \A f \in Fields : field[f].pc = "called" ~> field[f].pc \in {"ok", "denied"}

(* Spending a demand entry by entry under the mutex is meeting it in one    *)
(* step: the holder implements Allowances, where what its owner has taken   *)
(* so far still counts as available.                                        *)
InFlight(c) == IF mu # None /\ field[mu].pc = "spend" THEN field[mu].taken[c] ELSE 0
Verdict(f) == IF field[f].pc \in {"ok", "denied"} THEN field[f].pc ELSE "none"

Promise == INSTANCE Allowances WITH
  standing <- recurring,
  avail    <- [c \in Names |-> oneShot[c] + InFlight(c)],
  usable   <- mounted /\ ~loadErr,
  asked    <- [f \in Fields |-> field[f].claims],
  verdict  <- [f \in Fields |-> Verdict(f)]
RefinesAllowances == Promise!Spec
=============================================================================
