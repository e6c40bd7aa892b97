------------------------ MODULE RequestClaimsProofs ------------------------
(***************************************************************************)
(* For any number of fields, names, demands and grants: checking and then  *)
(* spending counter by counter under the mutex is meeting a demand in one  *)
(* step, and no two fields pass on the same grant.                         *)
(***************************************************************************)
EXTENDS RequestClaims, FiniteSetTheorems, WellFoundedInduction, TLAPS

Cost(f) == Required(field[f].claims)

(* Entry c of f's map: still due, or taken.                                 *)
EntrySettled(f, c) ==
  /\ \/ field[f].due[c] = Cost(f)[c] /\ field[f].taken[c] = 0
     \/ field[f].due[c] = 0 /\ field[f].taken[c] = Cost(f)[c]
  /\ oneShot[c] + field[f].taken[c] >= Cost(f)[c]

(* What holds of a goroutine, by where it is in Proofs.                     *)
FieldInv(f) ==
  /\ field[f].pc = "idle" => field[f].claims = Nothing
  /\ field[f].pc \in {"idle", "called", "check"} => field[f].taken = Nothing
  /\ field[f].pc \in {"check", "spend"} => mu = f /\ mounted /\ field[f].claims # Nothing
  /\ field[f].pc = "spend" =>
       /\ ~loadErr /\ field[f].claims[Blank] = 0
       /\ \A c \in Names : EntrySettled(f, c)

(* The holder of the mutex is between its check and its unlock.             *)
MutexInv == mu # None => field[mu].pc \in {"check", "spend"}

HolderInv == TypeOK /\ MutexInv /\ \A f \in Fields : FieldInv(f)

FieldRow ==
  [pc : {"idle", "called", "check", "spend", "ok", "denied"},
   claims : Demands \cup {Nothing}, due : [Names -> Nat], taken : [Names -> Nat]]

-----------------------------------------------------------------------------
LEMMA NothingIsABag == Nothing \in [Names -> Nat] /\ \A c \in Names : Nothing[c] = 0
BY DEF Nothing

LEMMA ClaimsAreABag ==
  ASSUME TypeOK, NEW f \in Fields
  PROVE  field[f].claims \in [Names -> Nat] /\ Cost(f) \in [Names -> Nat]
BY NamesAreNamed, NothingIsABag DEF TypeOK, Cost, Required

LEMMA InitInv == Init => HolderInv
<1> SUFFICES ASSUME Init PROVE HolderInv
  OBVIOUS
<1>1. TypeOK
  BY NothingIsABag, NamesAreNamed, NobodyHoldsNothing, GrantsAreNumbered
  DEF Init, TypeOK, IdleField, Nothing
<1>2. \A f \in Fields : FieldInv(f)
  BY DEF Init, FieldInv, IdleField
<1>3. QED  BY <1>1, <1>2 DEF HolderInv, MutexInv, Init

(* A step of one goroutine that leaves the counters alone.                  *)
LEMMA OtherFields ==
  ASSUME HolderInv, NEW f \in Fields,
         UNCHANGED <<mounted, loadErr, recurring>>,
         mu \in {f, None} /\ mu' \in {f, None},
         mu = f \/ oneShot' = oneShot,
         \A g \in Fields : g # f => field'[g] = field[g]
  PROVE  \A g \in Fields : g # f => FieldInv(g)'
<1> SUFFICES ASSUME NEW g \in Fields, g # f PROVE FieldInv(g)'
  OBVIOUS
<1>1. FieldInv(g) /\ field'[g] = field[g]
  BY DEF HolderInv
<1>2. field[g].pc \notin {"check", "spend"}
  BY <1>1, NobodyHoldsNothing DEF FieldInv
<1>3. QED  BY <1>1, <1>2 DEF FieldInv

(* Where a goroutine may go. *)
LEMMA RowMoves ==
  ASSUME NEW row \in FieldRow,
         NEW at \in {"idle", "called", "check", "spend", "ok", "denied"}
  PROVE  /\ [row EXCEPT !.pc = at] \in FieldRow
         /\ \A claims \in Demands : [row EXCEPT !.claims = claims, !.pc = at] \in FieldRow
         /\ \A due \in [Names -> Nat] : [row EXCEPT !.pc = at, !.due = due] \in FieldRow
BY DEF FieldRow

LEMMA TakeTypes ==
  ASSUME NEW row \in FieldRow, NEW c \in Names
  PROVE  Take(row, c) \in FieldRow
BY DEF FieldRow, Take

LEMMA TypesKept == HolderInv /\ [Next]_hvars => TypeOK'
<1> SUFFICES ASSUME HolderInv, [Next]_hvars PROVE TypeOK'
  OBVIOUS
<1>0. TypeOK /\ field \in [Fields -> FieldRow]
  BY DEF HolderInv, TypeOK, FieldRow
<1>1. ASSUME NEW c \in Names \ {Blank}, AddOneShot(c) \/ AddRecurring(c)  PROVE TypeOK'
  <2>1. CASE AddOneShot(c)
    <3>1. oneShot' \in [Names -> Nat] /\ added' \in [Names -> 0..MaxGrants]
      BY <1>0, <2>1, GrantsAreNumbered DEF AddOneShot, TypeOK
    <3>2. QED  BY <1>0, <2>1, <3>1 DEF AddOneShot, TypeOK
  <2>2. CASE AddRecurring(c)
    BY <1>0, <2>2 DEF AddRecurring, TypeOK
  <2>3. QED  BY <1>1, <2>1, <2>2
<1>2. ASSUME NEW f \in Fields, NEW claims \in Demands, Proofs(f, claims)  PROVE TypeOK'
  <2>1. [field[f] EXCEPT !.claims = claims, !.pc = "called"] \in FieldRow
    BY <1>0, RowMoves
  <2>2. field' \in [Fields -> FieldRow]
    BY <1>0, <1>2, <2>1 DEF Proofs
  <2>3. QED  BY <1>0, <1>2, <2>2 DEF Proofs, TypeOK, FieldRow
<1>3. ASSUME NEW f \in Fields, NEW at \in {"check", "ok", "denied"}, GoTo(f, at),
             UNCHANGED <<mounted, loadErr, recurring, oneShot, added>>, mu' \in {mu, f, None}
      PROVE  TypeOK'
  <2>1. [field[f] EXCEPT !.pc = at] \in FieldRow
    BY <1>0, RowMoves
  <2>2. field' = [field EXCEPT ![f] = [field[f] EXCEPT !.pc = at]]
    BY <1>0, <1>3 DEF GoTo
  <2>3. field' \in [Fields -> FieldRow]
    BY <1>0, <2>1, <2>2
  <2>4. QED  BY <1>0, <1>3, <2>3 DEF TypeOK, FieldRow
<1>4. ASSUME NEW f \in Fields, Check(f)  PROVE TypeOK'
  <2>1. [field[f] EXCEPT !.pc = "spend", !.due = Required(field[f].claims)] \in FieldRow
    BY <1>0, RowMoves, ClaimsAreABag DEF Cost
  <2>2. field' \in [Fields -> FieldRow]
    BY <1>0, <1>4, <2>1 DEF Check
  <2>3. QED  BY <1>0, <1>4, <2>2 DEF Check, TypeOK, FieldRow
<1>5. ASSUME NEW f \in Fields, NEW c \in Names, SpendOne(f, c)  PROVE TypeOK'
  <2>1. field[f].due[c] \in Nat /\ oneShot[c] \in Nat
    BY <1>0 DEF TypeOK, FieldRow
  <2>2. oneShot[c] >= field[f].due[c]
    <3>1. EntrySettled(f, c) /\ field[f].due[c] > 0
      BY <1>5 DEF HolderInv, FieldInv, SpendOne
    <3>2. Cost(f)[c] \in Nat
      BY <1>0, ClaimsAreABag
    <3>3. QED  BY <2>1, <3>1, <3>2 DEF EntrySettled
  <2>3. oneShot' \in [Names -> Nat]
    BY <1>0, <1>5, <2>1, <2>2 DEF SpendOne, TypeOK
  <2>4. Take(field[f], c) \in FieldRow
    BY <1>0, TakeTypes
  <2>5. field' \in [Fields -> FieldRow]
    BY <1>0, <1>5, <2>4 DEF SpendOne
  <2>6. QED  BY <1>0, <1>5, <2>3, <2>5 DEF SpendOne, TypeOK, FieldRow
<1>6. CASE UNCHANGED hvars
  BY <1>0, <1>6 DEF hvars, TypeOK
<1>7. QED
  BY <1>1, <1>2, <1>3, <1>4, <1>5, <1>6
  DEF Next, Step, NoLock, Lock, CheckFails, Unlock

-----------------------------------------------------------------------------
(* What each step does to its own goroutine. *)

LEMMA GoToRow ==
  ASSUME HolderInv, NEW f \in Fields, NEW at, GoTo(f, at)
  PROVE  /\ field'[f].pc = at /\ field'[f].claims = field[f].claims
         /\ field'[f].due = field[f].due /\ field'[f].taken = field[f].taken
         /\ \A g \in Fields : g # f => field'[g] = field[g]
BY DEF GoTo, HolderInv, TypeOK

LEMMA ProofsRow ==
  ASSUME HolderInv, NEW f \in Fields, NEW claims \in Demands, Proofs(f, claims)
  PROVE  /\ field'[f].pc = "called" /\ field'[f].claims = claims
         /\ field'[f].taken = field[f].taken
         /\ \A g \in Fields : g # f => field'[g] = field[g]
BY DEF Proofs, HolderInv, TypeOK

LEMMA CheckRow ==
  ASSUME HolderInv, NEW f \in Fields, Check(f)
  PROVE  /\ field'[f].pc = "spend" /\ field'[f].claims = field[f].claims
         /\ field'[f].due = Cost(f) /\ field'[f].taken = field[f].taken
         /\ \A g \in Fields : g # f => field'[g] = field[g]
BY DEF Check, Cost, HolderInv, TypeOK

LEMMA SpendRow ==
  ASSUME HolderInv, NEW f \in Fields, NEW c \in Names, SpendOne(f, c)
  PROVE  /\ field[f].pc = "spend" /\ field'[f].pc = "spend"
         /\ field'[f].claims = field[f].claims
         /\ field'[f].due[c] = 0 /\ field'[f].taken[c] = field[f].due[c]
         /\ \A x \in Names : x # c =>
              /\ field'[f].due[x] = field[f].due[x]
              /\ field'[f].taken[x] = field[f].taken[x]
         /\ oneShot'[c] = oneShot[c] - field[f].due[c]
         /\ \A x \in Names : x # c => oneShot'[x] = oneShot[x]
         /\ \A g \in Fields : g # f => field'[g] = field[g]
<1>1. field[f] \in FieldRow
  BY DEF HolderInv, TypeOK, FieldRow
<1>2. field'[f] = Take(field[f], c) /\ \A g \in Fields : g # f => field'[g] = field[g]
  BY DEF SpendOne, HolderInv, TypeOK
<1>3. ASSUME NEW row \in FieldRow
      PROVE  /\ Take(row, c).pc = row.pc /\ Take(row, c).claims = row.claims
             /\ Take(row, c).due = [row.due EXCEPT ![c] = 0]
             /\ Take(row, c).taken = [row.taken EXCEPT ![c] = row.due[c]]
             /\ row.due \in [Names -> Nat] /\ row.taken \in [Names -> Nat]
  BY DEF Take, FieldRow
<1>4. /\ field'[f].pc = field[f].pc /\ field'[f].claims = field[f].claims
      /\ field'[f].due = [field[f].due EXCEPT ![c] = 0]
      /\ field'[f].taken = [field[f].taken EXCEPT ![c] = field[f].due[c]]
      /\ field[f].due \in [Names -> Nat] /\ field[f].taken \in [Names -> Nat]
  BY <1>1, <1>2, <1>3
<1>5. oneShot \in [Names -> Nat]
  BY DEF HolderInv, TypeOK
<1>6. field[f].pc = "spend" /\ oneShot' = [oneShot EXCEPT ![c] = @ - field[f].due[c]]
  BY DEF SpendOne
<1>7. QED  BY <1>2, <1>4, <1>5, <1>6

(* The entry that is spent was all due, and is then all taken.              *)
LEMMA SpendSettles ==
  ASSUME HolderInv, NEW f \in Fields, NEW c \in Names, SpendOne(f, c)
  PROVE  /\ field[f].taken[c] = 0 /\ field[f].due[c] = Cost(f)[c]
         /\ Cost(f)[c] \in Nat /\ oneShot[c] \in Nat /\ oneShot[c] >= Cost(f)[c]
<1>1. EntrySettled(f, c) /\ field[f].due[c] > 0
  BY DEF HolderInv, FieldInv, SpendOne
<1>2. Cost(f)[c] \in Nat /\ oneShot[c] \in Nat /\ field[f].due[c] \in Nat
  BY ClaimsAreABag DEF HolderInv, TypeOK
<1>3. QED  BY <1>1, <1>2 DEF EntrySettled

LEMMA FieldsKept == HolderInv /\ [Next]_hvars => MutexInv' /\ \A g \in Fields : FieldInv(g)'
<1> SUFFICES ASSUME HolderInv, [Next]_hvars
             PROVE  MutexInv' /\ \A g \in Fields : FieldInv(g)'
  OBVIOUS
<1>0. TypeOK /\ MutexInv /\ \A g \in Fields : FieldInv(g)
  BY DEF HolderInv
<1>1. ASSUME NEW c \in Names \ {Blank}, AddOneShot(c) \/ AddRecurring(c)
      PROVE  MutexInv' /\ \A g \in Fields : FieldInv(g)'
  <2>1. mu = None /\ UNCHANGED <<mounted, loadErr, mu, field>>
    BY <1>1 DEF AddOneShot, AddRecurring
  <2>2. \A g \in Fields : field[g].pc \notin {"check", "spend"}
    BY <1>0, <2>1, NobodyHoldsNothing DEF FieldInv
  <2>3. QED  BY <1>0, <2>1, <2>2 DEF MutexInv, FieldInv
<1>2. ASSUME NEW f \in Fields, NEW claims \in Demands, Proofs(f, claims)
      PROVE  MutexInv' /\ \A g \in Fields : FieldInv(g)'
  <2>1. field[f].pc = "idle" /\ UNCHANGED <<mounted, loadErr, recurring, oneShot, mu>>
    BY <1>2 DEF Proofs
  <2>2. mu # f
    BY <1>0, <2>1, NobodyHoldsNothing DEF MutexInv
  <2>3. FieldInv(f)'
    BY <1>0, <1>2, <2>1, ProofsRow DEF FieldInv
  <2>4. \A g \in Fields : g # f => FieldInv(g)'
    BY <1>0, <1>2, <2>1, ProofsRow DEF FieldInv, EntrySettled, Cost, Required
  <2>5. MutexInv'
    BY <1>0, <1>2, <2>1, <2>2, ProofsRow DEF MutexInv, TypeOK
  <2>6. QED  BY <2>3, <2>4, <2>5
<1>3. ASSUME NEW f \in Fields, NoLock(f)
      PROVE  MutexInv' /\ \A g \in Fields : FieldInv(g)'
  <2>1. /\ field[f].pc = "called" /\ UNCHANGED <<mounted, loadErr, recurring, oneShot, mu>>
        /\ GoTo(f, "ok") \/ GoTo(f, "denied")
    BY <1>3 DEF NoLock
  <2>2. mu # f
    BY <1>0, <2>1, NobodyHoldsNothing DEF MutexInv
  <2>3. FieldInv(f)'
    BY <1>0, <2>1, GoToRow DEF FieldInv
  <2>4. \A g \in Fields : g # f => FieldInv(g)'
    BY <1>0, <2>1, GoToRow DEF FieldInv, EntrySettled, Cost, Required
  <2>5. MutexInv'
    BY <1>0, <2>1, <2>2, GoToRow DEF MutexInv, TypeOK
  <2>6. QED  BY <2>3, <2>4, <2>5
<1>4. ASSUME NEW f \in Fields, Lock(f)
      PROVE  MutexInv' /\ \A g \in Fields : FieldInv(g)'
  <2>1. /\ field[f].pc = "called" /\ mounted /\ field[f].claims # Nothing
        /\ mu = None /\ mu' = f /\ GoTo(f, "check")
        /\ UNCHANGED <<mounted, loadErr, recurring, oneShot>>
    BY <1>4 DEF Lock
  <2>2. FieldInv(f)'
    BY <1>0, <2>1, GoToRow DEF FieldInv
  <2>3. \A g \in Fields : g # f => FieldInv(g)'
    BY <2>1, GoToRow, OtherFields
  <2>4. MutexInv'
    BY <2>1, GoToRow DEF MutexInv
  <2>5. QED  BY <2>2, <2>3, <2>4
<1>5. ASSUME NEW f \in Fields, Check(f)
      PROVE  MutexInv' /\ \A g \in Fields : FieldInv(g)'
  <2>1. /\ field[f].pc = "check" /\ Covered(f)
        /\ UNCHANGED <<mounted, loadErr, recurring, oneShot, mu>>
        /\ mu = f /\ field[f].taken = Nothing /\ mounted /\ field[f].claims # Nothing
    BY <1>0, <1>5 DEF Check, FieldInv
  <2>2. ASSUME NEW c \in Names  PROVE EntrySettled(f, c)'
    <3>1. Cost(f)' = Cost(f)
      BY <1>5, <2>1, CheckRow DEF Cost, Required
    <3>2. /\ field'[f].due[c] = Cost(f)[c] /\ field'[f].taken[c] = 0
          /\ oneShot[c] >= Cost(f)[c] /\ oneShot[c] \in Nat
      BY <1>0, <1>5, <2>1, CheckRow, NothingIsABag DEF Covered, Cost, TypeOK
    <3>3. QED  BY <2>1, <3>1, <3>2 DEF EntrySettled
  <2>3. FieldInv(f)'
    BY <1>5, <2>1, <2>2, CheckRow DEF FieldInv, Covered
  <2>4. \A g \in Fields : g # f => FieldInv(g)'
    BY <1>5, <2>1, CheckRow, OtherFields
  <2>5. MutexInv'
    BY <1>5, <2>1, CheckRow DEF MutexInv
  <2>6. QED  BY <2>3, <2>4, <2>5
<1>6. ASSUME NEW f \in Fields, CheckFails(f) \/ Unlock(f)
      PROVE  MutexInv' /\ \A g \in Fields : FieldInv(g)'
  <2>1. /\ GoTo(f, "denied") \/ GoTo(f, "ok")
        /\ mu = f /\ mu' = None /\ UNCHANGED <<mounted, loadErr, recurring, oneShot>>
    BY <1>0, <1>6 DEF CheckFails, Unlock, FieldInv
  <2>2. FieldInv(f)'
    BY <2>1, GoToRow DEF FieldInv
  <2>3. \A g \in Fields : g # f => FieldInv(g)'
    BY <2>1, GoToRow, OtherFields
  <2>4. QED  BY <2>1, <2>2, <2>3 DEF MutexInv
<1>7. ASSUME NEW f \in Fields, NEW c \in Names, SpendOne(f, c)
      PROVE  MutexInv' /\ \A g \in Fields : FieldInv(g)'
  <2>1. /\ UNCHANGED <<mounted, loadErr, recurring, mu>> /\ field[f].pc = "spend"
        /\ mu = f /\ mounted /\ field[f].claims # Nothing
        /\ ~loadErr /\ field[f].claims[Blank] = 0
        /\ \A x \in Names : EntrySettled(f, x)
    BY <1>0, <1>7 DEF SpendOne, FieldInv
  <2>2. Cost(f)' = Cost(f)
    BY <1>7, <2>1, SpendRow DEF Cost, Required
  <2>3. ASSUME NEW x \in Names  PROVE EntrySettled(f, x)'
    <3>1. CASE x = c
      BY <1>7, <2>2, <3>1, SpendRow, SpendSettles DEF EntrySettled
    <3>2. CASE x # c
      BY <1>7, <2>1, <2>2, <3>2, SpendRow DEF EntrySettled
    <3>3. QED  BY <3>1, <3>2
  <2>4. FieldInv(f)'
    BY <1>7, <2>1, <2>3, SpendRow DEF FieldInv
  <2>5. \A g \in Fields : g # f => FieldInv(g)'
    BY <1>7, <2>1, SpendRow, OtherFields
  <2>6. MutexInv'
    BY <1>7, <2>1, SpendRow DEF MutexInv
  <2>7. QED  BY <2>4, <2>5, <2>6
<1>8. CASE UNCHANGED hvars
  BY <1>0, <1>8 DEF hvars, MutexInv, FieldInv, EntrySettled, Cost, Required
<1>9. QED
  BY <1>1, <1>2, <1>3, <1>4, <1>5, <1>6, <1>7, <1>8 DEF Next, Step

LEMMA InvKept == HolderInv /\ [Next]_hvars => HolderInv'
BY TypesKept, FieldsKept DEF HolderInv

(* For any number of sibling fields, names and grants, Proofs never takes a *)
(* one-shot counter of the holder below zero, in any order of its steps.    *)
THEOREM HolderTypes == Spec => []TypeOK
<1>1. HolderInv => TypeOK
  BY DEF HolderInv
<1>2. QED  BY <1>1, InitInv, InvKept, PTL DEF Spec

-----------------------------------------------------------------------------
(* The refinement.  What Allowances sees of the holder.                     *)

Avail == [c \in Names |-> oneShot[c] + InFlight(c)]
Asked == [f \in Fields |-> field[f].claims]
Verdicts == [f \in Fields |-> Verdict(f)]

LEMMA NothingInFlight ==
  ASSUME HolderInv, mu = None \/ (mu \in Fields /\ field[mu].pc # "spend")
  PROVE  Avail = oneShot /\ \A c \in Names : Avail[c] = oneShot[c] /\ oneShot[c] \in Nat
<1>1. \A c \in Names : InFlight(c) = 0
  BY DEF InFlight
<1>2. oneShot \in [Names -> Nat]
  BY DEF HolderInv, TypeOK
<1>3. QED  BY <1>1, <1>2 DEF Avail

LEMMA AvailIsNat == HolderInv => \A c \in Names : Avail[c] \in Nat
<1> SUFFICES ASSUME HolderInv, NEW c \in Names PROVE Avail[c] \in Nat
  OBVIOUS
<1>1. oneShot[c] \in Nat /\ (mu # None => field[mu].taken[c] \in Nat)
  BY DEF HolderInv, TypeOK
<1>2. InFlight(c) \in Nat
  BY <1>1 DEF InFlight
<1>3. QED  BY <1>1, <1>2 DEF Avail

(* A step of a goroutine that does not hold the mutex moves no grant.       *)
LEMMA AvailStands ==
  ASSUME HolderInv, NEW f \in Fields, mu # f,
         UNCHANGED <<oneShot, mu>>,
         \A g \in Fields : g # f => field'[g] = field[g]
  PROVE  Avail' = Avail
<1>1. mu # None => field'[mu] = field[mu]
  BY DEF HolderInv, TypeOK
<1>2. \A c \in Names : InFlight(c)' = InFlight(c)
  BY <1>1 DEF InFlight
<1>3. QED  BY <1>2 DEF Avail

LEMMA Decides ==
  ASSUME HolderInv, NEW f \in Fields, NEW at \in {"ok", "denied"}, GoTo(f, at),
         field[f].pc \notin {"ok", "denied"}
  PROVE  Verdicts[f] = "none" /\ Verdicts' = [Verdicts EXCEPT ![f] = at] /\ Asked' = Asked
<1>1. /\ field'[f].pc = at /\ field'[f].claims = field[f].claims
      /\ \A g \in Fields : g # f => field'[g] = field[g]
  BY GoToRow
<1>2. QED  BY <1>1 DEF Verdicts, Verdict, Asked

(* A step that neither asks nor decides. *)
LEMMA Undecided ==
  ASSUME HolderInv, NEW f \in Fields,
         field'[f].claims = field[f].claims,
         field[f].pc \notin {"ok", "denied"}, field'[f].pc \notin {"ok", "denied"},
         \A g \in Fields : g # f => field'[g] = field[g]
  PROVE  Verdicts' = Verdicts /\ Asked' = Asked
BY DEF Verdicts, Verdict, Asked

LEMMA InitPromise == Init => Promise!Init
<1> SUFFICES ASSUME Init PROVE Promise!Init
  OBVIOUS
<1>1. HolderInv /\ mu = None /\ oneShot = Nothing
  BY InitInv DEF Init
<1>2. Avail = Nothing
  BY <1>1, NothingInFlight
<1>3. Asked = [f \in Fields |-> Nothing] /\ Verdicts = [f \in Fields |-> "none"]
  BY DEF Init, IdleField, Asked, Verdicts, Verdict
<1>4. recurring \in SUBSET (Names \ {Blank}) /\ (mounted /\ ~loadErr) \in BOOLEAN
  BY DEF Init
<1>5. QED
  BY <1>2, <1>3, <1>4
  DEF Promise!Init, Promise!Nothing, Nothing, Avail, Asked, Verdicts

(* The three steps that Allowances sees of a call of Proofs.                *)

LEMMA AddsAreGrants ==
  ASSUME HolderInv, HolderInv', NEW c \in Names \ {Blank}, AddOneShot(c) \/ AddRecurring(c)
  PROVE  Promise!Grant(c) \/ Promise!Stand(c)
<1>1. /\ mu = None /\ UNCHANGED <<mounted, loadErr, mu, field>>
  BY DEF AddOneShot, AddRecurring
<1>2. Avail = oneShot /\ Avail' = oneShot'
  BY <1>1, NothingInFlight DEF InFlight, Avail, HolderInv, TypeOK
<1>3. Asked' = Asked /\ Verdicts' = Verdicts
  BY <1>1 DEF Asked, Verdicts, Verdict
<1>4. CASE AddOneShot(c)
  <2>1. Avail' = [Avail EXCEPT ![c] = @ + 1] /\ recurring' = recurring
    BY <1>2, <1>4 DEF AddOneShot
  <2>2. QED
    BY <1>1, <1>3, <2>1 DEF Promise!Grant, Avail, Asked, Verdicts
<1>5. CASE AddRecurring(c)
  <2>1. Avail' = Avail /\ recurring' = recurring \cup {c}
    BY <1>2, <1>5 DEF AddRecurring
  <2>2. QED
    BY <1>1, <1>3, <2>1 DEF Promise!Stand, Avail, Asked, Verdicts
<1>6. QED  BY <1>4, <1>5

LEMMA ProofsIsAsk ==
  ASSUME HolderInv, NEW f \in Fields, NEW claims \in Demands, Proofs(f, claims)
  PROVE  Promise!Ask(f, claims)
<1>1. /\ field[f].pc = "idle" /\ field[f].claims = Nothing
      /\ UNCHANGED <<mounted, loadErr, recurring, oneShot, mu>>
  BY DEF Proofs, HolderInv, FieldInv
<1>2. mu # f
  BY <1>1, NobodyHoldsNothing DEF HolderInv, MutexInv
<1>3. /\ field'[f].pc = "called" /\ field'[f].claims = claims
      /\ \A g \in Fields : g # f => field'[g] = field[g]
  BY ProofsRow
<1>4. Avail' = Avail
  BY <1>1, <1>2, <1>3, AvailStands
<1>5. Asked' = [Asked EXCEPT ![f] = claims] /\ Asked[f] = Nothing
  BY <1>1, <1>3 DEF Asked
<1>6. Verdicts' = Verdicts /\ Verdicts[f] = "none"
  BY <1>1, <1>3 DEF Verdicts, Verdict
<1>7. QED
  BY <1>1, <1>4, <1>5, <1>6
  DEF Promise!Ask, Promise!Nothing, Nothing, Avail, Asked, Verdicts

LEMMA NoLockDecides ==
  ASSUME HolderInv, NEW f \in Fields, NoLock(f)
  PROVE  Promise!Met(f) \/ Promise!Denied(f)
<1>1. field[f].pc = "called" /\ UNCHANGED <<mounted, loadErr, recurring, oneShot, mu>>
  BY DEF NoLock
<1>2. mu # f
  BY <1>1, NobodyHoldsNothing DEF HolderInv, MutexInv
<1>3. Asked[f] = field[f].claims
  BY DEF Asked
<1>4. CASE field[f].claims = Nothing /\ GoTo(f, "ok")
  <2>1. Verdicts[f] = "none" /\ Verdicts' = [Verdicts EXCEPT ![f] = "ok"] /\ Asked' = Asked
    BY <1>1, <1>4, Decides
  <2>2. Avail' = Avail
    BY <1>1, <1>2, <1>4, GoToRow, AvailStands
  <2>3. \A c \in Names : Promise!Cost(Asked[f])[c] = 0
    BY <1>3, <1>4 DEF Promise!Cost, Nothing
  <2>4. \A c \in Names : Promise!Cost(Asked[f])[c] <= Avail[c]
    BY <2>3, AvailIsNat
  <2>5. Avail' = [c \in Names |-> Avail[c] - Promise!Cost(Asked[f])[c]]
    BY <2>2, <2>3, AvailIsNat DEF Avail
  <2>6. Asked[f] = Promise!Nothing
    BY <1>3, <1>4 DEF Promise!Nothing, Nothing
  <2>7. QED
    BY <1>1, <2>1, <2>4, <2>5, <2>6 DEF Promise!Met, Avail, Asked, Verdicts
<1>5. CASE field[f].claims # Nothing /\ ~mounted /\ GoTo(f, "denied")
  <2>1. Verdicts[f] = "none" /\ Verdicts' = [Verdicts EXCEPT ![f] = "denied"] /\ Asked' = Asked
    BY <1>1, <1>5, Decides
  <2>2. Avail' = Avail
    BY <1>1, <1>2, <1>5, GoToRow, AvailStands
  <2>3. Asked[f] # Promise!Nothing
    BY <1>3, <1>5 DEF Promise!Nothing, Nothing
  <2>4. QED
    BY <1>1, <1>5, <2>1, <2>2, <2>3 DEF Promise!Denied, Avail, Asked, Verdicts
<1>6. QED  BY <1>4, <1>5 DEF NoLock

LEMMA CheckFailsDenies ==
  ASSUME HolderInv, HolderInv', NEW f \in Fields, CheckFails(f)
  PROVE  Promise!Denied(f)
<1>1. /\ field[f].pc = "check" /\ ~Covered(f) /\ GoTo(f, "denied") /\ mu' = None
      /\ UNCHANGED <<mounted, loadErr, recurring, oneShot>>
      /\ mu = f /\ field[f].claims # Nothing
  BY DEF CheckFails, HolderInv, FieldInv
<1>2. Verdicts[f] = "none" /\ Verdicts' = [Verdicts EXCEPT ![f] = "denied"] /\ Asked' = Asked
  BY <1>1, Decides
<1>3. Avail = oneShot /\ Avail' = oneShot'
  BY <1>1, NothingInFlight DEF InFlight, Avail, HolderInv, TypeOK
<1>4. Asked[f] = field[f].claims /\ Asked[f] # Promise!Nothing
  BY <1>1 DEF Asked, Promise!Nothing, Nothing
<1>5. \A c \in Names : /\ Promise!Cost(Asked[f])[c] = Cost(f)[c]
                       /\ Cost(f)[c] \in Nat /\ Avail[c] = oneShot[c] /\ oneShot[c] \in Nat
  BY <1>3, <1>4, ClaimsAreABag DEF Promise!Cost, Cost, Required, HolderInv, TypeOK
<1>6. Asked[f][Blank] \in Nat
  BY <1>4, ClaimsAreABag, NamesAreNamed DEF HolderInv
<1>7. \/ ~(mounted /\ ~loadErr)
      \/ Asked[f][Blank] > 0
      \/ \E c \in Names : Promise!Cost(Asked[f])[c] > Avail[c]
  BY <1>1, <1>4, <1>5, <1>6 DEF Covered, Cost
<1>8. QED
  BY <1>1, <1>2, <1>3, <1>4, <1>7 DEF Promise!Denied, Avail, Asked, Verdicts

LEMMA UnlockMeets ==
  ASSUME HolderInv, HolderInv', NEW f \in Fields, Unlock(f)
  PROVE  Promise!Met(f)
<1>1. /\ field[f].pc = "spend" /\ field[f].due = Nothing /\ GoTo(f, "ok") /\ mu' = None
      /\ UNCHANGED <<mounted, loadErr, recurring, oneShot>>
      /\ mu = f /\ mounted /\ ~loadErr /\ field[f].claims[Blank] = 0
      /\ \A c \in Names : EntrySettled(f, c)
  BY DEF Unlock, HolderInv, FieldInv
<1>2. Verdicts[f] = "none" /\ Verdicts' = [Verdicts EXCEPT ![f] = "ok"] /\ Asked' = Asked
  BY <1>1, Decides
<1>3. Avail' = oneShot'
  BY <1>1 DEF InFlight, Avail, HolderInv, TypeOK
<1>4. Asked[f] = field[f].claims
  BY DEF Asked
<1>5. ASSUME NEW c \in Names
      PROVE  /\ Promise!Cost(Asked[f])[c] = Cost(f)[c] /\ Cost(f)[c] \in Nat
             /\ Avail[c] = oneShot[c] + Cost(f)[c] /\ oneShot[c] \in Nat
  <2>1. Promise!Cost(Asked[f])[c] = Cost(f)[c]
    BY <1>4 DEF Promise!Cost, Cost, Required
  <2>2. Cost(f)[c] \in Nat /\ oneShot[c] \in Nat
    BY ClaimsAreABag DEF HolderInv, TypeOK
  <2>3. field[f].taken[c] = Cost(f)[c]
    BY <1>1, <2>2, NothingIsABag DEF EntrySettled
  <2>4. InFlight(c) = field[f].taken[c]
    BY <1>1, NobodyHoldsNothing DEF InFlight
  <2>5. QED  BY <2>1, <2>2, <2>3, <2>4 DEF Avail
<1>6. \A c \in Names : Promise!Cost(Asked[f])[c] <= Avail[c]
  BY <1>5
<1>7. \A c \in Names : Avail[c] - Promise!Cost(Asked[f])[c] = oneShot[c]
  BY <1>5
<1>8. Avail' = [c \in Names |-> Avail[c] - Promise!Cost(Asked[f])[c]]
  BY <1>1, <1>3, <1>7 DEF HolderInv, TypeOK
<1>9. QED
  BY <1>1, <1>2, <1>4, <1>6, <1>8 DEF Promise!Met, Avail, Asked, Verdicts

LEMMA InsideTheLock ==
  ASSUME HolderInv, HolderInv', NEW f \in Fields,
         Lock(f) \/ Check(f) \/ \E c \in Names : SpendOne(f, c)
  PROVE  UNCHANGED Promise!avars
<1>1. CASE Lock(f)
  <2>1. /\ field[f].pc = "called" /\ mu = None /\ mu' = f /\ GoTo(f, "check")
        /\ UNCHANGED <<mounted, loadErr, recurring, oneShot>>
    BY <1>1 DEF Lock
  <2>2. field'[f].pc = "check"
    BY <2>1, GoToRow
  <2>3. Avail' = Avail
    BY <2>1, <2>2 DEF Avail, InFlight
  <2>4. Verdicts' = Verdicts /\ Asked' = Asked
    BY <2>1, GoToRow, Undecided
  <2>5. QED  BY <2>1, <2>3, <2>4 DEF Promise!avars, Avail, Asked, Verdicts
<1>2. CASE Check(f)
  <2>1. /\ field[f].pc = "check" /\ mu = f /\ field[f].taken = Nothing
        /\ UNCHANGED <<mounted, loadErr, recurring, oneShot, mu>>
    BY <1>2 DEF Check, HolderInv, FieldInv
  <2>2. ASSUME NEW c \in Names  PROVE InFlight(c)' = InFlight(c)
    BY <1>2, <2>1, CheckRow, NothingIsABag DEF InFlight
  <2>3. Avail' = Avail
    BY <2>1, <2>2 DEF Avail
  <2>4. Verdicts' = Verdicts /\ Asked' = Asked
    BY <1>2, <2>1, CheckRow, Undecided
  <2>5. QED  BY <2>1, <2>3, <2>4 DEF Promise!avars, Avail, Asked, Verdicts
<1>3. ASSUME NEW c \in Names, SpendOne(f, c)  PROVE UNCHANGED Promise!avars
  <2>1. /\ field[f].pc = "spend" /\ mu = f
        /\ UNCHANGED <<mounted, loadErr, recurring, mu>>
    BY <1>3 DEF SpendOne, HolderInv, FieldInv
  <2>2. ASSUME NEW x \in Names  PROVE (oneShot[x] + InFlight(x))' = oneShot[x] + InFlight(x)
    <3>1. /\ InFlight(x) = field[f].taken[x] /\ InFlight(x)' = field'[f].taken[x]
      BY <1>3, <2>1, SpendRow, NobodyHoldsNothing DEF InFlight
    <3>2. CASE x = c
      <4>1. /\ field[f].taken[x] = 0 /\ field'[f].taken[x] = field[f].due[x]
            /\ oneShot'[x] = oneShot[x] - field[f].due[x]
            /\ field[f].due[x] \in Nat /\ oneShot[x] \in Nat
        BY <1>3, <3>2, SpendRow, SpendSettles
      <4>2. QED  BY <3>1, <4>1
    <3>3. CASE x # c
      BY <1>3, <3>1, <3>3, SpendRow
    <3>4. QED  BY <3>2, <3>3
  <2>3. Avail' = Avail
    BY <2>2 DEF Avail
  <2>4. Verdicts' = Verdicts /\ Asked' = Asked
    BY <1>3, <2>1, SpendRow, Undecided
  <2>5. QED  BY <2>1, <2>3, <2>4 DEF Promise!avars, Avail, Asked, Verdicts
<1>4. QED  BY <1>1, <1>2, <1>3

LEMMA StepPromise ==
  HolderInv /\ HolderInv' /\ [Next]_hvars => [Promise!Next]_(Promise!avars)
<1> SUFFICES ASSUME HolderInv, HolderInv', [Next]_hvars
             PROVE  Promise!Next \/ UNCHANGED Promise!avars
  OBVIOUS
<1>1. ASSUME NEW c \in Names \ {Blank}, AddOneShot(c) \/ AddRecurring(c)
      PROVE  Promise!Next
  BY <1>1, AddsAreGrants DEF Promise!Next
<1>2. ASSUME NEW f \in Fields, NEW claims \in Demands, Proofs(f, claims)
      PROVE  Promise!Next
  BY <1>2, ProofsIsAsk DEF Promise!Next
<1>3. ASSUME NEW f \in Fields, NoLock(f) \/ CheckFails(f) \/ Unlock(f)
      PROVE  Promise!Next
  BY <1>3, NoLockDecides, CheckFailsDenies, UnlockMeets DEF Promise!Next
<1>4. ASSUME NEW f \in Fields, Lock(f) \/ Check(f) \/ \E c \in Names : SpendOne(f, c)
      PROVE  UNCHANGED Promise!avars
  BY <1>4, InsideTheLock
<1>5. CASE UNCHANGED hvars
  BY <1>5 DEF hvars, Promise!avars, InFlight, Verdict
<1>6. QED
  BY <1>1, <1>2, <1>3, <1>4, <1>5 DEF Next, Step

(* The holder implements Allowances: a field's demand is met whole and paid *)
(* for entry by entry, or refused and paid nothing, as if in one step.      *)
THEOREM HolderImplementsAllowances == Spec => RefinesAllowances
<1>1. QED
  BY InitInv, InvKept, InitPromise, StepPromise, PTL
  DEF Spec, RefinesAllowances, Promise!Spec

-----------------------------------------------------------------------------
(* Sums over a finite set.  SumFunction is a recursive function on the       *)
(* subsets of its domain; what follows is by induction on their size, as     *)
(* the absence of a least counterexample.                                    *)

\* What holds of zero, and of the successor of each number it holds of, holds of all.
LEMMA NumbersUp ==
  ASSUME NEW S, 0 \in S, \A n \in Nat : n \in S => n + 1 \in S
  PROVE  \A n \in Nat : n \in S
<1> DEFINE T == Nat \ S
           R == OpToRel(<, Nat)
<1> SUFFICES ASSUME T # {} PROVE FALSE
  OBVIOUS
<1>1. IsWellFoundedOn(R, Nat)
  BY NatLessThanWellFounded
<1>2. \A m, n \in Nat : m < n => <<m, n>> \in R
  BY DEF OpToRel
<1>3. T \subseteq Nat
  OBVIOUS
<1> HIDE DEF R
<1>4. PICK n \in T : \A m \in T : ~ (<<m, n>> \in R)
  <2> HIDE DEF T
  <2> QED
    BY <1>1, <1>3, WFMin
<1>5. n \in Nat /\ n # 0 /\ n - 1 \in Nat /\ (n - 1) + 1 = n /\ n - 1 < n
  OBVIOUS
<1>6. n - 1 \notin T
  BY <1>2, <1>4, <1>5
<1> QED
  BY <1>4, <1>5, <1>6

\* The element a sum over s takes first.
First(s) == CHOOSE x \in s : TRUE

LEMMA FirstShrinks ==
  ASSUME NEW D, IsFiniteSet(D), NEW s \in SUBSET D
  PROVE  /\ IsFiniteSet(s) /\ Cardinality(s) \in Nat
         /\ s # {} => /\ First(s) \in s /\ s \ {First(s)} \in SUBSET D
                      /\ Cardinality(s) # 0
                      /\ Cardinality(s \ {First(s)}) = Cardinality(s) - 1
<1>1. IsFiniteSet(s)
  BY FS_Subset
<1>2. s # {} => First(s) \in s
  BY DEF First
<1> QED
  BY <1>1, <1>2, FS_CardinalityType, FS_EmptySet, FS_RemoveElement

\* What holds of the empty set, and of each set one element larger, holds of all.
LEMMA SubsetsUp ==
  ASSUME NEW D, IsFiniteSet(D),
         NEW S, {} \in S, \A s \in SUBSET D : s # {} /\ s \ {First(s)} \in S => s \in S
  PROVE  \A s \in SUBSET D : s \in S
<1> DEFINE Small(n) == {s \in SUBSET D : Cardinality(s) = n}
           N == {n \in Nat : \A s \in Small(n) : s \in S}
<1>1. 0 \in N
  BY FirstShrinks
<1>2. ASSUME NEW n \in Nat, n \in N
      PROVE  n + 1 \in N
  <2>1. ASSUME NEW s \in Small(n + 1)
        PROVE  s \in S
    <3>1. s # {}
      <4>1. Cardinality(s) # 0
        OBVIOUS
      <4> QED
        BY <4>1, FS_EmptySet
    <3>2. s \ {First(s)} \in Small(n)
      BY <3>1, FirstShrinks
    <3> QED
      BY <1>2, <3>1, <3>2
  <2> QED
    BY <2>1
<1>3. \A n \in Nat : n \in N
  <2> HIDE DEF N
  <2> QED
    BY <1>1, <1>2, NumbersUp
<1> QED
  BY <1>3, FirstShrinks

(* SumFunction is the fold it is defined by: the recursion has a solution.   *)
SumsUp(fun, D, sum) ==
  /\ SumFunction(fun) = sum[D]
  /\ \A s \in SUBSET D :
       sum[s] = IF s = {} THEN 0 ELSE fun[First(s)] + sum[s \ {First(s)}]

LEMMA SumRecurses ==
  ASSUME NEW D, IsFiniteSet(D), NEW fun, DOMAIN fun = D
  PROVE  \E sum : SumsUp(fun, D, sum)
<1> DEFINE Def(g, s) == IF s = {} THEN 0 ELSE fun[First(s)] + g[s \ {First(s)}]
           Small(n) == {s \in SUBSET D : Cardinality(s) <= n}
           N == {n \in Nat : \E g : \A s \in Small(n) : g[s] = Def(g, s)}
<1>0. \A s \in SUBSET D :
        /\ IsFiniteSet(s) /\ Cardinality(s) \in Nat
        /\ s # {} => /\ First(s) \in s /\ s \ {First(s)} \in SUBSET D
                     /\ Cardinality(s) # 0
                     /\ Cardinality(s \ {First(s)}) = Cardinality(s) - 1
  BY FirstShrinks
<1>1. 0 \in N
  <2> DEFINE g == [s \in {{}} |-> 0]
  <2>1. \A s \in Small(0) : s = {}
    <3> SUFFICES ASSUME NEW s \in SUBSET D, Cardinality(s) <= 0
                 PROVE  s = {}
      OBVIOUS
    <3>1. Cardinality(s) = 0
      <4>1. Cardinality(s) \in Nat
        BY <1>0
      <4> QED
        BY <4>1
    <3> QED
      BY <1>0, <3>1
  <2>2. \A s \in Small(0) : g[s] = Def(g, s)
    BY <2>1
  <2> HIDE DEF g
  <2> QED
    BY <2>2
<1>2. ASSUME NEW n \in Nat, n \in N
      PROVE  n + 1 \in N
  <2>1. PICK g : \A s \in Small(n) : g[s] = Def(g, s)
    BY <1>2
  <2> DEFINE h == [s \in SUBSET D |-> IF s \in Small(n) THEN g[s] ELSE Def(g, s)]
  <2>2. \A s \in Small(n + 1) : s # {} => s \ {First(s)} \in Small(n)
    BY <1>0
  <2>3. \A s \in Small(n) : h[s] = g[s]
    OBVIOUS
  <2>4. ASSUME NEW s \in Small(n + 1)
        PROVE  h[s] = Def(h, s)
    <3>1. s # {} => h[s \ {First(s)}] = g[s \ {First(s)}]
      BY <2>2, <2>3
    <3>2. h[s] = Def(g, s)
      BY <2>1
    <3> HIDE DEF h
    <3> QED
      BY <3>1, <3>2
  <2> HIDE DEF h, Small
  <2>5. \A s \in Small(n + 1) : h[s] = Def(h, s)
    BY <2>4
  <2> HIDE DEF Def
  <2> QED
    BY <2>5
<1>3. \A n \in Nat : n \in N
  <2> HIDE DEF N
  <2> QED
    BY <1>1, <1>2, NumbersUp
<1>4. PICK g : \A s \in SUBSET D : g[s] = Def(g, s)
  <2>1. Cardinality(D) \in N
    BY <1>0, <1>3
  <2>2. SUBSET D = Small(Cardinality(D))
    BY FS_Subset
  <2> QED
    BY <2>1, <2>2
<1> DEFINE sum == [s \in SUBSET D |-> g[s]]
<1>5. sum = [s \in SUBSET D |-> Def(sum, s)]
  BY <1>0, <1>4
<1> DEFINE It == CHOOSE p : p = [s \in SUBSET D |->
                    IF s = {} THEN 0 ELSE fun[First(s)] + p[s \ {First(s)}]]
<1>6. It = [s \in SUBSET D |-> Def(It, s)]
  <2> HIDE DEF sum
  <2> QED
    BY <1>5
<1>7. SumFunction(fun) = It[D]
  BY DEF SumFunction, SumFunctionOnSet, FoldFunctionOnSet, MapThenFoldSet, First
<1> HIDE DEF It
<1>8. \A s \in SUBSET D : It[s] = Def(It, s)
  BY <1>6
<1> QED
  BY <1>7, <1>8 DEF SumsUp

LEMMA SumSteps ==
  ASSUME NEW fun, NEW D, NEW sum, SumsUp(fun, D, sum)
  PROVE  /\ SumFunction(fun) = sum[D]
         /\ sum[{}] = 0
         /\ \A s \in SUBSET D : s # {} => sum[s] = fun[First(s)] + sum[s \ {First(s)}]
<1>1. {} \in SUBSET D
  OBVIOUS
<1> QED
  BY <1>1 DEF SumsUp

\* One entry of a sum changes by d, and so does the sum.
LEMMA SumMoves ==
  ASSUME NEW D, IsFiniteSet(D), NEW x \in D, NEW d \in Int,
         NEW fun \in [D -> Int], NEW gun \in [D -> Int],
         gun[x] = fun[x] + d, \A y \in D : y # x => gun[y] = fun[y]
  PROVE  SumFunction(gun) = SumFunction(fun) + d
<1>0. DOMAIN fun = D /\ DOMAIN gun = D
  OBVIOUS
<1>1. PICK f : SumsUp(fun, D, f)
  BY <1>0, SumRecurses
<1>2. PICK g : SumsUp(gun, D, g)
  BY <1>0, SumRecurses
<1> DEFINE S == {s \in SUBSET D : f[s] \in Int /\ g[s] = f[s] + (IF x \in s THEN d ELSE 0)}
<1>3. {} \in S
  <2>1. f[{}] = 0 /\ g[{}] = 0
    BY <1>1, <1>2, SumSteps
  <2> QED
    BY <2>1
<1>4. ASSUME NEW s \in SUBSET D, s # {}, s \ {First(s)} \in S
      PROVE  s \in S
  <2> DEFINE y == First(s)
             r == s \ {First(s)}
  <2>1. y \in s /\ y \in D /\ r \in SUBSET D
    BY <1>4, FirstShrinks
  <2>2. f[s] = fun[y] + f[r] /\ g[s] = gun[y] + g[r]
    BY <1>1, <1>2, <1>4, SumSteps
  <2>3. f[r] \in Int /\ g[r] = f[r] + (IF x \in r THEN d ELSE 0)
    BY <1>4
  <2>4. fun[y] \in Int /\ gun[y] \in Int
    BY <2>1
  <2>5. CASE y = x
    <3>1. x \in s /\ x \notin r
      BY <2>1, <2>5
    <3> HIDE DEF y, r
    <3> QED
      BY <2>2, <2>3, <2>4, <2>5, <3>1
  <2>6. CASE y # x
    <3>1. x \in s <=> x \in r
      BY <2>6
    <3>2. gun[y] = fun[y]
      BY <2>1, <2>6
    <3> HIDE DEF y, r
    <3> QED
      BY <2>2, <2>3, <2>4, <3>1, <3>2
  <2> QED
    BY <2>5, <2>6
<1>5. D \in S
  <2> HIDE DEF S
  <2> QED
    BY <1>3, <1>4, SubsetsUp
<1> QED
  BY <1>1, <1>2, <1>5, SumSteps

LEMMA SumOfZeros ==
  ASSUME NEW D, IsFiniteSet(D), NEW fun, DOMAIN fun = D, \A y \in D : fun[y] = 0
  PROVE  SumFunction(fun) = 0
<1>1. PICK f : SumsUp(fun, D, f)
  BY SumRecurses
<1> DEFINE S == {s \in SUBSET D : f[s] = 0}
<1>2. {} \in S
  BY <1>1, SumSteps
<1>3. ASSUME NEW s \in SUBSET D, s # {}, s \ {First(s)} \in S
      PROVE  s \in S
  <2>1. fun[First(s)] = 0
    BY <1>3, FirstShrinks
  <2>2. f[s] = fun[First(s)] + f[s \ {First(s)}]
    BY <1>1, <1>3, SumSteps
  <2>3. f[s \ {First(s)}] = 0
    BY <1>3
  <2>4. f[s] = 0
    BY <2>1, <2>2, <2>3
  <2> QED
    BY <2>4
<1>4. D \in S
  <2> HIDE DEF S
  <2> QED
    BY <1>2, <1>3, SubsetsUp
<1> QED
  BY <1>1, <1>4, SumSteps

LEMMA SumIsInt ==
  ASSUME NEW D, IsFiniteSet(D), NEW fun \in [D -> Int]
  PROVE  SumFunction(fun) \in Int
<1>0. DOMAIN fun = D
  OBVIOUS
<1>1. PICK f : SumsUp(fun, D, f)
  BY <1>0, SumRecurses
<1> DEFINE S == {s \in SUBSET D : f[s] \in Int}
<1>2. {} \in S
  BY <1>1, SumSteps
<1>3. ASSUME NEW s \in SUBSET D, s # {}, s \ {First(s)} \in S
      PROVE  s \in S
  <2>1. fun[First(s)] \in Int
    BY <1>3, FirstShrinks
  <2>2. f[s] = fun[First(s)] + f[s \ {First(s)}]
    BY <1>1, <1>3, SumSteps
  <2>3. f[s \ {First(s)}] \in Int
    BY <1>3
  <2>4. f[s] \in Int
    BY <2>1, <2>2, <2>3
  <2> QED
    BY <2>4
<1>4. D \in S
  <2> HIDE DEF S
  <2> QED
    BY <1>2, <1>3, SubsetsUp
<1> QED
  BY <1>1, <1>4, SumSteps

-----------------------------------------------------------------------------
(* The sum of what the fields of the request have taken. *)
TakenOf(c) == [f \in Fields |-> field[f].taken[c]]

LEMMA TakenIsCounted ==
  ASSUME HolderInv, NEW c \in Names
  PROVE  TakenOf(c) \in [Fields -> Int] /\ added[c] \in Nat /\ oneShot[c] \in Nat
<1>1. \A f \in Fields : field[f].taken[c] \in Nat
  BY DEF HolderInv, TypeOK
<1>2. added[c] \in Nat /\ oneShot[c] \in Nat
  BY GrantsAreNumbered DEF HolderInv, TypeOK
<1> QED
  BY <1>1, <1>2 DEF TakenOf

(* What was granted is in its counter or with the fields that took it.      *)
Counted == \A c \in Names : added[c] = oneShot[c] + SumFunction(TakenOf(c))

(* A field that passed took what it demanded; one that was refused, nothing. *)
Settled(f) ==
  /\ field[f].pc = "ok" =>
       \A c \in Names : field[f].taken[c] = field[f].claims[c] \/ c \in recurring
  /\ field[f].pc = "denied" => field[f].taken = Nothing

LEMMA NoGrantMoves ==
  ASSUME Counted, UNCHANGED <<oneShot, added>>,
         \A f \in Fields : field'[f].taken = field[f].taken
  PROVE  Counted'
<1>1. \A c \in Names : TakenOf(c)' = TakenOf(c)
  BY DEF TakenOf
<1>2. QED  BY <1>1 DEF Counted

\* Add counts the grant it puts in.
LEMMA AddIsCounted ==
  ASSUME HolderInv, Counted, NEW c \in Names, AddOneShot(c)
  PROVE  Counted'
<1>1. /\ oneShot' = [oneShot EXCEPT ![c] = @ + 1] /\ oneShot \in [Names -> Nat]
      /\ added' = [added EXCEPT ![c] = @ + 1] /\ added \in [Names -> 0..MaxGrants]
      /\ field' = field
  BY DEF AddOneShot, HolderInv, TypeOK
<1>2. ASSUME NEW x \in Names
      PROVE  added'[x] = oneShot'[x] + SumFunction(TakenOf(x)')
  <2> DEFINE sum == SumFunction(TakenOf(x))
  <2>1. added[x] = oneShot[x] + sum /\ added[x] \in Nat /\ oneShot[x] \in Nat
    BY TakenIsCounted DEF Counted
  <2>2. SumFunction(TakenOf(x)') = sum
    BY <1>1 DEF TakenOf
  <2>3. sum \in Int
    BY TakenIsCounted, SumIsInt, RequestIsFinite
  <2> HIDE DEF sum
  <2>4. CASE x = c
    <3>1. added'[x] = added[x] + 1 /\ oneShot'[x] = oneShot[x] + 1
      BY <1>1, <2>4
    <3> QED
      BY <2>1, <2>2, <2>3, <3>1
  <2>5. CASE x # c
    BY <1>1, <2>1, <2>2, <2>5
  <2> QED
    BY <2>4, <2>5
<1>3. QED  BY <1>2 DEF Counted

\* What leaves a counter is in the hands of the field that took it.
LEMMA SpendIsCounted ==
  ASSUME HolderInv, Counted, NEW f \in Fields, NEW c \in Names, SpendOne(f, c)
  PROVE  Counted'
<1> DEFINE due == field[f].due[c]
<1>1. field[f].taken[c] = 0 /\ due \in Nat /\ added' = added
  BY SpendSettles DEF SpendOne
<1>2. /\ field'[f].taken[c] = due
      /\ \A x \in Names : x # c => field'[f].taken[x] = field[f].taken[x] /\ oneShot'[x] = oneShot[x]
      /\ oneShot'[c] = oneShot[c] - due
      /\ \A g \in Fields : g # f => field'[g] = field[g]
  BY SpendRow
<1> HIDE DEF due
<1>3. ASSUME NEW x \in Names, x # c
      PROVE  added'[x] = oneShot'[x] + SumFunction(TakenOf(x)')
  <2>1. TakenOf(x)' = TakenOf(x)
    BY <1>2, <1>3 DEF TakenOf
  <2> QED
    BY <1>1, <1>2, <1>3, <2>1 DEF Counted
<1>4. added'[c] = oneShot'[c] + SumFunction(TakenOf(c)')
  <2> DEFINE fun == TakenOf(c)
             gun == TakenOf(c)'
  <2>1. fun \in [Fields -> Int] /\ added[c] \in Nat /\ oneShot[c] \in Nat
    BY TakenIsCounted
  <2>2. /\ gun = [g \in Fields |-> field'[g].taken[c]]
        /\ \A g \in Fields : fun[g] = field[g].taken[c]
    BY DEF TakenOf
  <2>3. gun[f] = fun[f] + due /\ \A g \in Fields : g # f => gun[g] = fun[g]
    BY <1>1, <1>2, <2>2
  <2>4. gun \in [Fields -> Int]
    <3>1. \A g \in Fields : gun[g] \in Int
      BY <1>1, <2>1, <2>3
    <3> QED
      BY <2>2, <3>1
  <2>5. added[c] = oneShot[c] + SumFunction(fun)
    BY DEF Counted
  <2> HIDE DEF fun, gun
  <2>6. SumFunction(gun) = SumFunction(fun) + due
    BY <1>1, <2>1, <2>3, <2>4, RequestIsFinite, SumMoves
  <2>7. SumFunction(fun) \in Int
    BY <2>1, SumIsInt, RequestIsFinite
  <2>8. added'[c] = oneShot'[c] + SumFunction(gun)
    BY <1>1, <1>2, <2>1, <2>5, <2>6, <2>7
  <2> QED
    BY <2>8 DEF gun
<1>5. QED  BY <1>3, <1>4 DEF Counted

LEMMA CountedKept ==
  ASSUME HolderInv, Counted, [Next]_hvars
  PROVE  Counted'
<1>1. ASSUME NEW c \in Names \ {Blank}, AddRecurring(c)
      PROVE  Counted'
  BY <1>1, NoGrantMoves DEF AddRecurring
<1>2. ASSUME NEW f \in Fields, NEW claims \in Demands, Proofs(f, claims)
      PROVE  Counted'
  <2>1. UNCHANGED <<oneShot, added>>
    BY <1>2 DEF Proofs
  <2>2. QED  BY <1>2, <2>1, ProofsRow, NoGrantMoves
<1>3. ASSUME NEW f \in Fields, Check(f)
      PROVE  Counted'
  <2>1. UNCHANGED <<oneShot, added>>
    BY <1>3 DEF Check
  <2>2. QED  BY <1>3, <2>1, CheckRow, NoGrantMoves
<1>4. ASSUME NEW f \in Fields, NoLock(f) \/ Lock(f) \/ CheckFails(f) \/ Unlock(f)
      PROVE  Counted'
  <2>1. UNCHANGED <<oneShot, added>> /\ \E at : GoTo(f, at)
    BY <1>4 DEF NoLock, Lock, CheckFails, Unlock
  <2>2. QED  BY <2>1, GoToRow, NoGrantMoves
<1>5. CASE UNCHANGED hvars
  BY <1>5, NoGrantMoves DEF hvars
<1>6. QED
  BY <1>1, <1>2, <1>3, <1>4, <1>5, AddIsCounted, SpendIsCounted DEF Next, Step

LEMMA SettledKept ==
  ASSUME HolderInv, \A f \in Fields : Settled(f), [Next]_hvars
  PROVE  \A f \in Fields : Settled(f)'
<1>1. ASSUME NEW f \in Fields, field'[f].pc \notin {"ok", "denied"},
             \A g \in Fields : g # f => field'[g] = field[g],
             recurring' = recurring
      PROVE  \A g \in Fields : Settled(g)'
  BY <1>1 DEF Settled
<1>2. ASSUME NEW c \in Names \ {Blank}, AddOneShot(c) \/ AddRecurring(c)
      PROVE  \A f \in Fields : Settled(f)'
  <2>1. field' = field /\ recurring \subseteq recurring'
    BY <1>2 DEF AddOneShot, AddRecurring
  <2>2. QED  BY <2>1 DEF Settled
<1>3. ASSUME NEW f \in Fields, NEW claims \in Demands, Proofs(f, claims)
      PROVE  \A g \in Fields : Settled(g)'
  BY <1>1, <1>3, ProofsRow DEF Proofs
<1>4. ASSUME NEW f \in Fields, Check(f)
      PROVE  \A g \in Fields : Settled(g)'
  BY <1>1, <1>4, CheckRow DEF Check
<1>5. ASSUME NEW f \in Fields, NEW c \in Names, SpendOne(f, c)
      PROVE  \A g \in Fields : Settled(g)'
  BY <1>1, <1>5, SpendRow DEF SpendOne
<1>6. ASSUME NEW f \in Fields, Lock(f)
      PROVE  \A g \in Fields : Settled(g)'
  BY <1>1, <1>6, GoToRow DEF Lock
<1>7. ASSUME NEW f \in Fields, NoLock(f) \/ CheckFails(f)
      PROVE  \A g \in Fields : Settled(g)'
  <2>1. /\ recurring' = recurring /\ field[f].taken = Nothing
        /\ GoTo(f, "denied") \/ (GoTo(f, "ok") /\ field[f].claims = Nothing)
    BY <1>7 DEF NoLock, CheckFails, HolderInv, FieldInv
  <2>2. QED  BY <2>1, GoToRow DEF Settled
<1>8. ASSUME NEW f \in Fields, Unlock(f)
      PROVE  \A g \in Fields : Settled(g)'
  <2>1. /\ recurring' = recurring /\ field[f].due = Nothing /\ GoTo(f, "ok")
        /\ \A c \in Names : EntrySettled(f, c)
    BY <1>8 DEF Unlock, HolderInv, FieldInv
  <2>2. ASSUME NEW c \in Names
        PROVE  field[f].taken[c] = field[f].claims[c] \/ c \in recurring
    <3>1. field[f].due[c] = 0 /\ (field[f].due[c] = Cost(f)[c] => Cost(f)[c] = 0)
      BY <2>1, NothingIsABag
    <3>2. field[f].taken[c] = Cost(f)[c]
      BY <2>1, <3>1 DEF EntrySettled
    <3>3. QED  BY <3>2 DEF Cost, Required
  <2>3. QED  BY <2>1, <2>2, GoToRow DEF Settled
<1>9. CASE UNCHANGED hvars
  BY <1>9 DEF hvars, Settled
<1>10. QED
  BY <1>2, <1>3, <1>4, <1>5, <1>6, <1>7, <1>8, <1>9 DEF Next, Step

(* Grants that are counted and settled are not shared: between its check    *)
(* and its unlock only the holder of the mutex has taken what it has not    *)
(* yet passed on.                                                           *)
LEMMA NotShared ==
  ASSUME HolderInv, Counted, \A f \in Fields : Settled(f)
  PROVE  GrantsAreNotShared
<1> SUFFICES ASSUME NEW c \in Names, c \notin recurring
             PROVE  LET met == [f \in Fields |->
                                  IF field[f].pc = "ok" THEN field[f].claims[c] ELSE 0]
                    IN  /\ SumFunction(met) <= added[c]
                        /\ mu = None => oneShot[c] = added[c] - SumFunction(met)
  BY DEF GrantsAreNotShared
<1> DEFINE met == [f \in Fields |-> IF field[f].pc = "ok" THEN field[f].claims[c] ELSE 0]
           took == TakenOf(c)
<1>1. took \in [Fields -> Int] /\ added[c] \in Nat /\ oneShot[c] \in Nat
  BY TakenIsCounted
<1>2. /\ SumFunction(took) \in Int
      /\ added[c] = oneShot[c] + SumFunction(took)
  BY <1>1, SumIsInt, RequestIsFinite DEF Counted
<1>3. ASSUME NEW f \in Fields, f # mu
      PROVE  took[f] = met[f]
  <2>1. took[f] = field[f].taken[c]
    BY DEF TakenOf
  <2>2. field[f].pc \in {"idle", "called", "ok", "denied"}
    BY <1>3 DEF HolderInv, TypeOK, FieldInv
  <2>3. field[f].pc # "ok" => field[f].taken[c] = 0
    BY <2>2, NothingIsABag DEF HolderInv, FieldInv, Settled
  <2>4. field[f].pc = "ok" => field[f].taken[c] = field[f].claims[c]
    BY DEF Settled
  <2>5. QED  BY <2>1, <2>3, <2>4
<1>4. CASE mu = None
  <2>1. \A f \in Fields : took[f] = met[f]
    BY <1>3, <1>4, NobodyHoldsNothing
  <2>2. took = met
    BY <2>1 DEF TakenOf
  <2> HIDE DEF took, met
  <2>3. QED  BY <1>1, <1>2, <2>2 DEF met
<1>5. CASE mu # None
  <2>1. mu \in Fields /\ field[mu].pc \in {"check", "spend"} /\ field[mu].taken[c] \in Nat
    BY <1>5 DEF HolderInv, MutexInv, TypeOK
  <2>2. took[mu] = field[mu].taken[c] /\ met[mu] = 0
    BY <2>1 DEF TakenOf
  <2>3. met \in [Fields -> Int]
    <3>1. \A f \in Fields : met[f] \in Int
      BY <1>1, <1>3, <2>2
    <3>2. QED  BY <3>1
  <2> DEFINE d == -took[mu]
  <2>4. d \in Int /\ met[mu] = took[mu] + d /\ took[mu] \in Nat
    BY <2>1, <2>2
  <2> HIDE DEF took, met, d
  <2>5. SumFunction(met) = SumFunction(took) + d
    BY <1>1, <1>3, <2>1, <2>3, <2>4, RequestIsFinite, SumMoves
  <2>6. SumFunction(met) <= added[c]
    BY <1>1, <1>2, <2>2, <2>4, <2>5
  <2>7. QED  BY <1>5, <2>6 DEF met
<1>6. QED  BY <1>4, <1>5

(* GrantsAreNotShared, for any finite number of sibling fields and any      *)
(* names, demands and grants: no two fields pass on the same grant of Add,  *)
(* and a field that is refused spends none.                                 *)
THEOREM GrantsNotShared == Spec => []GrantsAreNotShared
<1> DEFINE Inv == HolderInv /\ Counted /\ \A f \in Fields : Settled(f)
<1>1. Init => Inv
  <2> SUFFICES ASSUME Init PROVE Inv
    OBVIOUS
  <2>1. ASSUME NEW c \in Names
        PROVE  added[c] = oneShot[c] + SumFunction(TakenOf(c))
    <3>1. DOMAIN TakenOf(c) = Fields /\ \A f \in Fields : TakenOf(c)[f] = 0
      BY NothingIsABag DEF Init, IdleField, TakenOf
    <3>2. SumFunction(TakenOf(c)) = 0
      BY <3>1, SumOfZeros, RequestIsFinite
    <3>3. added[c] = 0 /\ oneShot[c] = 0
      BY NothingIsABag DEF Init
    <3>4. QED  BY <3>2, <3>3
  <2>2. \A f \in Fields : Settled(f)
    BY DEF Init, IdleField, Settled
  <2>3. QED  BY <2>1, <2>2, InitInv DEF Counted
<1>2. Inv /\ [Next]_hvars => Inv'
  BY InvKept, CountedKept, SettledKept
<1>3. Inv => GrantsAreNotShared
  BY NotShared
<1>4. QED  BY <1>1, <1>2, <1>3, PTL DEF Spec
=============================================================================
