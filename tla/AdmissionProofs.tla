-------------------------- MODULE AdmissionProofs --------------------------
(***************************************************************************)
(* For any number of requests and any ceiling: no slot is lost or granted  *)
(* twice, nobody queues while one is free, and what a refusal costs does   *)
(* not tell its cause.                                                     *)
(***************************************************************************)
EXTENDS Admission, TLAPS, FiniteSetTheorems, SequenceTheorems

Row == [pc : {"idle", "acquire", "waiting", "pairing", "answered"},
        asked : Asked \cup {Flawless}, paid : BOOLEAN,
        answer : {"none", "ok", "INVALID_PROOF", "RATE_LIMITED", "panic"}]

(* The queue holds waiting requests, each once.                             *)
QueueInv ==
  /\ waiters \in Seq(Requests)
  /\ \A i \in DOMAIN waiters : req[waiters[i]].pc = "waiting" /\ waiters[i] \notin ready
  /\ \A i, j \in DOMAIN waiters : waiters[i] = waiters[j] => i = j

(* Who was handed a slot still waits. *)
ReadyInv == ready \subseteq Requests /\ \A r \in ready : req[r].pc = "waiting"

SlotsInv ==
  /\ cur \in 0..Limit
  /\ IsFiniteSet(Running) /\ IsFiniteSet(ready)
  /\ cur = Cardinality(Running) + Cardinality(ready)
  /\ waiters # <<>> => cur = Limit

(* What was refused paid exactly if it was not refused at once, and what is *)
(* on its way to a pairing was not.                                         *)
CostKnown(row) ==
  /\ row.pc # "answered" => ~row.paid /\ row.answer # "INVALID_PROOF"
  /\ row.pc \in {"acquire", "waiting", "pairing"} => ~RefusedAtOnce(row.asked)
  /\ row.answer = "INVALID_PROOF" => (row.paid <=> ~RefusedAtOnce(row.asked))

CostInv == \A r \in Requests : CostKnown(req[r])

AdmissionInv ==
  /\ req \in [Requests -> Row]
  /\ QueueInv /\ ReadyInv /\ SlotsInv /\ CostInv

-----------------------------------------------------------------------------
(* The queue. *)

LEMMA RemoveAtQueue ==
  ASSUME NEW w \in Seq(Requests), NEW i \in DOMAIN w
  PROVE  /\ RemoveAt(w, i) \in Seq(Requests)
         /\ Len(RemoveAt(w, i)) = Len(w) - 1
         /\ \A j \in 1..Len(w) - 1 :
              RemoveAt(w, i)[j] = w[IF j < i THEN j ELSE j + 1]
<1>1. Len(w) \in Nat /\ i \in 1..Len(w) /\ \A j \in 1..Len(w) : w[j] \in Requests
  OBVIOUS
<1> DEFINE a == SubSeq(w, 1, i - 1)
           b == SubSeq(w, i + 1, Len(w))
<1>2. /\ a \in Seq(Requests) /\ Len(a) = i - 1
      /\ \A j \in 1..i - 1 : a[j] = w[j]
  <2>1. \A j \in 1..i - 1 : w[j] \in Requests
    BY <1>1
  <2>2. /\ a \in Seq(Requests)
        /\ Len(a) = IF 1 <= i - 1 THEN (i - 1) - 1 + 1 ELSE 0
        /\ \A j \in 1..(i - 1) - 1 + 1 : a[j] = w[1 + j - 1]
    BY <1>1, <2>1, SubSeqProperties
  <2>3. QED  BY <1>1, <2>2
<1>3. /\ b \in Seq(Requests) /\ Len(b) = Len(w) - i
      /\ \A j \in 1..Len(w) - i : b[j] = w[i + j]
  <2>1. \A j \in i + 1..Len(w) : w[j] \in Requests
    BY <1>1
  <2>2. /\ b \in Seq(Requests)
        /\ Len(b) = IF i + 1 <= Len(w) THEN Len(w) - (i + 1) + 1 ELSE 0
        /\ \A j \in 1..Len(w) - (i + 1) + 1 : b[j] = w[i + 1 + j - 1]
    BY <1>1, <2>1, SubSeqProperties
  <2>3. QED  BY <1>1, <2>2
<1> HIDE DEF a, b
<1>4. /\ a \o b \in Seq(Requests) /\ Len(a \o b) = Len(w) - 1
      /\ \A j \in 1..Len(w) - 1 : (a \o b)[j] = IF j <= i - 1 THEN a[j] ELSE b[j - (i - 1)]
  <2>1. /\ a \o b \in Seq(Requests) /\ Len(a \o b) = Len(a) + Len(b)
        /\ \A j \in 1..Len(a) + Len(b) :
             (a \o b)[j] = IF j <= Len(a) THEN a[j] ELSE b[j - Len(a)]
    BY <1>2, <1>3, ConcatProperties
  <2>2. Len(a) + Len(b) = Len(w) - 1 /\ Len(a) = i - 1
    BY <1>1, <1>2, <1>3
  <2>3. QED  BY <2>1, <2>2
<1>5. ASSUME NEW j \in 1..Len(w) - 1
      PROVE  (a \o b)[j] = w[IF j < i THEN j ELSE j + 1]
  <2>0. (a \o b)[j] = IF j <= i - 1 THEN a[j] ELSE b[j - (i - 1)]
    BY <1>4
  <2>1. CASE j < i
    <3>1. j \in 1..i - 1 /\ j <= i - 1
      BY <1>1, <2>1
    <3>2. a[j] = w[j]
      BY <1>2, <3>1
    <3>3. QED  BY <2>0, <2>1, <3>1, <3>2
  <2>2. CASE ~(j < i)
    <3>1. /\ j - (i - 1) \in 1..Len(w) - i /\ ~(j <= i - 1)
          /\ i + (j - (i - 1)) = j + 1
      BY <1>1, <2>2
    <3>2. b[j - (i - 1)] = w[j + 1]
      BY <1>3, <3>1
    <3>3. QED  BY <2>0, <2>2, <3>1, <3>2
  <2>3. QED  BY <2>1, <2>2
<1>6. RemoveAt(w, i) = a \o b
  BY DEF RemoveAt, a, b
<1>7. QED  BY <1>4, <1>5, <1>6

(* A queue drawn from another one in its order keeps what holds of it. *)
LEMMA TailQueue ==
  ASSUME QueueInv, waiters # <<>>
  PROVE  /\ Head(waiters) \in Requests /\ Head(waiters) \notin ready
         /\ req[Head(waiters)].pc = "waiting"
         /\ Tail(waiters) \in Seq(Requests)
         /\ \A i \in DOMAIN Tail(waiters) :
              /\ i + 1 \in DOMAIN waiters /\ Tail(waiters)[i] = waiters[i + 1]
              /\ Tail(waiters)[i] # Head(waiters)
         /\ \A i, j \in DOMAIN Tail(waiters) : Tail(waiters)[i] = Tail(waiters)[j] => i = j
<1>1. /\ waiters \in Seq(Requests) /\ Len(waiters) \in Nat \ {0}
      /\ Head(waiters) = waiters[1] /\ 1 \in DOMAIN waiters
  BY DEF QueueInv
<1>2. /\ Tail(waiters) \in Seq(Requests) /\ Len(Tail(waiters)) = Len(waiters) - 1
      /\ \A i \in 1..Len(Tail(waiters)) : Tail(waiters)[i] = waiters[i + 1]
  BY <1>1, HeadTailProperties
<1>3. \A i \in DOMAIN Tail(waiters) :
        i \in Nat /\ i + 1 \in DOMAIN waiters /\ i + 1 # 1 /\ Tail(waiters)[i] = waiters[i + 1]
  BY <1>1, <1>2
<1>4. QED  BY <1>1, <1>2, <1>3 DEF QueueInv

-----------------------------------------------------------------------------
(* The requests. *)

SetRow(r, row) == req' = [req EXCEPT ![r] = row]

LEMMA SetRowFacts ==
  ASSUME req \in [Requests -> Row], NEW r \in Requests, NEW row \in Row, SetRow(r, row)
  PROVE  /\ req' \in [Requests -> Row] /\ req'[r] = row
         /\ \A q \in Requests : q # r => req'[q] = req[q]
         /\ row.pc = "pairing" => Running' = Running \cup {r}
         /\ row.pc # "pairing" => Running' = Running \ {r}
<1>1. /\ req' \in [Requests -> Row] /\ req'[r] = row
      /\ \A q \in Requests : q # r => req'[q] = req[q]
  BY DEF SetRow
<1>2. QED  BY <1>1 DEF Running

LEMMA CostKept ==
  ASSUME req \in [Requests -> Row], CostInv,
         NEW r \in Requests, NEW row \in Row, SetRow(r, row), CostKnown(row)
  PROVE  req' \in [Requests -> Row] /\ CostInv'
<1>1. \A q \in Requests : CostKnown(req'[q])
  BY SetRowFacts DEF CostInv
<1>2. QED  BY <1>1, SetRowFacts DEF CostInv, CostKnown

LEMMA RowForms ==
  ASSUME NEW row \in Row
  PROVE  /\ \A asked \in Asked :
              /\ [row EXCEPT !.asked = asked, !.pc = "acquire"] \in Row
              /\ [row EXCEPT !.asked = asked, !.pc = "answered", !.answer = "INVALID_PROOF"] \in Row
         /\ [row EXCEPT !.pc = "pairing"] \in Row
         /\ [row EXCEPT !.pc = "waiting"] \in Row
         /\ \A answer \in {"RATE_LIMITED", "panic"} :
              [row EXCEPT !.pc = "answered", !.answer = answer] \in Row
         /\ \A answer \in {"ok", "INVALID_PROOF"} :
              [row EXCEPT !.pc = "answered", !.answer = answer, !.paid = TRUE] \in Row
BY DEF Row

(* What each step does to the request that takes it.                        *)
Sets(r, pc) == \E row \in Row : SetRow(r, row) /\ row.pc = pc /\ CostKnown(row)

LEMMA StepRows ==
  ASSUME req \in [Requests -> Row], CostInv, NEW r \in Requests
  PROVE  /\ \A asked \in Asked : Arrive(r, asked) => Sets(r, "acquire") \/ Sets(r, "answered")
         /\ AcquireFree(r) \/ WakeUp(r) => Sets(r, "pairing")
         /\ Queue(r) => Sets(r, "waiting")
         /\ GiveUp(r) \/ Panic(r) \/ Verified(r) => Sets(r, "answered")
<1>0. req[r] \in Row /\ CostKnown(req[r])
  BY DEF CostInv
<1>1. ASSUME NEW asked \in Asked, Arrive(r, asked)
      PROVE  Sets(r, "acquire") \/ Sets(r, "answered")
  <2>1. req[r].pc = "idle" /\ ~req[r].paid
    BY <1>0, <1>1 DEF Arrive, CostKnown
  <2>2. CASE RefusedAtOnce(asked)
    <3>1. PICK row \in Row :
            row = [req[r] EXCEPT !.asked = asked, !.pc = "answered", !.answer = "INVALID_PROOF"]
      BY <1>0, RowForms
    <3>2. row.pc = "answered" /\ row.asked = asked /\ ~row.paid
      BY <1>0, <2>1, <3>1 DEF Row
    <3>3. SetRow(r, row)
      BY <1>1, <2>2, <3>1 DEF Arrive, SetRow
    <3>4. QED  BY <2>2, <3>2, <3>3 DEF Sets, CostKnown
  <2>3. CASE ~RefusedAtOnce(asked)
    <3>1. PICK row \in Row : row = [req[r] EXCEPT !.asked = asked, !.pc = "acquire"]
      BY <1>0, RowForms
    <3>2. /\ row.pc = "acquire" /\ row.asked = asked /\ ~row.paid
          /\ row.answer = req[r].answer /\ req[r].answer # "INVALID_PROOF"
      BY <1>0, <2>1, <3>1 DEF Row, CostKnown
    <3>3. SetRow(r, row)
      BY <1>1, <2>3, <3>1 DEF Arrive, SetRow
    <3>4. QED  BY <2>3, <3>2, <3>3 DEF Sets, CostKnown
  <2>4. QED  BY <2>2, <2>3
<1>2. ASSUME NEW pc \in {"pairing", "waiting"}, req[r].pc \in {"acquire", "waiting"},
             req' = [req EXCEPT ![r] = [@ EXCEPT !.pc = pc]]
      PROVE  Sets(r, pc)
  <2>1. PICK row \in Row : row = [req[r] EXCEPT !.pc = pc]
    BY <1>0, RowForms
  <2>2. /\ row.pc = pc /\ row.asked = req[r].asked
        /\ row.answer = req[r].answer /\ row.paid = req[r].paid
    BY <1>0, <2>1 DEF Row
  <2>3. SetRow(r, row)
    BY <1>2, <2>1 DEF SetRow
  <2>4. CostKnown(row)
    BY <1>0, <1>2, <2>2 DEF CostKnown
  <2>5. QED  BY <2>2, <2>3, <2>4 DEF Sets
<1>3. ASSUME NEW answer \in {"RATE_LIMITED", "panic"}, Answer(r, answer)
      PROVE  Sets(r, "answered")
  <2>1. PICK row \in Row : row = [req[r] EXCEPT !.pc = "answered", !.answer = answer]
    BY <1>0, RowForms
  <2>2. row.pc = "answered" /\ row.answer # "INVALID_PROOF"
    BY <1>0, <2>1 DEF Row
  <2>3. SetRow(r, row)
    BY <1>3, <2>1 DEF Answer, SetRow
  <2>4. QED  BY <2>2, <2>3 DEF Sets, CostKnown
<1>4. ASSUME Verified(r)  PROVE Sets(r, "answered")
  <2>1. PICK answer \in {"ok", "INVALID_PROOF"} :
          req' = [req EXCEPT ![r] = [@ EXCEPT !.pc = "answered", !.answer = answer, !.paid = TRUE]]
    BY <1>4 DEF Verified
  <2>2. PICK row \in Row :
          row = [req[r] EXCEPT !.pc = "answered", !.answer = answer, !.paid = TRUE]
    BY <1>0, RowForms
  <2>3. row.pc = "answered" /\ row.paid /\ row.asked = req[r].asked
    BY <1>0, <2>2 DEF Row
  <2>4. ~RefusedAtOnce(row.asked)
    BY <1>0, <1>4, <2>3 DEF Verified, CostKnown
  <2>5. SetRow(r, row)
    BY <2>1, <2>2 DEF SetRow
  <2>6. QED  BY <2>3, <2>4, <2>5 DEF Sets, CostKnown
<1>5. QED  BY <1>1, <1>2, <1>3, <1>4 DEF AcquireFree, WakeUp, Queue, GiveUp, Panic

-----------------------------------------------------------------------------
(* The slots. *)

LEMMA InitInv == Init => AdmissionInv
<1> SUFFICES ASSUME Init PROVE AdmissionInv
  OBVIOUS
<1>1. req \in [Requests -> Row] /\ CostInv
  BY DEF Init, Row, CostInv, CostKnown
<1>2. Running = {}
  BY DEF Init, Running
<1>3. SlotsInv
  BY <1>2, LimitIsPositive, FS_EmptySet DEF Init, SlotsInv
<1>4. QueueInv /\ ReadyInv
  BY DEF Init, QueueInv, ReadyInv
<1>5. QED  BY <1>1, <1>3, <1>4 DEF AdmissionInv

(* A release, or a waiter that gives up the slot it was handed.             *)
LEMMA Released ==
  ASSUME AdmissionInv, NEW r \in Requests, Sets(r, "answered"),
         req[r].pc = "pairing" \/ (req[r].pc = "waiting" /\ r \in ready),
         PassOn, ready' = (ready \ {r}) \cup Handed
  PROVE  QueueInv' /\ ReadyInv' /\ SlotsInv'
<1>0. QueueInv /\ ReadyInv /\ SlotsInv /\ req \in [Requests -> Row]
  BY DEF AdmissionInv
<1>1. PICK row \in Row : SetRow(r, row) /\ row.pc = "answered"
  BY DEF Sets
<1>2. /\ req'[r].pc = "answered" /\ \A q \in Requests : q # r => req'[q] = req[q]
      /\ Running' = Running \ {r}
  BY <1>0, <1>1, SetRowFacts
<1>3. \A i \in DOMAIN waiters : waiters[i] \in Requests /\ waiters[i] # r
  BY <1>0 DEF QueueInv, ReadyInv
<1>4. \/ r \in Running /\ r \notin ready
      \/ r \notin Running /\ r \in ready
  BY <1>0 DEF Running, ReadyInv
<1>5. /\ IsFiniteSet(Running \ {r}) /\ IsFiniteSet(ready \ {r})
      /\ Cardinality(Running \ {r}) \in Nat /\ Cardinality(ready \ {r}) \in Nat
      /\ Cardinality(Running \ {r}) + Cardinality(ready \ {r}) = cur - 1
  <2>1. /\ IsFiniteSet(Running \ {r}) /\ IsFiniteSet(ready \ {r})
        /\ Cardinality(Running \ {r}) =
             IF r \in Running THEN Cardinality(Running) - 1 ELSE Cardinality(Running)
        /\ Cardinality(ready \ {r}) =
             IF r \in ready THEN Cardinality(ready) - 1 ELSE Cardinality(ready)
    BY <1>0, FS_RemoveElement DEF SlotsInv
  <2>2. Cardinality(Running) \in Nat /\ Cardinality(ready) \in Nat
    BY <1>0, FS_CardinalityType DEF SlotsInv
  <2>3. Cardinality(Running \ {r}) \in Nat /\ Cardinality(ready \ {r}) \in Nat
    BY <2>1, FS_CardinalityType
  <2>4. QED  BY <1>0, <1>4, <2>1, <2>2, <2>3 DEF SlotsInv
<1>6. CASE waiters = <<>>
  <2>1. waiters' = <<>> /\ cur' = cur - 1 /\ ready' = ready \ {r}
    BY <1>6 DEF PassOn, Handed
  <2>2. SlotsInv'
    <3>1. /\ IsFiniteSet(Running') /\ IsFiniteSet(ready')
          /\ Cardinality(Running') + Cardinality(ready') = cur'
      BY <1>2, <1>5, <2>1
    <3>2. cur' \in 0..Limit
      <4>1. cur \in 0..Limit /\ cur - 1 >= 0
        BY <1>0, <1>5 DEF SlotsInv
      <4>2. QED  BY <2>1, <4>1, LimitIsPositive
    <3>3. QED  BY <2>1, <3>1, <3>2 DEF SlotsInv
  <2>3. QueueInv'
    BY <2>1 DEF QueueInv
  <2>4. ReadyInv'
    BY <1>0, <1>2, <2>1 DEF ReadyInv
  <2>5. QED  BY <2>2, <2>3, <2>4
<1>7. CASE waiters # <<>>
  <2>1. waiters' = Tail(waiters) /\ cur' = cur /\ ready' = (ready \ {r}) \cup {Head(waiters)}
    BY <1>7 DEF PassOn, Handed
  <2>2. /\ Head(waiters) \in Requests /\ Head(waiters) \notin ready
        /\ req[Head(waiters)].pc = "waiting" /\ Head(waiters) # r
        /\ Tail(waiters) \in Seq(Requests)
        /\ \A i \in DOMAIN Tail(waiters) :
             /\ i + 1 \in DOMAIN waiters /\ Tail(waiters)[i] = waiters[i + 1]
             /\ Tail(waiters)[i] # Head(waiters)
        /\ \A i, j \in DOMAIN Tail(waiters) : Tail(waiters)[i] = Tail(waiters)[j] => i = j
    BY <1>0, <1>4, <1>7, TailQueue DEF Running
  <2>3. SlotsInv'
    <3>1. /\ IsFiniteSet(ready')
          /\ Cardinality(ready') = Cardinality(ready \ {r}) + 1
      <4>1. Head(waiters) \notin ready \ {r}
        BY <2>2
      <4>2. /\ IsFiniteSet((ready \ {r}) \cup {Head(waiters)})
            /\ Cardinality((ready \ {r}) \cup {Head(waiters)}) = Cardinality(ready \ {r}) + 1
        BY <1>5, <4>1, FS_AddElement
      <4>3. QED  BY <2>1, <4>2
    <3>2. cur = Limit
      BY <1>0, <1>7 DEF SlotsInv
    <3>3. QED  BY <1>0, <1>2, <1>5, <2>1, <3>1, <3>2 DEF SlotsInv
  <2>4. QueueInv'
    BY <1>0, <1>2, <1>3, <2>1, <2>2 DEF QueueInv
  <2>5. ReadyInv'
    BY <1>0, <1>2, <2>1, <2>2 DEF ReadyInv
  <2>6. QED  BY <2>3, <2>4, <2>5
<1>8. QED  BY <1>6, <1>7

(* A request that neither runs nor was handed a slot stays so.              *)
LEMMA SlotsStand ==
  ASSUME AdmissionInv, NEW r \in Requests, NEW pc \in {"acquire", "waiting", "answered"},
         Sets(r, pc), req[r].pc # "pairing", r \notin ready, UNCHANGED <<cur, ready>>
  PROVE  /\ req' \in [Requests -> Row] /\ req'[r].pc = pc
         /\ \A q \in Requests : q # r => req'[q] = req[q]
         /\ Running' = Running /\ ReadyInv'
<1>0. ReadyInv /\ req \in [Requests -> Row]
  BY DEF AdmissionInv
<1>1. PICK row \in Row : SetRow(r, row) /\ row.pc = pc
  BY DEF Sets
<1>2. /\ req' \in [Requests -> Row] /\ req'[r].pc = pc
      /\ \A q \in Requests : q # r => req'[q] = req[q]
      /\ Running' = Running \ {r}
  BY <1>0, <1>1, SetRowFacts
<1>3. r \notin Running
  BY DEF Running
<1>4. QED  BY <1>0, <1>2, <1>3 DEF ReadyInv

LEMMA SlotsKept ==
  ASSUME AdmissionInv, NEW r \in Requests, Step(r) \/ GiveUp(r) \/ Panic(r)
           \/ \E asked \in Asked : Arrive(r, asked)
  PROVE  QueueInv' /\ ReadyInv' /\ SlotsInv'
<1>0. /\ QueueInv /\ ReadyInv /\ SlotsInv /\ req \in [Requests -> Row]
      /\ CostInv
  BY DEF AdmissionInv
<1>1. ASSUME NEW asked \in Asked, Arrive(r, asked)
      PROVE  QueueInv' /\ ReadyInv' /\ SlotsInv'
  <2>1. /\ Sets(r, "acquire") \/ Sets(r, "answered")
        /\ req[r].pc = "idle" /\ UNCHANGED <<cur, waiters, ready>>
    BY <1>0, <1>1, StepRows DEF Arrive
  <2>2. r \notin ready
    BY <1>0, <2>1 DEF ReadyInv
  <2>3. /\ \A q \in Requests : q # r => req'[q] = req[q]
        /\ Running' = Running /\ ReadyInv'
    BY <2>1, <2>2, SlotsStand
  <2>4. QueueInv'
    BY <1>0, <2>1, <2>3 DEF QueueInv
  <2>5. QED  BY <1>0, <2>1, <2>3, <2>4 DEF SlotsInv
<1>2. ASSUME AcquireFree(r)  PROVE QueueInv' /\ ReadyInv' /\ SlotsInv'
  <2>1. /\ Sets(r, "pairing") /\ req[r].pc = "acquire" /\ cur < Limit /\ waiters = <<>>
        /\ cur' = cur + 1 /\ UNCHANGED <<waiters, ready>>
    BY <1>0, <1>2, StepRows DEF AcquireFree
  <2>2. PICK row \in Row : SetRow(r, row) /\ row.pc = "pairing"
    BY <2>1 DEF Sets
  <2>3. /\ \A q \in Requests : q # r => req'[q] = req[q]
        /\ Running' = Running \cup {r} /\ r \notin Running
    BY <1>0, <2>1, <2>2, SetRowFacts DEF Running
  <2>4. IsFiniteSet(Running') /\ Cardinality(Running') = Cardinality(Running) + 1
    BY <1>0, <2>3, FS_AddElement DEF SlotsInv
  <2>5. Cardinality(Running) \in Nat /\ Cardinality(ready) \in Nat
    BY <1>0, FS_CardinalityType DEF SlotsInv
  <2>6. SlotsInv'
    BY <1>0, <2>1, <2>4, <2>5, LimitIsPositive DEF SlotsInv
  <2>7. QueueInv'
    BY <2>1 DEF QueueInv
  <2>8. ReadyInv'
    BY <1>0, <2>1, <2>3 DEF ReadyInv
  <2>9. QED  BY <2>6, <2>7, <2>8
<1>3. ASSUME Queue(r)  PROVE QueueInv' /\ ReadyInv' /\ SlotsInv'
  <2>1. /\ Sets(r, "waiting") /\ req[r].pc = "acquire"
        /\ (cur = Limit \/ waiters # <<>>)
        /\ waiters' = Append(waiters, r) /\ UNCHANGED <<cur, ready>>
    BY <1>0, <1>3, StepRows DEF Queue
  <2>2. r \notin ready /\ \A i \in DOMAIN waiters : waiters[i] # r
    BY <1>0, <2>1 DEF ReadyInv, QueueInv
  <2>3. /\ req'[r].pc = "waiting" /\ \A q \in Requests : q # r => req'[q] = req[q]
        /\ Running' = Running /\ ReadyInv'
    BY <2>1, <2>2, SlotsStand
  <2>4. SlotsInv'
    BY <1>0, <2>1, <2>3 DEF SlotsInv
  <2>5. /\ waiters' \in Seq(Requests) /\ Len(waiters') = Len(waiters) + 1
        /\ waiters'[Len(waiters) + 1] = r
        /\ \A i \in 1..Len(waiters) : waiters'[i] = waiters[i] /\ waiters[i] \in Requests
        /\ Len(waiters) \in Nat
    BY <1>0, <2>1, AppendProperties DEF QueueInv
  <2>6. \A i \in DOMAIN waiters' : i \in DOMAIN waiters \/ i = Len(waiters) + 1
    BY <2>5
  <2>7. \A i \in DOMAIN waiters' : req'[waiters'[i]].pc = "waiting" /\ waiters'[i] \notin ready'
    BY <1>0, <2>1, <2>2, <2>3, <2>5, <2>6 DEF QueueInv
  <2>8. \A i, j \in DOMAIN waiters' : waiters'[i] = waiters'[j] => i = j
    BY <1>0, <2>2, <2>5, <2>6 DEF QueueInv
  <2>9. QED  BY <2>3, <2>4, <2>5, <2>7, <2>8 DEF QueueInv
<1>4. ASSUME WakeUp(r)  PROVE QueueInv' /\ ReadyInv' /\ SlotsInv'
  <2>1. /\ Sets(r, "pairing") /\ req[r].pc = "waiting" /\ r \in ready
        /\ ready' = ready \ {r} /\ UNCHANGED <<cur, waiters>>
    BY <1>0, <1>4, StepRows DEF WakeUp
  <2>2. PICK row \in Row : SetRow(r, row) /\ row.pc = "pairing"
    BY <2>1 DEF Sets
  <2>3. /\ \A q \in Requests : q # r => req'[q] = req[q]
        /\ Running' = Running \cup {r} /\ r \notin Running
    BY <1>0, <2>1, <2>2, SetRowFacts DEF Running
  <2>4. /\ IsFiniteSet(Running') /\ Cardinality(Running') = Cardinality(Running) + 1
        /\ IsFiniteSet(ready') /\ Cardinality(ready') = Cardinality(ready) - 1
    BY <1>0, <2>1, <2>3, FS_AddElement, FS_RemoveElement DEF SlotsInv
  <2>5. Cardinality(Running) \in Nat /\ Cardinality(ready) \in Nat
    BY <1>0, FS_CardinalityType DEF SlotsInv
  <2>6. SlotsInv'
    BY <1>0, <2>1, <2>4, <2>5 DEF SlotsInv
  <2>7. \A i \in DOMAIN waiters : waiters[i] \in Requests /\ waiters[i] # r
    BY <1>0, <2>1 DEF QueueInv
  <2>8. QueueInv'
    BY <1>0, <2>1, <2>3, <2>7 DEF QueueInv
  <2>9. ReadyInv'
    BY <1>0, <2>1, <2>3 DEF ReadyInv
  <2>10. QED  BY <2>6, <2>8, <2>9
<1>5. ASSUME Verified(r) \/ Panic(r)  PROVE QueueInv' /\ ReadyInv' /\ SlotsInv'
  <2>1. /\ req[r].pc = "pairing" /\ PassOn /\ ready' = ready \cup Handed
        /\ Verified(r) \/ Panic(r)
    BY <1>5 DEF Verified, Panic
  <2>2. Sets(r, "answered")
    BY <1>0, <2>1, StepRows
  <2>3. ready \ {r} = ready
    BY <1>0, <2>1 DEF ReadyInv
  <2>4. QED  BY <2>1, <2>2, <2>3, Released
<1>6. ASSUME GiveUp(r)  PROVE QueueInv' /\ ReadyInv' /\ SlotsInv'
  <2>1. Sets(r, "answered")
    BY <1>0, <1>6, StepRows DEF GiveUp
  <2>2. CASE req[r].pc = "acquire" /\ UNCHANGED <<cur, waiters, ready>>
    <3>1. r \notin ready
      BY <1>0, <2>2 DEF ReadyInv
    <3>2. /\ \A q \in Requests : q # r => req'[q] = req[q]
          /\ Running' = Running /\ ReadyInv'
      BY <2>1, <2>2, <3>1, SlotsStand
    <3>3. \A i \in DOMAIN waiters : waiters[i] \in Requests /\ waiters[i] # r
      BY <1>0, <2>2 DEF QueueInv
    <3>4. QueueInv'
      BY <1>0, <2>2, <3>2, <3>3 DEF QueueInv
    <3>5. QED  BY <1>0, <2>2, <3>2, <3>4 DEF SlotsInv
  <2>3. ASSUME NEW i \in DOMAIN waiters, req[r].pc = "waiting", r \notin ready,
               waiters[i] = r, waiters' = RemoveAt(waiters, i), UNCHANGED <<cur, ready>>
        PROVE  QueueInv' /\ ReadyInv' /\ SlotsInv'
    <3>1. /\ \A q \in Requests : q # r => req'[q] = req[q]
          /\ Running' = Running /\ ReadyInv'
      BY <2>1, <2>3, SlotsStand
    <3>2. waiters \in Seq(Requests) /\ Len(waiters) \in Nat /\ i \in 1..Len(waiters)
      BY <1>0, <2>3 DEF QueueInv
    <3>3. /\ waiters' \in Seq(Requests) /\ Len(waiters') = Len(waiters) - 1
          /\ \A j \in 1..Len(waiters) - 1 : waiters'[j] = waiters[IF j < i THEN j ELSE j + 1]
      BY <2>3, <3>2, RemoveAtQueue
    <3>4. ASSUME NEW j \in DOMAIN waiters'
          PROVE  \E k \in DOMAIN waiters :
                   /\ waiters'[j] = waiters[k] /\ k # i
                   /\ k = IF j < i THEN j ELSE j + 1
      <4>1. j \in 1..Len(waiters) - 1
        BY <3>3
      <4>2. QED  BY <3>2, <3>3, <4>1
    <3>5. \A j \in DOMAIN waiters' :
            /\ waiters'[j] \in Requests /\ waiters'[j] # r /\ waiters'[j] \notin ready
            /\ req[waiters'[j]].pc = "waiting"
      BY <1>0, <2>3, <3>2, <3>4 DEF QueueInv
    <3>6. ASSUME NEW j \in DOMAIN waiters', NEW l \in DOMAIN waiters', waiters'[j] = waiters'[l]
          PROVE  j = l
      <4>1. PICK k \in DOMAIN waiters :
              waiters'[j] = waiters[k] /\ k = IF j < i THEN j ELSE j + 1
        BY <3>4
      <4>2. PICK m \in DOMAIN waiters :
              waiters'[l] = waiters[m] /\ m = IF l < i THEN l ELSE l + 1
        BY <3>4
      <4>3. k = m
        BY <1>0, <3>6, <4>1, <4>2 DEF QueueInv
      <4>4. j \in Nat /\ l \in Nat /\ i \in Nat
        BY <3>2, <3>3
      <4>5. QED  BY <4>1, <4>2, <4>3, <4>4
    <3>7. QueueInv'
      BY <2>3, <3>1, <3>3, <3>5, <3>6 DEF QueueInv
    <3>8. waiters # <<>>
      BY <3>2
    <3>9. QED  BY <1>0, <2>3, <3>1, <3>7, <3>8 DEF SlotsInv
  <2>4. CASE req[r].pc = "waiting" /\ r \in ready /\ PassOn /\ ready' = (ready \ {r}) \cup Handed
    BY <2>1, <2>4, Released
  <2>5. QED  BY <1>6, <2>2, <2>3, <2>4 DEF GiveUp
<1>7. QED  BY <1>1, <1>2, <1>3, <1>4, <1>5, <1>6 DEF Step

LEMMA InvKept == AdmissionInv /\ [Next]_avars => AdmissionInv'
<1> SUFFICES ASSUME AdmissionInv, [Next]_avars PROVE AdmissionInv'
  OBVIOUS
<1>0. req \in [Requests -> Row] /\ CostInv
  BY DEF AdmissionInv
<1>1. ASSUME NEW r \in Requests,
             \/ \E asked \in Asked : Arrive(r, asked)
             \/ Step(r) \/ GiveUp(r) \/ Panic(r)
      PROVE  AdmissionInv'
  <2>1. \E pc : Sets(r, pc)
    BY <1>0, <1>1, StepRows DEF Step, GiveUp, Panic
  <2>2. req' \in [Requests -> Row] /\ CostInv'
    BY <1>0, <2>1, CostKept DEF Sets
  <2>3. QueueInv' /\ ReadyInv' /\ SlotsInv'
    BY <1>1, SlotsKept
  <2>4. QED  BY <2>2, <2>3 DEF AdmissionInv
<1>2. CASE UNCHANGED avars
  BY <1>2 DEF avars, AdmissionInv, QueueInv, ReadyInv, SlotsInv, CostInv, CostKnown, Running
<1>3. QED  BY <1>1, <1>2 DEF Next

-----------------------------------------------------------------------------
(* The queue, the slots and the requests stay well formed.                  *)
THEOREM AdmissionTypes == Spec => []TypeOK
<1>1. AdmissionInv => TypeOK
  BY DEF AdmissionInv, QueueInv, ReadyInv, SlotsInv, TypeOK, Row
<1>2. QED  BY <1>1, InitInv, InvKept, PTL DEF Spec

(* However many requests time out while they are handed a slot, and however *)
(* many pairings panic, every slot is accounted for and none is idle while  *)
(* a request queues.                                                        *)
THEOREM SlotsAreNeverLost == Spec => []SlotsAccountedFor
<1>1. AdmissionInv => SlotsAccountedFor
  BY LimitIsPositive DEF AdmissionInv, SlotsInv, SlotsAccountedFor
<1>2. QED  BY <1>1, InitInv, InvKept, PTL DEF Spec

(* For any number of requests with any flaws, and whoever waits for a slot: *)
(* of two requests refused alike that look alike to their callers, both     *)
(* paid for a pairing or neither did.                                       *)
THEOREM RefusalsTellNothing == Spec => []RefusalsCostAlike
<1>1. ASSUME AdmissionInv PROVE RefusalsCostAlike
  <2> SUFFICES ASSUME NEW q \in Requests, NEW r \in Requests,
                      req[q].answer = "INVALID_PROOF", req[r].answer = "INVALID_PROOF",
                      req[q].asked.op = req[r].asked.op,
                      "shape" \in req[q].asked.flaws <=> "shape" \in req[r].asked.flaws,
                      "challenge" \in req[q].asked.flaws <=> "challenge" \in req[r].asked.flaws,
                      req[q].asked.op = "membership" => "challenge" \notin req[q].asked.flaws
               PROVE  req[q].paid <=> req[r].paid
    BY DEF RefusalsCostAlike
  <2>1. ASSUME NEW x \in Requests, req[x].asked.op = "knowledge"
        PROVE  req[x].asked.flaws \cap {"claim", "root"} = {}
    BY <1>1, <2>1, AskedAreRequests DEF AdmissionInv, Row, AllAsked, Flawless
  <2>2. ASSUME NEW x \in Requests
        PROVE  req[x].asked.op \in {"membership", "knowledge"}
    BY <1>1, AskedAreRequests DEF AdmissionInv, Row, AllAsked, Flawless
  <2>3. RefusedAtOnce(req[q].asked) <=> RefusedAtOnce(req[r].asked)
    BY <2>1, <2>2 DEF RefusedAtOnce
  <2>4. \A x \in {q, r} : req[x].paid <=> ~RefusedAtOnce(req[x].asked)
    BY <1>1 DEF AdmissionInv, CostInv, CostKnown
  <2>5. QED  BY <2>3, <2>4
<1>2. QED  BY <1>1, InitInv, InvKept, PTL DEF Spec
=============================================================================
