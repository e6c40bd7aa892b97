--------------------------- MODULE MutationProofs ---------------------------
(***************************************************************************)
(* For every manifest and set of files: a killed mutant is evidence, and   *)
(* exit code zero speaks for every mutant that was asked for.              *)
(***************************************************************************)
EXTENDS MutationRun, TLAPS

Evidence(m) ==
  results[m].status = "killed" =>
    /\ results[m].outcome \in NamedFailure
    /\ Anchored(results[m].baseline, m)
    /\ results[m].ran = [f \in Files |->
         IF f \in PatchesOf[m] THEN "mutated" ELSE results[m].baseline[f]]

Patched == [f \in Files |-> IF f \in PatchesOf[mutant] THEN "mutated" ELSE baseline[f]]

(* Where the runner is in the loop over the manifest. *)
LoopInv ==
  /\ pc \in {"validate", "select", "copy", "baseline", "patch", "mutated", "exited"}
  /\ mutant \in Nat \ {0}
  /\ pc \in {"copy", "baseline", "patch", "mutated"} => mutant \in Mutants
  /\ \A m \in Mutants : m \in Chosen /\ m < mutant => m \in DOMAIN results
  /\ \A m \in DOMAIN results : results[m].status \in {"killed", "survived"}

(* What the snapshot of the current mutant is. *)
TreeInv ==
  /\ pc \in {"baseline", "patch"} => DOMAIN clone = Files
  /\ pc = "patch" => baseline = clone
  /\ pc = "mutated" => Anchored(baseline, mutant) /\ clone = Patched

(* What was concluded. *)
VerdictInv ==
  /\ \A m \in DOMAIN results : Evidence(m)
  /\ pc # "exited" => exit = 3
  /\ exit = 0 => \A m \in Chosen : m \in DOMAIN results /\ results[m].status = "killed"

RunInv == LoopInv /\ TreeInv /\ VerdictInv

-----------------------------------------------------------------------------
LEMMA RunInit == Init => RunInv
<1> SUFFICES ASSUME Init PROVE RunInv
  OBVIOUS
<1>1. pc = "validate" /\ mutant = 1 /\ exit = 3 /\ DOMAIN results = {}
  BY DEF Init
<1>2. LoopInv
  BY <1>1, ManifestIsFinite DEF Mutants, LoopInv
<1>3. TreeInv /\ VerdictInv
  BY <1>1 DEF TreeInv, VerdictInv
<1>4. QED  BY <1>2, <1>3 DEF RunInv

(* Steps that only concern the go command or the surroundings.              *)
LEMMA RunnerIdle ==
  ASSUME RunInv, UNCHANGED runner
  PROVE  RunInv'
BY DEF RunInv, LoopInv, TreeInv, VerdictInv, runner, Evidence, Anchored, Patched, Chosen

(* Scoring a mutant: survivors need no evidence, a kill needs its own.      *)
LEMMA ScoreKeeps ==
  ASSUME NEW status \in {"killed", "survived"}, RunInv, Score(status),
         pc \in {"copy", "baseline", "patch", "mutated"},
         status = "killed" =>
           child.outcome \in NamedFailure /\ Anchored(baseline, mutant) /\ clone = Patched
  PROVE  RunInv'
<1>1. /\ DOMAIN results' = DOMAIN results \cup {mutant}
      /\ pc' = "select" /\ mutant' = mutant + 1
      /\ UNCHANGED <<selected, clone, baseline, exit>>
  BY DEF Score
<1>2. /\ results'[mutant].status = status
      /\ results'[mutant].baseline = baseline
      /\ results'[mutant].ran = clone
      /\ results'[mutant].outcome = child.outcome
  BY DEF Score
<1>3. \A m \in DOMAIN results : m # mutant => results'[m] = results[m]
  BY DEF Score
<1>4. LoopInv'
  <2>1. mutant \in Mutants /\ mutant \in Nat /\ Mutants \subseteq Nat
    BY ManifestIsFinite DEF Mutants, RunInv, LoopInv
  <2>2. ASSUME NEW m \in Mutants, m \in Chosen', m < mutant'
        PROVE  m \in DOMAIN results'
    <3>1. m \in Chosen /\ (m < mutant \/ m = mutant)
      BY <1>1, <2>1, <2>2 DEF Chosen
    <3>2. QED  BY <1>1, <3>1 DEF RunInv, LoopInv
  <2>3. \A m \in DOMAIN results' : results'[m].status \in {"killed", "survived"}
    BY <1>1, <1>2, <1>3 DEF RunInv, LoopInv
  <2>4. QED  BY <1>1, <2>1, <2>2, <2>3 DEF LoopInv
<1>5. TreeInv'
  BY <1>1 DEF TreeInv
<1>6. VerdictInv'
  <2>1. ASSUME NEW m, m = mutant
        PROVE  Evidence(m)'
    BY <1>2, <2>1 DEF Evidence, Patched, Anchored
  <2>2. ASSUME NEW m \in DOMAIN results, m # mutant
        PROVE  Evidence(m)'
    <3>1. Evidence(m)
      BY DEF RunInv, VerdictInv
    <3>2. results'[m] = results[m]
      BY <1>3, <2>2
    <3>3. QED  BY <3>1, <3>2 DEF Evidence, Anchored
  <2>3. exit' = 3
    BY <1>1 DEF RunInv, VerdictInv
  <2>4. \A m \in DOMAIN results' : Evidence(m)'
    BY <1>1, <2>1, <2>2
  <2>5. QED  BY <2>3, <2>4 DEF VerdictInv
<1>7. QED  BY <1>4, <1>5, <1>6 DEF RunInv

(* Moving on inside one mutant: nothing is concluded.                       *)
LEMMA MovingKeeps ==
  ASSUME RunInv, UNCHANGED <<selected, results, exit>>, pc # "exited",
         mutant' \in Nat \ {0},
         pc' \in {"select", "copy", "baseline", "patch", "mutated"},
         pc' # "select" => mutant' \in Mutants,
         \A m \in Mutants : m \in Chosen /\ m < mutant' => m < mutant,
         TreeInv'
  PROVE  RunInv'
<1>1. LoopInv'
  BY DEF RunInv, LoopInv, Chosen
<1>2. VerdictInv'
  BY DEF RunInv, VerdictInv, Evidence, Anchored, Chosen
<1>3. QED  BY <1>1, <1>2 DEF RunInv

-----------------------------------------------------------------------------
LEMMA RunStep ==
  ASSUME RunInv, [Next]_rvars
  PROVE  RunInv'
<1>0. LoopInv /\ TreeInv /\ VerdictInv
  BY DEF RunInv
<1>1. CASE UNCHANGED runner
  BY <1>1, RunnerIdle
<1>2. CASE Validate
  <2>1. CASE pc' = "select" /\ UNCHANGED exit
    <3>1. TreeInv'
      BY <2>1 DEF TreeInv
    <3>2. QED  BY <1>0, <1>2, <2>1, <3>1, MovingKeeps DEF Validate, LoopInv
  <2>2. CASE Exit(2)
    BY <1>0, <1>2, <2>2
       DEF Validate, Exit, RunInv, LoopInv, TreeInv, VerdictInv, Evidence, Anchored, Chosen
  <2>3. QED  BY <1>2, <2>1, <2>2 DEF Validate
<1>3. CASE Select
  <2>1. /\ pc = "select" /\ mutant \in Mutants /\ UNCHANGED <<selected, results, exit>>
        /\ mutant \in Nat /\ Mutants \subseteq Nat
    BY <1>0, <1>3, ManifestIsFinite DEF Mutants, Select, LoopInv
  <2>2. \/ mutant \in Chosen /\ pc' = "copy" /\ mutant' = mutant
        \/ mutant \notin Chosen /\ mutant' = mutant + 1 /\ pc' = "select"
    BY <1>3, <2>1 DEF Select
  <2>3. \A m \in Mutants : m \in Chosen /\ m < mutant' => m < mutant
    BY <2>1, <2>2
  <2>4. TreeInv'
    BY <2>2 DEF TreeInv
  <2>5. /\ mutant' \in Nat \ {0} /\ pc # "exited" /\ pc' \in {"select", "copy"}
        /\ pc' # "select" => mutant' \in Mutants
    BY <1>0, <2>1, <2>2 DEF LoopInv
  <2>6. pc' \in {"select", "copy", "baseline", "patch", "mutated"}
    BY <2>5
  <2>7. QED  BY <2>1, <2>3, <2>4, <2>5, <2>6, MovingKeeps
<1>4. CASE Summary
  <2>1. /\ pc = "select" /\ mutant \notin Mutants /\ pc' = "exited"
        /\ UNCHANGED <<selected, mutant, results>>
    BY <1>4 DEF Summary, Exit
  <2>2. ASSUME exit' = 0, NEW m \in Chosen
        PROVE  m \in DOMAIN results /\ results[m].status = "killed"
    <3>1. /\ selected = {} \/ DOMAIN results = selected
          /\ \A k \in DOMAIN results : results[k].status # "survived"
      BY <1>4, <2>2 DEF Summary, Exit
    <3>2. m \in DOMAIN results
      <4>1. CASE selected = {}
        <5>1. m \in Mutants
          BY <4>1 DEF Chosen
        <5>2. m < mutant
          BY <1>0, <2>1, <5>1, ManifestIsFinite DEF Mutants, LoopInv
        <5>3. QED  BY <1>0, <5>1, <5>2 DEF LoopInv
      <4>2. CASE selected # {}
        BY <3>1, <4>2 DEF Chosen
      <4>3. QED  BY <4>1, <4>2
    <3>3. QED  BY <1>0, <3>1, <3>2 DEF LoopInv
  <2>3. LoopInv'
    BY <1>0, <2>1 DEF LoopInv, Chosen
  <2>4. TreeInv'
    BY <2>1 DEF TreeInv
  <2>5. \A m \in DOMAIN results : Evidence(m)'
    BY <1>0, <2>1 DEF VerdictInv, Evidence, Anchored
  <2>6. Chosen' = Chosen
    BY <2>1 DEF Chosen
  <2>7. VerdictInv'
    BY <2>1, <2>2, <2>5, <2>6 DEF VerdictInv
  <2>8. QED  BY <2>3, <2>4, <2>7 DEF RunInv
<1>5. CASE CopyFile
  <2>1. CASE Score("survived")
    BY <1>5, <2>1, ScoreKeeps DEF CopyFile
  <2>2. CASE UNCHANGED <<pc, selected, mutant, baseline, results, exit>>
    <3>1. pc = "copy" /\ TreeInv'
      BY <1>5, <2>2 DEF CopyFile, TreeInv
    <3>2. QED  BY <1>0, <2>2, <3>1, MovingKeeps DEF LoopInv
  <2>3. QED  BY <1>5, <2>1, <2>2 DEF CopyFile
<1>6. CASE RunBaseline
  <2>1. /\ pc = "copy" /\ DOMAIN clone = Files /\ pc' = "baseline"
        /\ UNCHANGED <<selected, mutant, clone, baseline, results, exit>>
    BY <1>6 DEF RunBaseline, RunTest
  <2>2. TreeInv'
    BY <2>1 DEF TreeInv
  <2>3. QED  BY <1>0, <2>1, <2>2, MovingKeeps DEF LoopInv
<1>7. CASE Baseline
  <2>1. CASE Score("survived")
    BY <1>7, <2>1, ScoreKeeps DEF Baseline
  <2>2. CASE pc' = "patch" /\ baseline' = clone
             /\ UNCHANGED <<selected, mutant, clone, results, exit>>
    <3>1. pc = "baseline" /\ TreeInv'
      BY <1>0, <1>7, <2>2 DEF Baseline, TreeInv
    <3>2. QED  BY <1>0, <2>2, <3>1, MovingKeeps DEF LoopInv
  <2>3. QED  BY <1>7, <2>1, <2>2 DEF Baseline
<1>8. CASE Patch
  <2>1. CASE Score("survived")
    BY <1>8, <2>1, ScoreKeeps DEF Patch
  <2>2. CASE ~Score("survived")
    <3>1. /\ pc = "patch" /\ Anchored(clone, mutant) /\ pc' = "mutated"
          /\ clone' = [f \in Files |-> IF f \in PatchesOf[mutant] THEN "mutated" ELSE clone[f]]
          /\ UNCHANGED <<selected, mutant, baseline, results, exit>>
      BY <1>8, <2>2 DEF Patch, RunTest
    <3>2. baseline = clone
      BY <1>0, <3>1 DEF TreeInv
    <3>3. Anchored(baseline, mutant)' /\ clone' = Patched'
      BY <3>1, <3>2 DEF Anchored, Patched
    <3>4. TreeInv'
      BY <3>1, <3>3 DEF TreeInv
    <3>5. QED  BY <1>0, <3>1, <3>4, MovingKeeps DEF LoopInv
  <2>3. QED  BY <2>1, <2>2
<1>9. CASE Mutated
  <2>1. pc = "mutated" /\ Anchored(baseline, mutant) /\ clone = Patched
    BY <1>0, <1>9 DEF Mutated, TreeInv
  <2>2. CASE CommandError /\ Failed
    BY <1>9, <2>1, <2>2, ScoreKeeps DEF Mutated, Failed
  <2>3. CASE ~(CommandError /\ Failed)
    BY <1>9, <2>1, <2>3, ScoreKeeps DEF Mutated
  <2>4. QED  BY <2>2, <2>3
<1>10. QED
  BY <1>1, <1>2, <1>3, <1>4, <1>5, <1>6, <1>7, <1>8, <1>9
     DEF Next, Runner, rvars, Edit, DatabaseTurns, StartChild, Hang, EndChild, Timeout

(* Whatever the contributor, the database and the go command do, a kill is  *)
(* a named failure of exactly the patched baseline, and zero means that all *)
(* mutants asked for were killed.                                           *)
THEOREM KillsAreEvidence == Spec => []KilledIsEvidence
<1>1. RunInv => KilledIsEvidence
  BY DEF RunInv, VerdictInv, Evidence, KilledIsEvidence
<1>2. QED  BY <1>1, RunInit, RunStep, PTL DEF Spec
=============================================================================
