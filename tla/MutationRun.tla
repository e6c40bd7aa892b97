----------------------------- MODULE MutationRun -----------------------------
(***************************************************************************)
(* The release mutation runner (internal/cmd/zktestmutate): it validates   *)
(* the manifest, then for one mutant after the other takes a snapshot of   *)
(* the sources, runs the named test on it, applies the patches and runs    *)
(* the named test again.  Beside it a contributor edits the sources, the   *)
(* database the tests use comes and goes, and the go command may hang.     *)
(*                                                                         *)
(* A file is its state as far as a patch is concerned: "whole" has the     *)
(* text to replace exactly once, "edited" has not, "mutated" was patched;  *)
(* "link" is a symbolic link to a whole file, which no snapshot takes: any *)
(* failure to copy ends the same way.                                      *)
(***************************************************************************)
EXTENDS Naturals

CONSTANTS
  Files,         \* 1..n, in the order of the walk
  MutationCount, \* entries of the manifest
  PatchesOf,     \* [Mutants -> SUBSET Files]
  MaxEdits       \* bound: edits of the contributor

(* The manifest's entries, M1 and so on in their order. *)
Mutants == 1..MutationCount

ASSUME ManifestIsFinite == MutationCount \in Nat
ASSUME EveryMutantPatches == PatchesOf \in [Mutants -> (SUBSET Files) \ {{}}]

VARIABLES
  pc, selected, mutant,   \* the runner: where, -id flag, next mutant
  clone,                  \* the snapshot: files copied so far -> state
  baseline,               \* the snapshot the named test passed on, or NoTree
  child,                  \* the go command: [state, outcome, timedOut]
  results,                \* mutants scored -> [status, baseline, ran, outcome]
  exit,                   \* exit code, or 3 while running
  source, db, edits,      \* surroundings
  missed                  \* history: a timeout found no process to kill

runner == <<pc, selected, mutant, clone, baseline, results, exit>>
around == <<source, db, edits>>
rvars == <<runner, child, around, missed>>

Unknown == 0              \* an id that is in no manifest
NoTree == [f \in {} |-> "whole"]
NoChild == [state |-> "none", outcome |-> "none", timedOut |-> FALSE]
Started == [NoChild EXCEPT !.state = "starting"]

Init ==
  /\ pc = "validate" /\ selected \in SUBSET (Mutants \cup {Unknown}) /\ mutant = 1
  /\ clone = NoTree /\ baseline = NoTree /\ child = NoChild
  /\ results = [m \in {} |-> NoTree] /\ exit = 3
  /\ source \in [Files -> {"whole", "edited", "link"}]
  /\ db = "up" /\ edits = 0 /\ missed = FALSE

-----------------------------------------------------------------------------
(* Surroundings. *)

Edit(f, to) ==
  /\ edits < MaxEdits /\ edits' = edits + 1
  /\ source' = [source EXCEPT ![f] = to]
  /\ UNCHANGED <<runner, child, db, missed>>

DatabaseTurns ==
  /\ db' = IF db = "up" THEN "down" ELSE "up"
  /\ UNCHANGED <<runner, child, source, edits, missed>>

(* What a go test of the snapshot may come to: by name the test passes,     *)
(* fails because it sees something in the code, or fails because the        *)
(* fixture cannot reach the database; or nothing is said of it by name, in  *)
(* a package that does not build or a test that is skipped.                 *)
Outcomes ==
  {"pass", "fail", "build", "skip"} \cup (IF db = "down" THEN {"database"} ELSE {})
NamedFailure == {"fail", "database"}

StartChild ==
  /\ child.state = "starting"
  /\ child' = [child EXCEPT !.state = "running"]
  /\ UNCHANGED <<runner, around, missed>>
Hang ==
  /\ child.state = "running"
  /\ child' = [child EXCEPT !.state = "hung"]
  /\ UNCHANGED <<runner, around, missed>>
EndChild ==
  /\ child.state = "running"
  /\ \E o \in Outcomes : child' = [child EXCEPT !.state = "ended", !.outcome = o]
  /\ UNCHANGED <<runner, around, missed>>

-----------------------------------------------------------------------------
(* goCommand: the timeout kills the process, if there is one by then, and   *)
(* waits for it; its output so far is read either way.                      *)
TimeoutWaits ==                     \* mutant: nothing is killed
  /\ child.state \in {"starting", "running", "hung"} /\ ~child.timedOut
  /\ child' = [child EXCEPT !.timedOut = TRUE]
  /\ UNCHANGED <<runner, around, missed>>
Timeout ==
  /\ child.state \in {"starting", "running", "hung"} /\ ~child.timedOut
  /\ IF child.state = "starting"
     THEN missed' = TRUE /\ child' = [child EXCEPT !.timedOut = TRUE]
     ELSE /\ \E o \in Outcomes :
               child' = [state |-> "ended", outcome |-> o, timedOut |-> TRUE]
          /\ UNCHANGED missed
  /\ UNCHANGED <<runner, around>>

(* runNamedTest: what the command and its events say. *)
Passed == child.outcome = "pass"
Failed == child.outcome \in NamedFailure
CommandError == child.timedOut \/ child.outcome \notin {"pass", "skip"}

-----------------------------------------------------------------------------
(* The runner. *)

Anchored(tree, m) == \A f \in PatchesOf[m] : tree[f] = "whole"

Exit(code) == pc' = "exited" /\ exit' = code

(* validateManifest, which is over before the first snapshot. *)
Validate ==
  /\ pc = "validate"
  /\ IF \A m \in Mutants : \A f \in PatchesOf[m] : source[f] # "edited"
     THEN pc' = "select" /\ UNCHANGED exit ELSE Exit(2)
  /\ UNCHANGED <<selected, mutant, clone, baseline, results, child, around, missed>>

(* main: the loop over the manifest, the summary and the exit code.         *)
Chosen == IF selected = {} THEN Mutants ELSE selected
Select ==
  /\ pc = "select" /\ mutant \in Mutants
  /\ IF mutant \in Chosen
     THEN pc' = "copy" /\ UNCHANGED mutant
     ELSE mutant' = mutant + 1 /\ UNCHANGED pc
  /\ clone' = NoTree /\ baseline' = NoTree
  /\ UNCHANGED <<selected, results, exit, child, around, missed>>

Summary ==
  /\ pc = "select" /\ mutant \notin Mutants
  /\ Exit(IF selected # {} /\ DOMAIN results # selected THEN 2
          ELSE IF \E m \in DOMAIN results : results[m].status = "survived" THEN 1 ELSE 0)
  /\ UNCHANGED <<selected, mutant, clone, baseline, results, child, around, missed>>

Score(status) ==
  /\ results' = [m \in DOMAIN results \cup {mutant} |->
       IF m = mutant THEN [status |-> status, baseline |-> baseline, ran |-> clone,
                           outcome |-> child.outcome]
       ELSE results[m]]
  /\ pc' = "select" /\ mutant' = mutant + 1 /\ child' = NoChild
  /\ UNCHANGED <<selected, clone, baseline, exit, around, missed>>

(* copyTree, one file after the other. *)
NextFile == CHOOSE f \in Files \ DOMAIN clone : \A g \in Files \ DOMAIN clone : f <= g
CopyFile ==
  /\ pc = "copy" /\ DOMAIN clone # Files
  /\ IF source[NextFile] = "link" THEN Score("survived")
     ELSE /\ clone' = [f \in DOMAIN clone \cup {NextFile} |->
               IF f = NextFile THEN source[f] ELSE clone[f]]
          /\ UNCHANGED <<pc, selected, mutant, baseline, results, exit, child, around, missed>>

RunTest(phase) == pc' = phase /\ child' = Started
RunBaseline ==
  /\ pc = "copy" /\ DOMAIN clone = Files
  /\ RunTest("baseline")
  /\ UNCHANGED <<selected, mutant, clone, baseline, results, exit, around, missed>>

Baseline ==
  /\ pc = "baseline" /\ child.state = "ended"
  /\ IF CommandError \/ ~Passed \/ Failed THEN Score("survived")
     ELSE /\ pc' = "patch" /\ baseline' = clone /\ child' = NoChild
          /\ UNCHANGED <<selected, mutant, clone, results, exit, around, missed>>

(* Mutant of Patch: what validateManifest saw is taken for granted. *)
PatchUnchecked ==
  /\ pc = "patch"
  /\ clone' = [f \in Files |->
       IF f \in PatchesOf[mutant] /\ clone[f] = "whole" THEN "mutated" ELSE clone[f]]
  /\ RunTest("mutated")
  /\ UNCHANGED <<selected, mutant, baseline, results, exit, around, missed>>

(* The patches, each of which must still have its text exactly once.        *)
Patch ==
  /\ pc = "patch"
  /\ IF ~Anchored(clone, mutant) THEN Score("survived")
     ELSE /\ clone' = [f \in Files |->
               IF f \in PatchesOf[mutant] THEN "mutated" ELSE clone[f]]
          /\ RunTest("mutated")
          /\ UNCHANGED <<selected, mutant, baseline, results, exit, around, missed>>

Mutated ==
  /\ pc = "mutated" /\ child.state = "ended"
  /\ Score(IF CommandError /\ Failed THEN "killed" ELSE "survived")

Runner ==
  \/ Validate \/ Select \/ Summary \/ CopyFile \/ RunBaseline
  \/ Baseline \/ Patch \/ Mutated

Next ==
  \/ \E f \in Files, to \in {"whole", "edited", "link"} : Edit(f, to)
  \/ DatabaseTurns
  \/ StartChild \/ Hang \/ EndChild \/ Timeout
  \/ Runner

Spec == Init /\ [][Next]_rvars

(* The runner is a sequential program and the timeout is a timer; a process *)
(* that does not hang starts and ends.                                      *)
FairSpec ==
  /\ Spec
  /\ WF_rvars(Runner) /\ WF_rvars(Timeout)
  /\ WF_rvars(StartChild) /\ WF_rvars(EndChild)

-----------------------------------------------------------------------------
(* Properties. *)

(* A kill is evidence: on the very snapshot on which the named test passed  *)
(* every patch of the mutant, and nothing else, was applied, and then the   *)
(* test failed by name, whatever the contributor did meanwhile.  Exit code  *)
(* zero says so of every mutant that was asked for.                         *)
KilledIsEvidence ==
  /\ \A m \in DOMAIN results : results[m].status = "killed" =>
       /\ results[m].outcome \in NamedFailure
       /\ Anchored(results[m].baseline, m)
       /\ results[m].ran = [f \in Files |->
            IF f \in PatchesOf[m] THEN "mutated" ELSE results[m].baseline[f]]
  /\ exit = 0 => \A m \in Chosen : m \in DOMAIN results /\ results[m].status = "killed"

(* The runner ends although the go command may hang, for as long as no      *)
(* timeout comes before the process it should kill has started (goCommand   *)
(* reads cmd.Process without waiting for it).                               *)
RunnerFinishes == <>(pc = "exited" \/ missed)

(* "requires that same top-level test - not a compile, setup or database-   *)
(* connection failure - to go red" (docs/vulnurability-test-cases.md, 19).  *)
DatabaseIsNoKill ==
  \A m \in DOMAIN results :
    results[m].status = "killed" => results[m].outcome # "database"
=============================================================================
