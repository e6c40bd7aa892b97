\* Two files, two mutants, one edit while the runner works.
SPECIFICATION FairSpec
CONSTANTS
  Files = {1, 2}
  MutationCount = 2
  PatchesOf <- MCPatchesOf
  MaxEdits = 2
INVARIANTS KilledIsEvidence
PROPERTIES RunnerFinishes
CHECK_DEADLOCK FALSE
