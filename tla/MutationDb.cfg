\* The database is lost between the two runs of the named test.
SPECIFICATION FairSpec
CONSTANTS
  Files = {1, 2}
  MutationCount = 2
  PatchesOf <- MCPatchesOf
  MaxEdits = 0
INVARIANTS DatabaseIsNoKill
CHECK_DEADLOCK FALSE
