\* Two fields of one request, two claims and the empty name, two grants of each.
SPECIFICATION Spec
CONSTANTS
  Names = {vote, member, blank}
  Fields = {f1, f2}
  Demands <- MCDemands
  Blank = blank
  None = None
  MaxGrants = 2
INVARIANTS TypeOK GrantsAreNotShared
PROPERTIES ProofsReturn RefinesAllowances
CHECK_DEADLOCK FALSE
