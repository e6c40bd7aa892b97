\* Two slots for four requests.
SPECIFICATION Spec
CONSTANTS
  Requests = {r1, r2, r3, r4}
  Limit = 2
  Asked <- MCAsked
INVARIANTS TypeOK SlotsAccountedFor RefusalsCostAlike
PROPERTIES EveryRequestIsAnswered
CHECK_DEADLOCK FALSE
