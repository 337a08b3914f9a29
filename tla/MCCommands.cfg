SPECIFICATION Spec
CONSTANTS
  Players = {p}
  Amounts = {1}
  MoneyLimit = 2
  Opening = 1
  MaxRequests = 2
  MaxBets = 1
  Pages = {pg1, pg2}
  Deltas <- MCDeltas
  MaxCalls = 3
  MaxSteps = 4
  MaxFaults = 1
INVARIANTS
  AnswersAgree
  RequestMovesOnce
  LockedIsHeld
PROPERTIES
  ImplementsOnce
SYMMETRY PageSymmetry
CHECK_DEADLOCK FALSE
