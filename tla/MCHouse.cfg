SPECIFICATION Spec
CONSTANTS
  p1 = p1
  p2 = p2
  MoneyScale = 1
  PlayerOnly = FALSE
  MuteOnClose = FALSE
  Players <- MCPlayers
  Positions <- MCTwoPositions
  RuleSet <- MCHouseRules
  InitialRules <- HouseRules1
  OldNumbers <- MCNoNumbers
  Inputs <- MCHouseInputs
  Stakes = {1}
  Deltas <- MCHouseDeltas
  MoneyLimit = 14
  MaxBetsPerRound = 2
  LastNumber = 2
  MaxSkips = 1
  MaxRounds = 2
  MaxRevision = 2
  MaxVersion = 2
INVARIANTS
  ReconcileBalanced
  QuarterRule
  SettlementCovered
PROPERTIES
  VoidIsNeutral
