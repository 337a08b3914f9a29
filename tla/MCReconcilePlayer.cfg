SPECIFICATION Spec
CONSTANTS
  p1 = p1
  p2 = p2
  MoneyScale = 1
  PlayerOnly = TRUE
  MuteOnClose = FALSE
  Players <- MCPlayers
  Positions <- MCTwoPositions
  RuleSet <- MCPlayerRules
  InitialRules <- PlayerRules1
  OldNumbers <- MCNoNumbers
  Inputs <- MCTwoInputs
  Stakes = {2}
  Deltas = {8}
  MoneyLimit = 12
  MaxBetsPerRound = 1
  LastNumber = 3
  MaxSkips = 1
  MaxRounds = 3
  MaxRevision = 2
  MaxVersion = 2
INVARIANTS
  ReconcileBalanced
