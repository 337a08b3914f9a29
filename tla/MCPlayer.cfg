SPECIFICATION Spec
CONSTANTS
  p1 = p1
  p2 = p2
  MoneyScale = 1
  PlayerOnly = TRUE
  MuteOnClose = TRUE
  Players <- MCPlayers
  Positions <- MCPositions
  RuleSet <- MCPlayerRules
  InitialRules <- PlayerRules1
  OldNumbers <- MCOldNumbers
  Inputs <- MCInputs
  Stakes = {1, 2}
  Deltas <- MCDeltas
  MoneyLimit = 14
  MaxBetsPerRound = 2
  LastNumber = 3
  MaxSkips = 1
  MaxRounds = 3
  MaxRevision = 1
  MaxVersion = 2
INVARIANTS
  TypeOK
  RoundChain
  WithinLimit
  LockedIsHeld
  BetsMatchRound
  SettlementCovered
PROPERTIES
  RulesFrozen
  SettledAsShown
  VoidIsNeutral
