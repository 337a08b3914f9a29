SPECIFICATION FairSpec
CONSTANTS
  Bots = {x, y}
  FirstBot = x
  NoBot = NoBot
  OldUpdates = {0, 1, 2}
  BatchLimit = 2
  MaxUpdate = 3
  MaxFaults = 1
  MaxRestarts = 2
  MaxToggles = 2
INVARIANTS
  NothingForgotten
  IdsAreUnique
PROPERTIES
  ImplementsOnce
  EveryUpdateDecided
CHECK_DEADLOCK FALSE
