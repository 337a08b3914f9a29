SPECIFICATION GroupFairSpec
CONSTANTS
  x = x
  y = y
  w1 = w1
  group = group
  Bots <- MCBots
  FirstBot = x
  NoBot = NoBot
  Chats = {group}
  Group = group
  Workers = {w1}
  Kinds = {"text"}
  Cards = {}
  NoCard = NoCard
  OldRows <- MCNoRows
  Waits = {1}
  Cooldown = 0
  GiveUpAfter = 2
  MaxRows = 1
  MaxRetries = 1
  MaxFaults = 1
  MaxRestarts = 1
  MaxRounds = 2
INVARIANTS
  NeverSnapshotsMuted
  RestoredStays
PROPERTIES
  RestoreHappens
CHECK_DEADLOCK FALSE
