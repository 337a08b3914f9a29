SPECIFICATION FairSpec
CONSTANTS
  x = x
  y = y
  w1 = w1
  w2 = w2
  group = group
  player = player
  card = card
  Bots <- MCBots
  FirstBot = x
  NoBot = NoBot
  Chats = {group, player}
  Group = group
  Cards = {}
  Workers <- MCWorkers
  Kinds = {"text", "album"}
  NoCard = NoCard
  OldRows <- MCNoRows
  Waits = {1}
  Cooldown = 1
  GiveUpAfter = 5
  MaxRows = 2
  MaxRetries = 1
  MaxFaults = 1
  MaxRestarts = 1
PROPERTIES
  EveryRowLeaves
CHECK_DEADLOCK FALSE
