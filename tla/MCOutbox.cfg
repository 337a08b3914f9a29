SPECIFICATION Spec
CONSTANTS
  x = x
  y = y
  w1 = w1
  w2 = w2
  group = group
  player = player
  card = card
  Bots <- MCBots
  FirstBot = x
  NoBot = NoBot
  Chats = {group, player}
  Group = group
  Cards = {card}
  Workers <- MCWorkers
  Kinds = {"text", "album", "photo", "captioned"}
  NoCard = NoCard
  OldRows <- MCCardRows
  Waits = {1}
  Cooldown = 0
  GiveUpAfter = 5
  MaxRows = 3
  MaxRetries = 1
  MaxFaults = 1
  MaxRestarts = 2
SYMMETRY Symmetric
INVARIANTS
  HeldAlone
  CardPostedOnce
  PauseKept
PROPERTIES
  WaitRespected
  ImplementsDelivery
CHECK_DEADLOCK FALSE
