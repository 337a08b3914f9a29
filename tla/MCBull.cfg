SPECIFICATION TypingSpec
CONSTANTS
  Digits = {0, 1, 4, 5, 9}
INVARIANTS
  RankByTotal
  InsertionFree
  TieToBanker
