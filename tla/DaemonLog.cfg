CONSTANTS
  Texts <- MCTexts
  Tails = {0, 1, 2}
  Chunk = 2
  Buffer = 2
  MaxEnd = 3
  MaxFiles = 2
  MaxLives = 3
SPECIFICATION FairSpec
INVARIANTS
  InOrder
  TailIsLastLines
PROPERTIES
  CatchesUp
CHECK_DEADLOCK FALSE
