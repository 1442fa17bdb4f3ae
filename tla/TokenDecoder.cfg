CONSTANTS
  Window = 16
  Hop = 2
  B = 36
  Tolerance = 1
  NumMessageTokens = 2
  Blocks = {7, 16}
  TokenSamples = 36
  Begins = {16}
  Gaps = {0, 7}
  Messages = 2
  Faint = {1, 8}
  Bursts = {0, 1, 12}
  LastBurst = 80
SPECIFICATION Spec
INVARIANTS
  TypeOK
  WindowsInOrder
  TokensAligned
  WordsRight
  MessagesFound
CHECK_DEADLOCK FALSE
