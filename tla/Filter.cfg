SPECIFICATION Spec
CONSTANTS
  Bit <- MCBit
  Address <- MCAddress
  Token <- MCToken
  Supported <- MCSupported
  Max <- MCMax
  NoLine = NoLine
  MaxTokens = 3
CHECK_DEADLOCK FALSE
INVARIANTS
  TypeOK
  SelectsAsMeant
