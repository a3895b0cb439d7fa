SPECIFICATION Spec
CONSTANTS
  Bit <- MCBit
  Address <- MCAddress
  Token <- MCToken
  Supported <- MCSupported
  Max <- MCMax
  NoLine = NoLine
  MaxTokens = 2
CHECK_DEADLOCK FALSE
INVARIANT
  NegationExcludes
