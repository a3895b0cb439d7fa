SPECIFICATION Spec
CONSTANTS
  Thread = {t1, t2}
  Addr = {a, b, c}
  NoAddr = NoAddr
  Data <- MCData
  limit = 2
  Size = 4
  MaxRequests = 4
CHECK_DEADLOCK FALSE
INVARIANTS
  TypeOK
  RightUnlessOverlapped
PROPERTY
  EveryRequestIsAnswered
