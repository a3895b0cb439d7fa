SPECIFICATION Spec
CONSTANTS
  Tokens <- MCTokens
  Kind <- MCKind
  Typeinfo <- MCTypeinfo
  Universal <- MCUniversal
  Registry <- MCRegistry
  Vendor <- MCVendor
  VendorCut <- MCVendorCut
  NoVendor = NoVendor
  OutputTypes = {"addrtype", "ouitype", "ipv6addrtype", "any"}
  Limits = {1, 2, 3}
  CACHE_LRU_SIZE = 4
  MaxLines = 6
CHECK_DEADLOCK FALSE
INVARIANTS
  TypeOK
  RingIntact
  NamesAreTransparent
PROPERTY
  RepeatIsFound
