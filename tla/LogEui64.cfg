SPECIFICATION Spec
CONSTANTS
  Hosts <- MCHosts
  Country <- MCCountry
  Asn <- MCAsn
  Registry <- MCRegistry
  Geoname <- MCGeoname
  Prefixes6 <- MCPrefixes6
  Country6 <- MCCountry6
  Asn6 <- MCAsn6
  Registry6 <- MCRegistry6
  Geoname6 <- MCGeoname6
  RegistryOfAsn <- MCRegistryOfAsn
  RegistryOfCountry <- MCRegistryOfCountry
  Tokens <- MCTokens
  Kind <- MCKind
  Texts <- MCTexts
  Anonymous <- MCAnonymous
  Leftover <- MCNoLeftover
  None <- MCNone
  cache_lru_limit = 2
  CACHE_LRU_SIZE = 3
  flag_nocache = FALSE
  Method = "kp"
  Mask4 = 24
  opt_simple = FALSE
  feature_cc = TRUE
  feature_as = TRUE
  MaxLines = 4
CHECK_DEADLOCK FALSE
INVARIANT
  EachTokenOnItsOwn
