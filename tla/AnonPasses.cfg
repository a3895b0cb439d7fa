SPECIFICATION PassSpec
CONSTANTS
  Hosts <- MCHosts
  Country <- MCCountry
  Asn <- MCAsn
  Registry <- MCRegistry
  Geoname <- MCGeoname
  Prefixes6 <- MCPrefixes6
  Country6 <- MCCountry6
  Asn6 <- MCAsn6
  Registry6 <- MCRegistry6
  Geoname6 <- MCGeoname6
  RegistryOfAsn <- MCRegistryOfAsn
  RegistryOfCountry <- MCRegistryOfCountry
  Origins <- MCOrigins
  Masks = {5, 8, 16, 24}
  MaxPasses = 3
CHECK_DEADLOCK FALSE
INVARIANTS
  PassTypeOK
  CountryKept
  AsnKept
  RegistryKept
  GeonameKept
  LispKept
  SpecialKept
PROPERTY
  Settled
