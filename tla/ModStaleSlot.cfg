SPECIFICATION Spec
CONSTANTS
  Vhost = {main, shop}
  Main = main
  NoAddr = NoAddr
  Configurations <- SameLimitOnly
  Addr4 <- MCAddr4
  Addr6 <- MCAddr6
  MappedOf <- MCMappedOf
  IncludedOf <- MCIncludedOf
  Global <- MCGlobal
  Db <- MCDb
  RegistryResult <- MCRegistryResult
  Anon <- MCAnon
  Text <- MCText
  AnonText <- MCAnonText
  MethodName <- MCMethodName
  Size = 4
  MaxChecked = 4
INVARIANT DataIsThisAddress
