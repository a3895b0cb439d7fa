SPECIFICATION Spec
CONSTANTS
  Vhost = {"main", "vhost"}
  Main = "main"
  Source <- MCSource
  Installed = {"all", "asn, cc", "geo", "IPv4", "broken"}
  Databases <- MCDatabases
  Directive <- MCDirective
  Option <- MCOption
  MinLimit = 2
  Size = 4
  OptionsMax = 2
  MaxDirectives = 5
  MaxOverrides = 2
CHECK_DEADLOCK FALSE
INVARIANT
  TypeOK
  NoFallbackKeepsMethod
  FallbackOnlyWhenNeeded
  MethodIsNamed
  StopsAsAsked
