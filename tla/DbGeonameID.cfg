SPECIFICATION Spec
CONSTANTS
  Addr <- MCAddr
  ProtoOf <- MCProtoOf
  Reserved = {"10/8"}
  ReservedString = {"6to4", "10/8"}
  SixBone = {}
  Installed = {"sparse", "broken", "no library"}
  Databases <- MCDatabases
  Disableable <- MCDisableable
  MaxOptions = 2
  Priorities <- MCPriorities
CHECK_DEADLOCK FALSE
INVARIANT
  GeonameIDTypeIsKept
