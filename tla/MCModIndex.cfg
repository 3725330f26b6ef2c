CONSTANTS
  d1 = d1
  d2 = d2
  nodoc = nodoc
  Docs <- MCDocs
  NoDoc = nodoc
  Registries <- MCRegistries
  PrefixSettings <- MCPrefixSettings
SPECIFICATION Spec
INVARIANT EveryModuleListed
CHECK_DEADLOCK FALSE
