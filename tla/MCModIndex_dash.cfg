CONSTANTS
  d1 = d1
  d2 = d2
  nodoc = nodoc
  Docs <- MCDocs
  NoDoc = nodoc
  Registries <- MCDashRegistries
  PrefixSettings <- MCNoPrefixSettings
SPECIFICATION Spec
INVARIANT SubmodulesUnderPackage
CHECK_DEADLOCK FALSE
