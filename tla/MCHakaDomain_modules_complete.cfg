\* One scenario of the Haka domain: ModulesComplete over the sources MCDupSources.
CONSTANTS
  d1 = d1
  d2 = d2
  nodoc = nodoc
  Docs <- MCDocs
  NoDoc = nodoc
  Atoms <- MCAtoms
  Sources <- MCDupSources
SPECIFICATION Spec
INVARIANT ModulesComplete
\* A duplicate object description raises in add_target_and_index and stops
\* the build (crashed): the only state with no successor.
CHECK_DEADLOCK FALSE
