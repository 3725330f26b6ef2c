\* The Haka domain registry over two documents edited and re-read in any order.
CONSTANTS
  d1 = d1
  d2 = d2
  nodoc = nodoc
  Docs <- MCDocs
  NoDoc = nodoc
  Atoms <- MCAtoms
  Sources <- MCSources
SPECIFICATION Spec
INVARIANT TypeOK
INVARIANT ModuleEntryConsistent
INVARIANT RegistryAnchored
PROPERTY LinksTargetAnchors
\* A duplicate object description raises in add_target_and_index and stops
\* the build (crashed): the only state with no successor.
CHECK_DEADLOCK FALSE
