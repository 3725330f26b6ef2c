\* spec.md 4.1 and 7: only SGR-shaped sequences are removed.
CONSTANTS
  Inputs <- MCCharInputs
  Builders <- MCNonHtmlBuilders
SPECIFICATION Spec
INVARIANT StripRemovesOnlySgr
CHECK_DEADLOCK FALSE
