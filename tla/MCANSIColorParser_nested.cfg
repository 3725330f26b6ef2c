\* spec.md 4.2: a group opened while others are open nests in them.
CONSTANTS
  Inputs <- MCTokenInputs
  Builders <- MCBuilders
SPECIFICATION Spec
INVARIANT NestedStyles
CHECK_DEADLOCK FALSE
