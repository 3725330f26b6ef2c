CONSTANT Inputs <- MCSiblingInputs
SPECIFICATION Spec
INVARIANT BalancedListsParse
CHECK_DEADLOCK FALSE
