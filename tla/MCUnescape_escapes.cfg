CONSTANT Inputs <- MCInputs
SPECIFICATION Spec
INVARIANT EscapesDecode
CHECK_DEADLOCK FALSE
