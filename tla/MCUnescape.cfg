CONSTANT Inputs <- MCInputs
SPECIFICATION Spec
INVARIANT TypeOK HandledEscapesDecode
CHECK_DEADLOCK FALSE
