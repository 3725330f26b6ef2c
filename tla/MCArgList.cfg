CONSTANT Inputs <- MCInputs
SPECIFICATION Spec
INVARIANT TypeOK NestedListsParse StackIsPath
CHECK_DEADLOCK FALSE
