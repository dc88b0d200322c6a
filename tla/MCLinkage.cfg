SPECIFICATION Spec
CONSTANT Inputs <- MCInputs
INVARIANT NamesLinked
CHECK_DEADLOCK FALSE
