SPECIFICATION Spec
CONSTANT Inputs <- AllInputs
INVARIANTS LaidOut TagsC InPlace
CHECK_DEADLOCK FALSE
