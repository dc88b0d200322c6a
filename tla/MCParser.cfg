SPECIFICATION Spec
CONSTANTS
  Inputs <- MCInputs
  Identifiers = {"x", "y", "T", "E", "f"}
CHECK_DEADLOCK FALSE
INVARIANTS ParsesC NamesBound
