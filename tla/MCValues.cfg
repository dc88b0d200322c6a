SPECIFICATION Spec
CONSTANTS
  Byte  = 2
  Word  = 3
  Long  = 4
  Quad  = 5
INVARIANT ValuesC
CHECK_DEADLOCK FALSE
