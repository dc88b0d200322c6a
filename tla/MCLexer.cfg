SPECIFICATION Spec
CONSTANTS
  Files   <- Small
  Modulus = 256
INVARIANTS LexesC InBounds LiteralsSurvive NumbersRead
CHECK_DEADLOCK FALSE
