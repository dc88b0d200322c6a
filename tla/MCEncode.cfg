SPECIFICATION Spec
CONSTANTS
  Written <- MCWritten
CHECK_DEADLOCK FALSE
INVARIANTS EncodesMeaning AcceptsPrinted
