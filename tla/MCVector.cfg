CONSTANTS
  Names = {dest, src}
  Values = {a, b}
  NULL = NULL
  Junk = Junk
  InitCap = 2
  MaxLen = 4
SPECIFICATION Spec
INVARIANTS
  TypeOK
  Terminated
PROPERTIES
  RefinesStacks
  MergeAppends
  MergeEnds
CHECK_DEADLOCK FALSE
