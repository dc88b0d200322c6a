SPECIFICATION Spec
CONSTANTS
  Lists = {l1, l2}
  Values = {x}
  ParamSizes <- MCParamSizes
  LocalSizes <- MCLocalSizes
  Params <- MCParams
  MaxExtra = 3
  MaxLocals = 1
  MaxCall = 10
CHECK_DEADLOCK FALSE
INVARIANTS VariablesApart LinkageKept ListsInBounds
PROPERTIES RefinesC
