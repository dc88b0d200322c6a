SPECIFICATION Spec
CONSTANTS
  Grammars <- MCGrammars
  LabelNames = {x, y}
  AnySwitch = FALSE
CHECK_DEADLOCK FALSE
INVARIANTS FlowAgrees PrintedOnce RejectsIll
