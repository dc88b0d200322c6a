CONSTANTS
  StackSizes <- MCStackSizes
  Arities <- MCArities
  MaxFrames = 5
SPECIFICATION Spec
INVARIANTS
  TypeOK
  DepthIsRsp
  CallAligned
  ArgsInPlace
  OperandsInPlace
  JumpsMeet
  BalancedStmts
PROPERTY BelowUntouched
