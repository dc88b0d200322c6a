SPECIFICATION Spec
CONSTANTS
  Idents <- MCIdents
  Tokens <- MCTokens
  Programs <- MCPrograms
  MaxFrames = 9
CHECK_DEADLOCK FALSE
INVARIANTS NestedOnce Restored FollowsC
PROPERTIES Terminates
