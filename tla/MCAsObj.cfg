SPECIFICATION Spec
CONSTANTS
  f = f
  g = g
  Idents = {f, g}
  Bytes = {2}
  Trailing = {0}
  AnyQuad = FALSE
  MaxStmts = 6
  Layouts <- MCLayouts
  Imports <- MCImports
CHECK_DEADLOCK FALSE
INVARIANTS LinkedRight SymtabExact
PROPERTIES NothingForgotten
