SPECIFICATION Spec
CONSTANTS
  r = r
  p = p
  g = g
  h = h
  RowVars = {r, p}
  GridVars = {g, h}
  Param = p
  Cell = {0, 1}
  Unbound = Unbound
  None = None
  MaxObjs = 8
  MaxLists = 4
  MaxNested = 2
  MaxRow = 1
  MaxGrid = 2
  RhsTouchesRoot = TRUE
  BodyWritesIterable = FALSE
PROPERTY StoresUnaliased
VIEW AddressFree
