SPECIFICATION Spec
CONSTANTS
  f = f  g = g  IntT = IntT  StrT = StrT  v1 = v1  v2 = v2
  Funcs = {f, g}
  Types = {IntT, StrT}
  Vars = {v1}
  Main = Main
  None = None
  MaxEntries = 2
  MaxSize = 2
  MaxAddr = 2
  RetriesDefinitions = TRUE
  CallsThenRedefines = TRUE
  UnsavedWrites = TRUE
SYMMETRY Renamings
CHECK_DEADLOCK FALSE
INVARIANTS
  CallsMatchChecker
  VariablesPersist
  GoodEntriesCompile
