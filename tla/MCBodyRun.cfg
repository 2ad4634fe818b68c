SPECIFICATION Spec
CONSTANTS
  None = None
  x = x
  y = y
  v = v
  LinearNames = {x}
  Starts <- MCStarts
INVARIANTS AnswersSolve NoUseAfterDeath LinearReadOnce ConsumedOnEveryPath
CHECK_DEADLOCK FALSE
