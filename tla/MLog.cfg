CONSTANTS
  Callers = {a, b}
  Blocks = {1, 2}
SPECIFICATION FairSpec
INVARIANTS LogKept
PROPERTIES TopGetsPrinted
CHECK_DEADLOCK FALSE
