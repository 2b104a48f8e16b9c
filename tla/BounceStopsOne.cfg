CONSTANTS
  Programs = {"Main01"}
  Threads = {t1, t2, t3}
  Main = Main
  NoOne = NoOne
  MAX_THREADS = 2
  MaxDels = 1
SPECIFICATION Spec
INVARIANTS StopsOneThread
CHECK_DEADLOCK FALSE
