CONSTANTS
  Programs = {"MThread01", "Main01", "MThread02"}
  Threads = {t1, t2, t3}
  Main = Main
  NoOne = NoOne
  MAX_THREADS = 2
  MaxDels = 2
SPECIFICATION FairSpec
INVARIANTS KeepRunning OneWriter
PROPERTIES Responsive StopsAll
CHECK_DEADLOCK FALSE
