CONSTANTS
  Clients = {c1}
  data_size = 3
  UpCap = 4
  DownCap = 2
  MaxRequest = 7
  Askers = {p1, p2}
  MaxCalls = 2
  Nodes = {n1, n2, n3}
  Blocks = {b1, b2, b3, b4}
  NULL = NULL
  Words = {v, w}
  MaxAdds = 4
SPECIFICATION MCSpec
INVARIANTS Conserved OneOperation RepliesToSender WordsKept
PROPERTIES ReplyComes Served
CHECK_DEADLOCK FALSE
