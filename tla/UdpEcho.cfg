CONSTANTS
  Clients = {c1, c2}
  Strangers = {s1}
  Server = Server
  BUF_LEN = 3
  MaxRequests = 2
  MaxStray = 1
  MaxFaults = 1
SPECIFICATION UdpSpec
INVARIANTS WholeEchoes InStep
PROPERTIES WaitEnds
CHECK_DEADLOCK FALSE
