CONSTANTS
  Clients = {c1}
  Strangers = {s1}
  Server = Server
  BUF_LEN = 4
  MaxRequests = 1
  MaxStray = 1
  MaxFaults = 0
SPECIFICATION UdpSpec
INVARIANTS EchoIsMessage
CHECK_DEADLOCK FALSE
