CONSTANTS
  max_body_length = 1
  destsz = 5
  Clients = {c1, c2}
  Bodies = {hi}
  size <- MCsize
  NoBody = NoBody
  Input = {hi}
  BadHeaders = {}
  max_recent_msgs = 1
  MaxFrames = 1
  MaxLines <- MCMaxLines
  Typist = c1
  Lines = 1
  MaxServed = 3
SPECIFICATION FairSpec
PROPERTIES LinePosted MessageShown
CHECK_DEADLOCK FALSE
