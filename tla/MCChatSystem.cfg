CONSTANTS
  max_body_length = 1
  destsz = 5
  Clients = {c1, c2}
  Bodies = {hi}
  size <- MCsize
  NoBody = NoBody
  Input = {NoBody, hi}
  BadHeaders = {}
  max_recent_msgs = 1
  MaxFrames = 2
  MaxLines <- MCMaxLines
  Typist = c1
  Lines = 2
  MaxServed = 3
SPECIFICATION Spec
INVARIANTS RoomHasTyped ScreenShowsRoom
PROPERTY SidesConform
CHECK_DEADLOCK FALSE
