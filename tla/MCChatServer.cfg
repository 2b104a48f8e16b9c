CONSTANTS
  max_body_length = 2
  destsz = 5
  Clients = {c1, c2}
  Slow = {c2}
  Bodies = {hi}
  size <- MCsize
  NoBody = NoBody
  BadHeaders <- MCBadHeaders
  max_recent_msgs = 2
  MaxFrames = 3
SPECIFICATION FairSpec
INVARIANTS InOrder WriteChain Framing
PROPERTIES FrontStable ImplementsRoom QueueDrains HungReleased
CHECK_DEADLOCK FALSE
