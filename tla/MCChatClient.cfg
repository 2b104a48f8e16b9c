CONSTANTS
  max_body_length = 2
  destsz = 5
  Clients = {c1}
  Bodies = {hi}
  size <- MCsize
  NoBody = NoBody
  Input = {NoBody, hi}
  BadHeaders <- MCBadHeaders
  MaxLines <- MCMaxLines
  MaxServed = 2
SPECIFICATION FairSpec
INVARIANTS Accounted StallMeansClosed
PROPERTIES EndsAfterInput
CHECK_DEADLOCK FALSE
