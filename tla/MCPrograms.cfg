CONSTANTS
  max_body_length = 512
  destsz = 5
  MaxLength = 600
  MaxText = 6
  MaxPattern = 3
  Letters = {"a", "b"}
  MaxArray = 4
  Keys = {1, 2, 3}
  MaxFrames = 6
  Nodes = {n1, n2, n3}
  Blocks = {b1, b2, b3, b4}
  NULL = NULL
  MaxEvents = 4
  MaxDepth = 2
  Slots = 3
  Garbage <- MCGarbage
  MaxCount = 4
  Producers = {q1, q2}
  Consumers = {k1, k2}
  iterations = 2
  Drawings = {"MThread01", "Main01", "MThread02"}
  Faces = {f1, f2}
  Ids = {2, 18}
  SizeX = 2
  SizeY = 1
  MaxDelta = 1
SPECIFICATION MCSpec
INVARIANTS RoundTrip KmpFindsAll Sorting
  Linked ContentsKept BlocksAccounted RingIsQueue AllConsumed ComesBack NoTrail
CHECK_DEADLOCK FALSE
