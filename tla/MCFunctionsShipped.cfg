CONSTANTS
  max_body_length = 512
  destsz = 4
  MaxLength = 600
  MaxText = 6
  MaxPattern = 3
  Letters = {"a", "b"}
  MaxArray = 4
  Keys = {1, 2, 3}
  MaxFrames = 6
SPECIFICATION FunctionsSpec
INVARIANTS RoundTrip
CHECK_DEADLOCK FALSE
