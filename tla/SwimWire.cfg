\* Frames, answers and bytes, with the wrap of the counter everywhere.
CONSTANTS
  W = 2048
  Lags = {8, 16}
  Detect = {4, 32}
  NBits = 2
  Gaps = {0, 30}
  Starts <- MCStarts
  MaxFrames = 3
SPECIFICATION Spec
INVARIANTS
  TypeOK
  FrameUnderstood
  BitsHeard
PROPERTIES
  MarginExact
  TakeTurns
