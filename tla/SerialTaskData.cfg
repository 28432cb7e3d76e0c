\* Reads and writes with counts 1, 2 and 6, the largest: full buffers.
CONSTANTS
  ByteMax = 6
  AddrLen = 1
  SwimErrors <- MCSwimErrors
  Durations <- MCDurations
  HostBytes = {1, 2, 6}
  ReadBytes = {3}
  MaxRx = 1
  MaxTx = 0
SPECIFICATION RecordedFairSpec
INVARIANT InBounds
PROPERTIES
  ImplementsServer
  Resynchronises
