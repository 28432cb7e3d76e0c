\* Reads, the commands without a count and the unknown one; data of two values.
CONSTANTS
  ByteMax = 6
  AddrLen = 1
  SwimErrors <- MCSwimErrors
  Durations <- MCDurations
  HostBytes = {0, 1, 3, 4, 5, 6}
  ReadBytes = {2, 3}
  MaxRx = 1
  MaxTx = 0
SPECIFICATION RecordedSpec
INVARIANT TypeOK
PROPERTY ImplementsServer
