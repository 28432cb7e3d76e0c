\* Late answers, split codes, a size above a byte.
CONSTANTS
  ByteMax = 6
  AddrLen = 1
  SwimErrors <- MCSwimErrors
  Durations <- MCDurations
  ReadBytes = {1}
  Addresses <- MCOneAddress
  Sizes = {0, 1, 7}
  WriteBytes = {1}
  Late = TRUE
  SplitCodes = TRUE
  MaxAsked = 2
  MaxTx = 4
\* The library may wait for bytes that never come; MaxTx stops its callers.
CHECK_DEADLOCK FALSE
SPECIFICATION Spec
INVARIANT Framed
