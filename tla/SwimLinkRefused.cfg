\* The target may refuse for ever.
CONSTANTS
  ByteMax = 2
  AddrLen = 1
  Durations <- MCDurations
  Calls <- MCFewCalls
  Resets <- MCAllResets
SPECIFICATION SpecRefusing
PROPERTY SendCommandReturns
