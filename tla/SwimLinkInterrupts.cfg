\* The interrupt level between calls.
CONSTANTS
  ByteMax = 2
  AddrLen = 1
  Durations <- MCDurations
  Calls <- MCFewCalls
  Resets <- MCAllResets
SPECIFICATION Spec
INVARIANT InterruptsOnBetweenCalls
