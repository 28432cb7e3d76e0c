\* A device at either rate, perhaps in mid-command, and what was left behind.
CONSTANTS
  ByteMax = 6
  AddrLen = 1
  SwimErrors <- MCSwimErrors
  Durations <- MCDurations
  ReadBytes = {0}
  Garbled <- MCGarbled
  Leftovers <- MCLeftovers
\* Opening ends, and a read may wait for a byte that never comes.
CHECK_DEADLOCK FALSE
SPECIFICATION FairSpec
INVARIANTS
  TypeOK
  OpenInStep
  OpenFinds
PROPERTIES
  OpenSettles
