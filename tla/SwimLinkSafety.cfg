\* Calls of every kind, damaged frames, lost answers, resets of the target.
CONSTANTS
  ByteMax = 2
  AddrLen = 1
  Durations <- MCDurations
  Calls <- MCCalls
  Resets <- MCResets
SPECIFICATION FairSpec
INVARIANTS
  TypeOK
  NoContention
  InStep
  SuccessLeavesTargetReady
PROPERTIES
  ImplementsPort
  CallsReturn
