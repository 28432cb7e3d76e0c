\* No late answers: replies cut up by read() in every way, calls return.
CONSTANTS
  ByteMax = 6
  AddrLen = 1
  SwimErrors <- MCSwimErrors
  Durations <- MCDurations
  ReadBytes = {0, 1}
  Addresses <- MCAddresses
  Sizes = {0, 3, 7}
  WriteBytes = {0, 2}
  Late = FALSE
  SplitCodes = FALSE
  MaxAsked = 1
  MaxTx = 0
SPECIFICATION FairSpec
INVARIANTS
  TypeOK
  LockStep
  ReplyFits
PROPERTIES
  ImplementsRemoteCall
  CallsReturn
