\* The timeout of read() that is set and undone.
CONSTANTS
  ByteMax = 6
  AddrLen = 1
  SwimErrors <- MCSwimErrors
  Durations <- MCDurations
  ReadBytes = {0, 1}
  Addresses <- MCOneAddress
  Sizes = {0, 1}
  WriteBytes = {1}
  Late = FALSE
  SplitCodes = FALSE
  MaxAsked = 1
  MaxTx = 0
SPECIFICATION SpecStalling
PROPERTY CallsReturn
