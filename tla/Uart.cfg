\* From boot: receiving, replying, printing and the RTS line.
CONSTANTS
  FifoSize = 4
  FullThrhd = 2
  QueueLen = 2
  TxFifoSize = 3
  TxRoom = 2
  BannerLen = 2
  ReplyLens = {3}
  SdkLines <- MCSdkLines
  FlowThrhd = 2
  RtsSlack = 1
SPECIFICATION FairUartSpec
INVARIANTS
  TypeOK
  OneToken
  NoLostWakeup
  NothingOverwritten
PROPERTIES
  LostOnlyAtBoot
  NothingDropped
  SentOut
  ServedBusy
