SPECIFICATION FairSpec
CONSTANTS
  Threads = {t1, t2}
  Socks = {s1}
  RingCap = 1
  MapCap = 1
  Workloads <- MCWorkloads
  ChanCap = 1
INVARIANTS
  TypeOK
  BytesCountedOnce
  OwnMetadata
  DelayOncePerReceiver
  LossIsCounted
  InOrderNoLoss
  ClosedIsDrained
CHECK_DEADLOCK FALSE
PROPERTY
  RunReturns
