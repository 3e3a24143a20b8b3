SPECIFICATION FairSpec
CONSTANTS
  RxBufNum = 2
  CpCtrlBufNum = 2
  QueueDepth = 1
  TokenSpan = 4
  LengthSpan = 4
  Chunks <- TwoThenOne
  Aggregating = {TRUE, FALSE}
  CtrlBufNum = 1
  TxBufNum = 2
  CtrlTokens = 1
  StartAttempts = 2
  MaxData = 2
  MaxFailures = 1
INVARIANTS
  TypeOK
  BuffersKept
  CallsStayMatched
PROPERTIES
  CreditsKept
  Implements
  CallsEnd
VIEW View
CHECK_DEADLOCK FALSE
