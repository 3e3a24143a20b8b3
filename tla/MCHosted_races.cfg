SPECIFICATION Spec
CONSTANTS
  RxBufNum = 2
  CpCtrlBufNum = 2
  QueueDepth = 1
  TokenSpan = 4
  LengthSpan = 4
  Chunks <- TwoThenOne
  Aggregating = {FALSE}
  CtrlBufNum = 1
  TxBufNum = 2
  CtrlTokens = 1
  StartAttempts = 1
  MaxData = 4
  MaxFailures = 0
INVARIANTS
  SomePromiseKept
CHECK_DEADLOCK FALSE
