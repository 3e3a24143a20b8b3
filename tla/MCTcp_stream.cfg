SPECIFICATION Spec
CONSTANTS
  a = a
  b = b
  None = None
  Client = a
  Server = b
  Callers = {a}
  Patient = {b}
  HalfClosers = {a}
  Space = 16
  Iss <- Wrapping
  RxRing <- Rings
  TxRing <- Rings
  Mss = 2
  NoDelay = TRUE
  Ranges = 1
  DupAcks = 1
  MaxRetries = 1
  MaxSynRetries = 1
  ToWrite <- ByClient
  Pieces = {1}
  Cwnds = {2}
  InTransit <- Overtaking
  Rooms = {0}
  MaxRefusals <- ClientOnce
  HandshakeMeetsFullLink = FALSE
INVARIANTS
  TypeOK
  StreamIntact
  NothingForgotten
PROPERTIES
  Implements
