SPECIFICATION Spec
CONSTANTS
  Size = 5
  Chunk = 2
  RingChunks = 4
  BounceChunks = 1
  Depth = 1
  ViewIds = {v1, v2}
  ViewLengths = {2}
  MaxRead = 2
  Reader = Reader
  Filler = Filler
  None = None
INVARIANTS TypeOK BytesRight PinsHold WaiterFed
SYMMETRY ViewSymmetry
CHECK_DEADLOCK FALSE
