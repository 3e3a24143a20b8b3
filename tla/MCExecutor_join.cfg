SPECIFICATION Spec
CONSTANTS
  a = a
  b = b
  x = x
  y = y
  None = None
  Tasks = {a}
  Detached = {}
  NumRunners = 2
  Contexts = {x, y}
  Main = None
  MaxWakers = 2
INVARIANTS
  TypeOK
  TasksIntact
  WakeupsKept
CHECK_DEADLOCK FALSE
