SPECIFICATION FairSpec
CONSTANTS
  a = a
  b = b
  x = x
  y = y
  None = None
  Tasks = {a, b}
  Detached = {b}
  NumRunners = 1
  Contexts = {x}
  Main = 0
  MaxWakers = 1
INVARIANTS
  BusyRunnersWake
PROPERTIES
  Implements
  TasksGoOn
CHECK_DEADLOCK FALSE
