SPECIFICATION Spec
CONSTANTS
  a = a
  b = b
  x = x
  y = y
  None = None
  Tasks = {a}
  Detached = {}
  NumRunners = 1
  Contexts = {x}
  Main = 0
  MaxWakers = 1
PROPERTIES
  FutureStaysHome
CHECK_DEADLOCK FALSE
