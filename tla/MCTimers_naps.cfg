SPECIFICATION FairSpec
CONSTANTS
  Tasks = {t1, t2}
  Callers = {t2}
  NumRunners = 2
  Span = 6
  Sleeps = {1}
  Slack = 1
  None = None
INVARIANTS TypeOK TimersKept
PROPERTIES NeverEarly SleepEnds
CHECK_DEADLOCK FALSE
