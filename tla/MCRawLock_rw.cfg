SPECIFICATION FairSpec
CONSTANTS
  t1 = t1
  t2 = t2
  f1 = f1
  Threads = {t1, t2}
  Futures = {f1}
  Mortal = {t1}
  Modes <- Mixed
  Priority <- OneUrgent
  Batch = 1
  Nobody = Nobody
INVARIANTS
  TypeOK
  Exclusion
  WordMatches
  WaitersLinked
  WaitersServed
PROPERTIES
  Implements
  QueueInTurn
  WriterServed
VIEW View
