\* One program that makes a call and forks.
CONSTANTS
  Threads <- TwoThreads
  Procs <- TwoProcs
  MaxExecs = 1
  t1 = t1
  t2 = t2
  t3 = t3
  p1 = p1
  p2 = p2
  p3 = p3
SPECIFICATION FairSpec
PROPERTIES
  CallsReturn
\* All processes may have ended.
CHECK_DEADLOCK FALSE
