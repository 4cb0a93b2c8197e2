\* Two programs and their children and threads.
CONSTANTS
  Threads <- ThreeThreads
  Procs <- ThreeProcs
  MaxExecs = 2
  t1 = t1
  t2 = t2
  t3 = t3
  p1 = p1
  p2 = p2
  p3 = p3
SPECIFICATION Spec
SYMMETRY Interchangeable
INVARIANTS
  DisturbedByOthers
\* All processes may have ended.
CHECK_DEADLOCK FALSE
