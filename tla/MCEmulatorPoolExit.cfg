\* The destructor runs while other threads are inside calls.
CONSTANTS
  Threads <- ThreeThreads
  MAX_EMULATORS = 2
  Quiescent = FALSE
  t1 = t1
  t2 = t2
  t3 = t3
  t4 = t4
SPECIFICATION Spec
INVARIANTS
  ShutdownJoinsAll
\* The process may have exited: all threads ended and shutdown_all is done.
CHECK_DEADLOCK FALSE
