\* Four threads for two emulators: two overdrafts at a time.  The destructor
\* runs when no thread is inside a call.
CONSTANTS
  Threads <- FourThreads
  MAX_EMULATORS = 2
  Quiescent = TRUE
  t1 = t1
  t2 = t2
  t3 = t3
  t4 = t4
SPECIFICATION FairSpec
INVARIANTS
  ShutdownJoinsAll
PROPERTIES
  ImplementsDispenser
  ShutdownReturns
\* The process may have exited: all threads ended and shutdown_all is done.
CHECK_DEADLOCK FALSE
