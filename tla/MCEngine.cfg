\* Two engines one after the other, two I/Os in the benchmark.
CONSTANTS
  Modes <- AllModes
  IO_COUNT = 2
  MaxStarts = 2
SPECIFICATION FairSpec
INVARIANTS
  FreshAfterHealthy
  SummaryComplete
  NoOrphan
PROPERTIES
  FinishReturns
\* The interpreter may have ended and the engine as well.
CHECK_DEADLOCK FALSE
