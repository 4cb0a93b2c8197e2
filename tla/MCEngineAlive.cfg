\* One engine, started and stopped.
CONSTANTS
  Modes <- AllModes
  IO_COUNT = 1
  MaxStarts = 1
SPECIFICATION Spec
INVARIANTS
  AliveMeansServicing
\* The interpreter may have ended and the engine as well.
CHECK_DEADLOCK FALSE
