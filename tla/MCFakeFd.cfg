\* Three threads on three slots, so that both the tight case and the overcommitted
\* one occur.  They share FD 0 and take turns on the others; a file of two bytes:
\* transfers whole, cut at the end and beyond it, seeks before the start.
CONSTANTS
  Threads <- ThreeThreads
  FAKE_FD_COUNT = 3
  MOCK_FILE_SIZE = 2
  Counts = {2}
  SeekOffsets <- Offsets
  MaxPos = 3
  SharedFds = {0}
  t1 = t1
  t2 = t2
  t3 = t3
SPECIFICATION Spec
SYMMETRY ThreadSymmetry
INVARIANTS
  SlotOwnership
  FailsOnlyBeyondCapacity
PROPERTIES
  ImplementsOpenFiles
