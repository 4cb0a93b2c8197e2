\* Three slots and nine submissions: every slot is reused twice, the head
\* pointer wraps (modulo 4), and the host can be ahead by a full ring.
CONSTANTS
  QUEUE_SIZE = 3
  PtrModulus = 4
  MaxSubmit = 9
SPECIFICATION FairSpec
INVARIANTS
  TypeOK
  SqSlotRaceFree
  CqSlotRaceFree
  ServesOwnEntry
  LatencyOfOneIo
PROPERTIES
  ImplementsQueuePair
  PollReturns
  DeviceStops
\* Both threads may have ended: the bound is reached and the device is done.
CHECK_DEADLOCK FALSE
