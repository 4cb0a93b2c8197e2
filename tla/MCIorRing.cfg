\* Two producers, three payloads, a version that wraps twice.
CONSTANTS
  Producers <- TwoProducers
  Payloads <- ThreePayloads
  initial_payload = p1
  VERSIONS = 2
  MaxEnqueue = 5
  t1 = t1
  t2 = t2
  p1 = p1
  p2 = p2
  p3 = p3
SPECIFICATION FairSpec
INVARIANTS
  VersionCountsEnqueues
  AbaOnlyOnWrap
  ConsumerSeesPayload
PROPERTIES
  LockFree
