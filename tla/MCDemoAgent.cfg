\* Eleven command lines; two probe calls; two texts of commentary.
CONSTANTS
  Commands <- AllCommands
  Latencies <- SomeLatencies
  Indices <- SomeIndices
  COMMENTARY = 2
  MaxCalls = 2
SPECIFICATION FairSpec
INVARIANTS
  OneVoice
  StagesAnnounced
  EngineStopped
  HeredocsLikeBash
  ChartFits
  TeardownComplete
  ReadIsOnXfs
PROPERTIES
  FilesKept
  DemoEnds
\* The process may have ended.
CHECK_DEADLOCK FALSE
