\* Two runs one after the other, started in six ways; three probes.
CONSTANTS
  Configs <- AllConfigs
  PROBES = 3
  MaxRuns = 2
SPECIFICATION Spec
INVARIANTS
  DeviceGivenBack
  CleanupComplete
PROPERTIES
  DeviceNotShared
\* The last run may have ended.
CHECK_DEADLOCK FALSE
