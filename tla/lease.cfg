\* Two CLI processes and a collector that takes turns with them.
SPECIFICATION FairSpec
CONSTANTS
  Runners = {r1, r2}
  Collectors = {c1}
  Nobody = Nobody
  MaxSteps = 3
  MaxFailures = 2
  MaxCrashes = 2
  MaxReopens = 1
  Overlap = FALSE
INVARIANTS
  TypeOK
  SingleExecutor
  MemoryIsFresh
  LogMatchesRow
  EndIsLogged
PROPERTIES
  CheckpointsKept
  LeaseReleased
CHECK_DEADLOCK FALSE
