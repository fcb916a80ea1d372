\* A collector attends to a run while another process executes it.
SPECIFICATION Spec
CONSTANTS
  Runners = {r1}
  Collectors = {c1}
  Nobody = Nobody
  MaxSteps = 3
  MaxFailures = 2
  MaxCrashes = 2
  MaxReopens = 1
  Overlap = TRUE
PROPERTY CheckpointsKept
CHECK_DEADLOCK FALSE
