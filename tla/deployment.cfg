\* Two processes, two commands, one kill, searches of three iterations.
SPECIFICATION Spec
CONSTANTS
  Slots = {"retry", "heat"}
  Caps = {"retry"}
  Handwritten <- MCHandwritten
  Tunings = {0, 1}
  DefaultSpace <- MCDefaultSpace
  MutationFiles <- MCMutationFiles
  Train <- MCTrain
  ValidationFiles <- MCValidationFiles
  Rewards = {0, 1}
  Verdicts <- MCVerdicts
  MinGain = 1
  MaxIterations = 3
  Procs = {p1, p2}
  Missing = Missing
  Partial = Partial
  MaxCommands = 2
  Earlier <- MCEarlier
  MaxCrashes = 1
SYMMETRY MCSymmetry
INVARIANTS
  TypeOK
  WinnerIsBest
  LoadedIsOneWrite
  CapsNeverRise
  RunKeepsItsGraph
CHECK_DEADLOCK FALSE
