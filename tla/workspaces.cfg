\* One run, two apply-result processes, one cleanup, one change from outside, one kill.
SPECIFICATION FairSpec
CONSTANTS
  Paths = {"a", "b"}
  Refused = {}
  DevNull = "null"
  Unset = "unset"
  MaxFiles = 2
  Promoters = {p1, p2}
  Proposals <- MCProposals
  Touches <- MCTouches
  NumCommands <- MCNumCommands
  MaxRepairs = 1
  NoTree = NoTree
  Nobody = Nobody
  MaxOutside = 1
  MaxCrashes = 1
  MaxContextFiles = 1
  MaxFileBytes = 3
  MaxContextBytes = 4
  MaxReadable = 6
  ScanBudget = 8
INVARIANTS
  TypeOK
  PromotionSeesBase
PROPERTIES
  WorkRetained
  NoRemovalUnderfoot
  CallsReturn
CHECK_DEADLOCK FALSE
