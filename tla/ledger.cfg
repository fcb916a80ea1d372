\* Two operations, two callers, two killed calls; no patch applies to its own result.
SPECIFICATION FairSpec
CONSTANTS
  Contents <- MCContents
  Patches <- PatchesOnce
  Rejected <- MCRejected
  Forward <- ForwardOnce
  NumOps = 2
  Empty = "empty"
  Malformed = {"bad"}
  Procs = {p1, p2}
  Nobody = Nobody
  MaxCrashes = 2
INVARIANTS
  TypeOK
  MutualExclusion
  AtMostOnce
  LedgerIsCurrent
  RefusalRestores
PROPERTIES
  ImplementsApplyOnce
  CallsAnswered
CHECK_DEADLOCK FALSE
