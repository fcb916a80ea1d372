\* An apply-result process that is killed once.
SPECIFICATION Spec
CONSTANTS
  Contents <- MCContents
  Patches <- PatchesOnce
  Rejected <- MCRejected
  Forward <- ForwardOnce
  NumOps = 1
  Empty = "empty"
  Malformed = {"bad"}
  Procs = {p1}
  Nobody = Nobody
  MaxCrashes = 1
INVARIANT InterruptionIsRecovered
CHECK_DEADLOCK FALSE
