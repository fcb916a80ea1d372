\* A patch with repeated context, applied by one process that is killed once.
SPECIFICATION Spec
CONSTANTS
  Contents <- MCContents
  Patches <- PatchesAgain
  Rejected <- MCRejected
  Forward <- ForwardAgain
  NumOps = 1
  Empty = "empty"
  Malformed = {}
  Procs = {p1}
  Nobody = Nobody
  MaxCrashes = 1
INVARIANT AtMostOnce
CHECK_DEADLOCK FALSE
