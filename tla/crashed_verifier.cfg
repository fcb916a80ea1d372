SPECIFICATION Spec
CONSTANTS
  Cap <- DefaultCap
  Budgets <- LongBudget
  MaxCrashes = 1
  MaxEdits = 0
INVARIANT NoTestMutationDelivered
CHECK_DEADLOCK FALSE
