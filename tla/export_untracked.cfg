SPECIFICATION Spec
CONSTANTS
  Cap <- DefaultCap
  Budgets <- LongBudget
  MaxCrashes = 0
  MaxEdits = 0
INVARIANT ExportIsFinalWorktree
CHECK_DEADLOCK FALSE
