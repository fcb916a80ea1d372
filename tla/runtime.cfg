\* Two budgets, one failure between checkpoints, one outside edit.
SPECIFICATION FairSpec
CONSTANTS
  Cap <- DefaultCap
  Budgets <- MCBudgets
  MaxCrashes = 1
  MaxEdits = 1
INVARIANTS
  TypeOK
  VerifiedCompletion
  Induction
  VerifiedContent
  ExactlyOneSuccessor
  BudgetsSuffice
  BudgetRespected
  DiagnosesLatestFailure
PROPERTIES
  ImplementsGate
  CallReturns
CHECK_DEADLOCK FALSE
