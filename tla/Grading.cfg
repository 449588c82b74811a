\* One program of each kind, and the pool of three problems.
SPECIFICATION GradingFair
CONSTANTS
  Parts = {"judge", "pool"}
  Tests = 2
  Timeout = 1
  PerTest = 1
  Margin = 1
  CallMargin = 4
  GccLimit = 2
  RunLimit = 1
  MaxErrors = 1
  None = None
  Problems = 3
  Samples = 2
  Workers = 2
  Crashed = Crashed
  NotYet = NotYet
INVARIANTS VerdictRight LocalTimeoutsFirst VerdictsPlaced
PROPERTIES Patience GradingEnds
CHECK_DEADLOCK FALSE
