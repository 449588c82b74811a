\* The claim of README.md:39 about fully passing programs.
SPECIFICATION GradingSpec
CONSTANTS
  Parts = {"judge"}
  Tests = 2
  Timeout = 1
  PerTest = 1
  Margin = 1
  CallMargin = 4
  GccLimit = 2
  RunLimit = 1
  MaxErrors = 1
  None = None
  Problems = 3
  Samples = 2
  Workers = 2
  Crashed = Crashed
  NotYet = NotYet
INVARIANT FullyPassingIsSafe
CHECK_DEADLOCK FALSE
