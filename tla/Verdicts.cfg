\* Every tester, comparison, report and metric.
SPECIFICATION VerdictsFair
CONSTANTS
  Parts = {"tests", "args", "apps", "words", "numbers", "runs", "empty", "two", "many"}
  Tests = 2
  Timeout = 2
  Nothing = Nothing
  Word = Word
  AppsTests = 3
  GrindInputs = 2
  Blocks = {400, 700}
  Sites = {1}
  None = None
INVARIANTS CtypesRight OutputsRight FindingsKept MetricsRight
PROPERTY TestersEnd
\* Each of them ends.
CHECK_DEADLOCK FALSE
