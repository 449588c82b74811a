\* Two problems, no white-space answers: the abstract log and the liveness.
SPECIFICATION FairSpec
CONSTANTS
  Empty = Empty
  NoFile = NoFile
  Torn = Torn
  Problems = {p1, p2}
  N = 2
  Workers = 1
  MaxAttempts = 1
  MaxRuns = 2
  Programs = {g}
  Blanks = {}
PROPERTIES ImplementsLog Terminates
CHECK_DEADLOCK FALSE
