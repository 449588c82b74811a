\* The claim of README.md:40, with answers that may be white space.
SPECIFICATION Spec
CONSTANTS
  Empty = Empty
  NoFile = NoFile
  Torn = Torn
  Problems = {p1}
  N = 2
  Workers = 2
  MaxAttempts = 2
  MaxRuns = 3
  Programs = {g}
  Blanks = {b}
PROPERTY NoWorkLost
CHECK_DEADLOCK FALSE
