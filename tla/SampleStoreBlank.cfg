\* One problem of two samples, answers that may be white space, three runs.
SPECIFICATION Spec
CONSTANTS
  Empty = Empty
  NoFile = NoFile
  Torn = Torn
  Problems = {p1}
  N = 2
  Workers = 2
  MaxAttempts = 2
  MaxRuns = 3
  Programs = {g}
  Blanks = {b}
INVARIANTS TypeOK Accounted EvaluatesWhole
PROPERTY DurableSamples
CHECK_DEADLOCK FALSE
