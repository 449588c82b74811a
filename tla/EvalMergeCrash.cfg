\* Three problems, four evaluations, crashes between any two writes.
SPECIFICATION Spec
CONSTANTS
  Problems = {1, 2, 3}
  Scores = {0, 1}
  MaxRuns = 4
  NoFile = NoFile
  Emptied = Emptied
  Torn = Torn
  NoMetrics = NoMetrics
INVARIANTS TypeOK GradedOnce NamesAgree MeanAgrees
PROPERTY ArchiveGrows
CHECK_DEADLOCK FALSE
