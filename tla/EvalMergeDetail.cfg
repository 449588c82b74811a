\* The claim of the comment on line 282: the details of the batches are merged.
SPECIFICATION Spec
CONSTANTS
  Problems = {1, 2, 3}
  Scores = {0, 1}
  MaxRuns = 4
  NoFile = NoFile
  Emptied = Emptied
  Torn = Torn
  NoMetrics = NoMetrics
INVARIANT DetailsMerged
CHECK_DEADLOCK FALSE
