\* Two configurations of the runner and the translation, the campaign, a custom file.
SPECIFICATION GenerationFair
CONSTANTS
  Parts = {"stream", "loop", "apps", "lcb", "campaign", "custom"}
  NoFile = NoFile
  None = None
  Blank = Blank
  NoList = NoList
  Absent = Absent
  Torn = Torn
  Pipeline = "lcb"
  Tasks = {t1, t2, t3}
  Workers = 2
  Retries = 1
  Tests = 2
  Nothing = Nothing
  P = 3
  N = 2
  UseCache = TRUE
  StreamWorkers = 2
  StreamBatch = 3
  StreamStarts = 2
  LoopBatch = 2
  LoopStarts = 3
  AppsRetries = 2
  Problems = {p1, p2}
  MaxRuns = 3
  Ungraded = Ungraded
  Ids = {1, 2, 3}
  MaxLines = 3
  MaxCodes = 2
INVARIANTS AnswersPlaced TranslationsRight FilesAgree
PROPERTIES NothingForgotten GenerationEnds
\* The command is started a bounded number of times.
CHECK_DEADLOCK FALSE
