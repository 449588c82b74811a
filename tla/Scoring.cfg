\* A batch on its way to the update, and the scores of its rows.
SPECIFICATION ScoringFair
CONSTANTS
  Parts = {"ranks", "micro", "remax", "packed", "spread", "alone", "advantages",
    "budget", "equal", "mesh", "pads", "calls", "answers", "reward"}
  None = None
  Responses = {1, 2}
  Cases = {1, 2}
  Answers <- Certain
  Processes = 2
  MaxConcurrent = 2
  MaxRetries = 2
  Considered = 10
  Batches = 2
INVARIANTS FlowRight BalanceRight ScoreRight
PROPERTIES ScoringEnds
\* A batch goes its way once.
CHECK_DEADLOCK FALSE
