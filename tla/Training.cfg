\* PPO, SFT, two configurations of DAPO, one step ahead, SPIN, and the
\* merge of a checkpoint.  One step ahead: two epochs of four batches, saved every
\* other step, four starts.
SPECIFICATION TrainingFair
CONSTANTS
  Parts = {"ppo", "sft", "filter", "plain", "one",
    "pairs", "balanced", "merge"}
  Ranks = {0, 1}
  MaxKeep = 2
  UseCritic = TRUE
  Warmup = 2
  MayExpire = TRUE
  PpoEpochLen = 3
  PpoEpochs = 2
  PpoSaveFreq = 2
  PpoMaxStarts = 3
  SftEpochLen = 4
  SftEpochs = 2
  SftSaveFreq = 3
  SftMaxStarts = 3
  EpochLen = 4
  Epochs = 2
  SaveFreq = 2
  TestFreq = 2
  MaxStarts = 4
INVARIANTS TrainedInTurn TrackedIsWhole ContentsRight OneStepBehind
PROPERTIES NamedIsKept StartEnds
\* The job is started a bounded number of times.
CHECK_DEADLOCK FALSE
