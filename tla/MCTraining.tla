----------------------------- MODULE MCTraining ----------------------------
(**************************************************************************)
(* The trainers of verl for TLC, each with its crashes and restarts: the  *)
(* PPO trainer and the SFT trainer with the files of their checkpoints    *)
(* (PpoTrainer, SftTrainer over Checkpoints), the dynamic sampling of DAPO*)
(* (DapoTrainer), the trainer that generates one step ahead (OneStepOff)  *)
(* and the online DPO of SPIN (SpinTrainer); and a model on its way       *)
(* between Hugging Face and Megatron or FSDP checkpoints (ModelMerger).   *)
(*                                                                        *)
(* A job runs one of them: a behaviour belongs to one part, and the others*)
(* rest.  OneStepOff is the module that is extended, and the other        *)
(* trainers are instances: its properties are checked as they stand there.*)
(**************************************************************************)
EXTENDS OneStepOff

CONSTANTS
  Parts,              \* the parts that are checked
  Ranks, MaxKeep,     \* of PpoTrainer and SftTrainer
  UseCritic, Warmup, MayExpire,                       \* of PpoTrainer
  PpoEpochLen, PpoEpochs, PpoSaveFreq, PpoMaxStarts,
  SftEpochLen, SftEpochs, SftSaveFreq, SftMaxStarts   \* of SftTrainer

VARIABLES
  part,
  ppoTracker, ppoFolders, ppoStarts, ppoPc, asked, ppoToSave,  \* PpoTrainer
  ppoSteps, ppoEpoch, ppoPos, ppoModel, ppoSaved,
  sftTracker, sftFolders, sftStarts, sftPc, sftToSave, step,  \* SftTrainer
  sftEpoch, sftPos, sftModel, sftSaved,
  dapoCkpt, dapoStarts, dapoPc, dapoSteps, dapoEpoch, dapoPos,  \* DapoTrainer
  dapoBatch, num_prompt_in_batch, num_gen_batches, drawn, trained,
  spinSaved, spinStarts, spinPc, spinSteps, spinEpoch, spinBatch,  \* SpinTrainer
  left, spinModel, ref, rows, refDone, pairs,
  mergerModel, mergerMesh, mergerStage, mergerHeld, mergerNext,  \* ModelMerger
  mergerCkpt, mergerFiles, mergerIndex, mergerStarts

ppoVars == <<ppoTracker, ppoFolders, ppoStarts, ppoPc, asked, ppoToSave,
              ppoSteps, ppoEpoch, ppoPos, ppoModel, ppoSaved>>
sftVars == <<sftTracker, sftFolders, sftStarts, sftPc, sftToSave, step,
              sftEpoch, sftPos, sftModel, sftSaved>>
dapoVars == <<dapoCkpt, dapoStarts, dapoPc, dapoSteps, dapoEpoch, dapoPos,
               dapoBatch, num_prompt_in_batch, num_gen_batches, drawn,
               trained>>
spinVars == <<spinSaved, spinStarts, spinPc, spinSteps, spinEpoch, spinBatch,
               left, spinModel, ref, rows, refDone, pairs>>
mergerVars == <<mergerModel, mergerMesh, mergerStage, mergerHeld, mergerNext,
                 mergerCkpt, mergerFiles, mergerIndex, mergerStarts>>
trainingVars == <<part, ppoVars, sftVars, dapoVars, vars, spinVars, mergerVars>>

\* The critic is a second group of workers that saves.
PpoRoles == IF UseCritic THEN <<"actor", "critic">> ELSE <<"actor">>

Ppo == INSTANCE PpoTrainer WITH
  tracker <- ppoTracker, folders <- ppoFolders, starts <- ppoStarts,
  pc <- ppoPc, toSave <- ppoToSave, steps <- ppoSteps, epoch <- ppoEpoch,
  pos <- ppoPos, model <- ppoModel, saved <- ppoSaved, Roles <- PpoRoles,
  EpochLen <- PpoEpochLen, Epochs <- PpoEpochs, SaveFreq <- PpoSaveFreq,
  MaxStarts <- PpoMaxStarts

Sft == INSTANCE SftTrainer WITH
  tracker <- sftTracker, folders <- sftFolders, starts <- sftStarts,
  pc <- sftPc, toSave <- sftToSave, epoch <- sftEpoch, pos <- sftPos,
  model <- sftModel, saved <- sftSaved, Roles <- <<"model">>,
  EpochLen <- SftEpochLen, Epochs <- SftEpochs, SaveFreq <- SftSaveFreq,
  MaxStarts <- SftMaxStarts

\* A training batch of one and a half generated ones; or without the filter.
Filtered == INSTANCE DapoTrainer WITH
  ckpt <- dapoCkpt, starts <- dapoStarts, pc <- dapoPc, steps <- dapoSteps,
  epoch <- dapoEpoch, pos <- dapoPos, batch <- dapoBatch, GenBatch <- 2,
  TrainBatch <- 3, N <- 2, Scores <- {0, 6}, Precision <- 3, Filter <- TRUE,
  MaxGen <- 3, EpochLen <- 2, Epochs <- 2, SaveFreq <- 1, MaxStarts <- 2
Plain == INSTANCE DapoTrainer WITH
  ckpt <- dapoCkpt, starts <- dapoStarts, pc <- dapoPc, steps <- dapoSteps,
  epoch <- dapoEpoch, pos <- dapoPos, batch <- dapoBatch, GenBatch <- 2,
  TrainBatch <- 2, N <- 2, Scores <- {0, 6}, Precision <- 3, Filter <- FALSE,
  MaxGen <- 3, EpochLen <- 2, Epochs <- 2, SaveFreq <- 2, MaxStarts <- 3

\* Two answers to two prompts, and every call that may raise; or balanced rows,
\* trained on from the second step.
Pairs == INSTANCE SpinTrainer WITH
  saved <- spinSaved, starts <- spinStarts, pc <- spinPc, steps <- spinSteps,
  epoch <- spinEpoch, batch <- spinBatch, model <- spinModel, Prompts <- 2,
  N <- 2, WorldSize <- 2, Balanced <- FALSE, Scores <- {0, 1}, RefFreq <- 1,
  SaveFreq <- 2, Warmup <- 0, EpochLen <- 2, Epochs <- 2, Total <- 4,
  Failing <- {"generate", "log_prob", "ref", "reward"}, MaxStarts <- 3
Mixed == INSTANCE SpinTrainer WITH
  saved <- spinSaved, starts <- spinStarts, pc <- spinPc, steps <- spinSteps,
  epoch <- spinEpoch, batch <- spinBatch, model <- spinModel, Prompts <- 2,
  N <- 2, WorldSize <- 2, Balanced <- TRUE, Scores <- {0, 1}, RefFreq <- 1,
  SaveFreq <- 0, Warmup <- 2, EpochLen <- 3, Epochs <- 2, Total <- 4,
  Failing <- {}, MaxStarts <- 2

\* Three architectures; five layers are saved in two files each, and four ranks
\* cannot share them.
Merger == INSTANCE ModelMerger WITH
  model <- mergerModel, mesh <- mergerMesh, stage <- mergerStage,
  held <- mergerHeld, next <- mergerNext, ckpt <- mergerCkpt,
  files <- mergerFiles, index <- mergerIndex, starts <- mergerStarts,
  Archs <- {"qwen2_moe", "qwen3_moe", "deepseek_v3"}, Layers <- {4, 5},
  RankCounts <- {1, 2, 4}, Heads <- 4, KvHeads <- 2, Experts <- 2,
  ManyLayers <- 5, Meshes <- {<<1, 1>>, <<1, 3>>, <<2, 2>>}, MaxMerges <- 2

ASSUME TrainingAssumption ==
  /\ Parts \subseteq {"ppo", "sft", "filter", "plain",
                       "one", "pairs", "balanced", "merge"}
  /\ UseCritic \in BOOLEAN
  /\ Ppo!PpoTrainerAssumption
  /\ Sft!SftTrainerAssumption
  /\ Filtered!DapoTrainerAssumption
  /\ Plain!DapoTrainerAssumption
  /\ Pairs!SpinTrainerAssumption
  /\ Mixed!SpinTrainerAssumption
  /\ Merger!ModelMergerAssumption

-----------------------------------------------------------------------------
\* What a part that is not looked at rests in: one of its initial
\* states.
DapoRests == Filtered!Init
SpinRests == Pairs!Init
MergerRests ==
  /\ mergerModel = [arch |-> "qwen2_moe", layers |-> 4, lora |-> FALSE]
  /\ mergerMesh = <<1, 1>>
  /\ mergerStage = "convert"
  /\ Merger!Init

TrainingInit ==
  /\ part \in Parts
  /\ Ppo!Init
  /\ Sft!Init
  /\ CASE part = "filter" -> Filtered!Init
       [] part = "plain" -> Plain!Init
       [] OTHER -> DapoRests
  /\ Init   \* OneStepOff
  /\ CASE part = "pairs" -> Pairs!Init
       [] part = "balanced" -> Mixed!Init
       [] OTHER -> SpinRests
  /\ IF part = "merge" THEN Merger!Init ELSE MergerRests

\* The others stay where they are.
PpoOnly == UNCHANGED <<part, sftVars, dapoVars, vars, spinVars, mergerVars>>
SftOnly == UNCHANGED <<part, ppoVars, dapoVars, vars, spinVars, mergerVars>>
DapoOnly == UNCHANGED <<part, ppoVars, sftVars, vars, spinVars, mergerVars>>
OneOnly == UNCHANGED <<part, ppoVars, sftVars, dapoVars, spinVars, mergerVars>>
SpinOnly == UNCHANGED <<part, ppoVars, sftVars, dapoVars, vars, mergerVars>>
MergerOnly == UNCHANGED <<part, ppoVars, sftVars, dapoVars, vars, spinVars>>

TrainingNext ==
  \/ part = "ppo" /\ Ppo!Next /\ PpoOnly
  \/ part = "sft" /\ Sft!Next /\ SftOnly
  \/ part = "filter" /\ Filtered!Next /\ DapoOnly
  \/ part = "plain" /\ Plain!Next /\ DapoOnly
  \/ part = "one" /\ Next /\ OneOnly
  \/ part = "pairs" /\ Pairs!Next /\ SpinOnly
  \/ part = "balanced" /\ Mixed!Next /\ SpinOnly
  \/ part = "merge" /\ Merger!Next /\ MergerOnly

TrainingSpec == TrainingInit /\ [][TrainingNext]_trainingVars

\* The fairness of OneStepOff: the driver and the two groups of workers.
TrainingFair ==
  /\ TrainingSpec
  /\ WF_vars(part = "one" /\ Driver) /\ WF_vars(part = "one" /\ Groups)

-----------------------------------------------------------------------------
(* However often the job dies and is resumed, the batches are trained on   *)
(* in their turn, each once: PpoTrainer!TrainedOnce (ray_trainer.py),      *)
(* SftTrainer!TrainedOnce (fsdp_sft_trainer.py), OneStepOff!FollowsOn      *)
(* (one_step_off_policy), SpinTrainer!TrainedInOrder (spin_trainer.py).    *)
TrainedInTurn ==
  /\ part = "ppo" => Ppo!TypeOK /\ Ppo!TrainedOnce
  /\ part = "sft" => Sft!TypeOK /\ Sft!TrainedOnce
  /\ part = "one" => TypeOK /\ FollowsOn
  /\ part = "pairs" => Pairs!TypeOK /\ Pairs!TrainedInOrder
  /\ part = "balanced" => Mixed!TypeOK /\ Mixed!TrainedInOrder

(* The step the tracker names has a checkpoint a job can go on from, and   *)
(* little is lost by a crash: PpoTrainer!TrackedIsWhole, LittleIsLost,     *)
(* SftTrainer!ResumesLatest, EndsComplete.                                 *)
TrackedIsWhole ==
  /\ part = "ppo" => Ppo!TrackedIsWhole /\ Ppo!LittleIsLost
  /\ part = "sft" => Sft!ResumesLatest /\ Sft!EndsComplete

(* Rotation does not touch the checkpoint the tracker names:               *)
(* SftTrainer!NamedStep.                                                   *)
NamedIsKept == [][part = "sft" => Sft!NamedStep]_trainingVars

(* What is trained on is what was drawn.  DAPO hands out every batch in    *)
(* its turn and trains on whole groups with a spread in them, drops only   *)
(* what is surplus and gives up only in vain: DapoTrainer!TrainedInTurn,   *)
(* !FullGroups, !DroppedIsSurplus, !GivesUpInVain.  SPIN prefers the       *)
(* better answer, with the reference's own word: SpinTrainer!PairsOwn.  A  *)
(* model that was merged is the one it was: ModelMerger!MergedIsOriginal,  *)
(* !AdapterIsWhole.                                                        *)
ContentsRight ==
  /\ part = "filter" =>
       /\ Filtered!TypeOK /\ Filtered!TrainedInTurn
       /\ Filtered!FullGroups /\ Filtered!DroppedIsSurplus /\ Filtered!GivesUpInVain
  /\ part = "plain" => Plain!TypeOK /\ Plain!TrainedInTurn
  /\ part = "pairs" => Pairs!PairsOwn
  /\ part = "balanced" => Mixed!PairsOwn
  /\ part = "merge" => Merger!TypeOK /\ Merger!MergedIsOriginal /\ Merger!AdapterIsWhole
=============================================================================
