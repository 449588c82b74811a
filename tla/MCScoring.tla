----------------------------- MODULE MCScoring -----------------------------
(**************************************************************************)
(* The way of a batch of verl from its responses to the update, for TLC:  *)
(* what happens to its rows (BatchFlow), what the actor says of their     *)
(* tokens (PackedLogProbs) without holding the logits                     *)
(* (LinearCrossEntropy), which advantages they have (Advantages), how they*)
(* are spread over ranks and micro-batches (SeqlenBalance) and over the   *)
(* workers of a call (Dispatch), and how they are scored, in a sandbox by *)
(* the prime reward manager (SandboxReward) or by the reward of this      *)
(* repository (Reward).                                                   *)
(*                                                                        *)
(* The components are functions of what they are given: a behaviour       *)
(* belongs to one part, and the others rest.                              *)
(**************************************************************************)
EXTENDS SandboxReward, Sequences

CONSTANTS
  Parts,  \* the parts that are checked
  None    \* nothing yet

VARIABLES
  part,
  flowBatch, gen, scoreOf, sent, flowReward, pad, mini, weights,  \* BatchFlow
  flowPc,
  packRows, packSp, packed, packPc, packIds, labels, positions,  \* PackedLogProbs
  packParts, log_probs,
  lceLogits, lceLabel, lceGrad, lceBackward, lcePc, lcePartial,  \* LinearCrossEntropy
  maxima, logprobs, lceJoined, lceSums, lceOut, lceDone, d_hidden,
  d_weight,
  advRows, advGamma, advLam, advPc, advantages,     \* Advantages
  lens, k, pq, balParts, balPc,                     \* SeqlenBalance
  dispBatch, dispBlocking, dispPadded, dispPc, dispCall, dispSize,  \* Dispatch
  dispArg, dispTask, dispOut, dispResult,
  ansBatch, ansScoring, ansTruth, ansRow, ansCase, ansTries, ansPermits,  \* another
  ansOrphans, ansFailed, ansScore,                            \* SandboxReward
  comp, rewForm, rewFile, rewPc, rewCode, res, audit, rewReward  \* Reward

flowVars == <<flowBatch, gen, scoreOf, sent, flowReward, pad, mini, weights,
               flowPc>>
packVars == <<packRows, packSp, packed, packPc, packIds, labels, positions,
               packParts, log_probs>>
lceVars == <<lceLogits, lceLabel, lceGrad, lceBackward, lcePc, lcePartial,
              maxima, logprobs, lceJoined, lceSums, lceOut, lceDone,
              d_hidden, d_weight>>
advVars == <<advRows, advGamma, advLam, advPc, advantages>>
balVars == <<lens, k, pq, balParts, balPc>>
dispVars == <<dispBatch, dispBlocking, dispPadded, dispPc, dispCall,
               dispSize, dispArg, dispTask, dispOut, dispResult>>
ansVars == <<ansBatch, ansScoring, ansTruth, ansRow, ansCase, ansTries,
              ansPermits, ansOrphans, ansFailed, ansScore>>
rewVars == <<comp, rewForm, rewFile, rewPc, rewCode, res, audit, rewReward>>
scoringVars == <<part, vars, flowVars, packVars, lceVars, advVars, balVars, dispVars,
                 ansVars, rewVars>>

\* Six sequences of one to three tokens; or up to four of up to four tokens.
SixLong == [1..6 -> 1..3]
UpToFour == UNION {[1..n -> 1..4] : n \in 1..4}

\* One word of the model; or two with one of a tool between them.
Short == {<<"model", "pad", "pad">>, <<"model", "tool", "model">>}

\* Answers of the sandbox for a test case.
Answer(status, compile, compiled, run, exit, same) ==
  [status |-> status, compile |-> compile, compiled |-> compiled, run |-> run,
   exit |-> exit, same |-> same]
Right == Answer("Success", "none", 0, "Finished", 0, TRUE)
Wrong == Answer("Success", "Finished", 0, "Finished", 0, FALSE)
NoCompile == Answer("Failed", "Finished", 1, "none", 0, FALSE)
Crashes == Answer("Failed", "Finished", 0, "Finished", 1, TRUE)
Slow == Answer("Failed", "none", 0, "TimeLimitExceeded", 0, FALSE)
Lost == Answer("SandboxError", "none", 0, "none", 0, FALSE)
Unclear == Answer("Failed", "none", 0, "Finished", 0, TRUE)
Kinds == {Right, Wrong, NoCompile, Crashes, Slow, Lost, Unclear}

\* Two responses to a prompt on three ranks; dynamic micro-batches; a baseline.
OnRanks == INSTANCE BatchFlow WITH
  batch <- flowBatch, reward <- flowReward, pc <- flowPc, TrainSize <- 3,
  N <- 2, WorldSize <- 3, MiniSize <- 3, MicroSize <- 1, Dynamic <- FALSE,
  Async <- TRUE, Remax <- FALSE, ValSizes <- {1, 2, 3, 4}
Micro == INSTANCE BatchFlow WITH
  batch <- flowBatch, reward <- flowReward, pc <- flowPc, TrainSize <- 2,
  N <- 2, WorldSize <- 1, MiniSize <- 2, MicroSize <- 1, Dynamic <- TRUE,
  Async <- FALSE, Remax <- FALSE, ValSizes <- {2}
Remax == INSTANCE BatchFlow WITH
  batch <- flowBatch, reward <- flowReward, pc <- flowPc, TrainSize <- 4,
  N <- 1, WorldSize <- 2, MiniSize <- 2, MicroSize <- 1, Dynamic <- FALSE,
  Async <- FALSE, Remax <- TRUE, ValSizes <- {1, 3}

\* Up to two rows on up to four ranks.
Packed == INSTANCE PackedLogProbs WITH
  rows <- packRows, sp <- packSp, pc <- packPc, ids <- packIds,
  parts <- packParts, PromptLength <- 2, ResponseLength <- 3,
  BatchSizes <- {1, 2}, SpSizes <- {1, 2, 4}

\* Two ranks with two columns in two splits; or one rank and a last split that
\* reaches beyond the vocabulary.
Vocab == INSTANCE LinearCrossEntropy WITH
  logits <- lceLogits, label <- lceLabel, grad <- lceGrad,
  backward <- lceBackward, pc <- lcePc, partial <- lcePartial,
  joined <- lceJoined, sums <- lceSums, out <- lceOut, done <- lceDone,
  Grouped <- TRUE, WorldSize <- 2, VocabSize <- 2, VocabPerSplit <- 1,
  BackSplit <- 1, Logits <- {-1, 2}, Grads <- {<<1, 0>>, <<0, 1>>},
  Backwards <- {"MN", "separate", "split_N"}, Bits <- 3
Alone == INSTANCE LinearCrossEntropy WITH
  logits <- lceLogits, label <- lceLabel, grad <- lceGrad,
  backward <- lceBackward, pc <- lcePc, partial <- lcePartial,
  joined <- lceJoined, sums <- lceSums, out <- lceOut, done <- lceDone,
  Grouped <- FALSE, WorldSize <- 1, VocabSize <- 5, VocabPerSplit <- 2,
  BackSplit <- 2, Logits <- {-1, 2}, Grads <- {<<1, 0>>, <<0, 1>>},
  Backwards <- {"MN", "separate", "split_N"}, Bits <- 3

\* Responses of three tokens, with words of tools.
Advs == INSTANCE Advantages WITH
  rows <- advRows, gamma <- advGamma, lam <- advLam, pc <- advPc,
  ResponseLength <- 3, Scores <- {0, 1, 3}, Values <- {0, 1},
  Halves <- {1, 2}, GroupKinds <- Short

\* Micro-batches of five tokens; or two ranks of equal size.
Budget == INSTANCE SeqlenBalance WITH
  parts <- balParts, pc <- balPc, Inputs <- UpToFour, EqualSize <- FALSE,
  WorldSize <- 1, MaxTokens <- 5, MinMicro <- 0
Equal == INSTANCE SeqlenBalance WITH
  parts <- balParts, pc <- balPc, Inputs <- SixLong, EqualSize <- TRUE,
  WorldSize <- 2, MaxTokens <- 1, MinMicro <- 0

\* A mesh of eight ranks; or three ranks and batches that cannot be split.
Mesh == INSTANCE Dispatch WITH
  batch <- dispBatch, blocking <- dispBlocking, padded <- dispPadded,
  pc <- dispPc, call <- dispCall, size <- dispSize, arg <- dispArg,
  task <- dispTask, out <- dispOut, result <- dispResult, Tp <- 2, Cp <- 1,
  Dp <- 2, Pp <- 2, Megatron <- TRUE, Sizes <- {2, 4},
  Blocking <- {TRUE, FALSE}, Padding <- {FALSE}
Pads == INSTANCE Dispatch WITH
  batch <- dispBatch, blocking <- dispBlocking, padded <- dispPadded,
  pc <- dispPc, call <- dispCall, size <- dispSize, arg <- dispArg,
  task <- dispTask, out <- dispOut, result <- dispResult, Tp <- 1, Cp <- 1,
  Dp <- 3, Pp <- 1, Megatron <- FALSE, Sizes <- 1..5, Blocking <- {TRUE},
  Padding <- {TRUE, FALSE}

\* Two batches of right responses are scored by SandboxReward itself, and here
\* is one response with every answer.
Certain == {Right}
Single == INSTANCE SandboxReward WITH
  batch <- ansBatch, scoring <- ansScoring, truth <- ansTruth, row <- ansRow,
  case <- ansCase, tries <- ansTries, permits <- ansPermits,
  orphans <- ansOrphans, failed <- ansFailed, score <- ansScore,
  Responses <- {1}, Cases <- {1, 2, 3}, Answers <- Kinds, Processes <- 1,
  MaxConcurrent <- 2, MaxRetries <- 2, Considered <- 2, Batches <- 1

\* Two tests, both files and both forms of the tests.
Own == INSTANCE Reward WITH
  form <- rewForm, file <- rewFile, pc <- rewPc, code <- rewCode,
  reward <- rewReward, Files <- {"trl", "verl"}, Forms <- {"text", "dict"},
  Tests <- 2, Fences <- 5

ASSUME ScoringAssumption ==
  /\ Parts \subseteq {"ranks", "micro", "remax", "packed", "spread", "alone",
                       "advantages", "budget", "equal", "mesh", "pads",
                       "calls", "answers", "reward"}
  /\ OnRanks!BatchFlowAssumption
  /\ Micro!BatchFlowAssumption
  /\ Remax!BatchFlowAssumption
  /\ Packed!PackedLogProbsAssumption
  /\ Vocab!LinearCrossEntropyAssumption
  /\ Alone!LinearCrossEntropyAssumption
  /\ Advs!AdvantagesAssumption
  /\ Budget!SeqlenBalanceAssumption
  /\ Equal!SeqlenBalanceAssumption
  /\ Mesh!DispatchAssumption
  /\ Pads!DispatchAssumption
  /\ Own!RewardAssumption

-----------------------------------------------------------------------------
\* What a part that is not looked at rests in: one of its initial
\* states, or nothing.
FlowRests ==
  /\ flowPc = "rollout"
  /\ OnRanks!Init
PackRests ==
  /\ packRows = <<[prompt |-> 1, response |-> 1]>>
  /\ packSp = 1
  /\ packed = TRUE
  /\ Packed!Init
LceRests ==
  /\ lceLogits = <<>>
  /\ lceLabel = 0
  /\ lceGrad = <<0, 0>>
  /\ lceBackward = "MN"
  /\ lcePc = <<>>
  /\ lcePartial = <<>>
  /\ maxima = <<>>
  /\ logprobs = <<>>
  /\ lceJoined = FALSE
  /\ lceSums = <<>>
  /\ lceOut = <<>>
  /\ lceDone = <<>>
  /\ d_hidden = <<>>
  /\ d_weight = <<>>
AdvRests ==
  /\ advRows = <<>>
  /\ advGamma = 2
  /\ advLam = 2
  /\ advPc = "batch"
  /\ advantages = <<>>
BalRests ==
  /\ lens = <<1>>
  /\ Budget!Init
DispRests ==
  /\ dispBlocking = TRUE
  /\ dispPadded = FALSE
  /\ dispBatch = Mesh!Rows(2)
  /\ Mesh!Init
AnsRests == Single!Init
RewRests ==
  /\ comp = [fences |-> 0, compiles |-> FALSE, right |-> <<FALSE, FALSE>>]
  /\ rewForm = "text"
  /\ rewFile = "verl"
  /\ Own!Init

ScoringInit ==
  /\ part \in Parts
  /\ CASE part = "ranks" -> OnRanks!Init
       [] part = "micro" -> Micro!Init
       [] part = "remax" -> Remax!Init
       [] OTHER -> FlowRests
  /\ IF part = "packed" THEN Packed!Init ELSE PackRests
  /\ CASE part = "spread" -> Vocab!Init
       [] part = "alone" -> Alone!Init
       [] OTHER -> LceRests
  /\ IF part = "advantages" THEN Advs!Init ELSE AdvRests
  /\ CASE part = "budget" -> Budget!Init
       [] part = "equal" -> Equal!Init
       [] OTHER -> BalRests
  /\ CASE part = "mesh" -> Mesh!Init
       [] part = "pads" -> Pads!Init
       [] OTHER -> DispRests
  /\ Init
  /\ IF part = "answers" THEN Single!Init ELSE AnsRests
  /\ IF part = "reward" THEN Own!Init ELSE RewRests

\* The others stay where they are.
FlowOnly == UNCHANGED <<part, vars, packVars, lceVars, advVars, balVars, dispVars,
                         ansVars, rewVars>>
PackOnly == UNCHANGED <<part, vars, flowVars, lceVars, advVars, balVars, dispVars,
                         ansVars, rewVars>>
LceOnly == UNCHANGED <<part, vars, flowVars, packVars, advVars, balVars, dispVars,
                        ansVars, rewVars>>
AdvOnly == UNCHANGED <<part, vars, flowVars, packVars, lceVars, balVars, dispVars,
                        ansVars, rewVars>>
BalOnly == UNCHANGED <<part, vars, flowVars, packVars, lceVars, advVars, dispVars,
                        ansVars, rewVars>>
DispOnly == UNCHANGED <<part, vars, flowVars, packVars, lceVars, advVars, balVars,
                         ansVars, rewVars>>
CallsOnly == UNCHANGED <<part, flowVars, packVars, lceVars, advVars, balVars,
                          dispVars, ansVars, rewVars>>
AnsOnly == UNCHANGED <<part, vars, flowVars, packVars, lceVars, advVars, balVars,
                        dispVars, rewVars>>
RewOnly == UNCHANGED <<part, vars, flowVars, packVars, lceVars, advVars, balVars,
                        dispVars, ansVars>>

ScoringNext ==
  \/ part = "ranks" /\ OnRanks!Next /\ FlowOnly
  \/ part = "micro" /\ Micro!Next /\ FlowOnly
  \/ part = "remax" /\ Remax!Next /\ FlowOnly
  \/ part = "packed" /\ Packed!Next /\ PackOnly
  \/ part = "spread" /\ Vocab!Next /\ LceOnly
  \/ part = "alone" /\ Alone!Next /\ LceOnly
  \/ part = "advantages" /\ Advs!Next /\ AdvOnly
  \/ part = "budget" /\ Budget!Next /\ BalOnly
  \/ part = "equal" /\ Equal!Next /\ BalOnly
  \/ part = "mesh" /\ Mesh!Next /\ DispOnly
  \/ part = "pads" /\ Pads!Next /\ DispOnly
  \/ part = "calls" /\ Next /\ CallsOnly
  \/ part = "answers" /\ Single!Next /\ AnsOnly
  \/ part = "reward" /\ Own!Next /\ RewOnly

ScoringSpec == ScoringInit /\ [][ScoringNext]_scoringVars

\* The fairness of SandboxReward: timeouts expire, and the batch ends then; and
\* that of Dispatch.
ScoringFair ==
  /\ ScoringSpec
  /\ WF_vars(part = "calls" /\ End)
  /\ \A r \in Responses : WF_vars(part = "calls" /\ TimesOut(r))
  /\ WF_dispVars(part = "mesh" /\ Mesh!Next)

-----------------------------------------------------------------------------
(* A row keeps what is its own on the way through the batch, is trained on *)
(* once, is compared with its own group and weighs what it should:         *)
(* BatchFlow!Aligned, !EachResponseOnce, !OwnAdvantage, !EqualWeight,      *)
(* !NeverFails, PackedLogProbs!LogProbsOwn,                                *)
(* LinearCrossEntropy!LogProbRight, !GradientRight, Advantages!GaeRight,   *)
(* !GroupsBalanced, !LeavesOneOut, !BestAlone.  Its score is what its own  *)
(* test cases deserve, and only a right program is rewarded: SandboxReward!*)
(* ScoreIsDeserved, Reward!OnlyRightIsRewarded.                            *)
FlowRight ==
  /\ part = "ranks" =>
       /\ OnRanks!TypeOK /\ OnRanks!Aligned /\ OnRanks!EachResponseOnce
       /\ OnRanks!OwnAdvantage /\ OnRanks!EqualWeight /\ OnRanks!NeverFails
  /\ part = "micro" => Micro!Aligned /\ Micro!OwnAdvantage /\ Micro!EqualWeight
  /\ part = "remax" => Remax!OwnAdvantage
  /\ part = "packed" => Packed!TypeOK /\ Packed!LogProbsOwn
  /\ part = "spread" => Vocab!TypeOK /\ Vocab!LogProbRight /\ Vocab!GradientRight
  /\ part = "alone" => Alone!TypeOK /\ Alone!LogProbRight /\ Alone!GradientRight
  /\ part = "advantages" =>
       /\ Advs!TypeOK /\ Advs!GaeRight /\ Advs!GroupsBalanced
       /\ Advs!LeavesOneOut /\ Advs!BestAlone
  /\ part = "calls" => TypeOK
  /\ part = "answers" => Single!TypeOK /\ Single!ScoreIsDeserved
  /\ part = "reward" => Own!TypeOK /\ Own!OnlyRightIsRewarded

(* The rows are dealt out once each, evenly, and come back in their order: *)
(* SeqlenBalance!EachOnce, !SameSize, !SpreadNeverGrows, !NeverFails,      *)
(* !BackInOrder, Dispatch!ComesBack.                                       *)
BalanceRight ==
  /\ part = "budget" =>
       /\ Budget!TypeOK /\ Budget!EachOnce /\ Budget!SpreadNeverGrows
       /\ Budget!NeverFails /\ Budget!BackInOrder
  /\ part = "equal" =>
       /\ Equal!EachOnce /\ Equal!SameSize
       /\ Equal!SpreadNeverGrows /\ Equal!NeverFails
  /\ part = "mesh" => Mesh!TypeOK /\ Mesh!ComesBack
  /\ part = "pads" => Pads!TypeOK /\ Pads!ComesBack

(* Every batch of the sandbox is scored, and every call of a worker group  *)
(* returns: SandboxReward!BatchEnds, Dispatch!CallsReturn.                 *)
ScoringEnds ==
  /\ (part = "calls" /\ scoring) ~> (part = "calls" /\ ~scoring)
  /\ <>(part = "mesh" => Mesh!Answered)
=============================================================================
