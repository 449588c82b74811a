# CForge: verification project

TLA+ models of CForge, the TLC runs that check them on small instances, and
the proofs about them that TLAPS checks for every instance.

CForge asks language models to write (or translate) C programs, keeps the
answers in JSON-lines files, compiles and runs them against the tests of a
benchmark, under valgrind as well, and reports pass@k and memory-safety scores.
The same judgement is the reward with which `verl/`, a reinforcement-learning
trainer kept in the repository ("Vendored verl trainer (reference; can be
replaced)", `README.md:71-72`), trains models. Most of the code is verl's, and
so are more than half of the components modelled here.

## The system

| component | state it keeps | operations | what makes it correct |
|---|---|---|---|
| **generation campaign**: `evaluate/generate_evaluate.py` up to line 228, `runner/base_runner.py` `run_main_per_sample`, `runner/luban_runner.py` | output file, its `.tmp`, the live record of every problem, the tasks of a thread pool | read back and sort the records, call the API with retries, collect a sample, write a snapshot, final write | no useful sample is lost by a crash or a resume; exactly what is missing is asked for; grading meets whole records |
| **batched runners**: `runner/base_runner.py`, `utils/multiprocess.py` | outputs, cache and its file, a pebble process pool | map tasks, iterate over results in order, fill the cache | one list of answers per prompt, its own |
| **evaluation merge**: `generate_evaluate.py` 230-326 | `_eval.jsonl` (metrics), `_eval_all.jsonl` (one entry per graded problem) | pick the ungraded problems, grade, merge, two writes | each problem is graded once; the merged means are those of all entries |
| **grading pool**: `evaluation/compute_code_generation_metrics.py` 244-387 | futures of a process pool, four result dictionaries | flatten, submit, collect as completed, regroup | a verdict reaches the sample it is about, whatever finishes or crashes first |
| **judge**: same file, 45-241 | two child processes and their shared lists | start, join with a timeout, kill, read | a program passes only when its tests passed; a missing answer is a failure |
| **test runners**: `evaluation/testing_util.py`, `utils_execute.py`, `sandbox.py` | temporary directories, children, queues, the arguments of a call | compile, call or run every input, compare, count errors | a pass is deserved, a failure has the cause its code names, nothing is left behind |
| **metrics**: `evaluation/metric_utils.py` | none | pass@k, mem_safe | the product formula is the probability it is named for |
| **custom evaluation**: `evaluate/custom_evaluate.py` | the evaluation files of a file of codes | read, grade, write | verdicts are attached to their own problems |
| **APPS sandbox**: `evaluate/sandbox/`, `iteration_translation/sandbox/` | temporary directories | compile, run, compare in three ways | only right programs are accepted |
| **translation**: `iteration_translation/` | per-problem attempts, result files, a shared adapter | translate, test, repair | a record's verdict is that of the code it carries |
| **reward**: `train/cppcheck.py`, `verl/utils/reward_score/cppcheck.py` | none between calls | extract, compile, test, audit, score | only a right program is rewarded |
| **verl trainers**: `trainer/ppo`, `trainer/fsdp_sft_trainer.py`, `recipe/dapo`, `recipe/one_step_off_policy`, `recipe/spin` | steps, epochs, a data loader, checkpoints with a tracker | draw, generate, score, train, save, rotate, resume | batches are trained in turn, each once; the tracked checkpoint is whole |
| **verl batches**: `protocol.py`, `utils/seqlen_balancing.py`, `trainer/ppo/core_algos.py`, `workers/actor/dp_actor.py`, `utils/kernel`, `single_controller` | rows and columns of a batch, futures | repeat, split, dispatch, pad, balance, join, pack, estimate | a row keeps what is its own and comes back at its place |
| **verl rollout**: `experimental/agent_loop`, `workers/rollout/sglang_rollout`, `tools` | conversations, tokens and masks, servers, a limiter | ask, call tools, append, release | only the model's own tokens are trained on; whatever was opened is closed |
| **verl worker**: `workers/fsdp_workers.py`, `workers/sharding_manager`, `utils/activation_offload.py` | parameters and optimizer on GPU or CPU, an engine with a copy, random states, streams | update, generate, log-probabilities, save, load, offload | an engine generates with the parameters as they are; what is read back is what was saved |
| **verl formats**: `model_merger`, `scripts/converter_hf_to_mcore.py`, `utils/dataset/multiturn_sft_dataset.py` | weights, shards, files; tokens of a conversation | convert, shard, merge; tokenize, mask, pad | what comes out is what went in |
| benchmarks, prompts, command line, data scripts | none | load, format | not modelled |

How they interact. The campaign calls a runner, whose threads call an API; the
main thread collects samples and writes snapshots; the same process then grades
what it holds through the grading pool, whose worker processes start the
judge's children; the metrics are merged into the two evaluation files, which
later runs read. The only state that outlives a process is the files, and the
command is meant to be run again after an interruption. The trainers are one
driver process that calls groups of workers; the groups hold the models, the
driver the batches, and what outlives them are checkpoints.

What is hard: threads that finish in any order; calls that fail and are
retried; a crash between any two file operations; children that are killed in
the middle of an answer; two places that must number the same things alike (the
driver and its ranks, a converter and a merger, a rollout and its batch);
streams of a GPU that wait for each other only when told. `PROJECT.json` lists
each hazard at its line with the properties that cover it.

## How the project is put together

Every component is a module of its own with its `Init`, actions, `Next`, `Spec`
and properties, and its constants with what is assumed of them. `SampleStore`
and `EvalMerge` are checked as they are. Six modules whose names start with `MC`
check several components each: a composite EXTENDS the component whose theorems
are proved, so that the run evaluates its assumption and its definitions are
those the proofs use, and has the others as instances with small parameters.
`MCGrading` extends `Judge`, `MCVerdicts` `CtypesTester`, `MCGeneration`
`Translate`, `MCTraining` `OneStepOff`, `MCRollout` `FsdpWorker` and
`MCScoring` `SandboxReward`.

A composite has a constant `Parts` and a variable `part` that `Init` chooses and
no step changes; a part is the component extended, or an instance of one with small parameters,
and the other parts rest in an initial state. The components of a composite share no
variable in the code (they are other programs, or other processes that meet
only in files, or calls that are over before the next one starts), so running
them side by side would multiply the states and show nothing more; taken one at
a time, the states add up. Several parts may be instances of one component with
other parameters. A property of a composite is the conjunction, over its parts,
of the components' properties that answer one question; where components do
share state, they are composed in one module: `Campaign` (generation with
evaluation over the two files), `PpoTrainer` and `SftTrainer` over
`Checkpoints`, `BatchFlow` (rollout, reward, update), `FsdpWorker` (trainer
and engine on the same devices), `AgentLoop` (workers, servers and tools).

`SampleLog` is the abstract specification of the campaign that `SampleStore`
implements (`SampleStore!ImplementsLog`, a refinement checked by TLC and proved).

## Modules

### The campaign: SampleStore, SampleLog, Campaign

`SampleStore`:

| model | code |
|---|---|
| `disk`, `tmp`, `archive` | `code_generation_<n>_<t>.jsonl`, its `.tmp`, the records in `..._eval_all.jsonl` |
| `live` | `live_results_dict` |
| `task` | the tasks of `run_main_per_sample`, from `pool.submit` to the callback |
| `stage`, `writing` | the place of the main thread in `main()` and in `_write_jsonl` |
| `Boot` | `main()` up to the pool: read, `part_gen_*`, `old_save_results`, `live_results_dict`, submit |
| `StartTask`, `Answer`, `CallFails` | a pool thread in `_run_one`, with its attempts |
| `Collect` | `as_completed`, `_on_one_sample` up to the flush |
| `OpenTmp`, `FillTmp`, `Replace`, `FlushFails` | the steps of `_write_jsonl`, and the `except` around it |
| `Finish`, `Exit` | the last write, and the end of `main()` with or without an evaluation |
| `Crash`, `RemoveOutput` | a kill at any moment; the operator deletes the output file |

A record's `output_list` and `code_list` are one set of samples, because they
are filtered and appended together. A sample carries the run and task it comes
from, so that losing one and asking for another is visible. Code is one of
`Programs`, `Blanks` (white space only) and `Empty` (`""`): the three classes
that lines 81, 86, 87 and 93 tell apart. `--continue_existing` and
`--continue_existing_with_eval` are `store_true` options whose default is
`True`: they are always on, and so they are in the model.

`SampleLog` keeps per problem a log of samples that only grows, up to `n`, and a
checkpoint that is what remains when the log is deleted. The refinement mapping
reads the log from the file the next run would resume from. It holds where no
answer is white space only; with such answers a record can exceed `n`.

`Campaign` has the command with `--evaluate`, run again and again: `disk`,
`live`, `graded` and `run`, with a snapshot and the two evaluation files written
in one step each (`Start`, `Ask`, `Asked`, `Evaluate`, `Crash`,
`RemoveOutput`). `ArchiveBehind` relates the two files.

### BatchRunner

Runners that answer a whole prompt at a time: `run_main_stream`, `run_main`
and `run_batch` on the process pool of `run_tasks_in_parallel_iter`. `task` are
the pool's tasks, `nextOut` the place of the ordered iteration, `outputs` the
list, `cache` and `cacheFile` the cache, in memory and as it is truncated and
filled; `delivered` what the callback was given. A task answers, returns
`None`, raises, or its process dies; the command may be started again over its
cache. `StreamAligned`, `CacheOwn` and `CacheStep` say whose answers are whose.
DeepSeek repeats the retry loop of `LubanRunner`; the Doubao runner always
raises (it asserts a list where the prompt is a tuple), and the vLLM runner
returns `None` (see below).

### EvalMerge

| model | code |
|---|---|
| `summary`, `archive` | `_eval.jsonl`, `_eval_all.jsonl` |
| `mem` | `old_eval_all_results`, the graded batch, `metrics` |
| `Evaluate` | lines 230-321: choose the problems, grade, merge |
| `OpenSummary`, `WriteSummaryPart`, `WriteSummary` | `open(eval_file, "w")`, the line, the close |
| `SaveArchive` | `_write_jsonl(eval_all_file, ...)`, one step because of its rename |
| `Crash` | a kill between any two of them |

One numeric metric stands for all of them and is an exact fraction. Each
evaluation takes any set of problems, because the benchmark of a run depends on
what could be loaded and on slices that are edited by hand (lines 43-59).

### Judge, GradePool

`Judge`, one program:

| model | code (`compute_code_generation_metrics.py` 45-241, `testing_util.py`) |
|---|---|
| `pc`, `waited` | the parent in `evaluate_generations_by_problem`, and its current `join` |
| `child` | `p_corr` and `p_safe`: where they are in `run_test` and `run_valgrind`, what they have found, whether `kill()` was called |
| `box` | the manager's lists: `corr_result`, `corr_metadata`, `safe_result`, `safe_meta` |
| `got` | `curr_res`, `curr_metadata` and their safe counterparts, defaults included |
| `prog` | what the program would do if nothing went wrong; it never changes |
| `Start`, `JoinCorr`, `JoinSafe`, `Kill`, `Read` | lines 155-191, one step for every call another process can get in between |
| `Boot` ... `ValgrindTimesOut`, `Raises` | compilation, each test, comparison, limits and exceptions of a child |
| `AppendResult`, `AppendMeta` | the two appends of `_temp_run` and `_temp_run_safe` |
| `SignalArrives`, `DiesAlone` | the end of a child by `kill()`, or by memory, a lost manager, ... |
| `Tick` | a second; no subprocess outlives the limit `subprocess.run` has for it |

`Kind` selects the problem: `"io"` (a list of inputs) or `"call"` (one compiled
`main()`, run by `run_code_snip` with limits of its own); `CtypesTester` has the
third kind. Both axes are always graded, because `--is_test_correctness` and
`--is_test_safety` are `store_true` options that default to `True`; the branches
for one axis alone are unreachable from the command line and left out. So is
grading with `--debug`, which raises `ValueError` before any task is submitted
(line 276).

`GradePool`, all programs:

| model | code (`compute_code_generation_metrics.py` 244-387) |
|---|---|
| `sizes` | the lengths of `generations_list` |
| `future`, `broken` | the futures of the `ProcessPoolExecutor`, and the pool after a worker died |
| `Linear`, `Remap` | `samples_linear`, `generations_linear`, `remap_index` |
| `Submit`, `Submitted` | the dictionary of futures, lines 279-288 |
| `Take`, `Judged`, `WorkerDies` | the executor: its queue, its processes, `BrokenProcessPool` |
| `Collect` | `as_completed` and the `try` around `future.result()` |
| `Group`, `Regroup` | lines 353-387: the lists by problem, the assertion, the return |

A verdict is the sample it is about, so that one which ends in another place is
visible; what a verdict says is the subject of `Judge`, and that one comes is
`Judge!Settles`. `sizes` is what `SampleStore` hands over: equal sizes where
`SampleStore!EvaluatesWhole` holds, any sizes otherwise. The four dictionaries
(verdicts, metadata, both for safety) are filled by the same loop and are one.

### The testers: CtypesTester, CtypesArgs, AppsSandbox, Compare, ValgrindReport, Metrics

| module | state and actions | code |
|---|---|---|
| `CtypesTester` | `pc`, `t`, `child`, `pipe`, `waited`, `verdicts`; compile, start, join, terminate, read the queue, and the child that calls, answers and cannot exit before its answer is read | `universal_c_tester` (`sandbox.py`), `grade_call_based_ctypes` |
| `CtypesArgs` | `inputs`, `raw`, `args`, `pc`; one step per value of a list that grows while it is walked through | `_run_c_function_execution` 244-298 |
| `AppsSandbox` | `kind`, `inputs`, `outputs`, `checks`, `dirs`, `results`; both modes of `run_c_test`, and directories that are removed | `apps_sandbox.py`, `sandbox.py` |
| `Compare` | `exp`, `out`, `line`, `right`, `tries`, `same`: the two ways of comparing outputs, with the tries of one of them | `testing_util.py` 290-341, `apps_sandbox.py` 320-449 |
| `ValgrindReport` | `heap`, `errs`, `worst`, `past`: a program that allocates, loses and frees blocks, input after input, and the counts read off its reports | `get_valgrind_errors` |
| `Metrics` | `results` to `metrics`, with exact fractions | `metric_utils.py` |

gcc has no timeout in the ctypes sandbox, and `grade_stdio` does not look at the
exit code: both are so in the models. `sandbox_test.py` and `t_c_types.py` are
near copies of `sandbox.py` that nothing imports. `run_code_snip` of the APPS
sandbox never removes its temporary directory. The pattern for use after free
never matches valgrind's wording, which calls it an invalid access.

### Translate, CustomEval, Reward

`Translate` is both pipelines: for every task `pc`, `attempt`, `answer` and
`sample`, the adapter's global `compl_resp`, and the files `output` and
`elsewhere`. A thread asks, reads what it was told, tests it, asks again, and
appends a record under a lock. `pipeline_lcb.py` is started by `main` with debug
on and one question id; the model has its loop with debug off. Its retries store
the configuration as a string where the first attempt stores a dictionary;
`fall_back` and `check_*` call `.items()` on a list and cannot run, and
`ai_cop`'s series `deepseek` and `glm` are not known to the adapter.

`CustomEval` reads `lines` of several shapes, grades what is in the benchmark
and writes `files`. `compute_scores.py` imports `pass_k_utils`, which does not
exist. `Reward` has the completion (`comp`, its fences), the tests' `form`, the
`file` that is called, and goes from extraction to audit to `reward`.

### The trainers: Checkpoints, PpoTrainer, SftTrainer, DapoTrainer, OneStepOff, SpinTrainer

| module | state and actions | code |
|---|---|---|
| `Checkpoints` | shared by the two trainers below: `tracker`, `folders`, `starts`, `saved`; saving a shard, rotation, the crash | `utils/checkpoint/` |
| `PpoTrainer` | `steps`, `epoch`, `pos`, `model`; `Start`, the loads of every role, `TrainStep`, `EndEpoch`, `Rotate`, `SaveShard`, `SaveData`, `WriteTracker` (in place), `Crash` | `fit`, `_save_checkpoint` and `_load_checkpoint` of `ray_trainer.py` |
| `SftTrainer` | the same for one model; the tracker is replaced by a rename (`RenameTracker`) | `fsdp_sft_trainer.py` |
| `DapoTrainer` | `batch`, `num_prompt_in_batch`, `num_gen_batches`: sample, filter groups, join, cut, give up | `recipe/dapo`, copied in `recipe/entropy` |
| `OneStepOff` | `future`, `calls`: what the driver has asked two groups of workers for, and the weights they hold (`actor`, `rollout`) | `recipe/one_step_off_policy` |
| `SpinTrainer` | `rows`, `refDone`, `pairs`, `model`, `ref`: answers, scores, preferences, references, the update, and the blocks that catch what raises | `recipe/spin` |

A model is the sequence of batches it was trained on, so that a batch trained
twice or left out shows. The data loader (`StatefulDataLoader`) is external: a
position that is saved and restored. A rotation's `rmtree` is one step, and
`save_freq > 0` is assumed where a trainer saves. A batch's reward function
that raises is the death of a DAPO job; `is_last_step` of SPIN ends its epoch
only; its saves in the middle of a synchronisation count in the rotation.

### Batches: BatchFlow, SeqlenBalance, Dispatch, PackedLogProbs, Advantages, LinearCrossEntropy

| module | state and actions | code |
|---|---|---|
| `BatchFlow` | `batch`, `gen`, `sent`, `reward`, `mini`, `weights`: `Rollout`, `Baseline`, `Join`, `Balance`, `Reward`, `OldLogProb`, `Advantage`, `Update`, and `Pad`, `ValRollout` of a validation | `ray_trainer.py`, `protocol.py`, `dp_actor.py` |
| `SeqlenBalance` | the heap `pq` of states with a spread, merged pair by pair, and the partitions | `seqlen_balancing.py` |
| `Dispatch` | a `batch`, two calls with `blocking` or futures, the ranks' `task` and `out` | `single_controller/base/decorator.py`, `protocol.py` |
| `PackedLogProbs` | rows without padding, packed, rolled, cut for a sequence group, gathered, put back | `dp_actor.py`, `utils/ulysses.py` |
| `Advantages` | rows with masks of model and tool tokens; one action per estimator | `core_algos.py` |
| `LinearCrossEntropy` | partial maxima and sums of splits and ranks, a second stream, three backward passes; powers of two for exponentials | `utils/kernel` |

Rows and tokens stand for themselves (a row is its number, a log-probability the
response it is of), so that any wrong order shows. `greedy_partition` and the
kernels of `d_hidden` and `d_weight` alone are called by nothing. A last
mini-batch that is short has another weight per row: `EqualWeight` takes
`train_batch_size` as a multiple of `ppo_mini_batch_size`. `auto_padding` never
does anything for a batch that divides. Padding changes the caller's batch in
place, a future is not unpadded, and the mode `MEGATRON_PP_AS_DP` collects
every pipeline rank (nothing uses it). REINFORCE++ starts again at every token of
mask 0.

### Rollout: AgentLoop, SglangRollout, RateLimit, SandboxReward, MultiTurnSft

| module | state and actions | code |
|---|---|---|
| `AgentLoop` | per row `pc`, `ids`, `mask`, `turns`, `calls`, `open`; per worker the LRU `cache` and counters `given`; `awake` servers | `experimental/agent_loop` |
| `SglangRollout` | one request: `state`, `messages`, `input_ids`, `loss_mask`, turns, tools, interaction | `sglang_rollout.py`, `schemas.py` |
| `RateLimit` | `call`, `asked`, `permits`: execution threads and the limiter's two groups of threads | `tools/sandbox_fusion_tools.py` |
| `SandboxReward` | `row`, `case`, `tries`, `permits`, `orphans`: a process pool, a thread per test, retries, timeouts, the kill at the end | `workers/reward_manager/prime.py`, `utils/reward_score/sandbox_fusion` |
| `MultiTurnSft` | tokens, masks and positions of a conversation, message by message, and the padding or truncation | `multiturn_sft_dataset.py` |

A generation has at least one token; the release of a tool is assumed not to
raise, and `max_model_len` to have its default. A call of a made-up tool is a
`KeyError` that ends the whole batch of SGLang requests. After a tool or a user
the code compares `len(input_ids)` with `max_model_len` (`sglang_rollout.py:857`
and `:971`), but `input_ids` is a tensor of one row and its length is 1: a
conversation that has no room left goes on to `RUNNING`, where line 867 counts
the tokens and ends it with "length" and not with "stop" (`Rows`, `GoesOn`,
`Run`); its tokens, its mask and its tools are the same. An assistant's message
at the start of an SFT row is an `UnboundLocalError`. Both errors are steps of the
models.

### Worker and formats: FsdpWorker, ActivationOffload, ModelMerger

| module | state and actions | code |
|---|---|---|
| `FsdpWorker` | `model`, where it is (`modelOn`, `optimOn`, `adapterOn`), `engine`, `base_sync_done`, both random states, `generations`, `ckpt`; every operation of the worker in any order, and restarts | `fsdp_workers.py`, `sharding_manager/fsdp_vllm.py`, `fsdp_ulysses.py` |
| `ActivationOffload` | the host's `layer`, `current_group`, `tensor_tag_to_state`, `tensor_tag_to_buf`; three `queue`s of a device, `memory` there and on the CPU; `sizes`, the layers of the model and those that are copied | `utils/activation_offload.py` |
| `ModelMerger` | `held`, `ckpt`, `files`, `index`: conversion by the ranks of one pipeline, merge by those of another, with a death and a second merge; FSDP shards read by threads | `converter_hf_to_mcore.py`, `model_merger/` |

With a LoRA adapter and `load_format` "dummy" the first generation after a
resume is without the adapter; `gen_random_states` are not saved. Two saved
tensors that start at the same place of one storage come back in the layout of
the first, and a forward pass in training mode without its backward pass leaves
groups behind that make the next one fail. An interrupted conversion leaves a
directory that is not empty, and every later call skips it (line 398). Not in
`ModelMerger`: tied embeddings, `q_lora_rank` of `None`, value models,
virtual pipelines, experts that are not grouped, and `save_pretrained` beyond
its one file.

## Runs

| run | module | what | result |
|---|---|---|---|
| `SampleStoreBlank` | `SampleStore` | durability, accounting, whole records; 1 problem, 2 samples, 2 threads, 2 attempts, 3 starts, white-space answers | holds |
| `SampleStoreLog` | `SampleStore` | refinement of `SampleLog`, termination; 2 problems, 2 samples, 1 thread, 2 starts, no white-space answers | holds |
| `SampleStoreWork` | `SampleStore` | "resumed without losing any work" (`README.md:40`), with white-space answers | violated |
| `EvalMergeCrash` | `EvalMerge` | graded once, archive grows, the files agree, exact means; 3 problems, 4 evaluations | holds |
| `EvalMergeDetail` | `EvalMerge` | the details are merged | violated |
| `JudgeSafety` | `MCGrading` | "counted as fully passing only when ..." (`README.md:39`) | violated |
| `Grading` | `MCGrading` | parts io, call, pool: verdicts, limits, patience, regrouping, the end | holds |
| `Verdicts` | `MCVerdicts` | parts tests, args, apps, words, numbers, runs, empty, two, many: every tester, comparison, report and metric | holds |
| `Generation` | `MCGeneration` | parts stream, loop, apps, lcb, campaign, custom: whose answers, records and files they are, nothing graded again, the end | holds |
| `Training` | `MCTraining` | parts ppo, sft, filter, plain, one, pairs, balanced, merge: batches in turn, whole checkpoints, whole groups, one step behind, merged models | holds |
| `Rollout` | `MCRollout` | parts tools, servers, request, adapter, full, offload, read, rate: conversations, servers, the worker, the end | holds |
| `Scoring` | `MCScoring` | parts ranks, micro, remax, packed, spread, alone, advantages, budget, equal, mesh, pads, calls, answers, reward: rows, balance, scores, the end | holds |

The properties of a composite and what they stand for:

| property | components' properties |
|---|---|
| `VerdictRight`, `LocalTimeoutsFirst`, `Patience` | `Judge`: `PassedIsRight`, `ReportIsExact`, `LocalTimeoutsFirst`, `PatientStep` |
| `VerdictsPlaced` | `GradePool`: `OwnVerdicts`, `AssertionHolds` |
| `CtypesRight` | `CtypesTester`: `PassedIsRight`, `FailureHasCause`, `NoneLeft` |
| `OutputsRight` | `CtypesArgs`: `CallIsAligned`; `Compare`, twice: `ContentDecides`, `EchoPasses` |
| `FindingsKept` | `AppsSandbox`: `AcceptedIsRight`, `Placed`, `NoneLeft`; `ValgrindReport`, with inputs and without: `FindingsKept` |
| `MetricsRight` | `Metrics`, twice: `PassIsProbability`, `EnoughSamples`, `PerfectIsSafe`, `JointAndMonotone` |
| `AnswersPlaced` | `BatchRunner`: `StreamAligned`, `CacheOwn`; `Translate`, "apps" pipeline with one worker: `RecordIsOfItsCode` |
| `TranslationsRight` | `Translate`, "lcb" pipeline: `VerifiedOwn`, `RecordIsOfItsCode`, `OneRecord` |
| `FilesAgree`, `NothingForgotten` | `Campaign`: `ArchiveBehind`; `CustomEval`: `WrittenIsOwn`, `AllOrNothing`; the steps of the cache and of the evaluation file |
| `TrainedInTurn` | `TrainedOnce` (PPO, SFT), `FollowsOn` (one step off), `TrainedInOrder` (SPIN, twice) |
| `TrackedIsWhole`, `NamedIsKept` | `PpoTrainer`: `TrackedIsWhole`, `LittleIsLost`; `SftTrainer`: `ResumesLatest`, `EndsComplete`, `NamedStep` |
| `ContentsRight`, `OneStepBehind` | `DapoTrainer`: `TrainedInTurn`, `FullGroups`, `DroppedIsSurplus`, `GivesUpInVain`; `SpinTrainer`: `PairsOwn`; `ModelMerger`: `MergedIsOriginal`, `AdapterIsWhole`; `OneStepOff`: `OneStepBehind` |
| `ConversationsRight` | `AgentLoop`: `MaskIsGenerated`, `ModelHasTheLastWord`, `NothingLeftOpen`; `SglangRollout`: `TokenizationConsistent`, `MaskIsAssistant`, `AnswersFit`, `Alternates`, `ToolsReleased`; `MultiTurnSft`: `MaskIsOwn`, `IsConversation`; `FsdpWorker` without adapter: all of `WorkerRight` |
| `ResourcesRight` | `AgentLoop`: `Sticky`, `EvenlySpread`, `AwakeWhileAsked`; `RateLimit`: `WithinRate`; `ActivationOffload`: `ReadsOwn`, `NothingLeft`, `TwoGroups` |
| `WorkerRight` | `FsdpWorker`: `GeneratesOnPolicy`, `OnDeviceInTurn`, `DrawsTogether`, `OwnStream`, `OwnRows`, `RefIsBase` |
| `FlowRight` | `BatchFlow`: `Aligned`, `EachResponseOnce`, `OwnAdvantage`, `EqualWeight`, `NeverFails`; `PackedLogProbs`: `LogProbsOwn`; `LinearCrossEntropy`: `LogProbRight`, `GradientRight`; `Advantages`: `GaeRight`, `GroupsBalanced`, `LeavesOneOut`, `BestAlone`; `SandboxReward` with one response: `ScoreIsDeserved`; `Reward`: `OnlyRightIsRewarded` |
| `BalanceRight` | `SeqlenBalance`: `EachOnce`, `SameSize`, `SpreadNeverGrows`, `NeverFails`, `BackInOrder`; `Dispatch`: `ComesBack` |
| `ScoreRight` | `SandboxReward`: `AtMostConcurrent`, `ScoreIsDeserved` |
| `GradingEnds`, `TestersEnd`, `GenerationEnds`, `StartEnds`, `RolloutEnds`, `ScoringEnds` | what has to happen in each of them, under the fairness below |

For every property of a run there is at least one plausible bug of the code,
written as an operator before the one it would replace ("Mutation: ..."), and
TLC finds the property violated with it; `PROJECT.json` lists them.

Bounds. Two samples are enough for a record to be complete, partial, overfull
and mixed; three starts let a run resume from what a resumed run left; two
threads interleave their answers; two attempts let a call fail, succeed on a
retry and be given up. Two problems show that a task counts for its own
problem and that the pool drains when one is complete. Four evaluations of
three problems give a first one, two merges, and a repetition after a crash.
The proofs remove these bounds for `SampleStore`, `EvalMerge`, `Judge`,
`GradePool`, `CtypesTester`, `AppsSandbox`, `ValgrindReport`, `BatchRunner`, `Translate`, `Campaign`,
`CustomEval`, `PpoTrainer`, `SftTrainer`, `OneStepOff`, `SpinTrainer`,
`SandboxReward`, `FsdpWorker`, `AgentLoop` over its servers, `RateLimit` and
`ActivationOffload`: their sizes are constants of the runs' modules,
to which a configuration gives values.

For the judge two inputs give a first and a last one, a failure before the end
and a worst run that is not the last. The limits are scaled (`Timeout` 1 for 5,
`PerTest` 1 for 10, `Margin` 1 for 5, `CallMargin` 4 for 50, `GccLimit` 2
for 6, `RunLimit` 1 for 4) and keep their order: the join timeout exceeds the
sum of the limits of the subprocesses, which is all the model compares. Clocks
saturate at what they are compared with, so time itself is not bounded. Three
problems with 0 to 2 samples give empty, equal and unequal lists in every
position; more tasks than workers keep some queued when a worker dies.

In the other composites: two or three prompts and a pool of two, so that
results can change places and one is queued; batches of two, so that a batch is
short; two or three starts; up to three lists of inputs, so that an insertion
shifts what comes after it; leaks of 400 and 700 bytes, one below and two above
a thousand; six samples, so that pass@5 is not trivial. The trainers have two
epochs of two to four steps and save every second or third, so that the last
step of an epoch, the last of all and a step in between are saved; a limit of two
checkpoints, so that one goes while one stays; two roles and ranks, so that a
crash leaves some. A group has two responses, three ranks do not divide all
validation sizes; a sequence group has up to four ranks, a pipeline up to four,
and experts and tensor ranks come in twos. A conversation has up to three
answers, and every limit that can end it is small enough to.
`MaxStarts`, `MaxRuns`, `MaxUpdates`, `MaxGenerations`, `MaxMerges` and
`Batches` bound how often something is begun; nothing else is cut off.

Deadlock is not checked, since all of these stop: after their starts,
evaluations or batches, with a verdict, or with the lists returned. What must be
reached before is stated as a property.

## Fairness

- `SampleStore`: weak fairness of the pool's threads and of the main thread. A
  call returns or fails (the client has a timeout of 130 seconds) and is
  repeated at most 15 times; the main thread waits for nothing else. Nothing is
  assumed about starts and crashes.
- `Judge`: of the parent (its joins have timeouts), of time, of a signal that
  was sent (SIGKILL cannot be refused) and of the expiry of a subprocess at
  its limit. The children are not assumed to do anything: they may hang.
- `GradePool`: of the main thread and of the workers together; `Judge!Settles`
  says why a worker comes back. A worker need not die.
- `CtypesTester`: of the parent and of time, not of the child, whose `join` has
  a timeout. `AppsSandbox` and `CtypesArgs`: of the one process there is.
- `BatchRunner`: of the pool and of the main process. `Translate`: of the step
  of every task, whose thread holds no lock when it waits for an answer.
- `OneStepOff`: of the driver and of the two groups; a group's collective takes
  both. `AgentLoop`: of the manager and of every row's coroutine, whose server
  answers or fails.
- `SglangRollout`, `Dispatch`: of the next step. `ActivationOffload`: of the host
  and of each of the three streams.
- `RateLimit`: of the limiter's two groups of threads and of every call.
- `SandboxReward`: of the end of a batch and of the timeouts, nothing else: what
  the sandbox and the processes do may take for ever.

## What the runs refute

The three runs that end in a violation, each a claim of the repository:

`NoWorkLost`: line 81 counts a program when `strip()` leaves something, lines
86, 87 and 93 keep it when it is not `""`. An answer that is white space is
kept and asked for again; when `n` programs and a white-space one are together,
the record is neither complete nor partial, the next run starts it again, and
its first snapshot erases the programs from the disk.

`DetailsMerged`: the details of two batches are merged by position, and the
positions of both start at 0.

`FullyPassingIsSafe`: the safety child reports the counts it has so far when
the compilation or a run under valgrind takes too long or raises, and zeros are
put in when it reports nothing. A right program with an error in a later test
then has the same numbers as a clean one.

## What the models refute

The modules state further claims of comments, documents and tests that their
own behaviours break. They stay in the modules as definitions, each marked as
refuted or with the line it quotes; made an `INVARIANT` (or a `PROPERTY`) of a small
configuration, each gives a trace of TLC. Paths are under `src/`.

| definition | where | what the code does |
|---|---|---|
| `BatchRunner!CacheOwn` (with a pool) | `evaluate/runner/base_runner.py:94` | a failed task of `run_batch` adds n empty strings instead of one list: later answers are cached under other prompts (no command of the repository calls `run_main`, and with it `run_batch`) |
| `BatchRunner!SuccessIsAnswers` | `evaluate/runner/vllm_runner.py:34` | `_run_single` is `pass`: every task succeeds with `None` and no sample is kept |
| `BatchRunner!Resumable` | `evaluate/runner/base_runner.py:35` | the cache is truncated in place; a kill there leaves a file no later run can read |
| `Translate!VerifiedOwn` ("apps", more than one worker) | `iteration_translation/LLM_adapter.py:39` | the response is a global: a thread can read another's, whose own test then passes |
| `Translate!AllInOutput` | `iteration_translation/pipeline.py:233` | examples that needed a retry are written to the default path, not the configured one |
| `CtypesTester!TimeLimitIsExecution` | `evaluate/evaluation/sandbox.py:365` | the child is joined before its queue is read: a large answer in time is a "Time Limit Exceeded (Execution)" |
| `Metrics!MemSafeIsFraction` | `evaluate/evaluation/metric_utils.py:147` | the minimum over a problem's generations, averaged, against `README.md:240` "fraction of generations" |
| `Reward!RightIsRewarded` | `verl/verl/utils/reward_score/cppcheck.py:362` | tests that are text come back from `dumps` and `loads` as text: every reward is 0 |
| `Reward!AuditRuns` | the same, `:85` | `resource` is not imported, so valgrind never starts and nothing is found |
| `Reward!Returns` | `train/cppcheck.py:371` | the audit is called without its `timeout`: `TypeError` for every completion |
| `ValgrindReport!SafeIsClean`, `!CleanIsSafe` | `evaluate/evaluation/testing_util.py:579` | 1,024 bytes are not matched, 0 bytes are, uninitialised values and invalid frees count nothing, against `README.md:234` |
| `Compare!LayoutForgiven` | `evaluate/sandbox/apps_sandbox.py:354` | empty lines of the expected output are kept where those of the output are removed |
| `AppsSandbox!SnipReturns` | `evaluate/sandbox/sandbox.py:81` | a compilation that takes too long raises `UnboundLocalError` |
| `Campaign!EverySample` | `evaluate/generate_evaluate.py:247` | a sample that replaces one given up is never graded, its problem is in the file |
| `EvalMerge!ReRunReads` | the same, `:323` | a crash within the line leaves one that every later run fails on |
| `CustomEval!ListsAreTaken` | `evaluate/custom_evaluate.py:52` | lists raise `TypeError` before the branch for lists |
| `PpoTrainer!ResumesFromIt`, `SftTrainer!ResumesLatest` (limit 1) | `verl/verl/utils/checkpoint/fsdp_checkpoint_manager.py:213` | the tracked checkpoint is removed before its successor is written |
| `PpoTrainer!TrackerIsRead` | `verl/verl/trainer/ppo/ray_trainer.py:982` | the tracker "for atomic usage" is written in place |
| `PpoTrainer!KeepsTheLimit` | `.../fsdp_checkpoint_manager.py:210` | checkpoints of an earlier start are never removed |
| `PpoTrainer!StopsAtTotal` | `.../ray_trainer.py:1118` | a finished job that is started again trains one step more |
| `SftTrainer!TrainedOnce` (a save at the end of an epoch) | `verl/verl/trainer/fsdp_sft_trainer.py:716` | the loader has nothing left, and the next epoch yields no batch |
| `SeqlenBalance!NeverFails` (`MinMicro`) | `verl/verl/utils/seqlen_balancing.py:295` | "pads empty ones": an assertion fails |
| `SeqlenBalance!WithinBudget` | the same, `:283` | 2, 4, 4 with a budget of 5 do not pack into two |
| `AgentLoop!LeastRequests` | `verl/verl/experimental/agent_loop/agent_loop.py:74` | a weight is never lowered, and a worker knows its own requests only |
| `BatchFlow!NeverFails` (REMAX, n > 1) | `.../ray_trainer.py:1182` | the baseline of a repeated batch does not join one that is not |
| `DapoTrainer!SameIsFiltered` | `verl/recipe/dapo/dapo_ray_trainer.py:228` | the deviation of three times 0.1 is above 0 |
| `DapoTrainer!EpochsKept` | the same, `:95` | a resumed job runs all its epochs again |
| `OneStepOff!AlwaysOneStepBehind` | `verl/recipe/one_step_off_policy/ray_trainer.py:422` | the last validation runs two updates behind |
| `OneStepOff!ValidatesLoaded` | the same, `:367` | the first validation of a resumed job is of the untrained model |
| `OneStepOff!EndsAtTotal` | the same, `:588` | the batch drawn ahead is lost at a resume, and the job ends a step early |
| `SpinTrainer!PairsOfOnePrompt` | `verl/recipe/spin/core_algos.py:71` | "Assumes inputs are interleaved": balancing, or one response per prompt, pairs responses to different prompts |
| `SpinTrainer!RefFollows` | `verl/recipe/spin/fsdp_workers.py:889` | a reference worker may not load a checkpoint (`recipe/spin/README.md:40` says it is updated) |
| `SpinTrainer!ResumesAfter` | `verl/recipe/spin/spin_trainer.py:995` | `fit` sets the step from what `_load_checkpoint` does not return |
| `SpinTrainer!GoesOn` | `verl/recipe/spin/fsdp_workers.py:274` | a `KeyError` on `global_token_num` ends the training after its first update |
| `SandboxReward!NotStarved` | `verl/verl/workers/reward_manager/prime.py:67` | permits held by killed processes are never given back |
| `RateLimit!NoneRaises` | `verl/verl/tools/sandbox_fusion_tools.py:78` | without a global limit every call raises |
| `SglangRollout!TrainedIsGenerated` | `verl/docs/sglang_multiturn/multiturn.rst:142` | the template's end of an answer that was cut off is in the mask |
| `SglangRollout!InteractionFinalized` | `verl/docs/sglang_multiturn/interaction_system.rst` | nothing calls `finalize_interaction` |
| `Advantages!ScoreReaches` | `verl/verl/trainer/ppo/core_algos.py:562` | "Reset after EOS" resets at a tool's token as well; GAE and ReMax do not see a score on one |
| `LinearCrossEntropy!VocabularyOnly` | `verl/tests/utils/test_linear_cross_entropy.py:218` | columns beyond a vocabulary that splits do not divide (151936 by 1024) are counted with logits of 0 |
| `MultiTurnSft!IsWhole` | `verl/verl/utils/dataset/multiturn_sft_dataset.py` | with a template that drops earlier thoughts, the turn after one loses its beginning |
| `ModelMerger!NeverFails` | `verl/verl/model_merger/megatron_model_merger.py:90` | `get_dynamic_pipeline_shards` raises `IndexError` for 5 layers on 4 ranks, 12 on 8, 24 on 16 |

What holds is as telling. `Judge!PassedIsRight`: none of the ways in which a
child can be cut short makes a wrong program pass, because every one of them
leaves a verdict that is not positive. `GradePool!OwnVerdicts` needs every
problem to have a sample, since the lists returned have no entry for one
without. `Translate!RecordIsOfItsCode` and `SandboxReward!ScoreIsDeserved` hold
although threads answer in any order, `ActivationOffload!ReadsOwn` although no
two streams are in step, `OneStepOff!OneStepBehind` although nobody counts, and
`ModelMerger!MergedIsOriginal` for every two pipelines although the converter
and the merger number the layers by different rules.

## Proofs

The end of `SampleStore` proves for every set of problems, every `n`, any number of
threads, attempts and starts, and any classes of answers:

- `TypeCorrect`: `Spec => []TypeOK`; the output file is never torn.
- `RunsAddUp`: `Spec => []Accounted`.
- `EvaluationIsWhole`: `Spec => []EvaluatesWhole`.
- `SamplesAreDurable`: `Spec => DurableSamples`.

The assumptions are those of `SampleStore`: positive bounds, `Empty` is neither
a program nor white space, and the marks of the files are no records. That a
run adds up to `n` depends on what the run before left on the disk, and that on
how its snapshots were written; the inductive invariant `IndInv` therefore adds
to the type and to `Accounted` that every record in every file is finite and
not overfull when clean (`FilesSound`), that a sample of this run is in a
record only when its task is done with (`Fresh`, so that `Collect` adds a new
one), what the writer holds (`Settled`), and that the memory is never behind a
clean record it resumed from (`Ahead`, from which durability follows).

- `CampaignIsLog`: where no answer is white space (`NoBlank`), `Spec =>
  ImplementsLog`: every step of the threads, of the writer and of a crash is a
  step of `SampleLog` or none. Without the hypothesis it is false, as
  `SampleStoreWork` shows: a record can exceed `n`.

The end of `EvalMerge` proves for every finite set of problems, any scores, any
benchmarks and any number of evaluations and crashes:

- `TypesKept`: `Spec => []TypeOK`; no mean divides by zero.
- `NoneTwice`: `Spec => []GradedOnce`.
- `FilesAgree`: `Spec => []NamesAgree`.
- `MeansAgree`: `Spec => []MeanAgrees`.
- `NothingForgotten`: `Spec => ArchiveGrows`.

What is read is merged and written later, so the invariant says what a run holds
in between (`Held`): the entries it has read are still those of the file, its
batch names other problems, each once, and its metrics name both and have their
mean; and that after the first of the two writes the eval file is what the run
holds (`Written`). The mean is a sum over a list of any length. Sums of two
lists joined (`TotalOfJoin`) need an induction, and the library's rule cannot
be used here; the lemmas take the least number of entries for which they would
fail instead, which exists because the order of the natural numbers is
well-founded.

`GradingProofs` proves for any number of tests, any limits and every program:

- `TypeCorrect`: `Spec => []TypeOK`.
- `VerdictIsRight`: `Spec => []VerdictRight`.
- `LocalLimitsFirst`: `Spec => []LocalTimeoutsFirst`.
- `PatienceKept`: `Spec => Patience`.
- `PlacedByProblem`: `GradingSpec => []VerdictsPlaced`, for any number of
  problems, samples and workers of the pool.

The invariant has one part for each thing the parent relies on without looking:
how long a child that still lives must have lived (`Waits`), how much of its time a
child has used, test by test (`Timely`, a bound by a product of the number of
tests), that what is found and appended is true of the program up to that
test (`Listed`), and that what the parent has read is what was there, or stands
for nothing (`ReadRight`).

Of the pool the invariant is small (`PoolInv`: futures that have ended stay, and
what was yielded is theirs, whatever the order); the work is in the lists. That
list of tasks, index of the problem and place in the problem belong together
(`Placed`) and that the loop over the results fills the list of every problem
from its beginning (`Filled`) are inductions over the number of problems and of
results, made with the least counterexample.

`TrainingProofs` is about the trainers of `MCTraining`, for any number of ranks,
roles, steps, epochs, frequencies and starts:

- `NeverFurtherBehind`: `Spec => []OneStepBehind`.
- `InTurn`: `Spec => []FollowsOn` (of `OneStepOff`, a part of the next).
- `InTurnEverywhere`: `TrainingSpec => []TrainedInTurn`.
- `CheckpointsHold`: `TrainingSpec => []TrackedIsWhole`.
- `TrackedIsKept`: `TrainingSpec => NamedIsKept`.

The last three have two hypotheses, without which they are false, because the
code goes wrong there: `MaxKeep # 1`, since a manager that keeps one checkpoint
removes the tracked one before the next is written; and `SavesInEpochs`, that no
SFT checkpoint is saved at the end of an epoch before the last, since a job resumed
from one skips the epoch that follows. Both are in the table of what is refuted.

One step behind: nobody in the code counts how far the rollout is behind; it
follows from which requests wait in which queue at each place of the driver
(`Queues`), from whose weights answered what is coming (`Ages`), and, for
the order of the batches, from the place of the loader against the newest batch
trained on, in the job and in the checkpoint (`Turns`). Checkpoints: the
invariants (`SftInv`, `PpoInv`) say which files exist at each place of a save
(`...Written`), that the tracker names a whole checkpoint no later than the job
(`...Tracked`), and that the checkpoints a process has written climb to the tracked
one (`...Saved`), so that the one rotation removes is an older one; that the model
holds the batches up to its step, each once, then follows from what the named
checkpoint holds (`...Place`, `...Shards`). SPIN: the model's batches are below the
one drawn last, or at it once its update is over (`SpinTurns`), in the job and in
the checkpoint.

`GenerationProofs` is about the programs of `MCGeneration`, for any number of
prompts, samples, problems, lines, workers, retries, runs and kills:

- `FilesNeverDiffer`: `GenerationSpec => []FilesAgree`.
- `EveryAnswerPlaced`: `GenerationSpec => []AnswersPlaced`.
- `Translated`: `GenerationSpec => []TranslationsRight`, assuming
  `Pipeline = "lcb" \/ Workers = 1`. The hypothesis is needed: with "apps" and
  two threads `VerifiedOwn` is refuted (see the table above).
- `NothingIsForgotten`: `GenerationSpec => NothingForgotten`.

`Campaign` and `CustomEval` leave entries out of lists and find them again by
number; the code does it with a recursive function on the length, the proofs by
the place an entry comes from (`Sifted`). `FilesInv` says what a run still has to
do to the second file once it has written the first. In `BatchRunner` every result
that was yielded is at its place and every other place is empty (`StreamOutputs`,
`LoopOutputs`); what is cached comes from there, and is what the file held if it
held something (`StreamKeeps`). In `Translate` the invariant (`Translate!IndInv`)
follows an answer from the shared variable to the thread (`Asked`), its sample
(`Samples`) and the records (`Once`); with one thread nobody is between the two
(`Alone`). The "apps" pipeline of the run is an instance of its own, for which the
lemmas are stated a second time (`One...`).

Two more modules hold their proofs after their properties, as `SampleStore` and
`EvalMerge` do:

- `MCVerdicts`, `CtypesVerdicts`: `Spec => []CtypesRight` (the `Spec` of
  `CtypesTester`), for any number of tests and any timeout. The parent never looks
  at the child and its queue together, so the invariant says what it may conclude
  at each place (`Seen`).
- `MCVerdicts`, `FindingsStay`: `VerdictsSpec => []FindingsKept`, for any number
  of tests of an APPS program and of inputs of a run under valgrind, and any blocks
  and places of errors. The results of the loop are those of the first inputs, one each
  (`AppsPlace`). A count that is raised to the larger of two never falls
  (`GrindEnds`), and a loss that is reported needs a block that is lost
  (`GrindLost`). The proof found a definition without a meaning: two cases of
  `AppsSandbox!SnipCode` overlapped, which TLC decides by their order and
  TLA+ leaves open. They exclude each other now, as do those of
  `CtypesArgs!Inserted`.
- `SandboxReward`, `Scored`: `Spec => []ScoreRight`, for any responses, cases,
  processes, permits and retries. `Places` says where cases are by where their
  response is, `Found` what has been found of each.

`RolloutProofs` is about the resources of a rollout:

- `WorkersRight`: `Spec => []WorkerRight` (the `Spec` of `FsdpWorker`), for any
  number of ranks that the two group sizes divide, any rows per rank, every mode
  of offloading, with an adapter or without, and any number of updates,
  generations and starts. One part of the invariant is about the engine's
  parameters, one about the devices, one about the random states, one about the
  rows; the last needs that a rank's place in its group and the group's place in
  the job give back its number (`Division`, `Quotient`).
- `ResourcesStay`: `RolloutSpec => []ResourcesRight`, for any rows, workers,
  servers and size of the cache, any callers and limits of the code tool, and models
  of any size, any number of them copied, with any number of micro-batches.

The components of `ResourcesRight` have an invariant each. Servers (`LoopInv`): a
conversation that has asked keeps its entry in the cache of its worker, since no
more entries of its batch can be behind it than the worker has rows, and those of
earlier batches are in front (`Listed`). It holds only if the cache has room for
the rows of the worker; `Sticky` says so since the proof asked for it, with the
default of 10000 entries for a few hundred rows. That the weights of a worker's
servers differ by at most one is kept because the lightest one is raised
(`LightestIsLeast`, `StaysEven`). Limiter (`RateInv`): calls at the sandbox,
permits that are free and permits on their way back are never more than the limit.

Activations (`ActInvariant`): the hard one, because the host is ahead of three
streams that are out of step, and memory is given again while they still work. The
invariant is about the work that has been put into the streams and not been done.
Work is before other work if it is done, is earlier in its stream or is waited for
(`First`, `Ahead`); every piece that reads finds what it is meant to, since what is
written last to that memory before it is what it is meant to read, and what is
written next comes after it (`Finds`). Copies out are over before the computation
goes on, except of blocks the handler still holds (`Settled`), copies in except of
those that are under way (`Arrived`), and what the host refers to will hold what
was saved under it (`HoldsLast`). A step of a stream keeps all of this whatever the
host does (`WorkStays`), a piece of work the host adds keeps it if it comes after
what it must not overtake (`PutCopy`). The host (`HostInv`) knows which groups are
saved, copied and on their way from the windows alone; that a window ends no sooner than
the layer of its group, and before the next one does (`Windows`), is arithmetic of
quotient and rest. Memory is assumed to hold a block more than the model has layers;
that there is always one to give is then proved (`SomeFree`). In the steps of the
handler the two meet: the block it lets go at the end of a window has been copied,
because the computation waits for the copies there.

Every theorem rests on the ASSUMEs of its module only (besides the hypotheses
named above), which say that sizes and limits are positive numbers, sets finite,
and marks no data; each is evaluated in a run. The properties proved are those
the runs check on small instances, so that a mutant of the code that breaks one
in TLC breaks the theorem as well. Each inductive invariant was checked by TLC
on a small instance before it was proved.

Only model-checked:

- what must eventually happen (the `...End` and `...Ends` properties and
  `Terminates`): it needs fairness and ENABLED, beyond the prover;
- `OutputsRight`, `MetricsRight`, `ContentsRight`, `ConversationsRight`,
  `FlowRight` and `BalanceRight`: not proved. `Metrics`, `SeqlenBalance`,
  `ModelMerger`, `Advantages`, `LinearCrossEntropy` and the comparison of outputs
  are algorithms over recursive definitions: what they compute for every input
  needs inductions over data.
- `SampleStore` with white-space answers does not implement the log.

## What could follow

Theorems that are within reach: `DapoTrainer!TrainedInTurn`, `Dispatch!ComesBack`,
`AgentLoop!MaskIsGenerated`, `SglangRollout!Alternates`.

The next components of verl, should the model grow: the Megatron workers with
their pipeline, the critic and reward workers, the policy losses, and the PRIME
and SPPO recipes.

## Not modelled

- The contents of prompts, datasets and programs; compilers, valgrind and the
  operating system, except for how a process can end.
- `train/` beyond the reward, and scripts that run once over files.
- Validation of every trainer beyond its padding, hdfs copies, profiling, logs.
- The start of servers, engines and worker groups; colocation and resource pools.
- verl's model definitions, Megatron workers, critic and reward-model workers,
  the synchronous vLLM and HF rollouts, the other datasets, policy and value
  losses, the scorers of mathematics, `third_party`, and the recipes PRIME,
  SPPO, entropy, r1, char_count, retool and langgraph_agent. They are mostly
  code over tensors or text in one process, where a model checker adds little to
  a test; the control the recipes add to the PPO loop is close to that of DAPO
  and of SPIN. The map covers about an eighth of the implementation; it is the
  part in which actors, files or numberings meet.
