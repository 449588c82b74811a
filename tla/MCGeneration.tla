---------------------------- MODULE MCGeneration ---------------------------
(**************************************************************************)
(* What produces and files samples, for TLC: the batch runner and its     *)
(* cache (BatchRunner), the two translation pipelines (Translate), the    *)
(* campaign of generation and evaluation (Campaign) and the evaluation of *)
(* a file that is there already (CustomEval).                             *)
(*                                                                        *)
(* They are programs of their own that share files only between runs: a   *)
(* behaviour belongs to one part, and the others rest.                    *)
(**************************************************************************)
EXTENDS Translate, Sequences

CONSTANTS
  Parts,                          \* the parts that are checked
  NoFile, None,
  Blank, NoList, Absent, Torn,    \* of BatchRunner
  P, N, UseCache,
  StreamWorkers, StreamBatch, StreamStarts, LoopBatch, LoopStarts,
  AppsRetries,                    \* of Translate, pipeline.py
  Problems, MaxRuns, Ungraded,    \* of Campaign
  Ids, MaxLines, MaxCodes         \* of CustomEval

VARIABLES
  part,
  batchPc, mode, starts, first, held, task, nextOut, outputs, cache,  \* BatchRunner
  cacheFile, delivered,
  disk, live, campGraded, run, campPc,              \* Campaign
  shape, lines, bench, custPc, custGraded, files    \* CustomEval

batchVars == <<batchPc, mode, starts, first, held, task, nextOut, outputs,
                cache, cacheFile, delivered>>
campVars == <<disk, live, campGraded, run, campPc>>
custVars == <<shape, lines, bench, custPc, custGraded, files>>
generationVars == <<part, batchVars, vars, campVars, custVars>>

\* Streaming over a pool, with every runner.
Stream == INSTANCE BatchRunner WITH
  pc <- batchPc, Workers <- StreamWorkers, BatchSize <- StreamBatch,
  Modes <- {"stream"}, Outcomes <- {"answers", "none", "raises", "dies"},
  MaxStarts <- StreamStarts
\* Both entry points without a pool.
Loop == INSTANCE BatchRunner WITH
  pc <- batchPc, Workers <- 1, BatchSize <- LoopBatch,
  Modes <- {"stream", "batch"}, Outcomes <- {"answers", "none", "raises"},
  MaxStarts <- LoopStarts

\* pipeline_lcb.py with its constants; pipeline.py as it is configured, with one
\* thread, on the same tasks.
One == INSTANCE Translate WITH Pipeline <- "apps", Workers <- 1, Retries <- AppsRetries

Files == INSTANCE Campaign WITH graded <- campGraded, pc <- campPc

Custom == INSTANCE CustomEval WITH pc <- custPc, graded <- custGraded

ASSUME GenerationAssumption ==
  /\ Parts \subseteq {"stream", "loop", "apps", "lcb", "campaign", "custom"}
  /\ Stream!BatchRunnerAssumption
  /\ Loop!BatchRunnerAssumption
  /\ Pipeline = "lcb" /\ AppsRetries \in Nat
  /\ Files!CampaignAssumption
  /\ Custom!CustomEvalAssumption

-----------------------------------------------------------------------------
\* What a part that is not looked at rests in: one of its initial states.
BatchRests == Stream!Init
CampRests == Files!Init
CustRests ==
  shape = "records" /\ lines = <<>> /\ bench = {} /\ Custom!Init

GenerationInit ==
  /\ part \in Parts
  /\ CASE part = "stream" -> Stream!Init
       [] part = "loop" -> Loop!Init
       [] OTHER -> BatchRests
  /\ IF part = "apps" THEN One!Init ELSE Init
  /\ IF part = "campaign" THEN Files!Init ELSE CampRests
  /\ IF part = "custom" THEN Custom!Init ELSE CustRests

\* The others stay where they are.
BatchOnly == UNCHANGED <<part, vars, campVars, custVars>>
TransOnly == UNCHANGED <<part, batchVars, campVars, custVars>>
CampOnly == UNCHANGED <<part, batchVars, vars, custVars>>
CustOnly == UNCHANGED <<part, batchVars, vars, campVars>>

GenerationNext ==
  \/ part = "stream" /\ Stream!Next /\ BatchOnly
  \/ part = "loop" /\ Loop!Next /\ BatchOnly
  \/ part = "apps" /\ One!Next /\ TransOnly
  \/ part = "lcb" /\ Next /\ TransOnly
  \/ part = "campaign" /\ Files!Next /\ CampOnly
  \/ part = "custom" /\ Custom!Next /\ CustOnly

GenerationSpec == GenerationInit /\ [][GenerationNext]_generationVars

\* The fairness of BatchRunner and of Translate.
GenerationFair ==
  /\ GenerationSpec
  /\ WF_batchVars(part = "stream" /\ Stream!Pool)
  /\ WF_batchVars(part = "stream" /\ Stream!Main)
  /\ \A t \in Tasks : WF_vars(part = "apps" /\ One!Step(t))

-----------------------------------------------------------------------------
(* The list of a streaming run has the answers of every problem at its     *)
(* place, and what the cache keeps for a prompt was generated for it       *)
(* (base_runner.py:60-191).  Translate!TranslationsRight is checked as     *)
(* well, of both pipelines.                                                *)
AnswersPlaced ==
  /\ part = "apps" => One!TypeOK /\ One!RecordIsOfItsCode
  /\ part = "lcb" => TypeOK
  /\ part = "stream" => Stream!TypeOK /\ Stream!StreamAligned
  /\ part = "loop" => Loop!TypeOK /\ Loop!CacheOwn

(* The output file and the evaluation files never contradict each other:   *)
(* Campaign!ArchiveBehind (generate_evaluate.py), CustomEval!WrittenIsOwn  *)
(* and CustomEval!AllOrNothing (custom_evaluate.py).                       *)
FilesAgree ==
  /\ part = "campaign" => Files!TypeOK /\ Files!ArchiveBehind
  /\ part = "custom" => Custom!TypeOK /\ Custom!WrittenIsOwn /\ Custom!AllOrNothing

(* An answered prompt stays in the cache, and a graded record in the       *)
(* eval_all file: BatchRunner!CacheStep, Campaign!GradedStep.              *)
NothingForgotten ==
  [][/\ part = "stream" => Stream!CacheStep
     /\ part = "campaign" => Files!GradedStep]_generationVars

(* A run that is not killed ends, whatever its tasks come to, and every    *)
(* example is recorded, whatever the model answers.                        *)
GenerationEnds ==
  /\ (part = "stream" /\ Stream!Running) ~> Stream!Stopped
  /\ <>(part = "apps" => One!AllFinished)
=============================================================================
