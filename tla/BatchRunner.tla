---------------------------- MODULE BatchRunner ----------------------------
(***************************************************************************)
(* BaseRunner of evaluate/runner/base_runner.py for runners that answer a  *)
(* whole prompt at a time (those without _run_one), on the process pool of *)
(* evaluate/utils/multiprocess.py:                                         *)
(*                                                                         *)
(*   "stream"   run_main_stream, the fallback of run_main_per_sample       *)
(*   "batch"    run_main, prompts_to_outputs and run_batch                 *)
(*                                                                         *)
(* The command may be started several times over one cache file.  A list   *)
(* of n answers is named by the prompt it was generated for, so that one   *)
(* that reaches another prompt shows.  The pool yields results in the      *)
(* order of the tasks; only how a task ended is known of one that failed.  *)
(***************************************************************************)
EXTENDS Naturals, Sequences, FiniteSets, SequencesExt

CONSTANTS
  P,          \* number of prompts; prompt i belongs to problem i
  N,          \* --n: answers per prompt
  Workers,    \* --multiprocess; 1 is the loop without a pool
  BatchSize,  \* --cache_batch_size
  UseCache,   \* --use_cache
  Modes,      \* the entry points that are used
  Outcomes,   \* what _run_single may do: "answers", "none", "raises", "dies"
  MaxStarts,  \* bound: how often the command is started
  Blank,      \* the string ""
  NoList,     \* the empty list
  None,       \* Python's None, which _run_single of the vLLM runner returns
  Absent,     \* not a key of the cache
  NoFile,     \* the cache file does not exist
  Torn        \* the cache file was opened for writing and is not complete

Prompts == 1..P
Item == Prompts \cup {Blank, NoList, None}
CacheOf == [Prompts -> Item \cup {Absent}]

BatchRunnerAssumption ==
  /\ {P, N, Workers, BatchSize} \subseteq Nat \ {0} /\ MaxStarts \in Nat
  /\ {Blank, NoList, None, Absent} \cap Prompts = {}
  /\ Modes \subseteq {"stream", "batch"}
  /\ Outcomes \subseteq {"answers", "none", "raises", "dies"}

VARIABLES
  pc, mode, starts,
  first,      \* first prompt of the batch ...
  held,       \* ... and how many outputs there were before it
  task,       \* task[i]: what the pool knows of prompt i
  nextOut,    \* the prompt whose result the iterator yields next
  outputs,    \* the list that is returned
  cache,      \* self.cache
  cacheFile,  \* the file at self.cache_path
  delivered   \* delivered[i]: what on_sample got for problem i in this start

vars == <<pc, mode, starts, first, held, task, nextOut, outputs, cache, cacheFile, delivered>>

Task(st, res) == [st |-> st, res |-> res]
Fresh == [i \in Prompts |-> Task("new", NoList)]
NoCache == [i \in Prompts |-> Absent]

Init ==
  /\ pc = "down" /\ mode \in Modes /\ starts = 0
  /\ first = 1 /\ held = 0 /\ task = Fresh /\ nextOut = 1
  /\ outputs = <<>>
  /\ cache = NoCache /\ cacheFile = NoFile
  /\ delivered = [i \in Prompts |-> <<>>]

\* __init__ reads the cache file; a torn one is not JSON.
Start ==
  /\ pc \in {"down", "returned", "raised"} /\ starts < MaxStarts
  /\ cacheFile # Torn
  /\ starts' = starts + 1 /\ pc' = "run" /\ mode' \in Modes
  /\ first' = 1 /\ held' = 0 /\ task' = Fresh /\ nextOut' = 1
  /\ outputs' = IF mode' = "stream" THEN [i \in Prompts |-> NoList] ELSE <<>>
  /\ cache' = IF UseCache /\ cacheFile # NoFile THEN cacheFile ELSE NoCache
  /\ delivered' = [i \in Prompts |-> <<>>]
  /\ UNCHANGED cacheFile

\* The prompts of one call of run_batch, or all of them.
LastOf(f) == IF mode = "batch" /\ UseCache /\ f + BatchSize - 1 < P
             THEN f + BatchSize - 1 ELSE P
Batch == first..LastOf(first)

In(st) == {i \in Batch : task[i].st = st}
Sequential == Workers = 1

-----------------------------------------------------------------------------
(* The pool: run_tasks_in_parallel_iter.                                   *)

\* A worker takes the next task; the loop without a pool waits for its turn.
Take(i) ==
  /\ pc = "run" /\ task[i].st = "new"
  /\ i \in Batch /\ \A j \in In("new") : i <= j
  /\ Cardinality(In("running")) < Workers
  /\ Sequential => i = nextOut
  /\ task' = [task EXCEPT ![i].st = "running"]
  /\ UNCHANGED <<pc, mode, starts, first, held, nextOut, outputs, cache, cacheFile, delivered>>

\* len(cache[prompt]) == args.n: every list of answers has n of them.
Hit(i) == UseCache /\ cache[i] \in Prompts

\* len(None) raises
BadHit(i) == UseCache /\ cache[i] = None

(* run_single: the cached list, or what the model answers.  A worker       *)
(* process may also expire, whatever it is doing.                          *)
Outcome(i) ==
  LET asked == {Task("success", i)   : o \in Outcomes \cap {"answers"}} \cup
               {Task("success", None) : o \in Outcomes \cap {"none"}} \cup
               {Task("exception", NoList) : o \in Outcomes \cap {"raises"}}
      dies  == {Task("expired", NoList) : o \in Outcomes \cap {"dies"}}
  IN  dies \cup (CASE Hit(i)    -> {Task("success", cache[i])}
                   [] BadHit(i) -> {Task("exception", NoList)}
                   [] OTHER     -> asked)

Finish(i) ==
  /\ pc = "run" /\ task[i].st = "running"
  /\ \E t \in Outcome(i) : task' = [task EXCEPT ![i] = t]
  /\ UNCHANGED <<pc, mode, starts, first, held, nextOut, outputs, cache, cacheFile, delivered>>

Done(i) == task[i].st \in {"success", "exception", "expired"}

-----------------------------------------------------------------------------
(* The main process.                                                       *)

\* Mutation: results are numbered by those that succeeded so far.
AfterCounted(i) ==
  IF mode = "stream" /\ task[i].st = "success"
  THEN [outputs EXCEPT ![Cardinality({j \in 1..i : task[j].st = "success"})] = task[i].res]
  ELSE outputs

\* What the loop over the results does to the list of outputs.
After(i) ==
  CASE mode = "stream" /\ task[i].st = "success" -> [outputs EXCEPT ![i] = task[i].res]
    [] mode = "stream" /\ task[i].st # "success" -> outputs
    [] mode = "batch" /\ task[i].st = "success"  -> Append(outputs, task[i].res)
    [] OTHER -> outputs \o [k \in 1..N |-> Blank]

\* _batched_cb hands the answers on one by one; None cannot be iterated, and
\* an exception of on_sample loses the rest: both are printed and forgotten.
Callback(i) ==
  IF mode = "stream" /\ task[i].st = "success" /\ task[i].res # None
  THEN \E k \in 0..N : delivered' = [delivered EXCEPT ![i] = [j \in 1..k |-> task[i].res]]
  ELSE UNCHANGED delivered

(* next(iterator) and the body of the loop.  Without a pool the exception  *)
(* of a task is the end of the command.                                    *)
Yield ==
  /\ pc = "run" /\ nextOut \in Batch /\ Done(nextOut)
  /\ IF Sequential /\ task[nextOut].st # "success"
     THEN pc' = "raised" /\ UNCHANGED <<nextOut, outputs, delivered>>
     ELSE /\ pc' = pc
          /\ nextOut' = nextOut + 1
          /\ outputs' = After(nextOut)
          /\ Callback(nextOut)
  /\ UNCHANGED <<mode, starts, first, held, task, cache, cacheFile>>

\* batch_outputs, which prompts_to_outputs has appended to outputs
Added == SubSeq(outputs, held + 1, Len(outputs))

\* for prompt, output in zip(prompts, outputs): self.cache[...] = output
Zipped == [i \in Prompts |->
             IF i \in Batch /\ i - first + 1 <= Len(Added)
             THEN Added[i - first + 1] ELSE cache[i]]

GoOn ==
  IF LastOf(first) < P
  THEN pc' = "run" /\ first' = LastOf(first) + 1 /\ held' = Len(outputs)
  ELSE pc' = "returned" /\ UNCHANGED <<first, held>>

EndBatch ==
  /\ pc = "run" /\ nextOut > LastOf(first)
  /\ IF UseCache
     THEN cache' = Zipped /\ pc' = "save" /\ UNCHANGED <<first, held>>
     ELSE GoOn /\ UNCHANGED cache
  /\ UNCHANGED <<mode, starts, task, nextOut, outputs, cacheFile, delivered>>

\* save_cache: open(path, "w") truncates the file, json.dump fills it.
OpenCache ==
  /\ pc = "save"
  /\ cacheFile' = Torn /\ pc' = "fill"
  /\ UNCHANGED <<mode, starts, first, held, task, nextOut, outputs, cache, delivered>>

FillCache ==
  /\ pc = "fill"
  /\ cacheFile' = cache
  /\ GoOn
  /\ UNCHANGED <<mode, starts, task, nextOut, outputs, cache, delivered>>

\* The command is killed.
Crash ==
  /\ pc \in {"run", "save", "fill"}
  /\ pc' = "down"
  /\ cache' = NoCache /\ outputs' = <<>> /\ task' = Fresh
  /\ UNCHANGED <<mode, starts, first, held, nextOut, cacheFile, delivered>>

Pool == \E i \in Prompts : Take(i) \/ Finish(i)
Main == Yield \/ EndBatch \/ OpenCache \/ FillCache

Next == Start \/ Pool \/ Main \/ Crash

Spec == Init /\ [][Next]_vars

(* A call of the model returns or raises, pebble reports a worker that     *)
(* expired, and the main process waits for nothing else.                   *)
Fairness == WF_vars(Pool) /\ WF_vars(Main)

FairSpec == Spec /\ Fairness
-----------------------------------------------------------------------------
TypeOK ==
  /\ pc \in {"down", "run", "save", "fill", "returned", "raised"}
  /\ mode \in {"stream", "batch"} /\ starts \in 0..MaxStarts
  /\ first \in Prompts /\ held \in 0..(P * N) /\ nextOut \in 1..(P + 1)
  /\ task \in [Prompts -> [st : {"new", "running", "success", "exception", "expired"},
                           res : Item]]
  /\ outputs \in Seq(Item)
  /\ cache \in CacheOf /\ cacheFile \in CacheOf \cup {NoFile, Torn}
  /\ delivered \in [Prompts -> Seq(Item)]

(* Where the streaming run returns, its list has one place for every       *)
(* problem of the benchmark, in order, with the answers to that problem's  *)
(* prompt, or the empty list if its task failed; and no problem was given  *)
(* the answers of another, whatever failed in between (lines 170-191).     *)
StreamAligned ==
  /\ \A i \in Prompts : \A k \in DOMAIN delivered[i] : delivered[i][k] = i
  /\ (mode = "stream" /\ pc = "returned") =>
       /\ Len(outputs) = P
       /\ \A i \in Prompts :
            outputs[i] = IF task[i].st = "success" THEN task[i].res ELSE NoList
       /\ \A i \in Prompts : outputs[i] \in {i, NoList, None}

Own(c) == \A i \in Prompts : c[i] \in Prompts => c[i] = i

(* base_runner.py:45 "Run the model for a single prompt and return the     *)
(* output": what a later run takes out of the cache for a prompt was       *)
(* generated for it.                                                       *)
CacheOwn == Own(cache) /\ (cacheFile \notin {NoFile, Torn} => Own(cacheFile))

(* base_runner.py:146 "`outputs_list` is the list of raw generations for   *)
(* this prompt": a task that succeeded has its n answers in the list that  *)
(* is returned.                                                            *)
SuccessIsAnswers ==
  (mode = "stream" /\ pc = "returned") =>
    \A i \in Prompts : task[i].st = "success" => outputs[i] \in Prompts

(* A whole list in the cache is asked for only once: a prompt that was     *)
(* answered stays so in the file, unless a worker died on its way to the   *)
(* cached answer or a run was killed while the file was being written.     *)
CacheStep ==
  \A i \in Prompts :
    (cacheFile \notin {NoFile, Torn} /\ cacheFile[i] = i /\ pc = "save" /\ pc' = "fill")
      => cache[i] = i \/ task[i].st = "expired"

CacheKeeps == [][CacheStep]_vars

(* README.md:40 "an interrupted run can be resumed": after a kill the       *)
(* cache file can be read again.                                           *)
Resumable == pc = "down" => cacheFile # Torn

(* Whatever its tasks come to, a run that is not killed ends, by returning *)
(* or by an exception.                                                     *)
Running == pc = "run"
Stopped == pc \in {"returned", "raised", "down"}

Ends == Running ~> Stopped
=============================================================================
