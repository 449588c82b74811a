----------------------------- MODULE FsdpWorker -----------------------------
(***************************************************************************)
(* A hybrid worker of verl (ActorRolloutRefWorker with a vLLM rollout): on *)
(* the same GPUs live the parameters that are trained, their optimizer and *)
(* an engine that generates with a copy of the parameters.  Every operation*)
(* brings what it needs to the GPU and takes it away after; a generation   *)
(* copies the parameters to the engine and runs under random states of its *)
(* own.                                                                    *)
(*                                                                         *)
(* The ranks go through an operation together (each of its steps has a     *)
(* collective), so a step is one action of all of them.  The driver may    *)
(* call the operations in any order.  Parameters are named by the number of*)
(* updates they have had; a random state by its stream and how far it has  *)
(* come.                                                                   *)
(***************************************************************************)
EXTENDS Naturals, Sequences

CONSTANTS
  Ranks,            \* number of ranks
  Tp,               \* ranks that generate together (infer_tp)
  Sp,               \* ranks that share a sequence (ulysses)
  PerRank,          \* rows a rank is given
  Lora,             \* model.lora_rank > 0
  Dummy,            \* "dummy" in rollout.load_format
  OffloadParam, OffloadOptimizer,
  FreeCache,        \* rollout.free_cache_engine
  MaxUpdates,       \* bound: updates
  MaxGenerations,   \* bound: generations of a start
  MaxStarts         \* bound: starts of the job

ASSUME FsdpWorkerAssumption ==
  /\ {Ranks, Tp, Sp, PerRank} \subseteq Nat \ {0} /\ {MaxUpdates, MaxGenerations, MaxStarts} \subseteq Nat
  /\ Ranks % Tp = 0 /\ Ranks % Sp = 0
  /\ {Lora, Dummy, OffloadParam, OffloadOptimizer, FreeCache} \subseteq BOOLEAN
  \* docs/advance/ppo_lora.rst:32, load_format="safetensors" is required.
  /\ Lora => ~Dummy

VARIABLES
  starts,          \* starts of the job so far
  pc,              \* the operation that is running, or "idle"; "off" at first
  model,           \* updates the parameters have had
  modelOn,         \* "gpu" or "cpu"
  optimOn,
  adapterOn,       \* the adapter is applied
  engine,          \* the parameters of the engine: base and adapter
  awake,           \* what the engine has on the GPU: "weights", "kv_cache"
  base_sync_done,
  rng,             \* rank -> its random state
  torch_random_states, gen_random_states,
  generations,     \* generations of this process so far
  rows,            \* rank -> the rows it holds
  ckpt             \* what the last checkpoint has

device == <<modelOn, optimOn, adapterOn>>
copy == <<engine, awake, base_sync_done>>
states == <<rng, torch_random_states, gen_random_states, generations>>
vars == <<starts, pc, model, device, copy, states, rows, ckpt>>

R == 0..(Ranks - 1)
Own(r) == [i \in 1..PerRank |-> <<r, i>>]
OwnOfAll == [r \in R |-> Own(r)]
Stream(of, n) == [of |-> of, n |-> n]
Training(n) == [r \in R |-> Stream(<<"train", r>>, n)]
Generating(n) == [r \in R |-> Stream(<<"generate", r \div Tp>>, n)]
Advanced == [r \in R |-> [rng[r] EXCEPT !.n = @ + 1]]

\* The base of a dummy engine is that of no update.
Random == MaxUpdates + 1

\* What the parameters are for a generation: the adapter is trained, or all.
Parameters(n) == IF Lora THEN [base |-> 0, adapter |-> n] ELSE [base |-> n, adapter |-> 0]

Init ==
  /\ starts = 0 /\ pc = "off" /\ model = 0
  /\ modelOn = "cpu" /\ optimOn = "cpu" /\ adapterOn = TRUE
  /\ engine = Parameters(0) /\ awake = {} /\ base_sync_done = FALSE
  /\ rng = Training(0)
  /\ torch_random_states = rng /\ gen_random_states = rng /\ generations = 0
  /\ rows = OwnOfAll
  /\ ckpt = [model |-> 0, rng |-> rng]

(***************************************************************************)
(* Rows: all ranks of a group get the rows of all of them, and give back   *)
(* their own part.  Every rank has as many as the others: PerRank of them  *)
(* before they are gathered, as all_gather of their tensors wants it.      *)
(***************************************************************************)
GroupOf(r, size) == [i \in 1..size |-> (r \div size) * size + i - 1]
Gathered(size) ==
  [r \in R |-> [j \in 1..(size * PerRank) |->
    LET of == GroupOf(r, size)[((j - 1) \div PerRank) + 1] IN
      rows[of][((j - 1) % PerRank) + 1]]]

\* Mutation: the part is taken by the rank in the whole job.
ChunkedByRank(size) ==
  [r \in R |->
    LET n == Len(rows[r]) \div size IN
      SubSeq(rows[r], (r \div size) * n + 1, ((r \div size) + 1) * n)]
Chunked(size) ==
  [r \in R |->
    LET n == Len(rows[r]) \div size IN
      SubSeq(rows[r], (r % size) * n + 1, ((r % size) + 1) * n)]

-----------------------------------------------------------------------------
\* init_model and _build_rollout of a new process: the parameters are those of
\* the pretrained model, and so are the engine's unless it was given a dummy.
Start ==
  /\ starts < MaxStarts /\ starts' = starts + 1
  /\ pc' = "idle" /\ model' = 0
  /\ modelOn' = (IF OffloadParam THEN "cpu" ELSE "gpu")
  /\ optimOn' = (IF OffloadOptimizer THEN "cpu" ELSE "gpu")
  /\ adapterOn' = TRUE
  /\ engine' = (IF Dummy THEN [base |-> Random, adapter |-> 0] ELSE Parameters(0))
  /\ awake' = (IF FreeCache THEN {} ELSE {"weights", "kv_cache"})
  /\ base_sync_done' = ~Dummy
  /\ rng' = Training(0)
  /\ torch_random_states' = rng'
  /\ gen_random_states' = Generating(0)
  /\ generations' = 0
  /\ rows' = OwnOfAll
  /\ UNCHANGED ckpt

Load == modelOn' = IF OffloadParam THEN "gpu" ELSE modelOn
Offload == modelOn' = IF OffloadParam THEN "cpu" ELSE modelOn

\* load_checkpoint: parameters and random states.  The trainer calls it first.
BeginLoad ==
  /\ pc = "idle" /\ model = 0 /\ ckpt.model > 0
  /\ pc' = "load" /\ Load
  /\ UNCHANGED <<starts, model, optimOn, adapterOn, copy, states, rows, ckpt>>

LoadCheckpoint ==
  /\ pc = "load"
  /\ pc' = "idle" /\ model' = ckpt.model /\ rng' = ckpt.rng
  /\ Offload /\ optimOn' = (IF OffloadOptimizer THEN "cpu" ELSE optimOn)
  /\ UNCHANGED <<starts, adapterOn, copy, torch_random_states, gen_random_states,
                 generations, rows, ckpt>>

BeginSave ==
  /\ pc = "idle"
  /\ pc' = "save" /\ Load
  /\ UNCHANGED <<starts, model, optimOn, adapterOn, copy, states, rows, ckpt>>

SaveCheckpoint ==
  /\ pc = "save"
  /\ pc' = "idle" /\ ckpt' = [model |-> model, rng |-> rng] /\ Offload
  /\ UNCHANGED <<starts, model, optimOn, adapterOn, copy, states, rows>>

\* update_actor
BeginUpdate ==
  /\ pc = "idle" /\ model < MaxUpdates
  /\ pc' = "update" /\ Load
  /\ optimOn' = (IF OffloadOptimizer THEN "gpu" ELSE optimOn)
  /\ rows' = Gathered(Sp)
  /\ UNCHANGED <<starts, model, adapterOn, copy, states, ckpt>>

Update ==
  /\ pc = "update"
  /\ pc' = "idle" /\ model' = model + 1 /\ rng' = Advanced
  /\ rows' = Chunked(Sp)
  /\ Offload /\ optimOn' = (IF OffloadOptimizer THEN "cpu" ELSE optimOn)
  /\ UNCHANGED <<starts, adapterOn, copy, torch_random_states, gen_random_states,
                 generations, ckpt>>

\* compute_log_prob, and compute_ref_log_prob with an adapter, which is the same
\* without it.
BeginLogProb(op) ==
  /\ pc = "idle" /\ (op = "ref" => Lora)
  /\ pc' = op /\ Load /\ adapterOn' = (op # "ref")
  /\ rows' = Gathered(Sp)
  /\ UNCHANGED <<starts, model, optimOn, copy, states, ckpt>>

LogProb ==
  /\ pc \in {"log_prob", "ref"}
  /\ pc' = "idle" /\ Offload /\ adapterOn' = TRUE
  /\ rows' = Chunked(Sp)
  /\ UNCHANGED <<starts, model, optimOn, copy, states, ckpt>>

\* compute_ref_log_prob of a reference model of its own, which FSDP moves.
RefLogProb ==
  /\ pc = "idle" /\ ~Lora
  /\ rows' = Gathered(Sp) /\ pc' = "own ref"
  /\ UNCHANGED <<starts, model, device, copy, states, ckpt>>

RefLogProbEnds ==
  /\ pc = "own ref"
  /\ rows' = Chunked(Sp) /\ pc' = "idle"
  /\ UNCHANGED <<starts, model, device, copy, states, ckpt>>

-----------------------------------------------------------------------------
\* __enter__, as far as the parameters are brought.
BeginGenerate ==
  /\ pc = "idle" /\ generations < MaxGenerations
  /\ pc' = "sync" /\ Load
  /\ UNCHANGED <<starts, model, optimOn, adapterOn, copy, states, rows, ckpt>>

\* Mutation: once synchronised, the base is taken to be there.
UpdatedParamsOnce ==
  IF base_sync_done THEN [engine EXCEPT !.adapter = Parameters(model).adapter]
  ELSE [engine EXCEPT !.base = Parameters(model).base]

\* update_params: an adapter goes to an engine that has its base, and otherwise
\* everything but the adapter.
UpdatedParams ==
  IF Lora /\ base_sync_done THEN [engine EXCEPT !.adapter = Parameters(model).adapter]
  ELSE [engine EXCEPT !.base = Parameters(model).base]

Sync ==
  /\ pc = "sync"
  /\ awake' = awake \cup {"weights"}
  /\ engine' = UpdatedParams /\ base_sync_done' = TRUE
  /\ pc' = "wake"
  /\ UNCHANGED <<starts, model, device, states, rows, ckpt>>

\* The rest of __enter__, and preprocess_data.
Wake ==
  /\ pc = "wake"
  /\ Offload /\ awake' = awake \cup {"kv_cache"}
  /\ torch_random_states' = rng /\ rng' = gen_random_states
  /\ rows' = Gathered(Tp)
  /\ pc' = "generate"
  /\ UNCHANGED <<starts, model, optimOn, adapterOn, engine, base_sync_done,
                 gen_random_states, generations, ckpt>>

\* rollout.generate_sequences
Generate ==
  /\ pc = "generate"
  /\ rng' = Advanced /\ generations' = generations + 1 /\ pc' = "exit"
  /\ UNCHANGED <<starts, model, device, copy, torch_random_states, gen_random_states,
                 rows, ckpt>>

\* postprocess_data and __exit__
Exit ==
  /\ pc = "exit"
  /\ rows' = Chunked(Tp)
  /\ awake' = (IF FreeCache THEN {} ELSE awake)
  /\ gen_random_states' = rng /\ rng' = torch_random_states
  /\ pc' = "idle"
  /\ UNCHANGED <<starts, model, device, engine, base_sync_done, torch_random_states, generations,
                 ckpt>>

Next ==
  \/ Start \/ BeginLoad \/ LoadCheckpoint \/ BeginSave \/ SaveCheckpoint
  \/ BeginUpdate \/ Update
  \/ BeginLogProb("log_prob") \/ BeginLogProb("ref") \/ LogProb
  \/ RefLogProb \/ RefLogProbEnds
  \/ BeginGenerate \/ Sync \/ Wake \/ Generate \/ Exit

Spec == Init /\ [][Next]_vars

-----------------------------------------------------------------------------
States == [R -> [of : {"train", "generate"} \X Nat, n : Nat]]

TypeOK ==
  /\ starts \in 0..MaxStarts /\ model \in 0..MaxUpdates
  /\ pc \in {"off", "idle", "load", "save", "update", "log_prob", "ref", "own ref",
             "sync", "wake", "generate", "exit"}
  /\ modelOn \in {"gpu", "cpu"} /\ optimOn \in {"gpu", "cpu"} /\ adapterOn \in BOOLEAN
  /\ engine \in [base : 0..Random, adapter : 0..MaxUpdates]
  /\ awake \subseteq {"weights", "kv_cache"} /\ base_sync_done \in BOOLEAN
  /\ rng \in States /\ torch_random_states \in States /\ gen_random_states \in States
  /\ generations \in 0..MaxGenerations
  /\ rows \in [R -> Seq(R \X (1..PerRank))]
  /\ ckpt \in [model : 0..MaxUpdates, rng : States]

\* A generation is made by the parameters as they are, after any updates and
\* resumes, in an engine that has both its weights and its cache
\* (FSDPVLLMShardingManager.__enter__).
GeneratesOnPolicy ==
  pc = "generate" => engine = Parameters(model) /\ awake = {"weights", "kv_cache"}

\* What computes is on the GPU, the cache of the engine never shares it with
\* parameters that are to be offloaded, and nothing is left there
\* (update_actor, compute_log_prob, generate_sequences).
OnDeviceInTurn ==
  /\ pc \in {"load", "save", "update", "log_prob", "ref", "sync"} => modelOn = "gpu"
  /\ pc = "update" => optimOn = "gpu"
  /\ OffloadParam /\ FreeCache => ~(modelOn = "gpu" /\ "kv_cache" \in awake)
  /\ pc = "idle" =>
       /\ OffloadParam => modelOn = "cpu"
       /\ OffloadOptimizer => optimOn = "cpu"
       /\ FreeCache => awake = {}

\* Ranks that generate together draw the same random numbers for the same rows,
\* and in every generation of a process new ones (the two random states of
\* FSDPVLLMShardingManager).
DrawsTogether ==
  pc = "generate" =>
    \A r, q \in R :
      /\ rng[r].n = generations
      /\ r \div Tp = q \div Tp => rng[r] = rng[q] /\ rows[r] = rows[q]

\* Training goes on in its own random numbers as if nothing had been generated
\* in between, a resumed job as well.
OwnStream ==
  pc \notin {"generate", "exit"} => \A r \in R : rng[r] = Stream(<<"train", r>>, model)

\* A rank has its own rows back after every operation, whatever groups they went
\* through (preprocess_data, postprocess_data).
OwnRows == pc = "idle" => \A r \in R : rows[r] = Own(r)

\* The reference log-probabilities of an adapter are those of the base, all
\* others have it (compute_ref_log_prob).
RefIsBase == adapterOn = (pc # "ref")

(* Everything at once: what a generation is made by and on, what training goes *)
(* on in, and whose rows a rank has.                                           *)
WorkerRight ==
  /\ GeneratesOnPolicy /\ OnDeviceInTurn /\ DrawsTogether
  /\ OwnStream /\ OwnRows /\ RefIsBase

=============================================================================
