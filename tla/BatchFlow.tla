------------------------------ MODULE BatchFlow ------------------------------
(***************************************************************************)
(* One batch on its way through RayPPOTrainer: rollout, reward, old log    *)
(* probabilities, advantages and the actor update, with the driver         *)
(* splitting it over the ranks and joining what they return                *)
(* (trainer/ppo/ray_trainer.py, protocol.py, workers/actor/dp_actor.py),   *)
(* and one validation batch, which is padded first.                        *)
(*                                                                         *)
(* A DataProto is a function from columns to lists of one length: whatever *)
(* goes by the wrong order ends in the wrong row and nothing notices.  A   *)
(* prompt is its number, a response the prompt it was generated for and    *)
(* its place in the rollout, a log-probability the response it is of.      *)
(***************************************************************************)
EXTENDS Integers, Sequences, SequencesExt, FiniteSetsExt

CONSTANTS
  TrainSize,  \* train_batch_size
  N,          \* rollout.n
  WorldSize,  \* ranks, data-parallel
  MiniSize,   \* ppo_mini_batch_size as configured
  MicroSize,  \* ppo_micro_batch_size_per_gpu
  Dynamic,    \* use_dynamic_bsz
  Async,      \* launch_reward_fn_async
  Remax,      \* adv_estimator is remax, not grpo
  ValSizes    \* rows of a validation batch (bound)

\* Mini-batch of one rank (ActorRolloutRefWorker.__init__ normalizes it).
RankMini == (MiniSize * N) \div WorldSize

\* _validate_config, and the assertions of ActorRolloutRefWorker.__init__.
BatchFlowAssumption ==
  /\ {TrainSize, N, WorldSize, MiniSize, MicroSize} \subseteq Nat \ {0}
  /\ {Dynamic, Async, Remax} \subseteq BOOLEAN /\ ValSizes \subseteq Nat \ {0}
  /\ (TrainSize * N) % WorldSize = 0
  /\ RankMini > 0
  /\ ~Dynamic => TrainSize >= MiniSize /\ RankMini % MicroSize = 0

VARIABLES
  batch,    \* the batch of the driver: column -> list
  gen,      \* gen_batch, then what came back of it
  scoreOf,  \* response -> its score
  sent,     \* the batch the reward function was given
  reward,   \* reward_tensor
  pad,      \* pad_size of the validation batch
  mini,     \* mini-batches done
  weights,  \* rank -> weight of every row in the last mini-batch, as a fraction
  pc

vars == <<batch, gen, scoreOf, sent, reward, pad, mini, weights, pc>>

Cols(b) == DOMAIN b
Size(b) == Len(b[CHOOSE c \in Cols(b) : TRUE])
Rows(b) == 1..Size(b)

\* DataProto.reorder and select_idxs
Reorder(b, idx) == [c \in Cols(b) |-> [i \in DOMAIN idx |-> b[c][idx[i]]]]

\* DataProto.repeat with interleave=True
Repeat(b) == Reorder(b, [i \in 1..(N * Size(b)) |-> ((i - 1) \div N) + 1])

\* gen_batch.repeat
RepeatGen(b) == Repeat(b)

\* DataProto.union of batches of one size
Union(a, b) == [c \in Cols(a) \cup Cols(b) |-> IF c \in Cols(b) THEN b[c] ELSE a[c]]

\* DataProto.chunk, for rank r
Share(b) == Size(b) \div WorldSize
Chunk(b, r) == Reorder(b, [i \in 1..Share(b) |-> (r - 1) * Share(b) + i])

\* DataProto.concat of what the ranks return
Concat(parts) ==
  [c \in Cols(parts[1]) |-> FlattenSeq([r \in 1..WorldSize |-> parts[r][c]])]

Divisible(b) == Size(b) % WorldSize = 0

Numbers(n) == [i \in 1..n |-> i]

Init ==
  /\ \/ pc = "rollout" /\ batch = [truth |-> Numbers(TrainSize)]
     \/ pc = "pad" /\ \E n \in ValSizes : batch = [truth |-> Numbers(n)]
  /\ gen = [prompt |-> batch.truth]
  /\ scoreOf = <<>> /\ sent = <<>> /\ reward = <<>>
  /\ pad = 0 /\ mini = 0 /\ weights = <<>>

Fail == pc' = "failed" /\ UNCHANGED <<batch, gen, scoreOf, sent, reward, pad, mini, weights>>

\* generate_sequences: every rank answers the prompts of its chunk.
Generated(b) ==
  LET whole == Concat([r \in 1..WorldSize |-> Chunk(b, r)])
  IN  [prompt |-> whole.prompt, resp |-> [i \in Rows(whole) |-> <<whole.prompt[i], i>>]]

\* gen_batch is repeated, rolled out, and every response has some score.
Rollout ==
  /\ pc = "rollout"
  /\ LET out == RepeatGen(gen) IN
       IF Divisible(out)
         THEN /\ gen' = Generated(out)
              /\ scoreOf' \in [Range(gen'.resp) -> {0, 1}]
              /\ pc' = IF Remax THEN "baseline" ELSE "join"
              /\ UNCHANGED <<batch, sent, reward, pad, mini, weights>>
         ELSE Fail

\* REMAX: a second rollout of the repeated gen_batch joins the batch, which is
\* not repeated yet; its rewards are the baselines (here the prompts they are of).
Baseline ==
  /\ pc = "baseline"
  /\ IF Size(batch) = Size(gen)
       THEN /\ batch' = Union(batch, [baseline |-> Generated(gen).prompt])
            /\ pc' = "join"
            /\ UNCHANGED <<gen, scoreOf, sent, reward, pad, mini, weights>>
       ELSE Fail

\* uid, repeat, union
Join ==
  /\ pc = "join"
  /\ LET named == Repeat(Union(batch, [uid |-> Numbers(Size(batch))]))
     IN  IF Size(named) = Size(gen)
           THEN /\ batch' = Union(named, gen)
                /\ pc' = "balance"
                /\ UNCHANGED <<gen, scoreOf, sent, reward, pad, mini, weights>>
           ELSE Fail

\* global_idx: the partitions one after the other, each in ascending order.
GlobalIdx(rank) ==
  SetToSortSeq(DOMAIN rank, LAMBDA i, j :
    rank[i] < rank[j] \/ (rank[i] = rank[j] /\ i < j))

\* _balance_batch: any partition into equal parts (SeqlenBalance says which).
Balance ==
  /\ pc = "balance"
  /\ \E rank \in [Rows(batch) -> 1..WorldSize] :
       /\ \A r \in 1..WorldSize :
            Cardinality({i \in Rows(batch) : rank[i] = r}) * WorldSize = Size(batch)
       /\ batch' = Reorder(batch, GlobalIdx(rank))
  /\ pc' = "reward"
  /\ UNCHANGED <<gen, scoreOf, sent, reward, pad, mini, weights>>

\* A score for every row of the batch the reward function has.
Scores(b) == [i \in Rows(b) |-> IF b.truth[i] = b.resp[i][1] THEN scoreOf[b.resp[i]] ELSE 0]

\* compute_reward, or compute_reward_async.remote: the batch is copied at once
\* and scored at some time before the advantages.
Reward ==
  /\ pc = "reward"
  /\ sent' = batch
  /\ reward' = IF Async THEN <<>> ELSE Scores(batch)
  /\ pc' = "old_log_prob"
  /\ UNCHANGED <<batch, gen, scoreOf, pad, mini, weights>>

RewardArrives ==
  /\ Async /\ sent # <<>> /\ reward = <<>>
  /\ reward' = Scores(sent)
  /\ UNCHANGED <<batch, gen, scoreOf, sent, pad, mini, weights, pc>>

\* get_reverse_idx
Reversed(order) == [j \in DOMAIN order |-> CHOOSE i \in DOMAIN order : order[i] = j]

\* compute_log_prob of one rank: micro-batches in some order, and back.
LogProbs(chunk, order) ==
  LET computed == [i \in DOMAIN order |-> chunk.resp[order[i]]]
  IN  [logp |-> [i \in DOMAIN order |-> computed[Reversed(order)[i]]]]

OldLogProb ==
  /\ pc = "old_log_prob"
  /\ IF Divisible(batch)
       THEN /\ \E order \in [1..WorldSize -> SetToSeqs(1..Share(batch))] :
                 /\ ~Dynamic => \A r \in 1..WorldSize : order[r] = Numbers(Share(batch))
                 /\ batch' = Union(batch, Concat([r \in 1..WorldSize |->
                                                    LogProbs(Chunk(batch, r), order[r])]))
            /\ pc' = "advantage"
            /\ UNCHANGED <<gen, scoreOf, sent, reward, pad, mini, weights>>
       ELSE Fail

\* Mutation: a group is N rows in a row.
GroupByPlace(b, i) == {j \in Rows(b) : (j - 1) \div N = (i - 1) \div N}

\* The rows a score is compared with (id2score).
Group(b, i) == {j \in Rows(b) : b.uid[j] = b.uid[i]}

\* N times the score less the mean of the group; a group of one has mean 0.
Advantages(b, scores) ==
  [i \in Rows(b) |->
     LET group == Group(b, i) IN
       IF Cardinality(group) = 1 THEN scores[i]
       ELSE Cardinality(group) * scores[i] - MapThenSumSet(LAMBDA j : scores[j], group)]

\* ray.get of the reward, then compute_advantage: GRPO without scaling, or for
\* REMAX the reward and the baseline it is less.
Advantage ==
  /\ pc = "advantage" /\ reward # <<>>
  /\ batch' = Union(batch, [score |-> reward,
       adv |-> IF Remax THEN [i \in Rows(batch) |-> <<reward[i], batch.baseline[i]>>]
                        ELSE Advantages(batch, reward)])
  /\ pc' = "update"
  /\ UNCHANGED <<gen, scoreOf, sent, reward, pad, mini, weights>>

\* Mutation: the mini-batch is the one of all ranks.
GradientAccumulationOfAll == (MiniSize * N) \div MicroSize

GradientAccumulation == RankMini \div MicroSize

\* A row of a dynamic micro-batch: mean over the micro-batch, times its share.
DynamicWeight(size, count) == <<size, size * RankMini>>

FixedWeight(size) == <<1, size * GradientAccumulation>>

\* Rows m of a mini-batch in micro-batches of MicroSize.
FixedMicro(m) ==
  [i \in 1..m |-> LET first == ((i - 1) \div MicroSize) * MicroSize
                  IN  FixedWeight(Min({MicroSize, m - first}))]

\* Any rows together in a micro-batch, as prepare_dynamic_batch chooses.
DynamicMicro(m) ==
  {[i \in 1..m |-> DynamicWeight(Cardinality({j \in 1..m : part[j] = part[i]}),
                                 Cardinality({part[j] : j \in 1..m}))] :
     part \in [1..m -> 1..m]}

\* update_policy: the next mini-batch of all ranks, one optimizer step.
Update ==
  /\ pc = "update" /\ Divisible(batch)
  /\ LET m == Min({RankMini, Share(batch) - mini * RankMini}) IN
       /\ m > 0
       /\ IF Dynamic THEN weights' \in [1..WorldSize -> DynamicMicro(m)]
                     ELSE weights' = [r \in 1..WorldSize |-> FixedMicro(m)]
  /\ mini' = mini + 1
  /\ pc' = IF mini' * RankMini >= Share(batch) THEN "done" ELSE "update"
  /\ UNCHANGED <<batch, gen, scoreOf, sent, reward, pad>>

PadSize(n) == IF n % WorldSize = 0 THEN 0 ELSE WorldSize - (n % WorldSize)

\* pad_dataproto_to_divisor: first rows again, all of them as often as it takes.
Pad ==
  /\ pc = "pad"
  /\ LET whole == Repeat(gen)
         n == Size(whole)
     IN  /\ pad' = PadSize(n)
         /\ gen' = Reorder(whole, [i \in 1..(n + pad') |-> ((i - 1) % n) + 1])
  /\ batch' = Repeat(batch)
  /\ pc' = "val_rollout"
  /\ UNCHANGED <<scoreOf, sent, reward, mini, weights>>

\* unpad_dataproto
Unpad(b) == Reorder(b, [i \in 1..(Size(b) - pad) |-> i])

\* _validate: rollout, unpad, union.
ValRollout ==
  /\ pc = "val_rollout"
  /\ IF Divisible(gen)
       THEN LET out == Unpad(Generated(gen)) IN
              IF Size(out) = Size(batch)
                THEN /\ batch' = Union(batch, out) /\ gen' = out
                     /\ pc' = "done"
                     /\ UNCHANGED <<scoreOf, sent, reward, pad, mini, weights>>
                ELSE Fail
       ELSE Fail

Next ==
  \/ Rollout \/ Baseline \/ Join \/ Balance \/ Reward \/ RewardArrives \/ OldLogProb
  \/ Advantage \/ Update \/ Pad \/ ValRollout
Spec == Init /\ [][Next]_vars

-----------------------------------------------------------------------------
TypeOK ==
  /\ pc \in {"rollout", "baseline", "join", "balance", "reward", "old_log_prob", "advantage",
             "update", "pad", "val_rollout", "done", "failed"}
  /\ Cols(batch) \subseteq {"truth", "uid", "prompt", "resp", "baseline", "logp", "score", "adv"}
  /\ \A c \in Cols(batch) : Len(batch[c]) = Size(batch)
  /\ pad \in 0..(WorldSize - 1) /\ mini \in 0..(TrainSize * N)

\* Through every repeat, split, reorder and union a row keeps what is its own:
\* the response is to its prompt, the log-probability and the score are of that
\* response, and the ground truth is that prompt's (RayPPOTrainer.fit, _validate).
Aligned ==
  LET has(c) == c \in Cols(batch) IN
  \A i \in Rows(batch) :
    /\ has("resp") => batch.prompt[i] = batch.truth[i] /\ batch.resp[i][1] = batch.truth[i]
    /\ has("logp") => batch.logp[i] = batch.resp[i]
    /\ has("score") => batch.score[i] = scoreOf[batch.resp[i]]

\* No response is trained on twice and none is dropped: the batch has every
\* response of the rollout once, and every prompt of validation N times.
EachResponseOnce ==
  "resp" \in Cols(batch) =>
    /\ IsInjective(batch.resp)
    /\ \A q \in Range(batch.truth) : Cardinality({i \in Rows(batch) : batch.truth[i] = q}) = N

\* An advantage compares a response with the responses to the same prompt, or
\* with that prompt's baseline, wherever balancing has put them
\* (compute_grpo_outcome_advantage, compute_advantage).
OwnAdvantage ==
  "adv" \in Cols(batch) =>
    \A i \in Rows(batch) :
      LET same == {r \in DOMAIN scoreOf : r[1] = batch.truth[i]}
          own == scoreOf[batch.resp[i]]
      IN  batch.adv[i] = IF Remax THEN <<own, batch.truth[i]>>
                         ELSE IF N = 1 THEN own
                         ELSE N * own - MapThenSumSet(LAMBDA r : scoreOf[r], same)

\* An optimizer step is the mean over its mini-batch: with one size of
\* micro-batch or many, every row weighs 1/n (DataParallelPPOActor.update_policy,
\* the seq-mean losses).
EqualWeight ==
  \A r \in DOMAIN weights : \A i \in DOMAIN weights[r] :
    weights[r][i][1] * Len(weights[r]) = weights[r][i][2]

\* The checks of the configuration are enough: no split, union or padding fails
\* later (the assertions of protocol.py).
NeverFails == pc # "failed"
=============================================================================
