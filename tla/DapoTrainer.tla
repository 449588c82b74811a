---------------------------- MODULE DapoTrainer ----------------------------
(***************************************************************************)
(* The dynamic sampling of RayDAPOTrainer.fit (verl/recipe/dapo, copied in *)
(* verl/recipe/entropy): batches of prompts are generated until enough     *)
(* prompts have responses of different score; these are cut to the size of *)
(* a training batch and trained on.  The job may die at any point and is   *)
(* resumed from its checkpoint.                                            *)
(*                                                                         *)
(* A prompt is named by the batch of the data loader it came with and its  *)
(* place there, which is also what its uid distinguishes; a row of a batch *)
(* is one response to it, with its score.  The step that trains is one     *)
(* action, and so is a checkpoint (PpoTrainer has its files).              *)
(***************************************************************************)
EXTENDS Integers, Sequences, SequencesExt, FiniteSetsExt

CONSTANTS
  GenBatch,    \* data.gen_batch_size: prompts the loader hands out at once
  TrainBatch,  \* data.train_batch_size
  N,           \* rollout.n
  Scores,      \* scores a response can have
  Precision,   \* bits of a floating-point mantissa
  Filter,      \* filter_groups.enable
  MaxGen,      \* max_num_gen_batches; 0 for no limit
  EpochLen,    \* len(train_dataloader)
  Epochs,      \* total_epochs
  SaveFreq,    \* save_freq
  MaxStarts    \* bound: starts of the job

DapoTrainerAssumption ==
  /\ {GenBatch, TrainBatch, N, Precision, EpochLen, Epochs, SaveFreq} \subseteq Nat \ {0}
  /\ Scores \subseteq Nat /\ Filter \in BOOLEAN
  /\ MaxGen \in Nat /\ MaxStarts \in Nat

\* total_training_steps
Total == EpochLen * Epochs

VARIABLES
  ckpt,     \* the checkpoint on disk
  starts,   \* starts of the job so far
  pc,       \* where the driver is
  steps,    \* self.global_steps
  epoch,    \* the epoch of the loop
  pos,      \* position of the data loader in its epoch
  batch,    \* the rows collected
  num_prompt_in_batch,
  num_gen_batches,
  drawn,     \* per batch the loader has handed out: its place in the epoch, and
            \* the prompts of it that were kept
  trained   \* the prompts trained on, in order

counts == <<num_prompt_in_batch, num_gen_batches>>
vars == <<ckpt, starts, pc, steps, epoch, pos, batch, counts, drawn, trained>>

NoCheckpoint == [steps |-> 0, pos |-> 0, drawn |-> <<>>, trained |-> <<>>]

Init ==
  /\ ckpt = NoCheckpoint
  /\ starts = 0 /\ pc = "off"
  /\ steps = 0 /\ epoch = 0 /\ pos = 0
  /\ batch = <<>> /\ num_prompt_in_batch = 0 /\ num_gen_batches = 0
  /\ drawn = <<>> /\ trained = <<>>

\* The job is started: what the last checkpoint has is loaded, and the count
\* of epochs begins anew.
Start ==
  /\ pc \in {"off", "done", "error"} /\ starts < MaxStarts
  /\ starts' = starts + 1 /\ pc' = "loop"
  /\ steps' = ckpt.steps + 1 /\ epoch' = 0 /\ pos' = ckpt.pos
  /\ drawn' = ckpt.drawn /\ trained' = ckpt.trained
  /\ batch' = <<>> /\ num_prompt_in_batch' = 0 /\ num_gen_batches' = 0
  /\ UNCHANGED ckpt

(***************************************************************************)
(* The standard deviation of a group, as far as it is zero or not, in      *)
(* floating point: every sum and the mean are rounded.                     *)
(***************************************************************************)
\* a / b, rounded to Precision bits, ties to even.  Below that many bits
\* integers are exact, and a fraction goes to the nearest integer.
Rounded(a, b) ==
  LET unit == CHOOSE u \in {2 ^ e : e \in 0..Precision} :
                /\ a < b * u * 2 ^ Precision
                /\ u = 1 \/ 2 * a >= b * u * 2 ^ Precision
      q    == a \div (b * unit)
      rest == a % (b * unit)
      up   == 2 * rest > b * unit \/ (2 * rest = b * unit /\ q % 2 = 1)
  IN  unit * (IF up THEN q + 1 ELSE q)

\* The mean of a sequence of scores, as np.std takes it.
Mean(vals) == Rounded(FoldLeft(LAMBDA sum, v : Rounded(sum + v, 1), 0, vals), Len(vals))

HasSpread(vals) == \E i \in DOMAIN vals : vals[i] # Mean(vals)

(***************************************************************************)
(* One batch of the data loader.                                           *)
(***************************************************************************)
\* Mutation: repeated as a whole, not prompt by prompt.
RepeatedStacked(g, score) ==
  [r \in 1..(GenBatch * N) |->
     [prompt |-> <<g, ((r - 1) % GenBatch) + 1>>,
      score  |-> score[((r - 1) % GenBatch) + 1][((r - 1) \div GenBatch) + 1]]]

\* The rows of batch g: N responses to each prompt, one after the other.
Repeated(g, score) ==
  [r \in 1..(GenBatch * N) |->
     [prompt |-> <<g, ((r - 1) \div N) + 1>>,
      score  |-> score[((r - 1) \div N) + 1][((r - 1) % N) + 1]]]

\* prompt_uid2metric_vals
Values(rows, p) ==
  LET own == SelectSeq(rows, LAMBDA row : row.prompt = p)
  IN  [i \in DOMAIN own |-> own[i].score]

Prompts(rows) == {rows[r].prompt : r \in DOMAIN rows}

\* kept_prompt_uids
Kept(rows) ==
  {p \in Prompts(rows) : Len(Values(rows, p)) = 1 \/ HasSpread(Values(rows, p))}

KeptRows(rows) == SelectSeq(rows, LAMBDA row : row.prompt \in Kept(rows))

Aligned(rows) == SubSeq(rows, 1, TrainBatch * N)

TriesLeft(n) == MaxGen = 0 \/ n < MaxGen

\* The rows go to the update, or are added to those that are there.
Generate ==
  /\ pc = "loop" /\ pos < EpochLen
  /\ \E score \in [1..GenBatch -> [1..N -> Scores]] :
       LET rows  == Repeated(Len(drawn) + 1, score)
           all   == batch \o KeptRows(rows)
           count == num_prompt_in_batch + Cardinality(Kept(rows))
           tries == num_gen_batches + 1
       IN  /\ drawn' = Append(drawn, [at |-> pos + 1, kept |-> Kept(rows)])
           /\ num_gen_batches' = tries
           /\ IF ~Filter
                THEN batch' = rows /\ pc' = "update" /\ UNCHANGED num_prompt_in_batch
                ELSE /\ num_prompt_in_batch' = count
                     /\ IF count >= TrainBatch
                          THEN batch' = Aligned(all) /\ pc' = "update"
                          ELSE /\ batch' = all
                               /\ pc' = IF TriesLeft(tries) THEN "loop" ELSE "error"
  /\ pos' = pos + 1
  /\ UNCHANGED <<ckpt, starts, steps, epoch, trained>>

\* The loader has no batch left in this epoch: what was collected is kept for
\* the next one.
EndEpoch ==
  /\ pc = "loop" /\ pos = EpochLen
  /\ epoch' = epoch + 1
  /\ IF epoch + 1 < Epochs
       THEN pos' = 0 /\ UNCHANGED pc
       ELSE pc' = "done" /\ UNCHANGED pos
  /\ UNCHANGED <<ckpt, starts, steps, batch, counts, drawn, trained>>

IsLastStep == steps >= Total

\* The prompts of the rows, in order.
InOrder(rows) == [j \in 1..(Len(rows) \div N) |-> rows[(j - 1) * N + 1].prompt]

\* The batch is trained on, perhaps saved, and everything reset for the next.
Update ==
  /\ pc = "update"
  /\ trained' = trained \o InOrder(batch)
  /\ ckpt' = IF IsLastStep \/ steps % SaveFreq = 0
               THEN [steps |-> steps, pos |-> pos, drawn |-> drawn, trained |-> trained']
               ELSE ckpt
  /\ batch' = <<>> /\ num_prompt_in_batch' = 0 /\ num_gen_batches' = 0
  /\ steps' = steps + 1
  /\ pc' = IF IsLastStep THEN "done" ELSE "loop"
  /\ UNCHANGED <<starts, epoch, pos, drawn>>

\* The job is killed, or something in it raises.
Crash ==
  /\ pc \in {"loop", "update"}
  /\ pc' = "off"
  /\ UNCHANGED <<ckpt, starts, steps, epoch, pos, batch, counts, drawn, trained>>

Next == Start \/ Generate \/ EndEpoch \/ Update \/ Crash

Spec == Init /\ [][Next]_vars
-----------------------------------------------------------------------------
TypeOK ==
  \* A job started once more after its end trains one more step.
  /\ ckpt.steps \in 0..(Total + MaxStarts) /\ ckpt.pos \in 0..EpochLen
  /\ IsPrefix(ckpt.trained, trained) \/ IsPrefix(trained, ckpt.trained)
  /\ starts \in 0..MaxStarts
  /\ pc \in {"off", "loop", "update", "done", "error"}
  /\ steps \in 0..(Total + MaxStarts + 1)
  /\ epoch \in 0..Epochs /\ pos \in 0..EpochLen
  /\ \A r \in DOMAIN batch : batch[r].prompt[2] \in 1..GenBatch /\ batch[r].score \in Scores
  /\ num_prompt_in_batch \in 0..(TrainBatch + GenBatch)
  /\ num_gen_batches \in 0..Len(drawn)

\* The batch that is trained on has exactly train_batch_size groups, each of all
\* responses to one prompt and of no two scores alike, and no prompt twice:
\* filtering, joining and cutting never leave part of a group (dapo_ray_trainer.py:214).
FullGroups ==
  pc = "update" /\ Filter =>
    /\ Len(batch) = TrainBatch * N
    /\ Cardinality(Prompts(batch)) = TrainBatch
    /\ \A p \in Prompts(batch) :
         LET vals == Values(batch, p)
         IN  Len(vals) = N /\ (N > 1 => Cardinality(Range(vals)) > 1)

\* However often the job dies and is resumed, the loader hands out every batch
\* of an epoch in its turn, no prompt is trained on twice in it, and every step
\* is worth train_batch_size prompts (dapo_ray_trainer.py:337, :362).
TrainedInTurn ==
  /\ \A g \in DOMAIN drawn : drawn[g].at = ((g - 1) % EpochLen) + 1
  /\ IsInjective(trained)
  /\ pc = "loop" => Len(trained) = TrainBatch * (steps - 1)

\* A prompt whose responses differ is trained on or waits in the batch, or it is
\* surplus: then nothing that came after it in its batch is trained on either.
\* A crash or a resume drops none (dapo_ray_trainer.py:238-257).
DroppedIsSurplus ==
  pc \in {"loop", "update"} /\ Filter =>
    LET used == Range(trained) \cup Prompts(batch)
    IN  \A g \in DOMAIN drawn : \A p \in drawn[g].kept \ used :
          /\ \A q \in drawn[g].kept : q[2] > p[2] => q \notin used
          /\ \E h \in 1..(TrainBatch * steps) :
               h \in DOMAIN (trained \o InOrder(batch))
               /\ (trained \o InOrder(batch))[h][1] = g
               /\ h % TrainBatch = 0

\* The job gives up only when max_num_gen_batches batches in a row did not have
\* enough prompts together (dapo_ray_trainer.py:244).
GivesUpInVain ==
  pc = "error" =>
    /\ Len(drawn) >= MaxGen
    /\ MapThenSumSet(LAMBDA g : Cardinality(drawn[g].kept),
                     (Len(drawn) - MaxGen + 1)..Len(drawn)) < TrainBatch

\* A group whose scores are all the same is not trained on (docs/algo/dapo.md:84).
SameIsFiltered ==
  pc = "update" /\ Filter =>
    \A p \in Prompts(batch) : Cardinality(Range(Values(batch, p))) > 1

\* The data is gone through total_epochs times at most (docs/examples/config.rst:549).
EpochsKept == Len(drawn) <= Total
============================================================================
