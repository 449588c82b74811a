---------------------------- MODULE SpinTrainer ----------------------------
(***************************************************************************)
(* Online DPO of the SPIN recipe (recipe/spin): the actor answers every    *)
(* prompt several times, the answers are scored and paired, the reference  *)
(* says how likely they were, and the actor is trained to prefer the one to*)
(* the other.  Every step stands in a try block that ends the training;    *)
(* some of its calls stand in blocks of their own that go on.              *)
(*                                                                         *)
(* A model is the sequence of batches it has been trained on.  The files of*)
(* a checkpoint are the subject of PpoTrainer and are written at once here.*)
(***************************************************************************)
EXTENDS Naturals, Sequences, FiniteSets, SequencesExt

CONSTANTS
  Prompts,    \* prompts in a batch
  N,          \* rollout.n
  WorldSize,  \* ranks of the actor
  Balanced,   \* balance_batch
  Scores,     \* scores of a response, with 0
  RefFreq,    \* ref_update_freq; 0 for none
  SaveFreq,   \* save_freq; 0 for none
  Warmup,     \* critic_warmup
  EpochLen,   \* batches in an epoch
  Epochs,     \* total_epochs
  Total,      \* total_training_steps
  Failing,    \* calls that may raise: "generate", "log_prob", "ref", "reward"
  MaxStarts   \* bound: starts of the job

SpinTrainerAssumption ==
  /\ {Prompts, N, WorldSize, EpochLen, Epochs, Total, MaxStarts} \subseteq Nat \ {0}
  /\ (Prompts * N) % WorldSize = 0
  /\ {RefFreq, SaveFreq, Warmup} \subseteq Nat
  /\ Balanced \in BOOLEAN /\ Scores \subseteq Nat /\ 0 \in Scores
  /\ Failing \subseteq {"generate", "log_prob", "ref", "reward"}

VARIABLES
  saved,    \* the checkpoint the tracker names
  starts, pc,
  steps,    \* global_steps
  epoch,
  batch,    \* batches drawn, in all starts
  left,     \* batches left in this epoch
  model,    \* the actor
  ref,      \* the reference
  rows,     \* prompt, response and score of the rows of the batch
  refDone,  \* ref_log_prob_computed
  pairs     \* the chosen and the rejected rows, each with its reference

loop == <<steps, epoch, batch, left>>
vars == <<saved, starts, pc, loop, model, ref, rows, refDone, pairs>>

NoPairs == [chosen |-> <<>>, rejected |-> <<>>]
NoCheckpoint == [step |-> 0, model |-> <<>>, batch |-> 0, left |-> EpochLen]

Init ==
  /\ saved = NoCheckpoint /\ starts = 0 /\ pc = "off"
  /\ steps = 0 /\ epoch = 0 /\ batch = 0 /\ left = EpochLen
  /\ model = <<>> /\ ref = <<>>
  /\ rows = <<>> /\ refDone = FALSE /\ pairs = NoPairs

\* Mutation: the data loader starts anew.
ReloadedWeights == [saved EXCEPT !.batch = 0, !.left = EpochLen]
Reloaded == saved

\* What _load_checkpoint says of the step is lost on its way: it returns
\* nothing where there is a checkpoint, and 0 where there is none.
Start ==
  /\ pc \in {"off", "ended"} /\ starts < MaxStarts
  /\ starts' = starts + 1 /\ pc' = "draw"
  /\ steps' = 1 /\ epoch' = 0
  /\ batch' = Reloaded.batch /\ left' = Reloaded.left
  /\ model' = Reloaded.model /\ ref' = <<>>
  /\ rows' = <<>> /\ refDone' = FALSE /\ pairs' = NoPairs
  /\ UNCHANGED saved

Draw ==
  /\ pc = "draw" /\ left > 0
  /\ batch' = batch + 1 /\ left' = left - 1
  /\ pc' = IF steps > Total THEN "finish" ELSE "sync"
  /\ rows' = <<>> /\ refDone' = FALSE /\ pairs' = NoPairs
  /\ UNCHANGED <<saved, starts, steps, epoch, model, ref>>

NextEpoch ==
  /\ epoch' = epoch + 1
  /\ IF epoch + 1 < Epochs
       THEN left' = EpochLen /\ pc' = "draw"
       ELSE pc' = "finish" /\ UNCHANGED left

EndEpoch ==
  /\ pc = "draw" /\ left = 0
  /\ NextEpoch
  /\ UNCHANGED <<saved, starts, steps, batch, model, ref, rows, refDone, pairs>>

\* load_checkpoint asserts that the worker is an actor or a rollout.
MayLoad(role) == role \in {"actor", "actor_rollout", "rollout"}

\* The actor's weights for the reference; what this raises is printed.
SyncReference ==
  /\ pc = "sync"
  /\ ref' = IF RefFreq > 0 /\ steps % RefFreq = 0 /\ MayLoad("ref")
              THEN model ELSE ref
  /\ pc' = "generate"
  /\ UNCHANGED <<saved, starts, loop, model, rows, refDone, pairs>>

Responses ==
  [i \in 1..(Prompts * N) |->
     [prompt |-> ((i - 1) \div N) + 1, response |-> ((i - 1) % N) + 1, score |-> 0]]

\* _balance_batch: every rank's share is in the order of the rows.
BalancedOrders ==
  LET share == Len(Responses) \div WorldSize
  IN  {order \in Permutations(DOMAIN Responses) :
         \A i \in DOMAIN Responses : i % share # 0 => order[i] < order[i + 1]}

\* A failure goes on to the next batch; balancing puts the rows in an order that
\* their lengths decide.
Generate ==
  /\ pc = "generate"
  /\ \/ /\ "generate" \in Failing /\ pc' = "draw" /\ UNCHANGED rows
     \/ /\ pc' = "log_prob"
        /\ IF Balanced
             THEN \E order \in BalancedOrders :
                    rows' = [i \in DOMAIN Responses |-> Responses[order[i]]]
             ELSE rows' = Responses
  /\ UNCHANGED <<saved, starts, loop, model, ref, refDone, pairs>>

\* The actor's log-probabilities and those of the reference.
LogProbs ==
  /\ pc = "log_prob"
  /\ \/ Failing \cap {"log_prob", "ref"} # {} /\ pc' = "finish" /\ UNCHANGED refDone
     \/ /\ refDone' \in {TRUE} \cup (IF "ref" \in Failing THEN {FALSE} ELSE {})
        /\ pc' = "score"
  /\ UNCHANGED <<saved, starts, loop, model, ref, rows, pairs>>

\* Without the reward function every row has a score of 0.
Score ==
  /\ pc = "score"
  /\ \/ "reward" \in Failing /\ UNCHANGED rows
     \/ \E scores \in [DOMAIN rows -> Scores] :
          rows' = [i \in DOMAIN rows |-> [rows[i] EXCEPT !.score = scores[i]]]
  /\ pc' = "prepare"
  /\ UNCHANGED <<saved, starts, loop, model, ref, refDone, pairs>>

\* Mutation: argmax in the pair, without the place of the pair.
PreferredFirst(i) == i \in 1..2 /\ rows[i].score >= rows[3 - i].score

\* compute_onlinedpo_pref: of two rows after each other, the first one of the
\* better ones.
Preferred(i) ==
  LET first == 2 * ((i - 1) \div 2) + 1
      winner == IF rows[first].score >= rows[first + 1].score THEN first ELSE first + 1
  IN  i = winner

\* Mutation: references are halves of the batch.
RefOfHalves(chosen) ==
  LET half == Len(rows) \div 2
  IN  SubSeq(rows, IF chosen THEN 1 ELSE half + 1, IF chosen THEN half ELSE 2 * half)
\* ref_sequence_logps[mask]: what the reference says of the rows under the mask.
References(chosen) ==
  LET under == {i \in DOMAIN rows : Preferred(i) = chosen}
  IN  [k \in 1..Cardinality(under) |-> rows[SetToSortSeq(under, <)[k]]]

Masked(chosen) ==
  LET under == {i \in DOMAIN rows : Preferred(i) = chosen}
  IN  [k \in 1..Cardinality(under) |->
         [row |-> rows[SetToSortSeq(under, <)[k]], ref |-> References(chosen)[k]]]

\* A batch that cannot be prepared, because the number of rows is odd or there
\* is no reference, is printed and not trained on.
Prepare ==
  /\ pc = "prepare"
  /\ IF refDone /\ Len(rows) % 2 = 0
       THEN pairs' = [chosen |-> Masked(TRUE), rejected |-> Masked(FALSE)]
       ELSE UNCHANGED pairs
  /\ pc' = "update"
  /\ UNCHANGED <<saved, starts, loop, model, ref, rows, refDone>>

Prepared == pairs # NoPairs

\* The optimizer has made its step when the worker looks for global_token_num,
\* which the batch does not bring: this ends the training.
Update ==
  /\ pc = "update"
  /\ IF Prepared /\ Warmup <= steps
       THEN model' = Append(model, batch) /\ pc' = "finish"
       ELSE pc' = "save" /\ UNCHANGED model
  /\ UNCHANGED <<saved, starts, loop, ref, rows, refDone, pairs>>

Checkpoint == [step |-> steps, model |-> model, batch |-> batch, left |-> left]
IsLastStep == steps >= Total

\* The last step ends its epoch; the ones after it make a step again.
EndStep ==
  /\ pc = "save"
  /\ saved' = IF SaveFreq > 0 /\ (IsLastStep \/ steps % SaveFreq = 0)
                THEN Checkpoint ELSE saved
  /\ IF IsLastStep THEN NextEpoch /\ UNCHANGED steps
                   ELSE pc' = "draw" /\ steps' = steps + 1 /\ UNCHANGED <<epoch, left>>
  /\ UNCHANGED <<starts, batch, model, ref, rows, refDone, pairs>>

\* final_step is taken for the step before.
Finish ==
  /\ pc = "finish"
  /\ saved' = IF SaveFreq = 0 \/ (steps - 1) % SaveFreq # 0 THEN Checkpoint ELSE saved
  /\ pc' = "ended"
  /\ UNCHANGED <<starts, loop, model, ref, rows, refDone, pairs>>

Crash ==
  /\ pc \notin {"off", "ended"} /\ pc' = "off"
  /\ UNCHANGED <<saved, starts, loop, model, ref, rows, refDone, pairs>>

Next ==
  \/ Start \/ Draw \/ EndEpoch \/ SyncReference \/ Generate \/ LogProbs \/ Score
  \/ Prepare \/ Update \/ EndStep \/ Finish \/ Crash

Spec == Init /\ [][Next]_vars

-----------------------------------------------------------------------------
TypeOK ==
  /\ steps \in Nat /\ left \in 0..EpochLen /\ refDone \in BOOLEAN
  /\ Len(model) <= batch /\ Len(saved.model) <= saved.batch
  /\ pc \in {"off", "draw", "sync", "generate", "log_prob", "score", "prepare",
             "update", "save", "finish", "ended"}

\* However often a start ends or dies, no batch is trained on twice and none
\* before an earlier one (the data loader is saved with the actor).
TrainedInOrder ==
  /\ \A i \in 2..Len(model) : model[i - 1] < model[i]
  /\ model # <<>> => model[Len(model)] <= batch

\* What is trained on are all rows once, half of them preferred to the others,
\* each with the reference's word on itself; two responses in their order are of
\* one prompt, and the better one is preferred.
PairsOwn ==
  Prepared =>
    /\ Len(pairs.chosen) = Len(pairs.rejected)
    /\ Range(rows) = {p.row : p \in Range(pairs.chosen) \cup Range(pairs.rejected)}
    /\ \A p \in Range(pairs.chosen) \cup Range(pairs.rejected) : p.ref = p.row
    /\ \A k \in DOMAIN pairs.chosen :
         LET better == pairs.chosen[k].row
             worse == pairs.rejected[k].row
         IN  /\ better.score >= worse.score
             /\ N = 2 /\ ~Balanced => better.prompt = worse.prompt

\* Refuted with the rows balanced, which is the default, and with one response
\* to a prompt, which is the default as well: core_algos.py:71 "Assumes inputs
\* are interleaved".  Responses to different prompts are preferred to each other.
PairsOfOnePrompt ==
  Prepared =>
    \A k \in DOMAIN pairs.chosen :
      pairs.chosen[k].row.prompt = pairs.rejected[k].row.prompt

\* Refuted: "This reference model's weights can be periodically updated from the
\* actor" (README.md:40).  A reference worker may not load a checkpoint.
RefFollows == pc = "generate" /\ RefFreq > 0 /\ steps % RefFreq = 0 => ref = model

\* Refuted: the training goes on from the step after the one it has loaded, which
\* _load_checkpoint sets (spin_trainer.py:927, "set global step") and fit sets
\* anew, from what it does not return.
ResumesAfter == [][starts' # starts => steps' = saved.step + 1]_vars

\* Refuted: the training goes on until its data or its steps are at an end.  The
\* first update ends it.
GoesOn == pc = "finish" /\ Failing = {} => left = 0 \/ IsLastStep
=============================================================================
