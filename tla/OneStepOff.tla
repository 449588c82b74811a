----------------------------- MODULE OneStepOff -----------------------------
(***************************************************************************)
(* OneStepOffRayTrainer.fit (verl/recipe/one_step_off_policy): responses   *)
(* to the next batch are generated by one group of workers while another   *)
(* trains on the batch before.  The driver calls the groups; a group does  *)
(* its calls in order.  The weights go from the actor to the rollout group *)
(* by a collective, in which both have to take part.                       *)
(*                                                                         *)
(* Weights are represented by the sequence of batches they were trained    *)
(* on.  A call the driver waits for and that changes nothing (rewards,     *)
(* log-probabilities, values) is left out, and a checkpoint is one step    *)
(* (PpoTrainer has its files).                                             *)
(***************************************************************************)
EXTENDS Integers, Sequences, SequencesExt

CONSTANTS
  EpochLen,   \* len(train_dataloader)
  Epochs,     \* total_epochs
  SaveFreq,   \* save_freq
  TestFreq,   \* test_freq
  MaxStarts   \* bound: starts of the job

ASSUME OneStepOffAssumption ==
  {EpochLen, Epochs, SaveFreq, TestFreq} \subseteq Nat \ {0} /\ MaxStarts \in Nat

\* total_training_steps
Total == EpochLen * Epochs

VARIABLES
  ckpt,       \* the checkpoint on disk
  starts,     \* starts of the job so far
  pc,         \* where the driver is
  steps,      \* self.global_steps
  epoch, pos, \* the continuous iterator, and its place in the epoch
  future,     \* batch_data_future: the batch that is generated
  batch,      \* the batch of this step, and the weights that answered it
  calls,      \* the calls a group has not done yet
  actor,      \* weights of the actor group
  rollout,    \* weights of the rollout group
  result,     \* the batch the rollout group has answered last, with what weights
  validated,  \* the weights of the last validation
  resumed     \* places in the history of the weights where the job was resumed

place == <<epoch, pos>>
groups == <<calls, actor, rollout, result, validated>>
vars == <<ckpt, starts, pc, steps, place, future, batch, groups, resumed>>

None == 0
Nothing == [at |-> None, by |-> <<>>]
Idle == [actor |-> <<>>, rollout |-> <<>>]
NoCheckpoint == [steps |-> 0, pos |-> 0, weights |-> <<>>, resumed |-> {}]

Init ==
  /\ ckpt = NoCheckpoint /\ resumed = {}
  /\ starts = 0 /\ pc = "off"
  /\ steps = 0 /\ epoch = 0 /\ pos = 0
  /\ future = None /\ batch = Nothing
  /\ calls = Idle /\ actor = <<>> /\ rollout = <<>>
  /\ result = Nothing /\ validated = <<>>

(***************************************************************************)
(* The groups.                                                             *)
(***************************************************************************)
Ask(group, call) == [calls EXCEPT ![group] = Append(@, call)]

\* Mutation: the driver waits for the actor's part before it asks for the other.
AskBothInTurn == [actor |-> Append(calls.actor, "sync"), rollout |-> calls.rollout]

\* The actor's call does not block: only then both are in the collective.
AskBoth == [actor   |-> Append(calls.actor, "sync"),
            rollout |-> Append(calls.rollout, "sync")]

\* sync_rollout_weights, when both groups have come to it.
Sync ==
  /\ calls.actor # <<>> /\ Head(calls.actor) = "sync"
  /\ calls.rollout # <<>> /\ Head(calls.rollout) = "sync"
  /\ calls' = [actor |-> Tail(calls.actor), rollout |-> Tail(calls.rollout)]
  /\ rollout' = actor
  /\ UNCHANGED <<ckpt, starts, pc, steps, place, future, batch, actor, result,
                 validated, resumed>>

\* async_generate_sequences
Generate ==
  /\ calls.rollout # <<>> /\ Head(calls.rollout) = "generate"
  /\ calls' = [calls EXCEPT !.rollout = Tail(@)]
  /\ result' = [at |-> future, by |-> rollout]
  /\ UNCHANGED <<ckpt, starts, pc, steps, place, future, batch, actor, rollout,
                 validated, resumed>>

\* generate_sequences of a validation
GenerateValidation ==
  /\ calls.rollout # <<>> /\ Head(calls.rollout) = "validate"
  /\ calls' = [calls EXCEPT !.rollout = Tail(@)]
  /\ validated' = rollout
  /\ UNCHANGED <<ckpt, starts, pc, steps, place, future, batch, actor, rollout,
                 result, resumed>>

IsDone(group, call) == call \notin Range(calls[group])

(***************************************************************************)
(* The driver.                                                             *)
(***************************************************************************)
\* init_workers: both groups load the model, and are synchronised.
Start ==
  /\ pc \in {"off", "done"} /\ starts < MaxStarts
  /\ starts' = starts + 1 /\ pc' = "load"
  /\ steps' = 0 /\ epoch' = 0 /\ pos' = 0 /\ future' = None /\ batch' = Nothing
  /\ actor' = <<>> /\ rollout' = <<>> /\ result' = Nothing /\ validated' = <<>>
  /\ calls' = [actor |-> <<"sync">>, rollout |-> <<"sync">>]
  /\ UNCHANGED <<ckpt, resumed>>

\* _load_checkpoint loads the actor, and the validation before training is
\* asked of the rollout group.
Load ==
  /\ pc = "load" /\ IsDone("actor", "sync") /\ IsDone("rollout", "sync")
  /\ actor' = ckpt.weights
  /\ resumed' = IF ckpt.steps = 0 THEN {} ELSE ckpt.resumed \cup {Len(ckpt.weights)}
  /\ pos' = ckpt.pos /\ steps' = ckpt.steps
  /\ calls' = Ask("rollout", "validate")
  /\ pc' = "validated"
  /\ UNCHANGED <<ckpt, starts, epoch, future, batch, rollout, result, validated>>

FirstStep ==
  /\ pc = "validated" /\ IsDone("rollout", "validate")
  /\ steps' = steps + 1 /\ pc' = "draw"
  /\ UNCHANGED <<ckpt, starts, place, future, batch, groups, resumed>>

\* What follows when the next batch is on its way, or there is none.
Continue ==
  pc' = IF batch # Nothing THEN "train" ELSE IF future' # None THEN "get" ELSE "done"

\* _async_gen_next_batch: the next batch of the iterator, and the weights of
\* the actor as they are.
Draw ==
  /\ pc = "draw" /\ pos < EpochLen /\ epoch < Epochs
  /\ pos' = pos + 1 /\ future' = pos + 1
  /\ calls' = AskBoth
  /\ pc' = "launch"
  /\ UNCHANGED <<ckpt, starts, steps, epoch, batch, actor, rollout, result,
                 validated, resumed>>

NextEpoch ==
  /\ pc = "draw" /\ pos = EpochLen /\ epoch < Epochs
  /\ epoch' = epoch + 1
  /\ pos' = IF epoch + 1 < Epochs THEN 0 ELSE pos
  /\ UNCHANGED <<ckpt, starts, pc, steps, future, batch, groups, resumed>>

\* StopIteration
NoneLeft ==
  /\ pc = "draw" /\ epoch = Epochs
  /\ future' = None
  /\ Continue
  /\ UNCHANGED <<ckpt, starts, steps, place, batch, groups, resumed>>

\* Mutation: generation is launched before the weights are there.
LaunchAtOnce ==
  /\ pc = "launch" /\ "sync" \in Range(calls.rollout)
  /\ calls' = [calls EXCEPT !.rollout = <<"generate">> \o @]
  /\ UNCHANGED future
  /\ Continue
  /\ UNCHANGED <<ckpt, starts, steps, place, batch, actor, rollout,
                 result, validated, resumed>>

Launch ==
  /\ pc = "launch" /\ IsDone("actor", "sync") /\ IsDone("rollout", "sync")
  /\ calls' = Ask("rollout", "generate")
  /\ UNCHANGED future
  /\ Continue
  /\ UNCHANGED <<ckpt, starts, steps, place, batch, actor, rollout, result,
                 validated, resumed>>

IsLastStep == steps >= Total

\* batch_data_future.get()
Get ==
  /\ pc = "get" /\ IsDone("rollout", "generate")
  /\ batch' = result
  /\ pc' = IF IsLastStep THEN "train" ELSE "draw"
  /\ UNCHANGED <<ckpt, starts, steps, place, future, groups, resumed>>

\* update_actor, which the driver waits for.
Train ==
  /\ pc = "train" /\ calls.actor = <<>>
  /\ actor' = Append(actor, batch.at)
  /\ IF IsLastStep \/ steps % TestFreq = 0
       THEN calls' = Ask("rollout", "validate")
       ELSE UNCHANGED calls
  /\ pc' = "save"
  /\ UNCHANGED <<ckpt, starts, steps, place, future, batch, rollout, result,
                 validated, resumed>>

\* The validation is done; the step is saved, and the loop goes on with what
\* is being generated.
Save ==
  /\ pc = "save" /\ IsDone("rollout", "validate")
  /\ ckpt' = IF IsLastStep \/ steps % SaveFreq = 0
               THEN [steps |-> steps, pos |-> pos, weights |-> actor,
                     resumed |-> resumed]
               ELSE ckpt
  /\ steps' = steps + 1 /\ batch' = Nothing
  /\ pc' = IF IsLastStep \/ future = None THEN "done" ELSE "get"
  /\ UNCHANGED <<starts, place, future, groups, resumed>>

\* The job is killed, or something in it raises.
Crash ==
  /\ pc \notin {"off", "done"}
  /\ pc' = "off" /\ calls' = Idle
  /\ UNCHANGED <<ckpt, starts, steps, place, future, batch, actor, rollout, result,
                 validated, resumed>>

Driver ==
  \/ Load \/ FirstStep \/ Draw \/ NextEpoch \/ NoneLeft \/ Launch
  \/ Get \/ Train \/ Save

Groups == Sync \/ Generate \/ GenerateValidation

Next == Start \/ Driver \/ Groups \/ Crash

Spec == Init /\ [][Next]_vars

\* The driver goes on whenever what it waits for is there, and a group does what
\* it was asked.
Fairness == WF_vars(Driver) /\ WF_vars(Groups)

FairSpec == Spec /\ Fairness
-----------------------------------------------------------------------------
TypeOK ==
  /\ ckpt.steps \in 0..(Total + MaxStarts) /\ ckpt.pos \in 0..EpochLen
  /\ starts \in 0..MaxStarts
  /\ pc \in {"off", "load", "validated", "draw", "launch", "get", "train", "save", "done"}
  /\ steps \in 0..(Total + MaxStarts + 1)
  /\ epoch \in 0..Epochs /\ pos \in 0..EpochLen
  /\ future \in 0..EpochLen /\ {batch.at, result.at} \subseteq 0..EpochLen
  /\ calls.actor \in {<<>>, <<"sync">>}
  /\ Len(calls.rollout) <= 2
  /\ \A w \in {actor, rollout, validated} : Range(w) \subseteq 1..EpochLen

\* A batch is trained on by weights that are at most one update ahead of those
\* that answered it, whichever of the two groups is faster
\* (one_step_off_policy/ray_trainer.py:411-423).
OneStepBehind ==
  pc = "train" =>
    IsPrefix(batch.by, actor) /\ Len(actor) - Len(batch.by) <= 1

NextOf(b) == (b % EpochLen) + 1

\* However often the job dies and is resumed, no batch is trained on twice in an
\* epoch, and none is skipped but the one that was being generated when the
\* checkpoint was taken that the job was resumed from (ray_trainer.py:588,
\* :303-310).
FollowsOn ==
  \A i \in DOMAIN actor :
    LET before == IF i = 1 THEN 0 ELSE actor[i - 1]
    IN  \/ actor[i] = NextOf(before)
        \/ i - 1 \in resumed /\ actor[i] = NextOf(NextOf(before))

\* Every start of the job comes to an end, and the driver and the two groups
\* never wait for each other: the two are asked to take part in the collective
\* before the driver waits (ray_trainer.py:298-301).
Stopped == pc \in {"off", "done"}

StartEnds == ~Stopped ~> Stopped

\* Generation, that for a validation as well, uses weights at most one step
\* behind those that are trained (README.md:31-32 "maintain a one-step off policy").
AlwaysOneStepBehind ==
  pc = "save" /\ IsDone("rollout", "validate") /\ (IsLastStep \/ steps % TestFreq = 0) =>
    Len(actor) - Len(validated) <= 1

\* The validation before training is of the checkpoint (ray_trainer.py:366 "load
\* checkpoint before doing anything").
ValidatesLoaded ==
  pc = "validated" /\ IsDone("rollout", "validate") => validated = actor

\* A job that ends has done its total_training_steps, however often it was
\* resumed (ppo_trainer.yaml:203).
EndsAtTotal == pc = "done" => steps > Total
=============================================================================
