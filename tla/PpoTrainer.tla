---------------------------- MODULE PpoTrainer -----------------------------
(***************************************************************************)
(* RayPPOTrainer.fit with its checkpoints (verl/trainer/ppo/ray_trainer.py *)
(* and verl/utils/checkpoint): the driver trains step by step, asks the    *)
(* worker groups to save, and writes the position of the data loader and   *)
(* the tracker.  Any process may die at any point and the job be started   *)
(* again with resume_mode=auto.                                            *)
(*                                                                         *)
(* Generation, rewards and losses are one step: what they make of a batch  *)
(* does not matter here, only that the batch was trained on.  The data     *)
(* loader is external: it is a position in the epoch, saved and restored   *)
(* with it, and an iteration that is resumed yields what was left of it.   *)
(***************************************************************************)
EXTENDS Checkpoints, SequencesExt, FiniteSetsExt

CONSTANTS
  Epochs,      \* total_epochs
  SaveFreq,    \* save_freq
  Warmup,      \* critic_warmup
  MayExpire,   \* an ESI may be close to its expiration
  MaxStarts    \* bound: starts of the job

PpoTrainerAssumption ==
  /\ CheckpointsAssumption
  /\ Epochs \in Nat \ {0} /\ SaveFreq \in Nat \ {0} /\ Warmup \in Nat
  /\ MayExpire \in BOOLEAN /\ MaxStarts \in Nat

\* total_training_steps, and the steps there may be files of.
Total == EpochLen * Epochs
Steps == 1..(Total + MaxStarts)

VARIABLES
  tracker,  \* latest_checkpointed_iteration.txt
  folders,  \* global_step_N
  starts,   \* starts of the job so far
  pc,       \* where the driver is
  asked,    \* the place in Roles of the group that saves
  toSave,   \* ranks of that group that have not saved their shard yet
  steps,    \* self.global_steps
  epoch,    \* the epoch of the loop
  pos,      \* position of the data loader
  model,    \* what each rank of a role has been trained on
  saved     \* previous_saved_paths of rank 0 of a role, as steps

disk == <<tracker, folders>>
progress == <<steps, epoch, pos, model>>
vars == <<disk, starts, pc, asked, toSave, progress, saved>>

Untrained == [o \in RoleSet |-> [k \in Ranks |-> <<>>]]

Init ==
  /\ tracker = NoFile /\ folders = [s \in Steps |-> EmptyFolder]
  /\ starts = 0 /\ pc = "off"
  /\ asked = 1 /\ toSave = {}
  /\ steps = 0 /\ epoch = 0 /\ pos = 0 /\ model = Untrained
  /\ saved = [o \in RoleSet |-> <<>>]

Start ==
  /\ pc \in {"off", "done", "error"} /\ starts < MaxStarts
  /\ starts' = starts + 1 /\ pc' = "load"
  /\ asked' = 1 /\ toSave' = {}
  /\ steps' = 0 /\ epoch' = 0 /\ pos' = 0 /\ model' = Untrained
  /\ saved' = [o \in RoleSet |-> <<>>]
  /\ UNCHANGED disk

\* The tracker is no number.
LoadFails ==
  /\ pc = "load" /\ tracker = Torn
  /\ pc' = "error"
  /\ UNCHANGED <<disk, starts, asked, toSave, progress, saved>>

LoadNothing ==
  /\ pc = "load" /\ tracker # Torn /\ FindLatest(tracker, folders) = NoFile
  /\ steps' = 1
  /\ pc' = "train"
  /\ UNCHANGED <<disk, starts, asked, toSave, epoch, pos, model, saved>>

\* Mutation: the data loader starts from scratch.
LoadWithoutData ==
  LET latest == FindLatest(tracker, folders) IN
  /\ pc = "load" /\ tracker # Torn /\ latest # NoFile
  /\ IF Loads(folders[latest])
       THEN /\ model' = folders[latest].shard
            /\ pos' = 0
            /\ steps' = latest + 1
            /\ pc' = "train"
       ELSE /\ pc' = "error" /\ UNCHANGED <<model, pos, steps>>
  /\ UNCHANGED <<disk, starts, asked, toSave, epoch, saved>>

\* Every rank loads its shard.  A missing data.pt is a warning and leaves the
\* loader at its start, a torn one raises.
LoadCheckpoint ==
  LET latest == FindLatest(tracker, folders) IN
  /\ pc = "load" /\ tracker # Torn /\ latest # NoFile
  /\ IF Loads(folders[latest]) /\ folders[latest].data # Torn
       THEN /\ model' = folders[latest].shard
            /\ pos' = folders[latest].data
            /\ steps' = latest + 1
            /\ pc' = "train"
       ELSE /\ pc' = "error" /\ UNCHANGED <<model, pos, steps>>
  /\ UNCHANGED <<disk, starts, asked, toSave, epoch, saved>>

IsLastStep == steps >= Total

\* The roles that learn from the batch of this step.
Learns(o) == o = "critic" \/ Warmup <= steps

Saves(expiring) == IsLastStep \/ steps % SaveFreq = 0 \/ expiring

\* What follows the step at which the driver is.
NextStep ==
  /\ steps' = steps + 1
  /\ pc' = IF IsLastStep THEN "done" ELSE "train"

\* One iteration of the loop up to the checkpoint.
TrainStep ==
  /\ pc = "train" /\ pos < EpochLen
  /\ pos' = pos + 1
  /\ model' = [o \in RoleSet |-> [k \in Ranks |->
       IF Learns(o) THEN Append(model[o][k], pos + 1) ELSE model[o][k]]]
  /\ \E expiring \in IF MayExpire THEN BOOLEAN ELSE {FALSE} :
       IF Saves(expiring)
         THEN pc' = "rotate" /\ asked' = 1 /\ UNCHANGED steps
         ELSE NextStep /\ UNCHANGED asked
  /\ UNCHANGED <<disk, starts, toSave, epoch, saved>>

\* The loader has no batch left in this epoch.
EndEpoch ==
  /\ pc = "train" /\ pos = EpochLen
  /\ epoch' = epoch + 1
  /\ IF epoch + 1 < Epochs
       THEN pos' = 0 /\ UNCHANGED pc
       ELSE pc' = "done" /\ UNCHANGED pos
  /\ UNCHANGED <<disk, starts, asked, toSave, steps, model, saved>>

(***************************************************************************)
(* The checkpoint of step `steps', group by group.                         *)
(***************************************************************************)
Role == Roles[asked]

\* Rank 0 removes the role's directories that are outdated: the folders of
\* their steps stay.
Rotate ==
  LET gone == Range(Outdated(saved[Role])) IN
  /\ pc = "rotate"
  /\ folders' = [s \in Steps |->
       [here  |-> folders[s].here \/ s = steps,
        shard |-> IF s \in gone
                    THEN [folders[s].shard EXCEPT ![Role] = NoShards[Role]]
                    ELSE folders[s].shard,
        data  |-> folders[s].data]]
  /\ saved' = [saved EXCEPT ![Role] = StillKept(@)]
  /\ toSave' = Ranks /\ pc' = "shards"
  /\ UNCHANGED <<tracker, starts, asked, progress>>

\* A rank writes its files, after the barrier and in any order.
SaveShard(k) ==
  /\ pc = "shards" /\ k \in toSave
  /\ folders' = [folders EXCEPT ![steps].shard[Role][k] = model[Role][k]]
  /\ toSave' = toSave \ {k}
  /\ UNCHANGED <<tracker, starts, pc, asked, progress, saved>>

\* Mutation: the tracker is written before the groups have saved.
AllSavedEarly ==
  /\ pc = "shards" /\ toSave = {}
  /\ saved' = [saved EXCEPT ![Role] = Append(@, steps)]
  /\ tracker' = steps
  /\ IF asked < Len(Roles)
       THEN asked' = asked + 1 /\ pc' = "rotate"
       ELSE pc' = "data" /\ UNCHANGED asked
  /\ UNCHANGED <<folders, starts, toSave, progress>>

\* The barrier: the next group is asked, or the driver goes on.
AllSaved ==
  /\ pc = "shards" /\ toSave = {}
  /\ saved' = [saved EXCEPT ![Role] = Append(@, steps)]
  /\ IF asked < Len(Roles)
       THEN asked' = asked + 1 /\ pc' = "rotate"
       ELSE pc' = "data" /\ UNCHANGED asked
  /\ UNCHANGED <<disk, starts, toSave, progress>>

SaveData ==
  /\ pc = "data"
  /\ folders' = [folders EXCEPT ![steps].data = pos]
  /\ pc' = "tracker"
  /\ UNCHANGED <<tracker, starts, asked, toSave, progress, saved>>

WriteTracker ==
  /\ pc = "tracker"
  /\ tracker' = steps
  /\ NextStep
  /\ UNCHANGED <<folders, starts, asked, toSave, epoch, pos, model, saved>>

\* A process dies.  The file it was writing, if any, is torn: the tracker is
\* opened with "w" and written in place.
Crash ==
  /\ pc \notin {"off", "done", "error"}
  /\ pc' = "off"
  /\ \E torn \in SUBSET toSave, other \in BOOLEAN :
       /\ folders' = CASE pc = "shards" ->
                            [folders EXCEPT ![steps].shard[Role] =
                               [k \in Ranks |-> IF k \in torn THEN TornShard
                                                ELSE folders[steps].shard[Role][k]]]
                       [] pc = "data" /\ other -> [folders EXCEPT ![steps].data = Torn]
                       [] OTHER -> folders
       /\ tracker' = IF pc = "tracker" /\ other THEN Torn ELSE tracker
  /\ UNCHANGED <<starts, asked, toSave, progress, saved>>

Next ==
  \/ Start \/ LoadFails \/ LoadNothing \/ LoadCheckpoint
  \/ TrainStep \/ EndEpoch
  \/ Rotate \/ (\E k \in Ranks : SaveShard(k)) \/ AllSaved
  \/ SaveData \/ WriteTracker
  \/ Crash

Spec == Init /\ [][Next]_vars

-----------------------------------------------------------------------------
TypeOK ==
  /\ tracker \in Steps \cup {NoFile, Torn}
  /\ \A s \in Steps :
       /\ folders[s].here \in BOOLEAN
       /\ folders[s].data \in (0..EpochLen) \cup {Torn}
       /\ \A o \in RoleSet, k \in Ranks :
            \/ folders[s].shard[o][k] \in {NoShard, TornShard}
            \/ Len(folders[s].shard[o][k]) <= s
  /\ starts \in 0..MaxStarts
  /\ pc \in {"off", "load", "train", "rotate", "shards", "data", "tracker",
             "done", "error"}
  /\ asked \in DOMAIN Roles /\ toSave \subseteq Ranks
  /\ steps \in 0..(Total + MaxStarts + 1)
  /\ epoch \in 0..Epochs /\ pos \in 0..EpochLen
  /\ \A o \in RoleSet : Range(saved[o]) \subseteq Steps

\* What a role has learned when the steps before n are done: the critic every
\* batch, the actor those of the steps from critic_warmup on.
Learned(o, n) ==
  LET skipped == IF o = "critic" THEN 0 ELSE IF Warmup = 0 THEN 0 ELSE Warmup - 1
  IN  SubSeq(FirstBatches(n - 1), skipped + 1, n - 1)

\* However often the job dies and is resumed, at the start of step n every rank
\* has been trained on the first n - 1 batches, each once and in order: no
\* batch is skipped, none repeated, and no rank is ahead of another
\* (ray_trainer.py _load_checkpoint, fit).
TrainedOnce ==
  pc = "train" => \A o \in RoleSet, k \in Ranks : model[o][k] = Learned(o, steps)

\* The step the tracker names has a complete checkpoint of that very step: all
\* shards of all groups, and the position of the loader (ray_trainer.py:927,
\* the tracker comes last).
TrackedIsWhole ==
  tracker > 0 =>
    /\ \A o \in RoleSet, k \in Ranks :
         folders[tracker].shard[o][k] = Learned(o, tracker + 1)
    /\ folders[tracker].data = ((tracker - 1) % EpochLen) + 1

\* A crash costs at most save_freq steps, and a resume none at all
\* (ray_trainer.py, the condition on _save_checkpoint).
LittleIsLost == pc = "train" /\ tracker >= 0 => steps - tracker <= SaveFreq

\* However often the job was started, no more checkpoints than the limit are on
\* disk (fsdp_checkpoint_manager.py:192 "Rotates old checkpoints, keeping at
\* most `max_ckpt_to_keep`").
KeepsTheLimit ==
  MaxKeep > 0 /\ pc = "train" =>
    \A o \in RoleSet :
      Quantify(Steps, LAMBDA s : folders[s].shard[o] # NoShards[o]) <= MaxKeep

\* A job can be resumed from the folder it finds (ray_trainer.py
\* _save_checkpoint with max_ckpt_to_keep).
ResumesFromIt ==
  pc = "load" /\ tracker > 0 /\ folders[tracker].here => Loads(folders[tracker])

\* The tracker can be read whenever the job is started (ray_trainer.py:979
\* "latest checkpointed iteration tracker (for atomic usage)").
TrackerIsRead == pc = "load" => tracker # Torn

\* No step is trained beyond total_training_steps (ppo_trainer.yaml:203).
StopsAtTotal == pc = "rotate" => steps <= Total
============================================================================
