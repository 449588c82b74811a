---------------------------- MODULE SftTrainer -----------------------------
(***************************************************************************)
(* FSDPSFTTrainer.fit with its checkpoints (verl/trainer/                  *)
(* fsdp_sft_trainer.py).  All ranks run the loop together; a checkpoint is *)
(* the folder global_step_N itself, the position of the data loader in it  *)
(* comes from rank 0, and so does the tracker, which is replaced by a      *)
(* rename.  Any process may die at any point and the job be started again  *)
(* with resume_mode=auto.                                                  *)
(*                                                                         *)
(* The data loader is external: a position in the epoch, saved and         *)
(* restored with it, and an iteration that is resumed yields what was left *)
(* of it.  The sampler orders an epoch by its number, so a batch is known  *)
(* by epoch and position.                                                  *)
(***************************************************************************)
EXTENDS Checkpoints, SequencesExt

CONSTANTS
  Epochs,    \* total_epochs
  SaveFreq,  \* save_freq
  MaxStarts  \* bound: starts of the job

SftTrainerAssumption ==
  /\ CheckpointsAssumption
  /\ Epochs \in Nat \ {0} /\ SaveFreq \in Nat \ {0} /\ MaxStarts \in Nat

Total == EpochLen * Epochs
Steps == 1..Total
Role == Roles[1]

VARIABLES
  tracker,  \* latest_checkpointed_iteration.txt
  folders,  \* global_step_N
  starts,   \* starts of the job so far
  pc,       \* where the ranks are
  toSave,   \* ranks that have not saved their shard yet
  step,     \* global_step
  epoch,    \* the epoch of the loop
  pos,      \* position of the data loader
  model,    \* what each rank has been trained on
  saved     \* previous_saved_paths of rank 0, as steps

disk == <<tracker, folders>>
progress == <<step, epoch, pos, model>>
vars == <<disk, starts, pc, toSave, progress, saved>>

Init ==
  /\ tracker = NoFile /\ folders = [s \in Steps |-> EmptyFolder]
  /\ starts = 0 /\ pc = "off" /\ toSave = {}
  /\ step = 0 /\ epoch = 0 /\ pos = 0 /\ model = [k \in Ranks |-> <<>>]
  /\ saved = <<>>

Start ==
  /\ pc \in {"off", "done", "error"} /\ starts < MaxStarts
  /\ starts' = starts + 1 /\ pc' = "load" /\ toSave' = {}
  /\ step' = 0 /\ epoch' = 0 /\ pos' = 0 /\ model' = [k \in Ranks |-> <<>>]
  /\ saved' = <<>>
  /\ UNCHANGED disk

\* No tracker, or it names a folder that is gone.
LoadNothing ==
  /\ pc = "load" /\ FindLatest(tracker, folders) = NoFile
  /\ pc' = "train"
  /\ UNCHANGED <<disk, starts, toSave, progress, saved>>

\* Mutation: the loop starts at its first epoch.
LoadToFirstEpoch ==
  LET latest == FindLatest(tracker, folders) IN
  /\ pc = "load" /\ latest # NoFile
  /\ IF Loads(folders[latest]) /\ folders[latest].data # Torn
       THEN /\ model' = folders[latest].shard[Role]
            /\ pos' = folders[latest].data
            /\ step' = latest /\ epoch' = 0
            /\ pc' = "train"
       ELSE pc' = "error" /\ UNCHANGED progress
  /\ UNCHANGED <<disk, starts, toSave, saved>>

\* Every rank loads its shard and the position of rank 0's loader.
LoadCheckpoint ==
  LET latest == FindLatest(tracker, folders) IN
  /\ pc = "load" /\ latest # NoFile
  /\ IF Loads(folders[latest]) /\ folders[latest].data # Torn
       THEN /\ model' = folders[latest].shard[Role]
            /\ pos' = folders[latest].data
            /\ step' = latest /\ epoch' = latest \div EpochLen
            /\ pc' = "train"
       ELSE pc' = "error" /\ UNCHANGED progress
  /\ UNCHANGED <<disk, starts, toSave, saved>>

SavesAt(s) == s >= Total \/ s % SaveFreq = 0

TrainStep ==
  /\ pc = "train" /\ epoch < Epochs /\ pos < EpochLen
  /\ pos' = pos + 1 /\ step' = step + 1
  /\ model' = [k \in Ranks |-> Append(model[k], epoch * EpochLen + pos + 1)]
  /\ pc' = IF SavesAt(step + 1) THEN "rotate" ELSE "train"
  /\ UNCHANGED <<disk, starts, toSave, epoch, saved>>

\* The loader has no batch left in this epoch, or there is no epoch left.
EndEpoch ==
  /\ pc = "train"
  /\ \/ epoch < Epochs /\ pos = EpochLen
        /\ epoch' = epoch + 1 /\ pos' = 0 /\ UNCHANGED pc
     \/ epoch = Epochs /\ pc' = "done" /\ UNCHANGED <<epoch, pos>>
  /\ UNCHANGED <<disk, starts, toSave, step, model, saved>>

\* Rank 0 removes the folders that are outdated, everything in them.
Rotate ==
  LET gone == Range(Outdated(saved)) IN
  /\ pc = "rotate"
  /\ folders' = [s \in Steps |->
       IF s \in gone THEN EmptyFolder
       ELSE [folders[s] EXCEPT !.here = @ \/ s = step]]
  /\ saved' = StillKept(saved)
  /\ toSave' = Ranks /\ pc' = "shards"
  /\ UNCHANGED <<tracker, starts, progress>>

SaveShard(k) ==
  /\ pc = "shards" /\ k \in toSave
  /\ folders' = [folders EXCEPT ![step].shard[Role][k] = model[k]]
  /\ toSave' = toSave \ {k}
  /\ UNCHANGED <<tracker, starts, pc, progress, saved>>

AllSaved ==
  /\ pc = "shards" /\ toSave = {}
  /\ saved' = Append(saved, step)
  /\ pc' = "data"
  /\ UNCHANGED <<disk, starts, toSave, progress>>

SaveData ==
  /\ pc = "data"
  /\ folders' = [folders EXCEPT ![step].data = pos]
  /\ pc' = "tracker"
  /\ UNCHANGED <<tracker, starts, toSave, progress, saved>>

\* os.rename puts the new tracker in place of the old one.
RenameTracker ==
  /\ pc = "tracker"
  /\ tracker' = step
  /\ pc' = IF step >= Total THEN "done" ELSE "train"
  /\ UNCHANGED <<folders, starts, toSave, progress, saved>>

\* A process dies.  The file it was writing is torn.
Crash ==
  /\ pc \notin {"off", "done", "error"}
  /\ pc' = "off"
  /\ \E torn \in SUBSET toSave, other \in BOOLEAN :
       folders' = CASE pc = "shards" ->
                         [folders EXCEPT ![step].shard[Role] =
                            [k \in Ranks |-> IF k \in torn THEN TornShard
                                             ELSE folders[step].shard[Role][k]]]
                    [] pc = "data" /\ other -> [folders EXCEPT ![step].data = Torn]
                    [] OTHER -> folders
  /\ UNCHANGED <<tracker, starts, toSave, progress, saved>>

Next ==
  \/ Start \/ LoadNothing \/ LoadCheckpoint
  \/ TrainStep \/ EndEpoch
  \/ Rotate \/ (\E k \in Ranks : SaveShard(k)) \/ AllSaved
  \/ SaveData \/ RenameTracker
  \/ Crash

Spec == Init /\ [][Next]_vars

-----------------------------------------------------------------------------
TypeOK ==
  /\ tracker \in Steps \cup {NoFile}
  /\ \A s \in Steps :
       /\ folders[s].here \in BOOLEAN
       /\ folders[s].data \in (0..EpochLen) \cup {Torn}
       /\ \A k \in Ranks :
            \/ folders[s].shard[Role][k] \in {NoShard, TornShard}
            \/ Len(folders[s].shard[Role][k]) = s
  /\ starts \in 0..MaxStarts
  /\ pc \in {"off", "load", "train", "rotate", "shards", "data", "tracker",
             "done", "error"}
  /\ toSave \subseteq Ranks
  /\ step \in 0..Total /\ epoch \in 0..Epochs /\ pos \in 0..EpochLen
  /\ Range(saved) \subseteq Steps

Batches(n) == [i \in 1..n |-> i]

\* However often the job dies and is resumed, after n steps every rank has been
\* trained on the first n batches, each once and in order (fsdp_sft_trainer.py
\* fit: "The dataloader will automatically resume from where it left off").
TrainedOnce == pc = "train" => \A k \in Ranks : model[k] = Batches(step)

\* A job that ends has done every step, and its last model is the one the
\* tracker names (fit, is_last_step).
EndsComplete ==
  pc = "done" =>
    /\ step = Total /\ tracker = Total
    /\ \A k \in Ranks : folders[Total].shard[Role][k] = Batches(Total)

\* Once a checkpoint was complete, a job that is started finds one: it neither
\* fails nor starts from scratch (save_checkpoint, load_checkpoint;
\* docs/examples/config.rst:563 "the program will automatically resume from
\* the latest checkpoint").
ResumesLatest ==
  tracker # NoFile /\ pc = "load" =>
    /\ FindLatest(tracker, folders) # NoFile
    /\ Loads(folders[tracker]) /\ folders[tracker].data # Torn

\* The checkpoint that the tracker names is not touched until the tracker names
\* another (checkpoint rotation and the order of save_checkpoint).
NamedStep ==
  tracker # NoFile /\ tracker' = tracker => folders'[tracker] = folders[tracker]

NamedIsKept == [][NamedStep]_vars
============================================================================
