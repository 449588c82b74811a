---------------------------- MODULE Checkpoints ----------------------------
(***************************************************************************)
(* The files a verl trainer leaves (verl/utils/checkpoint): a folder per   *)
(* step with one shard per rank and the position of the data loader, and   *)
(* the tracker file that names the latest step.                            *)
(*                                                                         *)
(* What a shard holds (weights, optimizer, scheduler, random state) is     *)
(* represented by the sequence of batches it was trained on.  A checkpoint *)
(* directory belongs to one role of the trainer (actor, critic).           *)
(***************************************************************************)
EXTENDS Integers, Sequences

CONSTANTS
  Roles,    \* the worker groups that save, in the order they are asked to
  Ranks,    \* ranks of a worker group
  MaxKeep,  \* max_ckpt_to_keep; 0 for null
  EpochLen  \* batches in an epoch

CheckpointsAssumption == MaxKeep \in Nat /\ EpochLen \in Nat \ {0}

\* A file that is not there, and one whose writer died within it.
NoFile == 0
Torn == -1

\* The same two for a shard, which is a sequence of batches.
NoShard == <<0>>
TornShard == <<-1>>

RoleSet == {Roles[i] : i \in DOMAIN Roles}

NoShards == [o \in RoleSet |-> [k \in Ranks |-> NoShard]]

EmptyFolder == [here |-> FALSE, shard |-> NoShards, data |-> NoFile]

\* Mutation: the newest checkpoints are removed.
OutdatedNewest(paths) ==
  IF MaxKeep > 0 /\ Len(paths) >= MaxKeep
    THEN SubSeq(paths, MaxKeep, Len(paths))
    ELSE <<>>

\* Of the checkpoints this process has saved, those that go before the next.
Outdated(paths) ==
  IF MaxKeep > 0 /\ Len(paths) >= MaxKeep
    THEN SubSeq(paths, 1, Len(paths) - MaxKeep + 1)
    ELSE <<>>

StillKept(paths) == SubSeq(paths, Len(Outdated(paths)) + 1, Len(paths))

\* The step find_latest_ckpt_path returns, NoFile for None.  It reads the
\* tracker as a number: a torn one raises.
FindLatest(tracker, folders) ==
  IF tracker > 0 /\ folders[tracker].here THEN tracker ELSE NoFile

\* Every rank can load its shard.
Loads(folder) ==
  \A o \in RoleSet, k \in Ranks : folder.shard[o][k] \notin {NoShard, TornShard}

\* The first n batches: an epoch has each batch once, in an order that its
\* sampler fixes.
FirstBatches(n) == [i \in 1..n |-> ((i - 1) % EpochLen) + 1]
============================================================================
