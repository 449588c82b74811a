----------------------------- MODULE SampleLog -----------------------------
(***************************************************************************)
(* What the output directory promises to the person who runs the command   *)
(* again and again: a log of useful samples per problem that only grows,   *)
(* never beyond the number of samples asked for, and a checkpoint of it    *)
(* (the evaluated copy) that is what remains when the log is deleted.      *)
(* README.md of the repository: "an interrupted run can be resumed without *)
(* losing any work", "Only request the missing samples".                   *)
(***************************************************************************)
EXTENDS Naturals, FiniteSets

CONSTANTS Problems,   \* the question ids of the benchmark
          N           \* --n, samples wanted per problem

VARIABLES log,        \* log[p]: the useful samples that survive a crash now
          checkpoint  \* checkpoint[p]: those that survive deleting the log

vars == <<log, checkpoint>>

Init ==
  /\ log = [p \in Problems |-> {}]
  /\ checkpoint = [p \in Problems |-> {}]

Grows(new) ==
  /\ DOMAIN new = Problems
  /\ \A p \in Problems : log[p] \subseteq new[p] /\ Cardinality(new[p]) <= N

(* A snapshot reaches the disk: samples are added, none disappears. *)
Record ==
  /\ Grows(log')
  /\ UNCHANGED checkpoint

(* The evaluated copy is written, of a log in which nothing is pending. *)
Checkpoint ==
  /\ checkpoint = [p \in Problems |-> {}]
  /\ checkpoint' = log
  /\ UNCHANGED log

(* The operator deletes the log: what was checkpointed is what is left. *)
Discard ==
  /\ log' = checkpoint
  /\ UNCHANGED checkpoint

Next == Record \/ Checkpoint \/ Discard

Spec == Init /\ [][Next]_vars
=============================================================================
