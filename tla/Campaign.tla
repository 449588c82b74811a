------------------------------ MODULE Campaign ------------------------------
(***************************************************************************)
(* Generation and evaluation together (evaluate/generate_evaluate.py): a   *)
(* command that is run again and again with --evaluate, and what the two   *)
(* files say of each other.                                                *)
(*                                                                         *)
(* The steps of the two halves are in SampleStore and EvalMerge.  Here a   *)
(* snapshot and the two evaluation files are written in one step each, a   *)
(* record is the sequence of its samples, and a call that was given up has *)
(* left the sample "" in it.  No answer is white space only: SampleStore   *)
(* shows what those do.                                                    *)
(***************************************************************************)
EXTENDS Naturals, Sequences, SequencesExt

CONSTANTS
  Problems,
  N,         \* --n
  MaxRuns,   \* bound: starts of the command
  NoFile,    \* no such file
  Ungraded   \* not in the eval_all file

CampaignAssumption == N \in Nat \ {0} /\ MaxRuns \in Nat

\* The sample "" of a call that was given up.
GivenUp == 0

VARIABLES
  disk,    \* the output file: the samples of every problem
  live,    \* live_results_dict
  graded,  \* the eval_all file: the samples each problem was graded with
  run,     \* starts so far; a sample is the run that asked for it
  pc

vars == <<disk, live, graded, run, pc>>

\* The elements of a sequence that are in T, in their order.
Kept(s, T) ==
  LET first[n \in 0..Len(s)] ==
        IF n = 0 THEN <<>>
        ELSE IF s[n] \in T THEN Append(first[n - 1], s[n]) ELSE first[n - 1]
  IN  first[Len(s)]

Useful(rec) == Kept(rec, 1..MaxRuns)

Init ==
  /\ disk = NoFile
  /\ live = [p \in Problems |-> <<>>]
  /\ graded = [p \in Problems |-> Ungraded]
  /\ run = 0 /\ pc = "idle"

\* The output file, or else the eval_all file, or else nothing.
Read(p) ==
  CASE disk # NoFile -> disk[p]
    [] disk = NoFile /\ graded[p] # Ungraded -> graded[p]
    [] OTHER -> <<>>

\* Mutation: a record that is not complete is asked for from the start.
ResumedWhole(p) == IF Len(Useful(Read(p))) = N THEN Read(p) ELSE <<>>

\* What is left of a record when its empty samples go.
Resumed(p) == Useful(Read(p))

Start ==
  /\ pc \in {"idle", "done"} /\ run < MaxRuns
  /\ run' = run + 1
  /\ live' = [p \in Problems |-> Resumed(p)]
  /\ pc' = "ask"
  /\ UNCHANGED <<disk, graded>>

\* A call ends, or is given up: one more sample, and a snapshot.
Ask(p) ==
  /\ pc = "ask" /\ Len(live[p]) < N
  /\ \E s \in {run, GivenUp} : live' = [live EXCEPT ![p] = Append(@, s)]
  /\ disk' = live'
  /\ UNCHANGED <<graded, run, pc>>

Whole == \A p \in Problems : Len(live[p]) = N

\* The last write.
Asked ==
  /\ pc = "ask" /\ Whole
  /\ disk' = live /\ pc' = "evaluate"
  /\ UNCHANGED <<live, graded, run>>

\* Mutation: what is in the eval_all file is replaced as well.
EvaluateAll(S) ==
  /\ pc = "evaluate"
  /\ graded' = [p \in Problems |-> IF p \in S THEN live[p] ELSE graded[p]]
  /\ pc' = "done"
  /\ UNCHANGED <<disk, live, run>>

\* What is in the eval_all file is not graded again.  S is the benchmark of the
\* run; it depends on what could be loaded.
Evaluate(S) ==
  /\ pc = "evaluate"
  /\ graded' = [p \in Problems |->
                  IF p \in S /\ graded[p] = Ungraded THEN live[p] ELSE graded[p]]
  /\ pc' = "done"
  /\ UNCHANGED <<disk, live, run>>

Crash == pc \in {"ask", "evaluate"} /\ pc' = "idle" /\ UNCHANGED <<disk, live, graded, run>>

\* The operator deletes the output file between two runs.
RemoveOutput ==
  /\ pc \in {"idle", "done"} /\ disk # NoFile
  /\ disk' = NoFile /\ pc' = "idle"
  /\ UNCHANGED <<live, graded, run>>

Next ==
  \/ Start \/ Asked \/ Crash \/ RemoveOutput
  \/ \E p \in Problems : Ask(p)
  \/ \E S \in SUBSET Problems : Evaluate(S)

Spec == Init /\ [][Next]_vars

-----------------------------------------------------------------------------
Records == [Problems -> SeqOf(0..MaxRuns, N)]

TypeOK ==
  /\ disk \in Records \cup {NoFile}
  /\ live \in Records
  /\ DOMAIN graded = Problems
  /\ run \in 0..MaxRuns /\ pc \in {"idle", "ask", "evaluate", "done"}

\* The two files never contradict each other: the programs a problem was graded
\* with are the first ones of its record in the output file, in their order, and
\* no problem was graded with less than N samples, whatever was interrupted,
\* given up or deleted.
ArchiveBehind ==
  \A p \in Problems : graded[p] # Ungraded =>
    /\ Len(graded[p]) = N
    /\ disk # NoFile => IsPrefix(Useful(graded[p]), Useful(disk[p]))

\* A record in the eval_all file is what it was when it was graded.
GradedStep == \A p \in Problems : graded[p] # Ungraded => graded'[p] = graded[p]

GradedStays == [][GradedStep]_vars

\* README.md:130 "After generation finishes, runs gcc + test cases and valgrind
\* in parallel for every sample": after a run to the end over the whole
\* benchmark the samples in the output file are those that were graded.  A
\* sample that was asked for again, in the place of a call that had been given
\* up when the problem was graded, never is.
EverySample ==
  (pc = "done" /\ \A p \in Problems : graded[p] # Ungraded) => disk = graded
=============================================================================
