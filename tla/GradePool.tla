----------------------------- MODULE GradePool -----------------------------
(***************************************************************************)
(* Grading all samples of all problems: codegen_metrics and                *)
(* evaluate_generations in                                                 *)
(* evaluate/evaluation/compute_code_generation_metrics.py.                 *)
(*                                                                         *)
(* The lists of generations are flattened to one task each, the tasks go   *)
(* to a ProcessPoolExecutor, the main thread takes the futures in the      *)
(* order of their completion, and the verdicts are regrouped by problem.   *)
(* A worker process may die.  That breaks the pool: every future that is   *)
(* not done fails, and submitting one more raises.                         *)
(*                                                                         *)
(* A verdict is named by the generation it is about, so that giving it to  *)
(* another one shows; module Judge says how it comes about.                *)
(***************************************************************************)
EXTENDS Naturals, Sequences, FiniteSets

CONSTANTS
  Problems,    \* number of problems
  Samples,     \* bound: generations of a problem
  Workers,     \* --num_process_evaluate
  Crashed,     \* the verdict given to a task whose future failed
  NotYet       \* no verdict yet

GradePoolAssumption ==
  /\ Problems \in Nat \ {0}
  /\ Samples \in Nat
  /\ Workers \in Nat \ {0}

VARIABLES
  sizes,     \* sizes[p]: how many generations problem p has
  pc,        \* the main thread
  future,    \* future[i]: what the executor knows of task i
  broken,    \* the pool has lost a worker process
  yielded,   \* the futures that as_completed has yielded
  results,   \* results[i], from the loop over as_completed
  graded     \* what codegen_metrics returns: a list of lists

vars == <<sizes, pc, future, broken, yielded, results, graded>>

P == 1..Problems

\* The tasks of problem p, which has n generations.
Row(p, n) == [g \in 1..n |-> [prob |-> p, gen |-> g]]

\* samples_linear and generations_linear: problem by problem.
UpTo(sz) ==
  LET upTo[p \in P] ==
        IF p = 1 THEN Row(1, sz[1]) ELSE upTo[p - 1] \o Row(p, sz[p])
  IN  upTo

Linear(sz) == UpTo(sz)[Problems]

Tasks == Linear(sizes)
Ids == DOMAIN Tasks

\* remap_index
Remap(i) == Tasks[i].prob

-----------------------------------------------------------------------------
Init ==
  /\ sizes \in [P -> 0..Samples]
  /\ pc = "submit"
  /\ future = [i \in Ids |-> "new"] /\ broken = FALSE
  /\ yielded = {}
  /\ results = [i \in Ids |-> NotYet]
  /\ graded = <<>>

In(st) == {i \in Ids : future[i] = st}

\* executor.submit, in the order of the tasks; a broken pool refuses.
Submit(i) ==
  /\ pc = "submit" /\ future[i] = "new" /\ \A j \in In("new") : i <= j
  /\ IF broken
     THEN pc' = "raised" /\ UNCHANGED future
     ELSE pc' = pc /\ future' = [future EXCEPT ![i] = "queued"]
  /\ UNCHANGED <<sizes, broken, yielded, results, graded>>

Submitted ==
  /\ pc = "submit" /\ In("new") = {}
  /\ pc' = "collect"
  /\ UNCHANGED <<sizes, future, broken, yielded, results, graded>>

\* A worker process takes the next task of the queue ...
Take(i) ==
  /\ ~broken
  /\ future[i] = "queued" /\ \A j \in In("queued") : i <= j
  /\ Cardinality(In("running")) < Workers
  /\ future' = [future EXCEPT ![i] = "running"]
  /\ UNCHANGED <<sizes, pc, broken, yielded, results, graded>>

\* ... and has judged it, or raised (no manager could be started, bad JSON).
Judged(i) ==
  /\ ~broken /\ future[i] = "running"
  /\ \E st \in {"done", "failed"} : future' = [future EXCEPT ![i] = st]
  /\ UNCHANGED <<sizes, pc, broken, yielded, results, graded>>

\* Mutation: the tasks that are still queued are not told.
WorkerDiesQuietly ==
  /\ ~broken /\ Ids \ In("new") # {}
  /\ broken' = TRUE
  /\ future' = [i \in Ids |-> IF future[i] = "running" THEN "failed" ELSE future[i]]
  /\ UNCHANGED <<sizes, pc, yielded, results, graded>>

\* A worker process is gone: the executor fails every future that is not done.
WorkerDies ==
  /\ ~broken /\ Ids \ In("new") # {}
  /\ broken' = TRUE
  /\ future' = [i \in Ids |-> IF future[i] \in {"queued", "running"}
                              THEN "failed" ELSE future[i]]
  /\ UNCHANGED <<sizes, pc, yielded, results, graded>>

\* Mutation: results are numbered as they come in.
SlotByArrival(i) == CHOOSE j \in Ids :
  results[j] = NotYet /\ \A k \in Ids : results[k] = NotYet => j <= k

\* index = futures[future]
Slot(i) == i

\* future.result(), or what the except clause puts in its place
Verdict(i) == IF future[i] = "done" THEN Tasks[i] ELSE Crashed

\* as_completed yields a future, once.
Collect(i) ==
  /\ pc = "collect" /\ future[i] \in {"done", "failed"} /\ i \notin yielded
  /\ yielded' = yielded \cup {i}
  /\ results' = [results EXCEPT ![Slot(i)] = Verdict(i)]
  /\ UNCHANGED <<sizes, pc, future, broken, graded>>

NoLists == [p \in P |-> <<>>]

\* results[remap_index[idx]].append(...), idx by idx.
Appended ==
  LET after[i \in Ids] ==
        [(IF i = 1 THEN NoLists ELSE after[i - 1])
           EXCEPT ![Remap(i)] = Append(@, results[i])]
  IN  after

\* A list for each problem.
Regrouped == IF Ids = {} THEN NoLists ELSE Appended[Len(Tasks)]

\* The keys of the dictionary: nothing was appended for the others.
Keys == {p \in P : Regrouped[p] # <<>>}

\* sorted(list(metadatas.keys()))[k - 1]
NthKey(k) == CHOOSE p \in Keys : Cardinality({q \in Keys : q < p}) = k - 1

\* The lists of the problems that have any, in the order of the problems.
Grouped == [k \in 1..Cardinality(Keys) |-> Regrouped[NthKey(k)]]

\* assert len(final_metadata[i]) == len(generations_list[0])
SameLengths(lists) == \A k \in DOMAIN lists : Len(lists[k]) = sizes[1]

Regroup ==
  /\ pc = "collect" /\ yielded = Ids
  /\ IF SameLengths(Grouped)
     THEN pc' = "returned" /\ graded' = Grouped
     ELSE pc' = "raised" /\ UNCHANGED graded
  /\ UNCHANGED <<sizes, future, broken, yielded, results>>

Main ==
  \/ \E i \in Ids : Submit(i) \/ Collect(i)
  \/ Submitted \/ Regroup

Worker == \E i \in Ids : Take(i) \/ Judged(i)

Next == Main \/ Worker \/ WorkerDies

Spec == Init /\ [][Next]_vars

(* The main thread runs, and so does a worker: a judgement always comes to *)
(* its end (Judge!Settles).  Nobody promises that a worker dies.           *)
Fairness == WF_vars(Main) /\ WF_vars(Worker)

FairSpec == Spec /\ Fairness
-----------------------------------------------------------------------------
TypeOK ==
  /\ sizes \in [P -> 0..Samples]
  /\ pc \in {"submit", "collect", "returned", "raised"}
  /\ future \in [Ids -> {"new", "queued", "running", "done", "failed"}]
  /\ Cardinality(In("running")) <= Workers
  /\ broken \in BOOLEAN /\ yielded \subseteq Ids
  /\ results \in [Ids -> {Tasks[i] : i \in Ids} \cup {Crashed, NotYet}]

(* Where every problem has samples, the list that is returned for it has   *)
(* one verdict for each of them, in their order: the verdict of that very  *)
(* sample if it was judged, though the pool may have broken later, and a   *)
(* crash otherwise (lines 289-298, 353-363).                               *)
OwnVerdicts ==
  (pc = "returned" /\ \A p \in P : sizes[p] > 0) =>
    /\ Len(graded) = Problems
    /\ \A p \in P : Len(graded[p]) = sizes[p]
    /\ \A i \in Ids : graded[Tasks[i].prob][Tasks[i].gen] =
                        IF future[i] = "done" THEN Tasks[i] ELSE Crashed

(* Grading raises only when the pool broke during the submission or when   *)
(* the problems do not have equally many samples: with what                *)
(* SampleStore!EvaluatesWhole promises the assertion on line 378 holds.    *)
AssertionHolds ==
  pc = "raised" =>
    \/ broken /\ In("new") # {}
    \/ \E p \in P : sizes[p] # sizes[1]

(* Grading ends, with the verdicts or by an exception, whoever dies.       *)
Ended == pc \in {"returned", "raised"}

Ends == <>Ended
=============================================================================
