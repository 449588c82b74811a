----------------------------- MODULE CustomEval -----------------------------
(***************************************************************************)
(* evaluate/custom_evaluate.py: grade the records of a file that is there  *)
(* already and write the evaluation files beside it.  The file may be the  *)
(* output of a campaign that was interrupted: a record may be empty.       *)
(*                                                                         *)
(* The grading is GradePool's: one list of verdicts for every problem with *)
(* samples, in the order of the problems, and none for a problem without.  *)
(* A verdict stands for itself: the problem it is about.                   *)
(***************************************************************************)
EXTENDS Naturals, Sequences, SequencesExt, FiniteSets

CONSTANTS
  Ids,       \* question ids, numbers in the order of their strings
  MaxLines,  \* bound: lines of the file
  MaxCodes,  \* bound: codes of a record
  NoFile     \* no such file

CustomEvalAssumption == Ids \subseteq Nat /\ MaxLines \in Nat /\ MaxCodes \in Nat

VARIABLES
  shape,   \* the lines are records or bare lists of codes
  lines,   \* the custom output file
  bench,   \* the ids of the benchmark that was loaded
  pc,
  graded,  \* what the grading returns
  files    \* output, eval and eval_all file

vars == <<shape, lines, bench, pc, graded, files>>

Init ==
  /\ shape \in {"records", "lists"}
  /\ lines \in SeqOf([id : Ids, codes : 0..MaxCodes], MaxLines)
  /\ bench \in SUBSET Ids
  /\ pc = "read" /\ graded = <<>>
  /\ files = [output |-> NoFile, eval |-> NoFile, eval_all |-> NoFile]

Goes(to) == pc' = to /\ UNCHANGED <<shape, lines, bench>>

\* The elements of a sequence that are in T, in their order.
Kept(s, T) ==
  LET first[n \in 0..Len(s)] ==
        IF n = 0 THEN <<>>
        ELSE IF s[n] \in T THEN Append(first[n - 1], s[n]) ELSE first[n - 1]
  IN  first[Len(s)]

\* custom_outputs and benchmark after both loops
Outputs == Kept(lines, [id : bench, codes : 0..MaxCodes])
Known == bench \cap {lines[i].id : i \in DOMAIN lines}
Benchmark ==
  [i \in 1..Cardinality(Known) |->
     CHOOSE id \in Known : Cardinality({k \in Known : k <= id}) = i]

-----------------------------------------------------------------------------
\* x["question_id"] of a list raises, and so does custom_outputs[0] of none; one
\* that occurs twice makes the lengths differ.
Rejects ==
  /\ pc = "read"
  /\ shape = "lists" \/ Len(Outputs) # Cardinality(Known) \/ Outputs = <<>>
  /\ Goes("raised") /\ UNCHANGED <<graded, files>>

\* custom_outputs_dict[qid]
Codes(id) == Outputs[CHOOSE i \in DOMAIN Outputs : Outputs[i].id = id].codes

\* GradePool: the verdicts of the problems that have any, in their order.
Verdicts ==
  LET some == Kept(Benchmark, {id \in Known : Codes(id) > 0})
  IN  [i \in DOMAIN some |-> [j \in 1..Codes(some[i]) |-> some[i]]]

Accepts == shape = "records" /\ Len(Outputs) = Cardinality(Known) /\ Outputs # <<>>

\* GradePool!SameLengths: as many verdicts as the first problem has codes.
GradingRaises ==
  /\ pc = "read" /\ Accepts
  /\ \E i \in DOMAIN Verdicts : Len(Verdicts[i]) # Codes(Benchmark[1])
  /\ Goes("raised") /\ UNCHANGED <<graded, files>>

Grade ==
  /\ pc = "read" /\ Accepts
  /\ \A i \in DOMAIN Verdicts : Len(Verdicts[i]) = Codes(Benchmark[1])
  /\ graded' = Verdicts
  /\ Goes("attach") /\ UNCHANGED files

\* Mutation: a missing list of verdicts is empty, like one of safe_results.
Lenient == TRUE

\* graded[idx] and metadatas[idx] exist, and no list is divided by its length 0.
Fits == \A i \in DOMAIN Benchmark : i \in DOMAIN graded /\ graded[i] # <<>>

\* The verdicts are put beside the codes, by position.
Attach ==
  /\ pc = "attach"
  /\ IF Fits THEN Goes("output") ELSE Goes("raised")
  /\ UNCHANGED <<graded, files>>

Entry(i) ==
  [id |-> Benchmark[i], codes |-> Codes(Benchmark[i]),
   verdicts |-> IF i \in DOMAIN graded THEN graded[i] ELSE <<>>]
Entries == [i \in DOMAIN Benchmark |-> Entry(i)]
Plain == [i \in DOMAIN Benchmark |-> [id |-> Benchmark[i], codes |-> Codes(Benchmark[i])]]

\* A file with the suffix .jsonl is its own output; otherwise one is written.
WriteOutput ==
  /\ pc = "output"
  /\ \/ files' = [files EXCEPT !.output = Plain]
     \/ UNCHANGED files
  /\ Goes("eval") /\ UNCHANGED graded

\* One line with the metrics: the verdicts of every problem.
EvalLine == graded

WriteEval ==
  /\ pc = "eval"
  /\ files' = [files EXCEPT !.eval = EvalLine]
  /\ Goes("eval_all") /\ UNCHANGED graded

WriteEvalAll ==
  /\ pc = "eval_all"
  /\ files' = [files EXCEPT !.eval_all = Entries]
  /\ Goes("done") /\ UNCHANGED graded

Next == Rejects \/ GradingRaises \/ Grade \/ Attach \/ WriteOutput \/ WriteEval \/ WriteEvalAll

Spec == Init /\ [][Next]_vars

-----------------------------------------------------------------------------
TypeOK ==
  /\ pc \in {"read", "attach", "output", "eval", "eval_all", "done", "raised"}
  /\ Len(graded) <= Cardinality(Known)

\* Every verdict in the eval_all file is about a code of its problem, and the
\* metrics in the eval file are of the same verdicts: an empty record, whose
\* problem has no list, can only be the reason that nothing is written.
WrittenIsOwn ==
  files.eval_all # NoFile =>
    /\ \A i \in DOMAIN files.eval_all :
         LET e == files.eval_all[i]
         IN  e.verdicts = [j \in 1..e.codes |-> e.id]
    /\ files.eval = [i \in DOMAIN files.eval_all |-> files.eval_all[i].verdicts]

\* Nothing is written before all of it is known to fit.
AllOrNothing ==
  (files.eval # NoFile \/ files.output # NoFile) =>
    /\ \A i \in DOMAIN lines : lines[i].id \in bench => lines[i].codes > 0
    /\ pc # "raised"

\* custom_evaluate.py:88 asserts that what is not a record is a list of codes:
\* a file of such lists is evaluated.  It never gets there, since the lines are
\* asked for their question_id first.
ListsAreTaken == shape = "lists" => pc # "raised"
=============================================================================
