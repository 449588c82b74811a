---------------------------- MODULE AppsSandbox ----------------------------
(***************************************************************************)
(* run_c_test of evaluate/sandbox/apps_sandbox.py, with run_code_snip of   *)
(* sandbox.py beside it: a C program and the tests of an APPS problem.     *)
(*                                                                         *)
(*   "signature"  the program and the harness are compiled and run once    *)
(*   "stdio"      the program is run on every input; all of them are run,  *)
(*                whatever the ones before have shown                      *)
(*                                                                         *)
(* When an output is the expected one is the subject of Compare.           *)
(***************************************************************************)
EXTENDS Integers, Sequences

CONSTANTS
  Kinds,     \* the kinds of problems that occur
  MaxTests   \* bound: inputs or outputs of a problem

AppsSandboxAssumption ==
  /\ Kinds \subseteq {"signature", "stdio"}
  /\ MaxTests \in Nat

(* What a run of the program would do on an input. *)
Behaviours == {"right", "wrong", "fails", "hangs"}

VARIABLES
  kind,
  inputs,    \* what the program would do on every input
  outputs,   \* number of expected outputs
  checks,    \* an expected_signature_output is given
  pc,
  dirs,      \* temporary directories that exist
  results    \* the list that is returned

vars == <<kind, inputs, outputs, checks, pc, dirs, results>>

Init ==
  /\ kind \in Kinds /\ checks \in BOOLEAN
  /\ outputs \in 0..MaxTests
  /\ \E n \in 0..MaxTests : inputs \in [1..(IF kind = "stdio" THEN n ELSE 1) -> Behaviours]
  /\ pc = "start" /\ dirs = 0 /\ results = <<>>

Goes(to, d, r) ==
  /\ pc' = to /\ dirs' = d /\ results' = r
  /\ UNCHANGED <<kind, inputs, outputs, checks>>

\* [v] * num_inputs
Times(v) == [i \in 1..(IF inputs = <<>> THEN 1 ELSE Len(inputs)) |-> v]

-----------------------------------------------------------------------------
(* "stdio" *)
\* The counts are compared only when there are inputs.
Mismatch ==
  /\ kind = "stdio" /\ pc = "start"
  /\ inputs # <<>> /\ outputs # Len(inputs)
  /\ Goes("done", dirs, <<-3>>)

MakeDir ==
  /\ pc = "start"
  /\ kind = "stdio" => inputs = <<>> \/ outputs = Len(inputs)
  /\ Goes("compile", dirs + 1, results)

\* gcc refuses, or takes longer than its limit.
NotCompiled ==
  /\ kind = "stdio" /\ pc = "compile"
  /\ Goes("done", dirs - 1, Times(-2))

\* gcc cannot be started: the exception goes to the caller.
NoCompiler ==
  /\ kind = "stdio" /\ pc = "compile"
  /\ Goes("raised", dirs, results)

Compiled ==
  /\ kind = "stdio" /\ pc = "compile"
  /\ IF inputs = <<>> THEN Goes("done", dirs - 1, <<>>) ELSE Goes("run", dirs, results)

\* TRUE and FALSE stand beside the negative codes: 1 and 0.
Code(b) == CASE b = "right" -> 1 [] b = "wrong" -> 0 [] OTHER -> -1

\* Mutation: the loop ends with the first input that is not right.
StopAtFirst ==
  /\ kind = "stdio" /\ pc = "run"
  /\ LET r == Append(results, Code(inputs[Len(results) + 1]))
     IN  Goes(IF Len(r) = Len(inputs) \/ r[Len(r)] # 1 THEN "clean" ELSE "run", dirs, r)

RunTest ==
  /\ kind = "stdio" /\ pc = "run"
  /\ LET r == Append(results, Code(inputs[Len(results) + 1]))
     IN  Goes(IF Len(r) = Len(inputs) THEN "clean" ELSE "run", dirs, r)

RemoveTree == pc = "clean" /\ Goes("done", dirs - 1, results)

-----------------------------------------------------------------------------
(* "signature": run_code_snip does not remove its directory. *)
\* The exception of a gcc that takes too long, or cannot be started, is printed,
\* and compilation_result, which has no value then, is read.
SnipUnbound == kind = "signature" /\ pc = "compile" /\ Goes("raised", dirs, results)

SnipRefused == kind = "signature" /\ pc = "compile" /\ Goes("done", dirs, <<-2>>)

\* Exit code 0 is a success, unless there is an output to compare.
SnipCode ==
  LET b == inputs[1]
  IN  CASE b \in {"fails", "hangs"} -> -1
        [] b = "right" \/ (b = "wrong" /\ ~checks) -> 1
        [] OTHER -> 0

SnipRuns == kind = "signature" /\ pc = "compile" /\ Goes("done", dirs, <<SnipCode>>)

Next ==
  \/ Mismatch \/ MakeDir \/ NotCompiled \/ NoCompiler \/ Compiled
  \/ RunTest \/ RemoveTree
  \/ SnipUnbound \/ SnipRefused \/ SnipRuns

Spec == Init /\ [][Next]_vars

\* Every subprocess has a timeout.
Fairness == WF_vars(Next)

FairSpec == Spec /\ Fairness

-----------------------------------------------------------------------------
TypeOK ==
  /\ pc \in {"start", "compile", "run", "clean", "done", "raised"}
  /\ dirs \in 0..1
  /\ results \in Seq(-3..1)

Accepted == pc = "done" /\ results # <<>> /\ \A i \in DOMAIN results : results[i] > 0

\* A program is accepted only if it ended well on every input and printed what
\* was asked for, where something was: neither a timeout, nor a crash, nor a
\* count that does not fit leaves a list without a failure in it.
AcceptedIsRight ==
  Accepted =>
    /\ \A i \in DOMAIN inputs : inputs[i] = "right" \/ (kind = "signature" /\ ~checks /\ inputs[i] = "wrong")
    /\ kind = "stdio" => Len(results) = Len(inputs)

\* The list has a place for each input and each place is about its own input,
\* or it is all of one code: what went wrong before the first run.
Placed ==
  (pc = "done" /\ kind = "stdio" /\ Len(inputs) > 0 /\ outputs = Len(inputs)) =>
    \/ results = [i \in DOMAIN inputs |-> Code(inputs[i])]
    \/ results = Times(-2)

\* A problem of kind "stdio" that is answered leaves no directory behind.
NoneLeft == (pc = "done" /\ kind = "stdio") => dirs = 0

\* Each call ends.
Ended == pc \in {"done", "raised"}

Ends == <>Ended

\* apps_sandbox.py:168 "return [-2]  # Compile error": a program that does not
\* compile gets -2.  When gcc takes too long run_code_snip raises instead.
SnipReturns == kind = "signature" => pc # "raised"
=============================================================================
