------------------------------- MODULE Reward -------------------------------
(***************************************************************************)
(* The reward of a completion in training: compute_score in                *)
(* train/cppcheck.py, which train_trl.py calls, and in its copy            *)
(* verl/verl/utils/reward_score/cppcheck.py.  The program is taken from    *)
(* the completion, run on the tests, and run under valgrind; the reward is *)
(* 1 for a right program, and more or less by its memory errors.           *)
(*                                                                         *)
(* The tests come as text or as a dictionary: train_trl.py parses them,    *)
(* the data set made by iteration_translation/construct_verl_dataset.py    *)
(* and the example at the end of both files hold text.  The two files      *)
(* differ only behind the tests.  A reward is counted in twentieths.       *)
(***************************************************************************)
EXTENDS Integers, Sequences

CONSTANTS
  Files,    \* "trl" for train/cppcheck.py, "verl" for the copy
  Forms,    \* the forms of extra_info["input_output"] that occur
  Tests,    \* number of tests
  Fences,   \* bound: lines with ``` in a completion
  None      \* nothing yet

RewardAssumption ==
  /\ Files \subseteq {"trl", "verl"}
  /\ Forms \subseteq {"text", "dict"}
  /\ Tests \in Nat \ {0}

VARIABLES
  comp,    \* the completion: it does not change
  form,    \* how the tests come
  file,    \* whose compute_score it is
  pc,
  code,    \* what extract_code returns
  res,     \* run_res
  audit,   \* what get_valgrind_errors has found, and whether valgrind ran
  reward

vars == <<comp, form, file, pc, code, res, audit, reward>>

T == 1..Tests

Completion == [fences : 0..Fences, compiles : BOOLEAN, right : [T -> BOOLEAN]]

Init ==
  /\ comp \in Completion /\ form \in Forms /\ file \in Files
  /\ pc = "extract" /\ code = None
  /\ res = <<>> /\ audit = None /\ reward = None

-----------------------------------------------------------------------------
\* What is between the last two lines with a fence: with an odd number of them
\* this is the text between two programs.
Extract ==
  /\ pc = "extract"
  /\ code' = CASE comp.fences < 2     -> "empty"
               [] comp.fences % 2 = 0 -> "program"
               [] OTHER               -> "prose"
  /\ pc' = "compile"
  /\ UNCHANGED <<comp, form, file, res, audit, reward>>

Compiles == code = "program" /\ comp.compiles

Tested(v) ==
  /\ res' = v /\ pc' = "audit"
  /\ UNCHANGED <<comp, form, file, code, audit, reward>>

\* Mutation: what cannot be read has no failed test.
UnreadablePasses == pc = "compile" /\ form = "text" /\ Tested(<<>>)

\* json.dumps of a text and json.loads give the text: in_outs["inputs"] raises.
Unreadable == pc = "compile" /\ form = "text" /\ Tested(<<-4>>)

Compile ==
  /\ pc = "compile" /\ form = "dict" /\ Compiles
  /\ pc' = "test"
  /\ UNCHANGED <<comp, form, file, code, res, audit, reward>>

Refused == pc = "compile" /\ form = "dict" /\ ~Compiles /\ Tested(<<-1>>)
CompileTimesOut == pc = "compile" /\ form = "dict" /\ Tested(<<-3>>)

\* The next test, and the first that fails is the last.
Test ==
  LET t == Len(res) + 1
  IN  /\ pc = "test"
      /\ \/ ~comp.right[t] /\ Tested(Append(res, -2))
         \/ comp.right[t] /\ t = Tests /\ Tested(Append(res, 1))
         \/ /\ comp.right[t] /\ t < Tests /\ res' = Append(res, 1)
            /\ UNCHANGED <<comp, form, file, pc, code, audit, reward>>

\* One code takes the place of all verdicts.
TestTimesOut == pc = "test" /\ Tested(<<-3>>)
TestRaises == pc = "test" /\ Tested(<<-4>>)

\* all(x is True for x in run_res)
Passed == \A i \in DOMAIN res : res[i] = 1

-----------------------------------------------------------------------------
(* get_valgrind_errors compiles the program once more.  Then disable_core,  *)
(* which is to run before valgrind, names a module that is not imported:    *)
(* subprocess.run raises at the first input, whatever the inputs are, and   *)
(* the counts so far, which are zero, are returned.                         *)
Audited(a) ==
  /\ audit' = a /\ pc' = "score"
  /\ UNCHANGED <<comp, form, file, code, res, reward>>

AuditRefused == pc = "audit" /\ file = "verl" /\ ~Compiles /\ Audited("compile error")
AuditTimesOut == pc = "audit" /\ file = "verl" /\ Audited("timeout")
AuditRaises == pc = "audit" /\ file = "verl" /\ Compiles /\ Audited("not run")

\* json.loads of a dictionary, or the missing argument timeout of the call.
Raise ==
  /\ pc = "audit" /\ file = "trl"
  /\ pc' = "raised"
  /\ UNCHANGED <<comp, form, file, code, res, audit, reward>>

\* 1.0, and 0.2 more without memory errors; the counts are zero (see above).
Score ==
  /\ pc = "score"
  /\ reward' = IF Passed THEN 20 + 4 ELSE 0
  /\ pc' = "done"
  /\ UNCHANGED <<comp, form, file, code, res, audit>>

Next ==
  \/ Extract \/ Unreadable \/ Compile \/ Refused \/ CompileTimesOut
  \/ Test \/ TestTimesOut \/ TestRaises
  \/ AuditRefused \/ AuditTimesOut \/ AuditRaises \/ Raise \/ Score

Spec == Init /\ [][Next]_vars
-----------------------------------------------------------------------------
TypeOK ==
  /\ comp \in Completion /\ form \in Forms /\ file \in Files
  /\ pc \in {"extract", "compile", "test", "audit", "score", "raised", "done"}
  /\ code \in {None, "empty", "prose", "program"}
  /\ Len(res) <= Tests /\ \A i \in DOMAIN res : res[i] \in -4..1
  /\ audit \in {None, "compile error", "timeout", "not run"}
  /\ (reward # None) = (pc = "done")

Right == comp.compiles /\ \A t \in T : comp.right[t]

(* A reward is given only for a right program in a closed block of code,   *)
(* whatever times out, raises or cannot be read (cppcheck.py 32-37,        *)
(* 238-382).                                                               *)
OnlyRightIsRewarded ==
  pc = "done" /\ reward > 0 => Right /\ comp.fences >= 2 /\ comp.fences % 2 = 0

(* verl/.../cppcheck.py:387 (the example: tests are text): a right program *)
(* that nothing has kept from being run is rewarded.                       *)
RightIsRewarded ==
  pc = "done" /\ Right /\ comp.fences = 2 /\ -3 \notin {res[i] : i \in DOMAIN res}
    => reward > 0

(* cppcheck.py:177 "run the program with valgrind": after an audit that    *)
(* names neither a compile error nor a timeout, valgrind has run.          *)
AuditRuns == audit # "not run"

(* train/cppcheck.py:361 "-> float": compute_score returns a number.       *)
Returns == pc # "raised"
=============================================================================
