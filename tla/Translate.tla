----------------------------- MODULE Translate -----------------------------
(***************************************************************************)
(* The translation of Python problems to C (iteration_translation): ask a  *)
(* model, run what it answers in the sandbox, ask again with the feedback. *)
(*                                                                         *)
(*   "apps"   pipeline.py: the answer brings code and test; both are       *)
(*            compiled into one program, which has to exit with 0          *)
(*   "lcb"    pipeline_lcb.py with debug off: the answer's code is run on  *)
(*            the problem's own inputs                                     *)
(*                                                                         *)
(* The threads of the pool share one LLMAdapter.  Its completion keeps the *)
(* response in a global variable between the assignment and the read.      *)
(* Files are sets of appended records: write_lock makes an append one step. *)
(***************************************************************************)
EXTENDS Naturals, FiniteSets

CONSTANTS
  Pipeline,   \* "apps" or "lcb"
  Tasks,      \* the problems
  Workers,    \* n_workers
  Retries,    \* retry_cnt
  Tests,      \* number of inputs of a problem ("lcb")
  Nothing     \* no response, no answer, no retry

(* What an answer is worth when it is run for the task it was asked for:   *)
(* right; wrong in some test; not compilable, or no tags in it; it cannot  *)
(* even be tried (gcc exceeds its time in run_code_snip, eval of the       *)
(* config raises).                                                         *)
Quality == {"right", "partly", "broken", "untriable"}
Answer == [task : Tasks, quality : Quality]

ASSUME TranslateAssumption ==
  /\ Pipeline \in {"apps", "lcb"}
  /\ IsFiniteSet(Tasks)
  /\ Workers \in Nat \ {0}
  /\ Retries \in Nat
  /\ Tests \in Nat \ {0}
  /\ Nothing \notin Answer

VARIABLES
  pc,         \* pc[t]: where the thread that has task t is
  attempt,    \* attempt[t]: 0, then 1 + the index of the retry
  compl_resp, \* the global variable of LLM_adapter.py
  answer,     \* answer[t]: what completion returned
  sample,     \* sample[t]: the Sample object
  output,     \* config['dataset']['output']
  elsewhere   \* the file of the argument output_path, if it is another one

vars == <<pc, attempt, compl_resp, answer, sample, output, elsewhere>>

NewSample == [code |-> Nothing, retry |-> Nothing, result |-> "failed", passed |-> 0]

Init ==
  /\ pc = [t \in Tasks |-> "queued"]
  /\ attempt = [t \in Tasks |-> 0]
  /\ compl_resp = Nothing
  /\ answer = [t \in Tasks |-> Nothing]
  /\ sample = [t \in Tasks |-> NewSample]
  /\ output = {} /\ elsewhere = {}

Busy == {t \in Tasks : pc[t] \in {"asking", "received", "verify", "write", "raised"}}

\* A thread of the executor begins process_sample.
Begin(t) ==
  /\ pc[t] = "queued" /\ Cardinality(Busy) < Workers
  /\ pc' = [pc EXCEPT ![t] = "asking"]
  /\ UNCHANGED <<attempt, compl_resp, answer, sample, output, elsewhere>>

\* compl_resp = client.chat.completions.create(...)
Respond(t) ==
  /\ pc[t] = "asking"
  /\ \E q \in Quality : compl_resp' = [task |-> t, quality |-> q]
  /\ pc' = [pc EXCEPT ![t] = "received"]
  /\ UNCHANGED <<attempt, answer, sample, output, elsewhere>>

\* Mutation: a task whose call raises goes back to the queue.
CallRequeues(t) ==
  /\ pc[t] = "asking"
  /\ pc' = [pc EXCEPT ![t] = "queued"]
  /\ UNCHANGED <<attempt, compl_resp, answer, sample, output, elsewhere>>

CallRaises(t) ==
  /\ pc[t] = "asking"
  /\ pc' = [pc EXCEPT ![t] = "raised"]
  /\ UNCHANGED <<attempt, compl_resp, answer, sample, output, elsewhere>>

\* return compl_resp.choices[0].message.content
Return(t) ==
  /\ pc[t] = "received"
  /\ answer' = [answer EXCEPT ![t] = compl_resp]
  /\ pc' = [pc EXCEPT ![t] = "verify"]
  /\ UNCHANGED <<attempt, compl_resp, sample, output, elsewhere>>

-----------------------------------------------------------------------------
(* run_code_snip on the answer's code and its own test: an answer is as    *)
(* good for one task as for another.                                       *)
SnipPasses(a) == IF a.quality = "right" THEN Tests ELSE 0

(* sandbox_run on the problem's inputs, which tell its translation from    *)
(* another's.  Each input has a process of its own, and one that exceeds   *)
(* its time or raises is an input that is not passed.                      *)
InputsPassed(t, a) ==
  CASE a.quality = "right" /\ a.task = t -> Tests
    [] a.quality = "partly" -> Tests - 1
    [] OTHER -> 0

Passed(t, a) == IF Pipeline = "apps" THEN SnipPasses(a) ELSE InputsPassed(t, a)

Success(t) == Passed(t, answer[t]) = Tests

\* Mutation: a retry stores its verdict and keeps the code of the first one.
StoredVerdict(t) ==
  [code |-> IF attempt[t] = 0 THEN answer[t] ELSE sample[t].code,
   retry |-> attempt[t], passed |-> Passed(t, answer[t]),
   result |-> IF Success(t) THEN "success" ELSE IF attempt[t] = 0 THEN "failed" ELSE "failure"]

\* The index of the retry; a first attempt that passes is 0 as well.
RetryCnt(t) == CASE attempt[t] > 0 -> attempt[t] - 1
                 [] attempt[t] = 0 /\ Success(t) -> 0
                 [] OTHER -> Nothing

\* The first attempt is stored only when it passes, and a retry always.
StoredApps(t) ==
  IF attempt[t] = 0 /\ ~Success(t) THEN NewSample
  ELSE [code |-> answer[t], retry |-> RetryCnt(t), passed |-> 0,
        result |-> IF Success(t) THEN "success" ELSE "failed"]

\* The first attempt is stored before it is run, and without a pass rate.
StoredLcb(t) ==
  [code |-> answer[t], retry |-> RetryCnt(t),
   passed |-> IF Success(t) \/ attempt[t] > 0 THEN Passed(t, answer[t]) ELSE 0,
   result |-> CASE Success(t) -> "success"
                [] ~Success(t) /\ attempt[t] = 0 -> "failed"
                [] OTHER -> "failure"]

Stored(t) == IF Pipeline = "apps" THEN StoredApps(t) ELSE StoredLcb(t)

\* Run the answer; keep it, or go on to the next retry if there is one.
Verify(t) ==
  /\ pc[t] = "verify" /\ answer[t].quality # "untriable"
  /\ sample' = [sample EXCEPT ![t] = Stored(t)]
  /\ IF Success(t) \/ attempt[t] = Retries
     THEN pc' = [pc EXCEPT ![t] = "write"] /\ UNCHANGED attempt
     ELSE /\ pc' = [pc EXCEPT ![t] = "asking"]
          /\ attempt' = [attempt EXCEPT ![t] = @ + 1]
  /\ UNCHANGED <<compl_resp, answer, output, elsewhere>>

(* The run itself raises.  The first attempt of "lcb" has stored the       *)
(* answer's code before; in every other case the Sample is as it was.      *)
VerifyRaises(t) ==
  /\ pc[t] = "verify" /\ answer[t].quality = "untriable"
  /\ pc' = [pc EXCEPT ![t] = "raised"]
  /\ sample' = IF Pipeline = "lcb" /\ attempt[t] = 0
               THEN [sample EXCEPT ![t].code = answer[t]] ELSE sample
  /\ UNCHANGED <<attempt, compl_resp, answer, output, elsewhere>>

Record(t, s) == [task |-> t, code |-> s.code, result |-> s.result, passed |-> s.passed]

(* write_jsonl under write_lock.  main() of pipeline.py leaves output_path *)
(* at its default, which only a retried sample is written to.              *)
Write(t) ==
  /\ pc[t] = "write"
  /\ IF Pipeline = "apps" /\ ~(attempt[t] = 0 /\ sample[t].result = "success")
     THEN elsewhere' = elsewhere \cup {Record(t, sample[t])} /\ UNCHANGED output
     ELSE output' = output \cup {Record(t, sample[t])} /\ UNCHANGED elsewhere
  /\ pc' = [pc EXCEPT ![t] = "done"]
  /\ UNCHANGED <<attempt, compl_resp, answer, sample>>

\* The except clause; "apps" writes no code, "lcb" the Sample as it is.
WriteError(t) ==
  /\ pc[t] = "raised"
  /\ LET s == IF Pipeline = "apps" THEN NewSample ELSE sample[t]
     IN  output' = output \cup {[Record(t, s) EXCEPT !.result = "error"]}
  /\ pc' = [pc EXCEPT ![t] = "done"]
  /\ UNCHANGED <<attempt, compl_resp, answer, sample, elsewhere>>

Step(t) ==
  \/ Begin(t) \/ Respond(t) \/ CallRaises(t) \/ Return(t)
  \/ Verify(t) \/ VerifyRaises(t) \/ Write(t) \/ WriteError(t)

Next == \E t \in Tasks : Step(t)

Spec == Init /\ [][Next]_vars

\* Calls return or raise, sandbox runs are limited, and every thread runs.
Fairness == \A t \in Tasks : WF_vars(Step(t))

FairSpec == Spec /\ Fairness
-----------------------------------------------------------------------------
Records == output \cup elsewhere
Finished == {t \in Tasks : pc[t] = "done"}

Sample ==
  [code : Answer \cup {Nothing}, retry : 0..Retries \cup {Nothing},
   result : {"success", "failed", "failure"}, passed : 0..Tests]
RecordType ==
  [task : Tasks, code : Answer \cup {Nothing},
   result : {"success", "failed", "failure", "error"}, passed : 0..Tests]

TypeOK ==
  /\ pc \in [Tasks -> {"queued", "asking", "received", "verify", "write", "raised", "done"}]
  /\ attempt \in [Tasks -> 0..Retries]
  /\ compl_resp \in Answer \cup {Nothing}
  /\ answer \in [Tasks -> Answer \cup {Nothing}]
  /\ sample \in [Tasks -> Sample]
  /\ output \in SUBSET RecordType /\ elsewhere \in SUBSET RecordType

(* README.md:263 "Each example is translated with a configurable few-shot  *)
(* prompt, then verified by the same sandbox before being kept": what is   *)
(* kept as a success is a translation of that very example, and it passed. *)
VerifiedOwn ==
  \A r \in Records : r.result = "success" =>
    r.code # Nothing /\ r.code.task = r.task /\ r.code.quality = "right"

(* The verdict and the pass rate of a record are those of the code it      *)
(* carries: it is a success exactly when its code passes every test, and a *)
(* record of a retry that did not pass has the rate of its own code, not   *)
(* of an earlier one (pipeline_lcb.py, lines 385-403).                     *)
RecordIsOfItsCode ==
  \A r \in Records :
    /\ r.result = "success" => Passed(r.task, r.code) = Tests
    /\ r.result = "failure" => Passed(r.task, r.code) = r.passed /\ r.passed < Tests
    /\ r.result = "error" => r.passed < Tests /\ (r.passed = 0 \/ r.passed = Passed(r.task, r.code))

(* Every example ends in exactly one record, a success, a failure or an    *)
(* error, however its attempts went and whoever wrote at the same time.    *)
OneRecord ==
  \A t \in Tasks :
    Cardinality({r \in output : r.task = t}) + Cardinality({r \in elsewhere : r.task = t})
      = IF t \in Finished THEN 1 ELSE 0

(* What is kept of every example is its own, once, with its own verdict.    *)
TranslationsRight == VerifiedOwn /\ RecordIsOfItsCode /\ OneRecord

(* pipeline.py:275 "All results written to {config['dataset']['output']}". *)
AllInOutput == Finished = Tasks => elsewhere = {}

(* Every example is recorded in the end, whatever the model answers.       *)
AllFinished == Finished = Tasks

Ends == <>AllFinished
-----------------------------------------------------------------------------
(***************************************************************************)
(* The inductive invariant behind TranslationsRight.  It follows the       *)
(* answer: from the shared variable to the thread (Asked), to its Sample   *)
(* (Samples), to the records.                                              *)
(***************************************************************************)
Early == {"queued", "asking", "received", "verify"}

\* With one thread nobody else is between the assignment and the read.
Alone == Workers = 1 => \A t, u \in Busy : t = u

\* Whether answer a was asked for task t, where that can be told.
Own(t, a) == a \in Answer /\ (Pipeline = "apps" /\ Workers = 1 => a.task = t)

Asked ==
  \A t \in Tasks :
    /\ pc[t] = "received" => Own(t, compl_resp)
    /\ pc[t] = "verify" => Own(t, answer[t])

\* A verdict s that the task t may still leave behind as an error, and one to be written.
Harmless(t, s) ==
  /\ s.result # "success" /\ s.passed < Tests
  /\ s.passed = 0 \/ s.passed = Passed(t, s.code)

Deserved(t, s) ==
  /\ s.result = "success" => Own(t, s.code) /\ Passed(t, s.code) = Tests
  /\ s.result = "failure" => Passed(t, s.code) = s.passed /\ s.passed < Tests

Samples ==
  \A t \in Tasks :
    /\ pc[t] \in Early /\ attempt[t] = 0 => sample[t] = NewSample
    /\ pc[t] \in Early \cup {"raised"} => Harmless(t, sample[t])
    /\ pc[t] = "write" => Deserved(t, sample[t])

Of(t, f) == {r \in f : r.task = t}

\* OneRecord, in terms of sets.
Once ==
  \A t \in Tasks :
    IF pc[t] = "done"
    THEN \/ Of(t, elsewhere) = {} /\ \E r \in output : Of(t, output) = {r}
         \/ Of(t, output) = {} /\ \E r \in elsewhere : Of(t, elsewhere) = {r}
    ELSE Of(t, output) = {} /\ Of(t, elsewhere) = {}

\* The inductive invariant.
IndInv ==
  /\ TypeOK /\ Alone /\ Asked /\ Samples /\ Once /\ RecordIsOfItsCode
  /\ Pipeline = "lcb" \/ Workers = 1 => VerifiedOwn
=============================================================================
