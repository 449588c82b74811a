------------------------------- MODULE Judge -------------------------------
(***************************************************************************)
(* How one program is judged: evaluate_generations_by_problem in           *)
(* evaluate/evaluation/compute_code_generation_metrics.py starts two child *)
(* processes, waits for each of them with a timeout, kills what is left    *)
(* and reads what they have put into their shared lists.                   *)
(*                                                                         *)
(*   "corr"  _temp_run: run_test, which compiles and runs every test       *)
(*   "safe"  _temp_run_safe: run_valgrind, the same under valgrind         *)
(*                                                                         *)
(* (evaluate/evaluation/testing_util.py).  The problem is IO_BASED, with   *)
(* the tests 1..Tests, or CALL_BASED, where one main() is the only test;   *)
(* which one is a part of prog.                                            *)
(* A compilation or run may be slow on the day, whatever the program does; *)
(* subprocess.run ends it at its limit.  Time passes in seconds, and no    *)
(* counter of them goes further than what it is compared with.  The four   *)
(* classes of memory errors are one number, of which the code keeps the    *)
(* worst run.  Both axes are always graded: their two options are on by    *)
(* default and cannot be turned off.                                       *)
(***************************************************************************)
EXTENDS Integers, Sequences, FiniteSetsExt

CONSTANTS
  Tests,       \* number of inputs of an IO_BASED problem
  Timeout,     \* --timeout
  PerTest,     \* 10 in (timeout + 10) * len(inputs) + 5
  Margin,      \* 5 there
  CallMargin,  \* 50 in timeout + 50
  GccLimit,    \* 6, the compile timeout of run_code_snip
  RunLimit,    \* 4, the run timeout of run_code_snip
  MaxErrors,   \* bound: memory errors of a run
  None         \* nothing was put into the list, or read from it

\* What run_test returns: a code for every test it came to.
Verdicts == UNION {[1..k -> -4..1] : k \in 0..Tests}

Clean == "clean"   \* metadata without an error code
Metadata == {Clean, "compile error", "wrong answer", "timeout", "exception"}

ASSUME JudgeAssumption ==
  /\ Tests \in Nat \ {0}
  /\ {Timeout, PerTest, Margin, CallMargin, GccLimit, RunLimit} \subseteq Nat \ {0}
  /\ MaxErrors \in Nat
  /\ None \notin Verdicts \cup (0..MaxErrors) \cup Metadata

VARIABLES
  prog,    \* the problem and the program: they do not change
  pc,      \* the parent, in the worker process of the pool
  waited,  \* seconds of its current join
  child,   \* the two child processes
  box,     \* the lists of the manager: what each child has appended
  got,     \* what the parent has read from them
  age      \* seconds from the start of the children, until both joins are over

vars == <<prog, pc, waited, child, box, got, age>>

Children == {"corr", "safe"}

Inputs(kind) == IF kind = "io" THEN 1..Tests ELSE {1}

Kind == prog.kind
T == Inputs(Kind)
Last == IF Kind = "io" THEN Tests ELSE 1

\* What the code returns for a test; True and False are 1 and 0 in gen > 0.
Right == 1
Wrong == IF Kind = "io" THEN -2 ELSE 0

\* The two children compile alike for an IO_BASED problem only: run_code_snip
\* adds headers, -std=c11 and -lm, get_valgrind_errors does not.  Programs
\* that differ in what is never run are one: no test is run after a wrong one.
ProgramOf(kind) ==
  {p \in [kind : {kind}, compiles : [Children -> BOOLEAN],
          right : [Inputs(kind) -> BOOLEAN], errors : [Inputs(kind) -> 0..MaxErrors]] :
     /\ kind = "io" => p.compiles["corr"] = p.compiles["safe"]
     /\ \A t \in Inputs(kind) : p.right[t] => p.compiles["corr"] /\ (t > 1 => p.right[t - 1])
     /\ \A t \in Inputs(kind) : p.errors[t] > 0 => p.compiles["safe"]}

Program == ProgramOf("io") \cup ProgramOf("call")

-----------------------------------------------------------------------------
\* Mutation: one allowance for the whole problem.
JoinTimeoutFlat == IF Kind = "io" THEN Timeout + PerTest + Margin
                   ELSE CallMargin

JoinTimeout == IF Kind = "io" THEN (Timeout + PerTest) * Tests + Margin
               ELSE Timeout + CallMargin

CompileLimit(c) == IF Kind = "call" /\ c = "corr" THEN GccLimit ELSE Timeout
TestLimit(c) == IF Kind = "call" /\ c = "corr" THEN RunLimit ELSE Timeout

Alive(c) == child[c].st \notin {"off", "over"}

\* The subprocess a child waits for has used up its time.
Spent(c) ==
  \/ child[c].st = "compile" /\ child[c].spent >= CompileLimit(c)
  \/ child[c].st = "run" /\ child[c].spent >= TestLimit(c)

\* Mutation: a child without a result has failed no test.
NoVerdictEmpty == <<>>

\* [-1] for every input, or [-1] where the problem has no list of inputs
NoVerdict == [i \in T |-> -1]

\* Mutation: the last run counts, not the worst.
LastOf(m, n) == n
WorstOf(m, n) == IF m > n THEN m ELSE n

-----------------------------------------------------------------------------
Off == [st |-> "off", spent |-> 0, test |-> 1, found |-> None, note |-> None,
        killed |-> FALSE, idle |-> 0]

Empty == [c \in Children |-> [result |-> None, meta |-> None]]

Init ==
  /\ prog \in Program
  /\ pc = "start" /\ waited = 0 /\ age = 0
  /\ child = [c \in Children |-> Off]
  /\ box = Empty /\ got = Empty

\* p_corr.start() and p_safe.start(), and the first join begins.
Start ==
  /\ pc = "start"
  /\ child' = [c \in Children |-> [Off EXCEPT !.st = "boot"]]
  /\ pc' = "join corr"
  /\ UNCHANGED <<prog, waited, box, got, age>>

Expired == waited >= JoinTimeout

JoinCorr ==
  /\ pc = "join corr" /\ (~Alive("corr") \/ Expired)
  /\ pc' = "join safe" /\ waited' = 0
  /\ UNCHANGED <<prog, child, box, got, age>>

\* Mutation: the second join does not wait.
JoinSafeAtOnce ==
  /\ pc = "join safe"
  /\ pc' = "kill corr" /\ waited' = 0
  /\ UNCHANGED <<prog, child, box, got, age>>

JoinSafe ==
  /\ pc = "join safe" /\ (~Alive("safe") \/ Expired)
  /\ pc' = "kill corr" /\ waited' = 0
  /\ UNCHANGED <<prog, child, box, got, age>>

\* is_alive() and kill(): the signal is on its way, the parent goes on.
Kill(c, at, next) ==
  /\ pc = at
  /\ child' = [child EXCEPT ![c].killed = Alive(c)]
  /\ pc' = next
  /\ UNCHANGED <<prog, waited, box, got, age>>

\* What was appended, or a default; the result and the metadata are two reads.
Read(c, field, at, next, default) ==
  /\ pc = at
  /\ got' = [got EXCEPT ![c][field] =
               IF box[c][field] = None THEN default ELSE box[c][field]]
  /\ pc' = next
  /\ UNCHANGED <<prog, waited, child, box, age>>

Parent ==
  \/ Start \/ JoinCorr \/ JoinSafe
  \/ Kill("corr", "kill corr", "kill safe")
  \/ Kill("safe", "kill safe", "read corr")
  \/ Read("corr", "result", "read corr", "note corr", NoVerdict)
  \/ Read("corr", "meta", "note corr", "read safe", "global timeout")
  \/ Read("safe", "result", "read safe", "note safe", 0)
  \/ Read("safe", "meta", "note safe", "done", Clean)

-----------------------------------------------------------------------------
\* A child goes on with st, at test t, having found f.
Goes(c, st, t, f, note) ==
  /\ child' = [child EXCEPT ![c].st = st, ![c].spent = 0, ![c].test = t,
                            ![c].found = f, ![c].note = note]
  /\ UNCHANGED <<prog, pc, waited, box, got, age>>

\* A child returns: verdicts v from run_test, the counts so far otherwise.
Returns(c, v, note) ==
  Goes(c, "report", child[c].test, IF c = "corr" THEN v ELSE child[c].found, note)

\* The interpreter of the child is up, and run_test or run_valgrind begins.
Boot(c) ==
  /\ child[c].st = "boot"
  /\ Goes(c, "compile", 1, IF c = "corr" THEN <<>> ELSE 0, None)

Compiled(c) ==
  /\ child[c].st = "compile" /\ prog.compiles[c]
  /\ Goes(c, "run", 1, child[c].found, None)

Refused(c) ==
  /\ child[c].st = "compile" /\ ~prog.compiles[c]
  /\ Returns(c, <<IF Kind = "io" THEN -1 ELSE 0>>, "compile error")

\* At its limit.  run_code_snip goes on without a result, which raises.
CompileTimesOut(c) ==
  /\ child[c].st = "compile" /\ Spent(c)
  /\ Returns(c, <<IF Kind = "io" THEN -3 ELSE -4>>, "timeout")

\* A test has run and its answer is compared: a wrong one is the last.
TestEnds ==
  LET t == child["corr"].test
      f == child["corr"].found
  IN  /\ child["corr"].st = "run"
      /\ \/ /\ prog.right[t] /\ t < Last
            /\ Goes("corr", "run", t + 1, Append(f, Right), None)
         \/ /\ prog.right[t] /\ t = Last
            /\ Returns("corr", Append(f, Right), Clean)
         \/ /\ ~prog.right[t]
            /\ Returns("corr", Append(f, Wrong), "wrong answer")

\* At its limit: one code takes the place of all verdicts.
TestTimesOut ==
  /\ child["corr"].st = "run" /\ Spent("corr")
  /\ Returns("corr", <<IF Kind = "io" THEN -3 ELSE 0>>, "timeout")

\* valgrind has run: its counts are taken into the worst ones.
ValgrindEnds ==
  LET t == child["safe"].test
      worst == WorstOf(child["safe"].found, prog.errors[t])
  IN  /\ child["safe"].st = "run"
      /\ \/ t < Last /\ Goes("safe", "run", t + 1, worst, None)
         \/ t = Last /\ Goes("safe", "report", t, worst, Clean)

\* valgrind is too slow: the counts so far are the result.
ValgrindTimesOut ==
  /\ child["safe"].st = "run" /\ Spent("safe")
  /\ Returns("safe", <<>>, "timeout")

\* gcc, a test or valgrind cannot be run, or gets an input that is no text.
Raises(c) ==
  /\ child[c].st \in {"compile", "run"}
  /\ Returns(c, <<-4>>, "exception")

\* result.append(res), and then metadata_list.append(metadata)
AppendResult(c) ==
  /\ child[c].st = "report"
  /\ box' = [box EXCEPT ![c].result = child[c].found]
  /\ child' = [child EXCEPT ![c].st = "note"]
  /\ UNCHANGED <<prog, pc, waited, got, age>>

AppendMeta(c) ==
  /\ child[c].st = "note"
  /\ box' = [box EXCEPT ![c].meta = child[c].note]
  /\ child' = [child EXCEPT ![c].st = "over", ![c].found = None, ![c].note = None]
  /\ UNCHANGED <<prog, pc, waited, got, age>>

Ends(c) ==
  /\ Alive(c)
  /\ child' = [child EXCEPT ![c].st = "over", ![c].found = None, ![c].note = None]
  /\ UNCHANGED <<prog, pc, waited, box, got, age>>

\* The signal arrives; or the child dies on its own (memory, a broken pipe).
SignalArrives(c) == child[c].killed /\ Ends(c)
DiesAlone(c) == ~child[c].killed /\ Ends(c)

Child(c) ==
  \/ Boot(c) \/ Compiled(c) \/ Refused(c) \/ CompileTimesOut(c) \/ Raises(c)
  \/ c = "corr" /\ (TestEnds \/ TestTimesOut)
  \/ c = "safe" /\ (ValgrindEnds \/ ValgrindTimesOut)
  \/ AppendResult(c) \/ AppendMeta(c) \/ SignalArrives(c) \/ DiesAlone(c)

\* What the join timeout leaves a child for anything but its subprocesses.
Allowance(c) ==
  CASE Kind = "io"                  -> PerTest * Tests + Margin - Timeout
    [] Kind = "call" /\ c = "corr" -> CallMargin + Timeout - GccLimit - RunLimit
    [] OTHER                        -> CallMargin - Timeout

UpTo(limit, n) == IF n < limit THEN n + 1 ELSE n

\* A child that is not waiting for a subprocess (it starts up or reports) is idle.
Aged ==
  [c \in Children |->
     CASE child[c].st \in {"compile", "run"} ->
            [child[c] EXCEPT !.spent = @ + 1]
       [] child[c].st \in {"boot", "report", "note"} ->
            [child[c] EXCEPT !.idle = UpTo(Allowance(c), @)]
       [] OTHER -> child[c]]

\* A second passes.  No subprocess lives past its limit.
Tick ==
  /\ pc \notin {"start", "done"}
  /\ \A c \in Children : ~Spent(c)
  /\ IF pc \in {"join corr", "join safe"}
     THEN age' = UpTo(JoinTimeout, age) /\ waited' = UpTo(JoinTimeout, waited)
     ELSE UNCHANGED <<age, waited>>
  /\ child' = Aged
  /\ UNCHANGED <<prog, pc, box, got>>

Next == Parent \/ (\E c \in Children : Child(c)) \/ Tick

Spec == Init /\ [][Next]_vars

\* subprocess.run has killed what it waited for, and raises.
Expires(c) ==
  \/ CompileTimesOut(c)
  \/ c = "corr" /\ TestTimesOut
  \/ c = "safe" /\ ValgrindTimesOut

(* The parent gets to run, time passes, a limit and a signal take effect.   *)
(* Nothing else is assumed of the children: they may hang where they are.   *)
Fairness ==
  /\ WF_vars(Parent) /\ WF_vars(Tick)
  /\ \A c \in Children : WF_vars(SignalArrives(c)) /\ WF_vars(Expires(c))

FairSpec == Spec /\ Fairness
-----------------------------------------------------------------------------
Notes == {None} \cup Metadata

\* What a child has found, if anything: verdicts, or a number of errors.
Found(c) == {None} \cup (IF c = "corr" THEN Verdicts ELSE 0..MaxErrors)

ChildState(c) ==
  [st : {"off", "boot", "compile", "run", "report", "note", "over"}, spent : Nat,
   test : T, found : Found(c), note : Notes, killed : BOOLEAN, idle : Nat]

ChildOK ==
  DOMAIN child = Children /\ \A c \in Children : child[c] \in ChildState(c)

BoxOK ==
  /\ DOMAIN box = Children
  /\ \A c \in Children : box[c] \in [result : Found(c), meta : Notes]

GotOK ==
  /\ DOMAIN got = Children
  /\ \A c \in Children :
       got[c] \in [result : Found(c), meta : Notes \cup {"global timeout"}]

TimeOK == age \in 0..JoinTimeout /\ waited \in 0..age

TypeOK ==
  /\ prog \in Program
  /\ pc \in {"start", "join corr", "join safe", "kill corr", "kill safe",
             "read corr", "note corr", "read safe", "note safe", "done"}
  /\ ChildOK /\ BoxOK /\ GotOK /\ TimeOK

\* np.all(gen > 0), and all([g > 0 for g in generation])
Passed(v) == \A i \in DOMAIN v : v[i] > 0

AllRight == prog.compiles["corr"] /\ \A t \in T : prog.right[t]
Errorless == \A t \in T : prog.errors[t] = 0

(* A program that is counted as passed has compiled and given the right    *)
(* answer to every test, whatever was slow, died or was killed, and        *)
(* whenever the lists were read (lines 170-187).                           *)
PassedIsRight == pc = "done" /\ Passed(got["corr"].result) => AllRight

(* What a child that was not killed has reported is what counts, and it is *)
(* exact: right programs pass, wrong ones do not, and the memory errors    *)
(* are those of the worst test (lines 171-196, testing_util 344-601).      *)
ReportIsExact ==
  pc = "done" =>
    /\ (~child["corr"].killed /\ box["corr"].meta \in {Clean, "wrong answer", "compile error"})
         => (Passed(got["corr"].result) <=> AllRight)
    /\ (~child["safe"].killed /\ box["safe"].meta = Clean)
         => got["safe"].result = Max({prog.errors[t] : t \in T})

(* The verdict is the program's own: the two together.                     *)
VerdictRight == PassedIsRight /\ ReportIsExact

(* No child is killed before it had its full time, though the two joins    *)
(* are one after the other (lines 162-168).                                *)
PatientStep ==
  \A c \in Children : child'[c].killed /\ ~child[c].killed => age >= JoinTimeout

Patience == [][PatientStep]_vars

(* compute_code_generation_metrics.py:57 "the global timeout is to catch   *)
(* some extreme/rare cases not handled by the timeouts inside run_test": a *)
(* child is killed only if it spent the allowance elsewhere than in the    *)
(* subprocesses those timeouts limit.                                      *)
LocalTimeoutsFirst ==
  \A c \in Children : child[c].killed => child[c].idle >= Allowance(c)

(* Every program is judged, and no child outlives its judgement, even when *)
(* the children hang.                                                      *)
Settled == pc = "done" /\ \A c \in Children : ~Alive(c)

Settles == <>[]Settled

(* README.md:39 "A program is counted as fully passing only when it both   *)
(* passes the test cases and exhibits no valgrind memory errors".  An      *)
(* audit that did not take place counts as one without errors.             *)
FullyPassingIsSafe ==
  pc = "done" /\ Passed(got["corr"].result) /\ got["safe"].result = 0
    => AllRight /\ Errorless
=============================================================================
