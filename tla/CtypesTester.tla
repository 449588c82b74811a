---------------------------- MODULE CtypesTester ----------------------------
(***************************************************************************)
(* The tests of a CALL_BASED_CTYPES problem: grade_call_based_ctypes in    *)
(* evaluate/evaluation/testing_util.py calls, test after test,             *)
(* universal_c_tester of evaluate/evaluation/sandbox.py, which compiles    *)
(* the program to a library, starts a child process that calls the         *)
(* function, joins the child with a timeout, and only then reads the queue *)
(* with the answer.                                                        *)
(*                                                                         *)
(* A queue is a pipe, filled by a thread of the child that the child joins *)
(* before it exits.  What does not fit into the pipe keeps that thread,    *)
(* and so the child, until somebody reads.  An answer in the queue carries *)
(* the output of a right function and the input and the expected output    *)
(* otherwise, so its size is a property of the test.  The function runs    *)
(* inside the child's interpreter: what it corrupts can end the child at   *)
(* any later point.  How the arguments of the call are built is the        *)
(* subject of CtypesArgs.                                                  *)
(***************************************************************************)
EXTENDS Integers, Sequences

CONSTANTS
  Tests,    \* number of tests of the problem
  Timeout,  \* --timeout, of each test
  Nothing   \* the queue is empty

VARIABLES
  prog,     \* what the program is: it does not change
  pc,       \* universal_c_tester, and at "next" the loop around it
  t,        \* the test
  child,    \* the spawned process
  pipe,     \* what the queue holds
  waited,   \* seconds of the current join
  verdicts  \* all_results, and in the end what run_test returns

vars == <<prog, pc, t, child, pipe, waited, verdicts>>

T == 1..Tests

\* What a call ends with, when it ends.
Answers == {"right", "wrong", "raises"}

Program ==
  [compiles : BOOLEAN,
   does : [T -> Answers \cup {"crash", "hang"}],
   big : [T -> BOOLEAN]]       \* the answer does not fit into the pipe

Torn == "torn"                 \* the first part of an answer that is too big

ASSUME CtypesTesterAssumption ==
  /\ Tests \in Nat \ {0} /\ Timeout \in Nat \ {0}
  /\ Nothing \notin Answers \cup {Torn}

Going == {"boot", "call", "put", "blocked", "exit"}
Alive == child \in Going

-----------------------------------------------------------------------------
Init ==
  /\ prog \in Program
  /\ pc = "compile" /\ t = 1
  /\ child = "off" /\ pipe = Nothing /\ waited = 0
  /\ verdicts = <<>>

Done(v) ==
  /\ pc' = "done" /\ verdicts' = v
  /\ UNCHANGED <<prog, t, child, pipe, waited>>

\* gcc -shared has no limit of its own; process.start(), with a queue of its own.
Compiled ==
  /\ pc = "compile" /\ prog.compiles
  /\ child' = "boot" /\ pipe' = Nothing /\ waited' = 0
  /\ pc' = "join"
  /\ UNCHANGED <<prog, t, verdicts>>

Refused == pc = "compile" /\ ~prog.compiles /\ Done(<<-1>>)

\* gcc cannot be run, or the directory or the source not be written: run_test
\* catches it.
Raises == pc = "compile" /\ Done(<<-4>>)

JoinReturns ==
  /\ pc = "join" /\ (~Alive \/ waited >= Timeout)
  /\ pc' = "alive?"
  /\ UNCHANGED <<prog, t, child, pipe, waited, verdicts>>

\* Mutation: the child is not terminated.
JoinsAgain ==
  /\ pc = "alive?" /\ Alive
  /\ pc' = "reap"
  /\ UNCHANGED <<prog, t, child, pipe, waited, verdicts>>

\* is_alive() and terminate(): the signal takes effect at once.
Terminate ==
  /\ pc = "alive?" /\ Alive
  /\ child' = "killed" /\ pc' = "reap"
  /\ UNCHANGED <<prog, t, pipe, waited, verdicts>>

\* The second join, without a timeout, and the code -3.
Reap == pc = "reap" /\ ~Alive /\ Done(<<-3>>)

\* The child is over: is there anything in its queue?
Ask ==
  /\ pc = "alive?" /\ ~Alive
  /\ pc' = IF pipe = Nothing THEN "none" ELSE "get"
  /\ UNCHANGED <<prog, t, child, pipe, waited, verdicts>>

\* Mutation: the loop knows four codes and takes any other for none.
NoAnswerIgnored ==
  /\ pc = "none"
  /\ IF t < Tests
     THEN /\ pc' = "compile" /\ t' = t + 1
          /\ UNCHANGED <<prog, child, pipe, waited, verdicts>>
     ELSE Done(verdicts)

NoAnswer == pc = "none" /\ Done(<<-5>>)

\* get() takes a whole answer.  The rest of a torn one never comes, and the
\* parent itself holds the writing end of the pipe open: it waits for ever.
GetRight ==
  /\ pc = "get" /\ pipe = "right"
  /\ IF t < Tests
     THEN /\ verdicts' = Append(verdicts, 1)
          /\ t' = t + 1 /\ pc' = "compile"
          /\ UNCHANGED <<prog, child, pipe, waited>>
     ELSE Done(Append(verdicts, 1))

\* Wrong answers are appended; any other code takes the place of the list.
GetWrong == pc = "get" /\ pipe = "wrong" /\ Done(Append(verdicts, -2))
GetRaised == pc = "get" /\ pipe = "raises" /\ Done(<<-4>>)

Parent ==
  \/ Compiled \/ Refused \/ Raises
  \/ JoinReturns \/ Terminate \/ Reap \/ Ask
  \/ NoAnswer \/ GetRight \/ GetWrong \/ GetRaised

-----------------------------------------------------------------------------
ChildGoes(from, to) ==
  /\ child = from /\ child' = to
  /\ UNCHANGED <<prog, pc, t, pipe, waited, verdicts>>

\* The new interpreter is up, the library is loaded, the arguments are built:
\* the function is called; or this failed, which is an answer too.
Call == prog.does[t] # "raises" /\ ChildGoes("boot", "call")
CannotCall == prog.does[t] = "raises" /\ ChildGoes("boot", "put")

\* The function returns and its value is compared.
Return == prog.does[t] \in {"right", "wrong"} /\ ChildGoes("call", "put")

Crash == prog.does[t] = "crash" /\ ChildGoes("call", "over")

\* The thread of the queue writes; the rest of a big answer stays with it.
Feed ==
  /\ child = "put"
  /\ pipe' = IF prog.big[t] THEN Torn ELSE prog.does[t]
  /\ child' = IF prog.big[t] THEN "blocked" ELSE "exit"
  /\ UNCHANGED <<prog, pc, t, waited, verdicts>>

Exit == ChildGoes("exit", "over")

\* Memory runs out, or what the function has corrupted takes its effect.
Dies == \E st \in {"boot", "call", "put", "blocked"} : ChildGoes(st, "dead")

Child == Call \/ CannotCall \/ Return \/ Crash \/ Feed \/ Exit \/ Dies

Tick ==
  /\ pc = "join" /\ waited < Timeout
  /\ waited' = waited + 1
  /\ UNCHANGED <<prog, pc, t, child, pipe, verdicts>>

Next == Parent \/ Child \/ Tick

Spec == Init /\ [][Next]_vars

\* The parent runs, gcc returns, time passes; nothing is assumed of the child.
Fairness == WF_vars(Parent) /\ WF_vars(Tick)

FairSpec == Spec /\ Fairness
-----------------------------------------------------------------------------
TypeOK ==
  /\ prog \in Program
  /\ pc \in {"compile", "join", "alive?", "reap", "none", "get", "done"}
  /\ t \in T /\ waited \in 0..Timeout
  /\ Alive \/ child \in {"off", "over", "dead", "killed"}
  /\ pipe \in Answers \cup {Nothing, Torn}
  /\ verdicts \in Seq(-5..1) /\ Len(verdicts) <= Tests

Passed == \A i \in DOMAIN verdicts : verdicts[i] > 0

(* A program passes only when it compiles and is right on every test, and  *)
(* then with one verdict for each: whatever hangs, crashes or dies, and in *)
(* whatever order the queue and the process are seen (sandbox.py 362-390,  *)
(* testing_util.py 639-699).                                               *)
PassedIsRight ==
  pc = "done" /\ Passed =>
    /\ prog.compiles /\ \A u \in T : prog.does[u] = "right"
    /\ Len(verdicts) = Tests

(* A failure has the cause its code names, at the first test that fails.   *)
(* -3 stands for a full timeout, -5 for a child that ended without an      *)
(* answer (the texts at sandbox.py 360, 371, 378, 389).                    *)
FailureHasCause ==
  pc = "done" /\ ~Passed =>
    LET code == verdicts[Len(verdicts)]
    IN  /\ \A u \in 1..(t - 1) : prog.does[u] = "right"
        /\ code = -1 => ~prog.compiles
        /\ code = -2 => prog.does[t] = "wrong" /\ Len(verdicts) = t
        /\ code = -3 => waited = Timeout /\ child = "killed"
        /\ code = -5 => prog.does[t] = "crash" \/ child = "dead"

(* No process is left behind when the verdict is returned.                 *)
NoneLeft == pc = "done" => ~Alive

(* The verdicts of a problem are deserved, and have the cause they name.   *)
CtypesRight == PassedIsRight /\ FailureHasCause /\ NoneLeft

(* Every problem is graded, hanging and crashing functions included; the   *)
(* one exception is a child that died in the middle of a big answer, for   *)
(* which get() waits until the judge kills the tester as well.             *)
Ended == pc = "done" \/ (pc = "get" /\ pipe = Torn /\ child = "dead")

Ends == <>Ended

(* sandbox.py:371 "Time Limit Exceeded (Execution)": the function of a     *)
(* child that is terminated is still running.                              *)
TimeLimitIsExecution == [][Terminate => child # "blocked"]_vars
=============================================================================
