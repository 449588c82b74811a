----------------------------- MODULE MCVerdicts ----------------------------
(**************************************************************************)
(* What one verdict rests on, for TLC: the tests of a function in a       *)
(* library (CtypesTester, and CtypesArgs for the arguments of a call), the*)
(* programs of the APPS problems (AppsSandbox), the comparison of outputs *)
(* (Compare), the reading of valgrind's reports (ValgrindReport) and the  *)
(* metrics (Metrics).                                                     *)
(*                                                                        *)
(* None of these waits for another: each is called, and has ended when the*)
(* next one begins. A behaviour belongs to one part, and the others rest. *)
(**************************************************************************)
EXTENDS CtypesTester, TLC, FiniteSetTheorems, TLAPS

CONSTANTS
  Parts,    \* the parts that are checked
  Word,     \* of Compare
  AppsTests,             \* of AppsSandbox
  GrindInputs, Blocks, Sites,   \* of ValgrindReport; a block is its size
  None      \* of Metrics

VARIABLES
  part,
  argsInputs, raw, args, argsPc,                    \* CtypesArgs
  kind, appsInputs, outputs, checks, appsPc, dirs, appsResults,  \* AppsSandbox
  exp, form, out, line, right, tries, same,         \* Compare
  run, heap, errs, worst, past, grindPc,            \* ValgrindReport
  metrResults, total, correct, msc_correct, mem_safe, metrics  \* Metrics

argsVars == <<argsInputs, raw, args, argsPc>>
appsVars == <<kind, appsInputs, outputs, checks, appsPc, dirs, appsResults>>
cmpVars == <<exp, form, out, line, right, tries, same>>
grindVars == <<run, heap, errs, worst, past, grindPc>>
metrVars == <<metrResults, total, correct, msc_correct, mem_safe, metrics>>
verdictsVars == <<part, vars, argsVars, appsVars, cmpVars, grindVars, metrVars>>

(* A word, 1 in two spellings, a number close to it and one with the same  *)
(* whole part.                                                             *)
a == [look |-> "a", worth |-> Word]
one == [look |-> "1", worth |-> 1000000]
One == [look |-> "1.0", worth |-> 1000000]
near == [look |-> "1.000001", worth |-> 1000001]
half == [look |-> "1.5", worth |-> 1500000]

\* Up to three inputs, lengths up to two.
Args == INSTANCE CtypesArgs WITH
  inputs <- argsInputs, pc <- argsPc, MaxInputs <- 3, MaxLen <- 2

Apps == INSTANCE AppsSandbox WITH
  inputs <- appsInputs, pc <- appsPc, results <- appsResults,
  Kinds <- {"signature", "stdio"}, MaxTests <- AppsTests

\* Two lines of a word each, one line of two numbers.
Words == INSTANCE Compare WITH
  Tokens <- {a, one, One}, Width <- 1, Height <- 2
Numbers == INSTANCE Compare WITH
  Tokens <- {one, near, half}, Width <- 2, Height <- 1

\* Two blocks, below a thousand bytes each and above it together.
Grind == INSTANCE ValgrindReport WITH
  pc <- grindPc, Inputs <- GrindInputs, Size <- [b \in Blocks |-> b]
Alone == INSTANCE ValgrindReport WITH
  pc <- grindPc, Inputs <- 0, Size <- [b \in Blocks |-> b], Sites <- {1, 2}

\* Two problems of every type, or one with many samples.
Two == INSTANCE Metrics WITH
  results <- metrResults, Problems <- 2, Samples <- 2,
  Verdicts <- {<<1>>, <<-1>>, <<>>}, MaxErrors <- 1,
  Types <- {"io_based", "call_based_ctypes"}
Many == INSTANCE Metrics WITH
  results <- metrResults, Problems <- 1, Samples <- 6,
  Verdicts <- {<<1, 1>>, <<1, -2>>}, MaxErrors <- 0, Types <- {"io_based"}

ASSUME VerdictsAssumption ==
  /\ Parts \subseteq {"tests", "args", "apps", "words", "numbers", "runs",
                       "empty", "two", "many"}
  /\ Args!CtypesArgsAssumption
  /\ Apps!AppsSandboxAssumption
  /\ Words!CompareAssumption
  /\ Numbers!CompareAssumption
  /\ Grind!ValgrindReportAssumption
  /\ Alone!ValgrindReportAssumption
  /\ Two!MetricsAssumption
  /\ Many!MetricsAssumption

-----------------------------------------------------------------------------
\* What a part that is not looked at rests in: one of its initial states, or nothing.
TestRests ==
  prog = [compiles |-> TRUE, does |-> <<"right", "right">>, big |-> <<FALSE, FALSE>>] /\ Init
ArgsRests ==
  argsInputs = <<Args!Number(-1)>> /\ Args!Init
AppsRests ==
  kind = "stdio" /\ checks = FALSE /\ outputs = 0 /\ appsInputs = <<>> /\ Apps!Init
CmpRests ==
  exp = <<>> /\ out = <<>> /\ form = "list" /\ Words!Init
GrindRests == Grind!Init
MetrRests ==
  /\ metrResults = <<>> /\ total = <<>> /\ correct = <<>>
  /\ msc_correct = <<>> /\ mem_safe = <<>> /\ metrics = <<>>

VerdictsInit ==
  /\ part \in Parts
  /\ IF part = "tests" THEN Init ELSE TestRests
  /\ IF part = "args" THEN Args!Init ELSE ArgsRests
  /\ IF part = "apps" THEN Apps!Init ELSE AppsRests
  /\ CASE part = "words" -> Words!Init
       [] part = "numbers" -> Numbers!Init
       [] OTHER -> CmpRests
  /\ CASE part = "runs" -> Grind!Init
       [] part = "empty" -> Alone!Init
       [] OTHER -> GrindRests
  /\ CASE part = "two" -> Two!Init
       [] part = "many" -> Many!Init
       [] OTHER -> MetrRests

\* The others stay where they are.
TestOnly == UNCHANGED <<part, argsVars, appsVars, cmpVars, grindVars,
                         metrVars>>
ArgsOnly == UNCHANGED <<part, vars, appsVars, cmpVars, grindVars,
                         metrVars>>
AppsOnly == UNCHANGED <<part, vars, argsVars, cmpVars, grindVars,
                         metrVars>>
CmpOnly == UNCHANGED <<part, vars, argsVars, appsVars, grindVars,
                        metrVars>>
GrindOnly == UNCHANGED <<part, vars, argsVars, appsVars, cmpVars,
                          metrVars>>
MetrOnly == UNCHANGED <<part, vars, argsVars, appsVars, cmpVars,
                         grindVars>>

VerdictsNext ==
  \/ part = "tests" /\ Next /\ TestOnly
  \/ part = "args" /\ Args!Next /\ ArgsOnly
  \/ part = "apps" /\ Apps!Next /\ AppsOnly
  \/ part = "words" /\ Words!Next /\ CmpOnly
  \/ part = "numbers" /\ Numbers!Next /\ CmpOnly
  \/ part = "runs" /\ Grind!Next /\ GrindOnly
  \/ part = "empty" /\ Alone!Next /\ GrindOnly
  \/ part = "two" /\ Two!Next /\ MetrOnly
  \/ part = "many" /\ Many!Next /\ MetrOnly

VerdictsSpec == VerdictsInit /\ [][VerdictsNext]_verdictsVars

\* What the three testers and the loop over the arguments are fair in.
VerdictsFair ==
  /\ VerdictsSpec
  /\ WF_vars(part = "tests" /\ Parent)
  /\ WF_vars(part = "tests" /\ Tick)
  /\ WF_argsVars(part = "args" /\ Args!Next)
  /\ WF_appsVars(part = "apps" /\ Apps!Next)

-----------------------------------------------------------------------------
(* Only layout and the spelling of numbers are forgiven: Compare           *)
(* (apps_sandbox.py:320-449, testing_util.py:290-341).  A function gets    *)
(* every argument where it declares it: CtypesArgs (sandbox.py:244-390).   *)
OutputsRight ==
  /\ part = "args" => Args!TypeOK /\ Args!CallIsAligned
  /\ part = "words" => Words!TypeOK /\ Words!ContentDecides /\ Words!EchoPasses
  /\ part = "numbers" => Numbers!TypeOK /\ Numbers!ContentDecides

(* What one run has shown stays in the verdict.  An APPS program is        *)
(* accepted only if it ended well and printed what was asked for on every  *)
(* input, and what is said of an input is of that input: AppsSandbox       *)
(* (apps_sandbox.py:164-449).  What valgrind has found on one input is     *)
(* found: ValgrindReport (testing_util.py:506-601).                        *)
FindingsKept ==
  /\ part = "tests" => TypeOK
  /\ part = "apps" =>
       /\ Apps!TypeOK
       /\ Apps!AcceptedIsRight /\ Apps!Placed /\ Apps!NoneLeft
  /\ part = "runs" => Grind!TypeOK /\ Grind!FindingsKept
  /\ part = "empty" => Alone!TypeOK /\ Alone!FindingsKept

(* pass@k is the probability it is named for, msc_pass@k never exceeds it, *)
(* and a k is reported when all problems have as many samples              *)
(* (metric_utils.py:9-170).                                                *)
MetricsRight ==
  /\ part = "two" =>
       /\ Two!TypeOK
       /\ Two!PassIsProbability /\ Two!EnoughSamples /\ Two!PerfectIsSafe
  /\ part = "many" => Many!PassIsProbability /\ Many!JointAndMonotone

(* Every problem is graded, and the loop over the arguments ends although  *)
(* it adds to the list it walks through.                                   *)
TestersEnd ==
  <>(/\ part = "tests" => Ended
     /\ part = "args" => Args!Ended
     /\ part = "apps" => Apps!Ended)

-----------------------------------------------------------------------------
(***************************************************************************)
(* Proof of CtypesRight, for any number of tests and any timeout.  What    *)
(* makes it inductive is what the parent may conclude at each place from   *)
(* the place alone: it never looks at the child and its queue together.    *)
(***************************************************************************)
\* The tests that are over.
Before ==
  /\ Len(verdicts) = t - 1 /\ t - 1 < Tests
  /\ \A u \in 1..(t - 1) : verdicts[u] = 1 /\ prog.does[u] = "right"
  /\ t > 1 \/ pc # "compile" => prog.compiles

\* What the queue of the current child holds, by what the child has done.
Held ==
  /\ child \in {"boot", "call", "put"} => pipe = Nothing
  /\ child = "call" => prog.does[t] # "raises"
  /\ child = "put" => prog.does[t] \in Answers
  /\ child \in {"blocked", "exit"} => pipe # Nothing
  /\ child = "over" /\ pipe = Nothing => prog.does[t] = "crash"
  /\ pipe \in {Nothing, Torn, prog.does[t]}

\* The child, by the place of the parent.
Seen ==
  /\ Alive => pc \in {"join", "alive?"}
  /\ pc = "alive?" /\ Alive => waited = Timeout
  /\ pc \in {"join", "alive?"} => child \in Going \cup {"over", "dead"}
  /\ pc = "reap" => child = "killed" /\ waited = Timeout
  /\ pc \in {"none", "get"} => child \in {"over", "dead"}
  /\ pc = "none" => pipe = Nothing

Under == pc \notin {"compile", "done"} => Held

\* The inductive invariant.
IndInv ==
  /\ TypeOK /\ (pc # "done" => Before) /\ Under /\ Seen /\ CtypesRight

\* The initial states have it.
LEMMA Starts == Init => IndInv
<1> SUFFICES ASSUME Init PROVE IndInv
  OBVIOUS
<1>1. TypeOK
  BY CtypesTesterAssumption DEF Init, TypeOK, T, Alive
<1> QED
  BY <1>1, CtypesTesterAssumption
  DEF Init, IndInv, TypeOK, Before, Under, Seen, CtypesRight, PassedIsRight, FailureHasCause, NoneLeft, Alive, Going

\* The child and the clock run while the parent joins, or looks.
LEMMA ChildSteps == IndInv /\ (Child \/ Tick) => IndInv'
<1> SUFFICES ASSUME IndInv, Child \/ Tick PROVE IndInv'
  OBVIOUS
<1> USE CtypesTesterAssumption
<1> USE DEF IndInv, TypeOK, Seen, Going, Alive
<1>0. /\ UNCHANGED <<prog, pc, t, verdicts>>
      /\ Before = Before' /\ prog.does[t] \in Answers \cup {"crash", "hang"} /\ prog.big[t] \in BOOLEAN
  BY DEF Child, Tick, ChildGoes, Call, CannotCall, Return, Crash, Feed, Exit, Dies, Before, Program
<1>1. ASSUME Tick PROVE IndInv'
  BY <1>1, <1>0 DEF Tick, Under, Held, CtypesRight, PassedIsRight, FailureHasCause, NoneLeft
<1>2. ASSUME Child PROVE IndInv'
  <2> /\ UNCHANGED waited /\ pc \in {"join", "alive?"}
    BY <1>2 DEF Child, ChildGoes, Call, CannotCall, Return, Crash, Feed, Exit, Dies
  <2>1. CtypesRight'
    BY <1>0 DEF CtypesRight, PassedIsRight, FailureHasCause, NoneLeft
  <2>2. TypeOK' /\ Under' /\ Seen'
    <3>1. CASE Call \/ CannotCall
      BY <3>1, <1>0 DEF ChildGoes, Call, CannotCall, Under, Held, Answers
    <3>2. CASE Return \/ Crash
      BY <3>2, <1>0 DEF ChildGoes, Return, Crash, Under, Held, Answers
    <3>3. CASE Feed
      BY <3>3, <1>0 DEF Feed, Under, Held, Answers
    <3>4. CASE Exit \/ Dies
      BY <3>4, <1>0 DEF ChildGoes, Exit, Dies, Under, Held, Answers
    <3> QED
      BY <1>2, <3>1, <3>2, <3>3, <3>4 DEF Child
  <2> QED
    BY <2>1, <2>2, <1>0
<1> QED
  BY <1>1, <1>2

\* Every step of the parent; <1>1 is a verdict that stands alone.
LEMMA ParentSteps == IndInv /\ Parent => IndInv'
<1> SUFFICES ASSUME IndInv, Parent PROVE IndInv'
  OBVIOUS
<1> USE CtypesTesterAssumption
<1> USE DEF IndInv, TypeOK, Seen, Going, Alive
<1>0. /\ t \in 1..Tests /\ Tests \in Nat /\ verdicts \in Seq(-5..1) /\ Len(verdicts) \in Nat
      /\ prog.does \in [1..Tests -> Answers \cup {"crash", "hang"}] /\ prog.compiles \in BOOLEAN
  BY DEF Program, T
<1>1. ASSUME pc # "done", NEW c \in -5..0, verdicts' = <<c>>, UNCHANGED <<prog, t, child, pipe, waited>>,
             pc' = "done", ~Alive,
             c = -1 => ~prog.compiles, c # -2, c = -3 => waited = Timeout /\ child = "killed",
             c = -5 => prog.does[t] = "crash" \/ child = "dead"
      PROVE IndInv'
  <2>1. /\ Len(<<c>>) = 1 /\ <<c>>[1] = c /\ <<c>> \in Seq(-5..1) /\ DOMAIN <<c>> = 1..1
    OBVIOUS
  <2>2. ~Passed'
    BY <2>1, <1>1 DEF Passed
  <2>3. FailureHasCause'
    BY <2>1, <1>1, <1>0 DEF FailureHasCause, Before
  <2> QED
    BY <2>1, <2>2, <2>3, <1>1 DEF CtypesRight, PassedIsRight, NoneLeft, Under
<1>2. CASE Compiled
  BY <1>2 DEF Compiled, Before, Under, Held, CtypesRight, PassedIsRight, FailureHasCause, NoneLeft
<1>3. CASE Refused \/ Raises \/ Reap \/ NoAnswer
  <2>1. CASE Refused
    BY <2>1, <1>1 DEF Refused, Done
  <2>2. CASE Raises
    BY <2>2, <1>1 DEF Raises, Done
  <2>3. CASE Reap
    BY <2>3, <1>1 DEF Reap, Done
  <2>4. CASE NoAnswer
    BY <2>4, <1>1 DEF NoAnswer, Done, Under, Held
  <2> QED
    BY <1>3, <2>1, <2>2, <2>3, <2>4
<1>4. CASE JoinReturns \/ Ask
  BY <1>4 DEF JoinReturns, Ask, Before, Under, Held, CtypesRight, PassedIsRight, FailureHasCause, NoneLeft
<1>5. CASE Terminate
  BY <1>5 DEF Terminate, Before, Under, Held, CtypesRight, PassedIsRight, FailureHasCause, NoneLeft
<1>6. CASE GetRaised
  BY <1>6, <1>1 DEF GetRaised, Done
<1>7. ASSUME NEW c \in {-2, 1}, NEW s, s = Append(verdicts, c)
      PROVE  /\ s \in Seq(-5..1) /\ Len(s) = Len(verdicts) + 1 /\ s[Len(s)] = c
             /\ \A u \in 1..Len(verdicts) : s[u] = verdicts[u]
             /\ DOMAIN s = 1..(Len(verdicts) + 1)
  BY <1>7, <1>0
<1>8. CASE GetWrong
  <2>0. pc = "get" /\ pipe = "wrong" /\ Done(Append(verdicts, -2)) /\ Before /\ prog.does[t] = "wrong"
    BY <1>8 DEF GetWrong, Under, Held, Answers, Torn
  <2>1. TypeOK' /\ Len(verdicts') = t /\ verdicts'[t] = -2 /\ t \in DOMAIN verdicts'
    BY <2>0, <1>7, <1>0 DEF Done, Before
  <2>2. ~Passed'
    BY <2>1 DEF Passed
  <2>3. FailureHasCause'
    BY <2>1, <2>0, <1>0 DEF FailureHasCause, Before, Done
  <2> QED
    BY <2>0, <2>1, <2>2, <2>3 DEF Done, CtypesRight, PassedIsRight, NoneLeft, Under
<1>9. CASE GetRight
  <2>0. pc = "get" /\ Before /\ prog.does[t] = "right" /\ verdicts' = Append(verdicts, 1)
        /\ UNCHANGED <<prog, child, pipe, waited>> /\ prog.compiles
        /\ Len(verdicts) = t - 1
    BY <1>9 DEF GetRight, Under, Held, Answers, Torn, Done, Before
  <2>1. verdicts' \in Seq(-5..1) /\ Len(verdicts') = t /\ verdicts'[t] = 1 /\ DOMAIN verdicts' = 1..t
        /\ \A u \in 1..(t - 1) : verdicts'[u] = verdicts[u]
    BY <2>0, <1>7, <1>0
  <2>2. \A u \in 1..t : verdicts'[u] = 1 /\ prog.does[u] = "right"
    BY <2>0, <2>1, <1>0 DEF Before
  <2>3. CASE t < Tests
    <3>1. t' = t + 1 /\ pc' = "compile" /\ t' \in 1..Tests /\ t' - 1 = t
      BY <2>3, <1>9, <1>0 DEF GetRight
    <3>2. TypeOK'
      BY <3>1, <2>0, <2>1, <2>3 DEF T
    <3>3. Before'
      BY <3>1, <2>0, <2>1, <2>2, <2>3 DEF Before
    <3> QED
      BY <3>1, <3>2, <3>3, <2>0 DEF Under, CtypesRight, PassedIsRight, FailureHasCause, NoneLeft
  <2>4. CASE ~(t < Tests)
    <3>1. t = Tests /\ pc' = "done" /\ t' = t
      BY <2>4, <1>9, <1>0 DEF GetRight, Done
    <3>2. TypeOK'
      BY <3>1, <2>0, <2>1
    <3>3. Passed' /\ PassedIsRight'
      BY <3>1, <2>0, <2>1, <2>2 DEF Passed, PassedIsRight, T
    <3> QED
      BY <3>1, <3>2, <3>3, <2>0 DEF Under, CtypesRight, FailureHasCause, NoneLeft
  <2> QED
    BY <2>3, <2>4
<1> QED
  BY <1>2, <1>3, <1>4, <1>5, <1>6, <1>8, <1>9 DEF Parent

\* So it holds for ever.
LEMMA Invariance == Spec => []IndInv
<1>1. IndInv /\ [Next]_vars => IndInv'
  <2> SUFFICES ASSUME IndInv, [Next]_vars PROVE IndInv'
    OBVIOUS
  <2>1. CASE UNCHANGED vars
    BY <2>1 DEF vars, IndInv, TypeOK, Before, Under, Held, Seen, CtypesRight, PassedIsRight,
                FailureHasCause, NoneLeft, Alive, Going, Passed
  <2> QED
    BY <2>1, ChildSteps, ParentSteps DEF Next
<1> QED
  BY <1>1, Starts, PTL DEF Spec

(* A program passes only when it is right on every test, a failure has the *)
(* cause its code names, and no process is left behind: whatever hangs,    *)
(* crashes or dies at whatever moment (sandbox.py 337-390).                *)
THEOREM CtypesVerdicts == Spec => []CtypesRight
<1>1. IndInv => CtypesRight
  BY DEF IndInv
<1> QED
  BY <1>1, Invariance, PTL

-----------------------------------------------------------------------------
(***************************************************************************)
(* AppsSandbox, for any number of tests: the results are those of the      *)
(* first inputs, in order, as long as the loop goes on.                    *)
(***************************************************************************)
Codes == [k \in 1..Len(appsInputs) |-> Apps!Code(appsInputs[k])]

\* What is known at each place.
AppsPlace ==
  /\ appsPc = "start" => dirs = 0 /\ appsResults = <<>>
  /\ appsPc = "compile" =>
       /\ dirs = 1 /\ appsResults = <<>>
       /\ kind = "stdio" /\ appsInputs # <<>> => outputs = Len(appsInputs)
  /\ appsPc \in {"run", "clean"} =>
       /\ kind = "stdio" /\ dirs = 1 /\ outputs = Len(appsInputs)
       /\ Len(appsResults) <= Len(appsInputs)
       /\ \A k \in 1..Len(appsResults) : appsResults[k] = Apps!Code(appsInputs[k])
  /\ appsPc = "run" => Len(appsResults) < Len(appsInputs)
  /\ appsPc = "clean" => Len(appsResults) = Len(appsInputs)

AppsGiven ==
  /\ kind \in {"signature", "stdio"} /\ checks \in BOOLEAN
  /\ appsInputs \in Seq(Apps!Behaviours)
  /\ kind = "signature" => Len(appsInputs) = 1

AppsInv ==
  /\ AppsGiven /\ Apps!TypeOK /\ AppsPlace
  /\ Apps!AcceptedIsRight /\ Apps!Placed /\ Apps!NoneLeft

\* The initial states have it.
LEMMA AppsStarts == ASSUME Apps!Init PROVE AppsInv
<1>. USE DEF Apps!Init
<1>1. AppsGiven
  <2>1. PICK n \in 0..AppsTests :
          appsInputs \in [1..(IF kind = "stdio" THEN n ELSE 1) -> Apps!Behaviours]
    OBVIOUS
  <2>2. AppsTests \in Nat
    BY VerdictsAssumption DEF Apps!AppsSandboxAssumption
  <2>3. (IF kind = "stdio" THEN n ELSE 1) \in Nat
    BY <2>2
  <2>4. appsInputs \in Seq(Apps!Behaviours) /\ Len(appsInputs) = IF kind = "stdio" THEN n ELSE 1
    BY <2>1, <2>3
  <2>. QED
    BY <2>4 DEF AppsGiven
<1>2. <<>> \in Seq(-3..1) /\ Len(<<>>) = 0
  OBVIOUS
<1>. QED
  BY <1>1, <1>2 DEF AppsInv, Apps!TypeOK, AppsPlace, Apps!AcceptedIsRight, Apps!Accepted,
                   Apps!Placed, Apps!NoneLeft

\* A list that is all of one code that is no success.
LEMMA AllOfOne ==
  ASSUME AppsGiven, NEW v \in {-2}
  PROVE  /\ Apps!Times(v) \in Seq(-3..1) /\ Apps!Times(v) # <<>>
         /\ \A k \in DOMAIN Apps!Times(v) : Apps!Times(v)[k] = v
         /\ 1 \in DOMAIN Apps!Times(v)
<1> DEFINE n == IF appsInputs = <<>> THEN 1 ELSE Len(appsInputs)
<1>1. n \in Nat /\ n >= 1
  BY DEF AppsGiven
<1>2. Apps!Times(v) = [k \in 1..n |-> v]
  BY DEF Apps!Times
<1>. HIDE DEF n
<1>3. Apps!Times(v) \in Seq(-3..1) /\ Len(Apps!Times(v)) = n
  BY <1>1, <1>2
<1>. QED
  BY <1>1, <1>2, <1>3

\* Every step keeps it.
LEMMA AppsSteps == AppsInv /\ Apps!Next => AppsInv'
<1> SUFFICES ASSUME AppsInv, Apps!Next PROVE AppsInv'
  OBVIOUS
<1> USE DEF AppsInv
<1>0. /\ AppsGiven' /\ UNCHANGED <<kind, appsInputs, outputs, checks>>
      /\ Len(appsInputs) \in Nat /\ appsResults \in Seq(-3..1) /\ Len(appsResults) \in Nat
  <2>1. UNCHANGED <<kind, appsInputs, outputs, checks>>
    BY DEF Apps!Next, Apps!Mismatch, Apps!MakeDir, Apps!NotCompiled, Apps!NoCompiler, Apps!Compiled,
           Apps!RunTest, Apps!RemoveTree, Apps!SnipUnbound, Apps!SnipRefused, Apps!SnipRuns, Apps!Goes
  <2>. QED
    BY <2>1 DEF AppsGiven, Apps!TypeOK
\* A program that is refused with one code.
<1>1. ASSUME NEW c \in -3..0, appsPc' = "done", appsResults' = <<c>>, dirs' \in 0..1,
             kind = "stdio" => dirs' = 0 /\ outputs # Len(appsInputs)
      PROVE  AppsInv'
  <2>1. <<c>> \in Seq(-3..1) /\ <<c>> # <<>> /\ <<c>>[1] = c /\ DOMAIN <<c>> = 1..1
    OBVIOUS
  <2>2. ~Apps!Accepted'
    BY <1>1, <2>1 DEF Apps!Accepted
  <2>. QED
    BY <1>0, <1>1, <2>1, <2>2 DEF Apps!TypeOK, AppsPlace, Apps!AcceptedIsRight, Apps!Placed, Apps!NoneLeft
<1>2. CASE Apps!Mismatch
  <2>1. appsPc' = "done" /\ dirs' = 0 /\ appsResults' = <<-3>> /\ outputs # Len(appsInputs)
    BY <1>2 DEF Apps!Mismatch, Apps!Goes, AppsPlace
  <2>. QED
    BY <2>1, <1>1
<1>3. CASE Apps!MakeDir
  <2>1. /\ appsPc' = "compile" /\ dirs' = 1 /\ appsResults' = <<>>
        /\ kind = "stdio" /\ appsInputs # <<>> => outputs = Len(appsInputs)
    BY <1>3, <1>0 DEF Apps!MakeDir, Apps!Goes, AppsPlace
  <2>. QED
    BY <2>1, <1>0 DEF Apps!TypeOK, AppsPlace, Apps!AcceptedIsRight, Apps!Accepted, Apps!Placed, Apps!NoneLeft
<1>4. CASE Apps!NotCompiled
  <2>1. kind = "stdio" /\ appsPc' = "done" /\ dirs' = 0 /\ appsResults' = Apps!Times(-2)
    BY <1>4 DEF Apps!NotCompiled, Apps!Goes, AppsPlace
  <2>2. Apps!Times(-2)' = Apps!Times(-2)
    BY <1>0 DEF Apps!Times
  <2>3. ~Apps!Accepted'
    BY <2>1, AllOfOne DEF Apps!Accepted
  <2>. QED
    BY <2>1, <2>2, <2>3, <1>0, AllOfOne DEF Apps!TypeOK, AppsPlace, Apps!AcceptedIsRight, Apps!Placed, Apps!NoneLeft
<1>5. CASE Apps!NoCompiler \/ Apps!SnipUnbound
  <2>1. appsPc' = "raised" /\ UNCHANGED <<dirs, appsResults>>
    BY <1>5 DEF Apps!NoCompiler, Apps!SnipUnbound, Apps!Goes
  <2>. QED
    BY <2>1, <1>0 DEF Apps!TypeOK, AppsPlace, Apps!AcceptedIsRight, Apps!Accepted, Apps!Placed, Apps!NoneLeft
<1>6. CASE Apps!Compiled
  <2>0. /\ kind = "stdio" /\ dirs = 1 /\ appsResults = <<>>
        /\ appsInputs # <<>> => outputs = Len(appsInputs) /\ Len(appsInputs) > 0
    BY <1>6, <1>0 DEF Apps!Compiled, AppsPlace
  <2>1. CASE appsInputs = <<>>
    <3>1. appsPc' = "done" /\ dirs' = 0 /\ appsResults' = <<>>
      BY <1>6, <2>0, <2>1 DEF Apps!Compiled, Apps!Goes
    <3>. QED
      BY <3>1, <1>0, <2>1 DEF Apps!TypeOK, AppsPlace, Apps!AcceptedIsRight, Apps!Accepted, Apps!Placed, Apps!NoneLeft
  <2>2. CASE appsInputs # <<>>
    <3>1. appsPc' = "run" /\ dirs' = 1 /\ appsResults' = <<>>
      BY <1>6, <2>0, <2>2 DEF Apps!Compiled, Apps!Goes
    <3>. QED
      BY <3>1, <1>0, <2>0, <2>2 DEF Apps!TypeOK, AppsPlace, Apps!AcceptedIsRight, Apps!Accepted, Apps!Placed, Apps!NoneLeft
  <2>. QED
    BY <2>1, <2>2
<1>7. CASE Apps!RunTest
  <2> DEFINE c == Apps!Code(appsInputs[Len(appsResults) + 1])
             res == Append(appsResults, c)
  <2>0. appsPc = "run" /\ kind = "stdio" /\ dirs = 1 /\ Len(appsResults) < Len(appsInputs)
    BY <1>7 DEF Apps!RunTest, AppsPlace
  <2>1. c \in -3..1
    BY DEF Apps!Code
  <2>. HIDE DEF c
  <2>2. /\ res \in Seq(-3..1) /\ Len(res) = Len(appsResults) + 1
        /\ res[Len(res)] = c /\ \A k \in 1..Len(appsResults) : res[k] = appsResults[k]
    BY <2>1, <1>0
  <2>3. \A k \in 1..Len(res) : res[k] = Apps!Code(appsInputs[k])
    <3> TAKE k \in 1..Len(res)
    <3>1. CASE k = Len(appsResults) + 1
      BY <3>1, <2>2 DEF c
    <3>2. CASE k # Len(appsResults) + 1
      <4>1. k \in 1..Len(appsResults)
        BY <3>2, <2>2, <1>0
      <4>. QED
        BY <4>1, <2>0, <2>2 DEF AppsPlace
    <3>. QED
      BY <3>1, <3>2
  <2>4. appsResults' = res /\ dirs' = 1
        /\ appsPc' = IF Len(res) = Len(appsInputs) THEN "clean" ELSE "run"
    BY <1>7, <2>0 DEF Apps!RunTest, Apps!Goes, c
  <2>5. Len(res) <= Len(appsInputs)
    BY <2>0, <2>2, <1>0
  <2>. HIDE DEF res
  <2>6. AppsPlace'
    BY <2>0, <2>3, <2>4, <2>5, <2>2, <1>0 DEF AppsPlace, Apps!Code
  <2>. QED
    BY <2>2, <2>4, <2>6, <1>0 DEF Apps!TypeOK, Apps!AcceptedIsRight, Apps!Accepted, Apps!Placed, Apps!NoneLeft
<1>8. CASE Apps!RemoveTree
  <2>1. kind = "stdio" /\ appsPc' = "done" /\ dirs' = 0 /\ appsResults' = appsResults
        /\ Len(appsResults) = Len(appsInputs)
        /\ \A k \in 1..Len(appsResults) : appsResults[k] = Apps!Code(appsInputs[k])
    BY <1>8 DEF Apps!RemoveTree, Apps!Goes, AppsPlace
  <2>2. appsResults = [k \in DOMAIN appsInputs |-> Apps!Code(appsInputs[k])]
    <3>1. DOMAIN appsInputs = 1..Len(appsInputs) /\ DOMAIN appsResults = 1..Len(appsResults)
      BY <1>0 DEF AppsGiven
    <3>2. appsResults = [k \in 1..Len(appsResults) |-> appsResults[k]]
      BY <1>0
    <3>. QED
      BY <3>1, <3>2, <2>1
  <2>3. Apps!AcceptedIsRight'
    <3>1. SUFFICES ASSUME Apps!Accepted', NEW k \in DOMAIN appsInputs PROVE appsInputs[k] = "right"
      BY <2>1, <1>0 DEF Apps!AcceptedIsRight
    <3>2. appsResults[k] > 0 /\ appsResults[k] = Apps!Code(appsInputs[k])
      BY <3>1, <2>1, <2>2, <1>0 DEF Apps!Accepted
    <3>. QED
      BY <3>2 DEF Apps!Code
  <2>. QED
    BY <2>1, <2>2, <2>3, <1>0 DEF Apps!TypeOK, AppsPlace, Apps!Placed, Apps!NoneLeft, Apps!Code
<1>9. CASE Apps!SnipRefused
  <2>1. kind = "signature" /\ appsPc' = "done" /\ dirs' = 1 /\ appsResults' = <<-2>>
    BY <1>9 DEF Apps!SnipRefused, Apps!Goes, AppsPlace
  <2>. QED
    BY <2>1, <1>1
<1>10. CASE Apps!SnipRuns
  <2>1. kind = "signature" /\ appsPc' = "done" /\ dirs' = 1 /\ appsResults' = <<Apps!SnipCode>>
    BY <1>10 DEF Apps!SnipRuns, Apps!Goes, AppsPlace
  <2>2. Apps!SnipCode \in {-1, 0, 1}
    BY DEF Apps!SnipCode
  <2>3. CASE Apps!SnipCode # 1
    <3>1. Apps!SnipCode \in -3..0 /\ Apps!SnipCode # -2
      BY <2>2, <2>3
    <3>. QED
      BY <3>1, <2>1, <1>1
  <2>4. CASE Apps!SnipCode = 1
    <3>1. appsInputs[1] = "right" \/ (~checks /\ appsInputs[1] = "wrong")
      <4>1. appsInputs[1] \in Apps!Behaviours
        BY <2>1 DEF AppsGiven
      <4>2. CASE appsInputs[1] \in {"fails", "hangs"}
        <5>1. Apps!SnipCode = -1
          BY <4>2 DEF Apps!SnipCode
        <5>. QED
          BY <5>1, <2>4
      <4>3. CASE appsInputs[1] = "wrong" /\ checks
        <5>1. Apps!SnipCode = 0
          BY <4>3 DEF Apps!SnipCode
        <5>. QED
          BY <5>1, <2>4
      <4>. QED
        BY <4>1, <4>2, <4>3 DEF Apps!Behaviours, AppsGiven
    <3>2. DOMAIN appsInputs = 1..1
      BY <2>1 DEF AppsGiven
    <3>3. <<1>> \in Seq(-3..1)
      OBVIOUS
    <3>. QED
      BY <3>1, <3>2, <3>3, <2>1, <2>4, <1>0
      DEF Apps!TypeOK, AppsPlace, Apps!AcceptedIsRight, Apps!Placed, Apps!NoneLeft
  <2>. QED
    BY <2>3, <2>4
<1>. QED
  BY <1>2, <1>3, <1>4, <1>5, <1>6, <1>7, <1>8, <1>9, <1>10 DEF Apps!Next

-----------------------------------------------------------------------------
(* ValgrindReport with inputs: the largest count is never less than a count. *)
GrindInv == Grind!TypeOK /\ Grind!FindingsKept

\* What is lost is a number only if something is.
LEMMA GrindLost == ASSUME Grind!Lost \in 1..999 PROVE \E b \in Blocks : heap[b] = "lost"
<1>1. SUFFICES ASSUME {b \in Blocks : heap[b] = "lost"} = {} PROVE Grind!Lost = 0
  OBVIOUS
<1>2. Grind!MapThenSumSet(LAMBDA b : [z \in Blocks |-> z][b], {}) = 0
  <2> DEFINE E(f, s) == LET x == CHOOSE y \in s : TRUE
                        IN  [z \in Blocks |-> z][x] + f[s \ {x}]
             Iter(f) == f = [s \in SUBSET {} |-> IF s = {} THEN 0 ELSE E(f, s)]
  <2>1. Iter([s \in SUBSET {} |-> 0])
    <3>1. \A s \in SUBSET {} : s = {}
      OBVIOUS
    <3>. QED
      BY <3>1, Zenon
  <2>2. Iter(CHOOSE f : Iter(f))
    BY <2>1, Zenon
  <2>3. (CHOOSE f : Iter(f))[{}] = 0
    <3>1. \A f : Iter(f) => f[{}] = 0
      OBVIOUS
    <3>. QED
      BY <2>2, <3>1
  <2>. QED
    BY <2>3 DEF Grind!MapThenSumSet, Grind!MapThenFoldSet
<1>. QED
  BY <1>1, <1>2 DEF Grind!Lost

\* The places of some errors are counted.
LEMMA GrindErrors ==
  ASSUME errs \in SUBSET ((Grind!Reads \cup Grind!Writes \cup Grind!Others) \X Sites), NEW kinds
  PROVE  /\ Grind!Errors(kinds) \in Nat /\ Grind!Errors(kinds) <= Grind!Cardinality(Sites)
         /\ Grind!Errors(kinds) # 0 <=> \E e \in errs : e[1] \in kinds
<1> DEFINE places == {e[2] : e \in {f \in errs : f[1] \in kinds}}
<1>1. \A S : Grind!Cardinality(S) = Cardinality(S) /\ (Grind!IsFiniteSet(S) <=> IsFiniteSet(S))
  BY DEF Grind!Cardinality, Cardinality, Grind!IsFiniteSet, IsFiniteSet
<1>2. Grind!IsFiniteSet(Sites)
  BY VerdictsAssumption DEF Grind!ValgrindReportAssumption
<1>3. IsFiniteSet(Sites)
  BY <1>1, <1>2
<1>4. places \in SUBSET Sites
  OBVIOUS
<1>5. places = {} <=> ~\E e \in errs : e[1] \in kinds
  OBVIOUS
<1>6. Grind!Errors(kinds) = Cardinality(places)
  BY <1>1 DEF Grind!Errors
<1>. HIDE DEF places
<1>7. IsFiniteSet(places) /\ Cardinality(places) <= Cardinality(Sites)
  BY <1>3, <1>4, FS_Subset
<1>8. Cardinality(places) \in Nat
  BY <1>7, FS_CardinalityType
<1>9. Cardinality(places) = 0 <=> places = {}
  BY <1>7, FS_EmptySet
<1>. QED
  BY <1>1, <1>5, <1>6, <1>7, <1>8, <1>9

\* The initial states have it.
LEMMA GrindStarts == ASSUME Grind!Init PROVE GrindInv
<1>. USE DEF Grind!Init
<1>1. Grind!Runs \in Nat /\ 1 <= Grind!Runs
  BY VerdictsAssumption DEF Grind!ValgrindReportAssumption, Grind!Runs
<1>2. Grind!IsFiniteSet(Sites)
  BY VerdictsAssumption DEF Grind!ValgrindReportAssumption
<1>3. Grind!Cardinality(Sites) \in Nat
  <2>1. Grind!Cardinality(Sites) = Cardinality(Sites) /\ IsFiniteSet(Sites)
    BY <1>2 DEF Grind!Cardinality, Cardinality, Grind!IsFiniteSet, IsFiniteSet
  <2>. QED
    BY <2>1, FS_CardinalityType
<1>. QED
  BY <1>1, <1>3 DEF GrindInv, Grind!TypeOK, Grind!FindingsKept, Grind!Keys

\* The report of a run raises what it has to and lowers nothing.
LEMMA GrindEnds == ASSUME GrindInv, Grind!ProgramEnds PROVE GrindInv'
<1> DEFINE reads == Grind!Errors(Grind!Reads)
           writes == Grind!Errors(Grind!Writes)
           leak == IF Grind!Summed /\ Grind!Lost < 1000 THEN 1 ELSE 0
           C == Grind!Cardinality(Sites)
<1>1. errs \in SUBSET ((Grind!Reads \cup Grind!Writes \cup Grind!Others) \X Sites)
  BY DEF GrindInv, Grind!TypeOK
<1>2. /\ reads \in Nat /\ reads <= C /\ (reads # 0 <=> \E e \in errs : e[1] \in Grind!Reads)
      /\ writes \in Nat /\ writes <= C /\ (writes # 0 <=> \E e \in errs : e[1] \in Grind!Writes)
  BY <1>1, GrindErrors
<1>3. Grind!Lost \in 1..999 => leak = 1
  BY GrindLost DEF Grind!Summed
<1>4. leak \in {0, 1}
  OBVIOUS
<1>5. C \in Nat
  <2>1. Grind!IsFiniteSet(Sites)
    BY VerdictsAssumption DEF Grind!ValgrindReportAssumption
  <2>2. C = Cardinality(Sites) /\ IsFiniteSet(Sites)
    BY <2>1 DEF Grind!Cardinality, Cardinality, Grind!IsFiniteSet, IsFiniteSet
  <2>. QED
    BY <2>2, FS_CardinalityType
<1>6. /\ worst' = [worst EXCEPT !["memory_leak"] = Grind!Larger(@, leak), !["invalid_read"] = Grind!Larger(@, reads),
                                 !["invalid_write"] = Grind!Larger(@, writes), !["use_after_free"] = Grind!Larger(@, 0)]
      /\ past' = past \cup {[errs |-> errs, lost |-> Grind!Lost]}
      /\ run' = (IF run = Grind!Runs THEN run ELSE run + 1)
      /\ grindPc' = (IF run = Grind!Runs THEN "done" ELSE "run")
      /\ heap' = [b \in Blocks |-> "none"] /\ errs' = {}
  <2>1. worst \in [Grind!Keys -> {1} \cup 0..C]
    BY DEF GrindInv, Grind!TypeOK
  <2>2. worst' = [k \in Grind!Keys |-> Grind!Larger(worst[k], Grind!Count[k])]
    BY DEF Grind!ProgramEnds, Grind!WorstCounts
  <2>3. /\ Grind!Count["memory_leak"] = leak /\ Grind!Count["invalid_read"] = reads
        /\ Grind!Count["invalid_write"] = writes /\ Grind!Count["use_after_free"] = 0
    BY DEF Grind!Count
  <2>. HIDE DEF reads, writes, leak, C
  <2>. QED
    BY <2>1, <2>2, <2>3 DEF Grind!ProgramEnds, Grind!Keys
<1>. HIDE DEF reads, writes, leak, C
<1>7. /\ worst \in [Grind!Keys -> {1} \cup 0..C] /\ DOMAIN worst = Grind!Keys
      /\ \A k \in Grind!Keys : worst[k] \in Nat /\ worst'[k] \in {1} \cup 0..C
      /\ worst' \in [Grind!Keys -> {1} \cup 0..C]
  <2>1. worst \in [Grind!Keys -> {1} \cup 0..C]
    BY DEF GrindInv, Grind!TypeOK, C
  <2>2. \A m, n : m \in {1} \cup 0..C /\ n \in {1} \cup 0..C => Grind!Larger(m, n) \in {1} \cup 0..C
    BY DEF Grind!Larger
  <2>3. {leak, reads, writes, 0} \subseteq {1} \cup 0..C
    BY <1>2, <1>4, <1>5
  <2>4. worst' \in [Grind!Keys -> {1} \cup 0..C]
    BY <2>1, <2>2, <2>3, <1>6 DEF Grind!Keys
  <2>. QED
    BY <2>1, <2>4, <1>5
<1>8. \A k \in Grind!Keys : worst'[k] >= worst[k]
  BY <1>2, <1>4, <1>6, <1>7 DEF Grind!Keys, Grind!Larger
<1>9. /\ worst'["memory_leak"] >= leak /\ worst'["invalid_read"] >= reads /\ worst'["invalid_write"] >= writes
      /\ worst'["invalid_read"] # worst["invalid_read"] => worst'["invalid_read"] = reads
      /\ worst'["invalid_write"] # worst["invalid_write"] => worst'["invalid_write"] = writes
  BY <1>2, <1>4, <1>6, <1>7 DEF Grind!Keys, Grind!Larger
<1>10. Grind!FindingsKept'
  <2> DEFINE accesses == worst["invalid_read"] + worst["invalid_write"]
             p0 == [errs |-> errs, lost |-> Grind!Lost]
  <2>1. Grind!Accessed(p0) <=> reads # 0 \/ writes # 0
    BY <1>2 DEF Grind!Accessed
  <2>2. (accesses > 0) <=> (\E p \in past : Grind!Accessed(p))
    BY DEF GrindInv, Grind!FindingsKept
  <2>3. (accesses' > 0) <=> accesses > 0 \/ reads # 0 \/ writes # 0
    BY <1>2, <1>7, <1>8, <1>9 DEF Grind!Keys
  <2>4. (\E p \in past' : Grind!Accessed(p)) <=> (\E p \in past : Grind!Accessed(p)) \/ Grind!Accessed(p0)
    BY <1>6
  <2>5. (\E p \in past' : p.lost \in 1..999) => worst'["memory_leak"] > 0
    <3>1. ASSUME NEW p \in past, p.lost \in 1..999 PROVE worst'["memory_leak"] > 0
      <4>1. worst["memory_leak"] > 0
        BY <3>1 DEF GrindInv, Grind!FindingsKept
      <4>. QED
        BY <4>1, <1>7, <1>8 DEF Grind!Keys
    <3>2. ASSUME p0.lost \in 1..999 PROVE worst'["memory_leak"] > 0
      <4>1. leak = 1
        BY <3>2, <1>3
      <4>. QED
        BY <4>1, <1>7, <1>9 DEF Grind!Keys
    <3>3. past' = past \cup {p0}
      BY <1>6
    <3>. HIDE DEF p0
    <3>. QED
      BY <3>1, <3>2, <3>3
  <2>. HIDE DEF p0
  <2>6. (accesses' > 0) <=> (\E p \in past' : Grind!Accessed(p))
    BY <2>1, <2>2, <2>3, <2>4
  <2>. QED
    BY <2>5, <2>6 DEF Grind!FindingsKept, Grind!Accessed, Grind!Reads, Grind!Writes
<1>11. Grind!TypeOK'
  <2>1. Grind!Runs \in Nat /\ Grind!Runs' = Grind!Runs
    BY VerdictsAssumption DEF Grind!ValgrindReportAssumption, Grind!Runs
  <2>2. run \in 1..Grind!Runs
    BY DEF GrindInv, Grind!TypeOK
  <2>3. run' \in 1..Grind!Runs
    BY <2>1, <2>2, <1>6
  <2>4. grindPc' \in {"run", "done", "cut"} /\ errs' \subseteq (Grind!Reads \cup Grind!Writes \cup Grind!Others) \X Sites
        /\ heap' \in [Blocks -> {"none", "held", "lost", "freed"}]
    BY <1>6
  <2>. QED
    BY <2>1, <2>3, <2>4, <1>7 DEF Grind!TypeOK, Grind!Keys, Grind!Reads, Grind!Writes, Grind!Others, C
<1>. QED
  BY <1>10, <1>11 DEF GrindInv

\* Every step keeps it.
LEMMA GrindSteps == GrindInv /\ Grind!Next => GrindInv'
<1> SUFFICES ASSUME GrindInv, Grind!Next PROVE GrindInv'
  OBVIOUS
<1>1. ASSUME UNCHANGED <<run, worst, past>>, grindPc' \in {"run", "cut"},
             heap' \in [Blocks -> {"none", "held", "lost", "freed"}],
             errs' \subseteq (Grind!Reads \cup Grind!Writes \cup Grind!Others) \X Sites
      PROVE  GrindInv'
  BY <1>1 DEF GrindInv, Grind!TypeOK, Grind!FindingsKept, Grind!Accessed, Grind!Keys, Grind!Reads, Grind!Writes, Grind!Others, Grind!Runs
<1>2. ASSUME NEW b \in Blocks, Grind!Allocate(b) \/ Grind!Lose(b) \/ Grind!Free(b) PROVE GrindInv'
  <2>1. UNCHANGED <<run, worst, past, errs, grindPc>> /\ grindPc = "run"
        /\ heap' \in [Blocks -> {"none", "held", "lost", "freed"}]
    BY <1>2 DEF Grind!Allocate, Grind!Lose, Grind!Free, Grind!Block, GrindInv, Grind!TypeOK
  <2>. QED
    BY <2>1, <1>1 DEF GrindInv, Grind!TypeOK
<1>3. ASSUME NEW k \in Grind!Reads \cup Grind!Writes \cup Grind!Others, NEW s \in Sites, Grind!Err(k, s) PROVE GrindInv'
  <2>1. UNCHANGED <<run, worst, past, heap, grindPc>> /\ grindPc = "run" /\ errs' = errs \cup {<<k, s>>}
    BY <1>3 DEF Grind!Err
  <2>. QED
    BY <2>1, <1>1 DEF GrindInv, Grind!TypeOK
<1>4. CASE Grind!Cut
  BY <1>4, <1>1 DEF Grind!Cut, GrindInv, Grind!TypeOK
<1>. QED
  BY <1>2, <1>3, <1>4, GrindEnds DEF Grind!Next

-----------------------------------------------------------------------------
(* ValgrindReport without inputs: the largest count is never less than a count. *)
AloneInv == Alone!TypeOK /\ Alone!FindingsKept

\* What is lost is a number only if something is.
LEMMA AloneLost == ASSUME Alone!Lost \in 1..999 PROVE \E b \in Blocks : heap[b] = "lost"
<1>1. SUFFICES ASSUME {b \in Blocks : heap[b] = "lost"} = {} PROVE Alone!Lost = 0
  OBVIOUS
<1>2. Alone!MapThenSumSet(LAMBDA b : [z \in Blocks |-> z][b], {}) = 0
  <2> DEFINE E(f, s) == LET x == CHOOSE y \in s : TRUE
                        IN  [z \in Blocks |-> z][x] + f[s \ {x}]
             Iter(f) == f = [s \in SUBSET {} |-> IF s = {} THEN 0 ELSE E(f, s)]
  <2>1. Iter([s \in SUBSET {} |-> 0])
    <3>1. \A s \in SUBSET {} : s = {}
      OBVIOUS
    <3>. QED
      BY <3>1, Zenon
  <2>2. Iter(CHOOSE f : Iter(f))
    BY <2>1, Zenon
  <2>3. (CHOOSE f : Iter(f))[{}] = 0
    <3>1. \A f : Iter(f) => f[{}] = 0
      OBVIOUS
    <3>. QED
      BY <2>2, <3>1
  <2>. QED
    BY <2>3 DEF Alone!MapThenSumSet, Alone!MapThenFoldSet
<1>. QED
  BY <1>1, <1>2 DEF Alone!Lost

\* The places of some errors are counted.
LEMMA AloneErrors ==
  ASSUME errs \in SUBSET ((Alone!Reads \cup Alone!Writes \cup Alone!Others) \X {1, 2}), NEW kinds
  PROVE  /\ Alone!Errors(kinds) \in Nat /\ Alone!Errors(kinds) <= Alone!Cardinality({1, 2})
         /\ Alone!Errors(kinds) # 0 <=> \E e \in errs : e[1] \in kinds
<1> DEFINE places == {e[2] : e \in {f \in errs : f[1] \in kinds}}
<1>1. \A S : Alone!Cardinality(S) = Cardinality(S) /\ (Alone!IsFiniteSet(S) <=> IsFiniteSet(S))
  BY DEF Alone!Cardinality, Cardinality, Alone!IsFiniteSet, IsFiniteSet
<1>2. Alone!IsFiniteSet({1, 2})
  BY VerdictsAssumption DEF Alone!ValgrindReportAssumption
<1>3. IsFiniteSet({1, 2})
  BY <1>1, <1>2
<1>4. places \in SUBSET {1, 2}
  OBVIOUS
<1>5. places = {} <=> ~\E e \in errs : e[1] \in kinds
  OBVIOUS
<1>6. Alone!Errors(kinds) = Cardinality(places)
  BY <1>1 DEF Alone!Errors
<1>. HIDE DEF places
<1>7. IsFiniteSet(places) /\ Cardinality(places) <= Cardinality({1, 2})
  BY <1>3, <1>4, FS_Subset
<1>8. Cardinality(places) \in Nat
  BY <1>7, FS_CardinalityType
<1>9. Cardinality(places) = 0 <=> places = {}
  BY <1>7, FS_EmptySet
<1>. QED
  BY <1>1, <1>5, <1>6, <1>7, <1>8, <1>9

\* The initial states have it.
LEMMA AloneStarts == ASSUME Alone!Init PROVE AloneInv
<1>. USE DEF Alone!Init
<1>1. Alone!Runs \in Nat /\ 1 <= Alone!Runs
  BY VerdictsAssumption DEF Alone!ValgrindReportAssumption, Alone!Runs
<1>2. Alone!IsFiniteSet({1, 2})
  BY VerdictsAssumption DEF Alone!ValgrindReportAssumption
<1>3. Alone!Cardinality({1, 2}) \in Nat
  <2>1. Alone!Cardinality({1, 2}) = Cardinality({1, 2}) /\ IsFiniteSet({1, 2})
    BY <1>2 DEF Alone!Cardinality, Cardinality, Alone!IsFiniteSet, IsFiniteSet
  <2>. QED
    BY <2>1, FS_CardinalityType
<1>. QED
  BY <1>1, <1>3 DEF AloneInv, Alone!TypeOK, Alone!FindingsKept, Alone!Keys

\* The report of a run raises what it has to and lowers nothing.
LEMMA AloneEnds == ASSUME AloneInv, Alone!ProgramEnds PROVE AloneInv'
<1> DEFINE reads == Alone!Errors(Alone!Reads)
           writes == Alone!Errors(Alone!Writes)
           leak == IF Alone!Summed /\ Alone!Lost < 1000 THEN 1 ELSE 0
           C == Alone!Cardinality({1, 2})
<1>1. errs \in SUBSET ((Alone!Reads \cup Alone!Writes \cup Alone!Others) \X {1, 2})
  BY DEF AloneInv, Alone!TypeOK
<1>2. /\ reads \in Nat /\ reads <= C /\ (reads # 0 <=> \E e \in errs : e[1] \in Alone!Reads)
      /\ writes \in Nat /\ writes <= C /\ (writes # 0 <=> \E e \in errs : e[1] \in Alone!Writes)
  BY <1>1, AloneErrors
<1>3. Alone!Lost \in 1..999 => leak = 1
  BY AloneLost DEF Alone!Summed
<1>4. leak \in {0, 1}
  OBVIOUS
<1>5. C \in Nat
  <2>1. Alone!IsFiniteSet({1, 2})
    BY VerdictsAssumption DEF Alone!ValgrindReportAssumption
  <2>2. C = Cardinality({1, 2}) /\ IsFiniteSet({1, 2})
    BY <2>1 DEF Alone!Cardinality, Cardinality, Alone!IsFiniteSet, IsFiniteSet
  <2>. QED
    BY <2>2, FS_CardinalityType
<1>6. /\ worst' = [worst EXCEPT !["memory_leak"] = Alone!Larger(@, leak), !["invalid_read"] = Alone!Larger(@, reads),
                                 !["invalid_write"] = Alone!Larger(@, writes), !["use_after_free"] = Alone!Larger(@, 0)]
      /\ past' = past \cup {[errs |-> errs, lost |-> Alone!Lost]}
      /\ run' = (IF run = Alone!Runs THEN run ELSE run + 1)
      /\ grindPc' = (IF run = Alone!Runs THEN "done" ELSE "run")
      /\ heap' = [b \in Blocks |-> "none"] /\ errs' = {}
  <2>1. worst \in [Alone!Keys -> {1} \cup 0..C]
    BY DEF AloneInv, Alone!TypeOK
  <2>2. worst' = [k \in Alone!Keys |-> Alone!Larger(worst[k], Alone!Count[k])]
    BY DEF Alone!ProgramEnds, Alone!WorstCounts
  <2>3. /\ Alone!Count["memory_leak"] = leak /\ Alone!Count["invalid_read"] = reads
        /\ Alone!Count["invalid_write"] = writes /\ Alone!Count["use_after_free"] = 0
    BY DEF Alone!Count
  <2>. HIDE DEF reads, writes, leak, C
  <2>. QED
    BY <2>1, <2>2, <2>3 DEF Alone!ProgramEnds, Alone!Keys
<1>. HIDE DEF reads, writes, leak, C
<1>7. /\ worst \in [Alone!Keys -> {1} \cup 0..C] /\ DOMAIN worst = Alone!Keys
      /\ \A k \in Alone!Keys : worst[k] \in Nat /\ worst'[k] \in {1} \cup 0..C
      /\ worst' \in [Alone!Keys -> {1} \cup 0..C]
  <2>1. worst \in [Alone!Keys -> {1} \cup 0..C]
    BY DEF AloneInv, Alone!TypeOK, C
  <2>2. \A m, n : m \in {1} \cup 0..C /\ n \in {1} \cup 0..C => Alone!Larger(m, n) \in {1} \cup 0..C
    BY DEF Alone!Larger
  <2>3. {leak, reads, writes, 0} \subseteq {1} \cup 0..C
    BY <1>2, <1>4, <1>5
  <2>4. worst' \in [Alone!Keys -> {1} \cup 0..C]
    BY <2>1, <2>2, <2>3, <1>6 DEF Alone!Keys
  <2>. QED
    BY <2>1, <2>4, <1>5
<1>8. \A k \in Alone!Keys : worst'[k] >= worst[k]
  BY <1>2, <1>4, <1>6, <1>7 DEF Alone!Keys, Alone!Larger
<1>9. /\ worst'["memory_leak"] >= leak /\ worst'["invalid_read"] >= reads /\ worst'["invalid_write"] >= writes
      /\ worst'["invalid_read"] # worst["invalid_read"] => worst'["invalid_read"] = reads
      /\ worst'["invalid_write"] # worst["invalid_write"] => worst'["invalid_write"] = writes
  BY <1>2, <1>4, <1>6, <1>7 DEF Alone!Keys, Alone!Larger
<1>10. Alone!FindingsKept'
  <2> DEFINE accesses == worst["invalid_read"] + worst["invalid_write"]
             p0 == [errs |-> errs, lost |-> Alone!Lost]
  <2>1. Alone!Accessed(p0) <=> reads # 0 \/ writes # 0
    BY <1>2 DEF Alone!Accessed
  <2>2. (accesses > 0) <=> (\E p \in past : Alone!Accessed(p))
    BY DEF AloneInv, Alone!FindingsKept
  <2>3. (accesses' > 0) <=> accesses > 0 \/ reads # 0 \/ writes # 0
    BY <1>2, <1>7, <1>8, <1>9 DEF Alone!Keys
  <2>4. (\E p \in past' : Alone!Accessed(p)) <=> (\E p \in past : Alone!Accessed(p)) \/ Alone!Accessed(p0)
    BY <1>6
  <2>5. (\E p \in past' : p.lost \in 1..999) => worst'["memory_leak"] > 0
    <3>1. ASSUME NEW p \in past, p.lost \in 1..999 PROVE worst'["memory_leak"] > 0
      <4>1. worst["memory_leak"] > 0
        BY <3>1 DEF AloneInv, Alone!FindingsKept
      <4>. QED
        BY <4>1, <1>7, <1>8 DEF Alone!Keys
    <3>2. ASSUME p0.lost \in 1..999 PROVE worst'["memory_leak"] > 0
      <4>1. leak = 1
        BY <3>2, <1>3
      <4>. QED
        BY <4>1, <1>7, <1>9 DEF Alone!Keys
    <3>3. past' = past \cup {p0}
      BY <1>6
    <3>. HIDE DEF p0
    <3>. QED
      BY <3>1, <3>2, <3>3
  <2>. HIDE DEF p0
  <2>6. (accesses' > 0) <=> (\E p \in past' : Alone!Accessed(p))
    BY <2>1, <2>2, <2>3, <2>4
  <2>. QED
    BY <2>5, <2>6 DEF Alone!FindingsKept, Alone!Accessed, Alone!Reads, Alone!Writes
<1>11. Alone!TypeOK'
  <2>1. Alone!Runs \in Nat /\ Alone!Runs' = Alone!Runs
    BY VerdictsAssumption DEF Alone!ValgrindReportAssumption, Alone!Runs
  <2>2. run \in 1..Alone!Runs
    BY DEF AloneInv, Alone!TypeOK
  <2>3. run' \in 1..Alone!Runs
    BY <2>1, <2>2, <1>6
  <2>4. grindPc' \in {"run", "done", "cut"} /\ errs' \subseteq (Alone!Reads \cup Alone!Writes \cup Alone!Others) \X {1, 2}
        /\ heap' \in [Blocks -> {"none", "held", "lost", "freed"}]
    BY <1>6
  <2>. QED
    BY <2>1, <2>3, <2>4, <1>7 DEF Alone!TypeOK, Alone!Keys, Alone!Reads, Alone!Writes, Alone!Others, C
<1>. QED
  BY <1>10, <1>11 DEF AloneInv

\* Every step keeps it.
LEMMA AloneSteps == AloneInv /\ Alone!Next => AloneInv'
<1> SUFFICES ASSUME AloneInv, Alone!Next PROVE AloneInv'
  OBVIOUS
<1>1. ASSUME UNCHANGED <<run, worst, past>>, grindPc' \in {"run", "cut"},
             heap' \in [Blocks -> {"none", "held", "lost", "freed"}],
             errs' \subseteq (Alone!Reads \cup Alone!Writes \cup Alone!Others) \X {1, 2}
      PROVE  AloneInv'
  BY <1>1 DEF AloneInv, Alone!TypeOK, Alone!FindingsKept, Alone!Accessed, Alone!Keys, Alone!Reads, Alone!Writes, Alone!Others, Alone!Runs
<1>2. ASSUME NEW b \in Blocks, Alone!Allocate(b) \/ Alone!Lose(b) \/ Alone!Free(b) PROVE AloneInv'
  <2>1. UNCHANGED <<run, worst, past, errs, grindPc>> /\ grindPc = "run"
        /\ heap' \in [Blocks -> {"none", "held", "lost", "freed"}]
    BY <1>2 DEF Alone!Allocate, Alone!Lose, Alone!Free, Alone!Block, AloneInv, Alone!TypeOK
  <2>. QED
    BY <2>1, <1>1 DEF AloneInv, Alone!TypeOK
<1>3. ASSUME NEW k \in Alone!Reads \cup Alone!Writes \cup Alone!Others, NEW s \in {1, 2}, Alone!Err(k, s) PROVE AloneInv'
  <2>1. UNCHANGED <<run, worst, past, heap, grindPc>> /\ grindPc = "run" /\ errs' = errs \cup {<<k, s>>}
    BY <1>3 DEF Alone!Err
  <2>. QED
    BY <2>1, <1>1 DEF AloneInv, Alone!TypeOK
<1>4. CASE Alone!Cut
  BY <1>4, <1>1 DEF Alone!Cut, AloneInv, Alone!TypeOK
<1>. QED
  BY <1>2, <1>3, <1>4, AloneEnds DEF Alone!Next

-----------------------------------------------------------------------------
(* All of them: one part goes on, the others rest. *)
VerdictsInv ==
  /\ part = "tests" => IndInv
  /\ part = "apps" => AppsInv
  /\ part = "runs" => GrindInv
  /\ part = "empty" => AloneInv

\* The initial states have it.
LEMMA VerdictsStart == VerdictsInit => VerdictsInv
<1>. SUFFICES ASSUME VerdictsInit PROVE VerdictsInv
  OBVIOUS
<1>1. part = "tests" => IndInv
  BY Starts DEF VerdictsInit
<1>2. part = "apps" => AppsInv
  BY AppsStarts DEF VerdictsInit
<1>3. part = "runs" => GrindInv
  <2>1. part = "runs" => Grind!Init
    BY DEF VerdictsInit
  <2>. QED
    BY <2>1, GrindStarts
<1>4. part = "empty" => AloneInv
  <2>1. part = "empty" => Alone!Init
    BY DEF VerdictsInit
  <2>. QED
    BY <2>1, AloneStarts
<1>. QED
  BY <1>1, <1>2, <1>3, <1>4 DEF VerdictsInv

\* What a rest leaves alone.
LEMMA TestsRest == IndInv /\ UNCHANGED vars => IndInv'
BY DEF vars, IndInv, TypeOK, Before, Under, Held, Seen, CtypesRight, PassedIsRight,
       FailureHasCause, NoneLeft, Alive, Going, Passed

LEMMA AppsRest == AppsInv /\ UNCHANGED appsVars => AppsInv'
BY DEF appsVars, AppsInv, AppsGiven, Apps!TypeOK, AppsPlace, Apps!AcceptedIsRight, Apps!Accepted,
       Apps!Placed, Apps!NoneLeft, Apps!Times, Apps!Code

LEMMA GrindRest == GrindInv /\ UNCHANGED grindVars => GrindInv'
BY DEF grindVars, GrindInv, Grind!TypeOK, Grind!FindingsKept, Grind!Accessed, Grind!Runs

LEMMA AloneRest == AloneInv /\ UNCHANGED grindVars => AloneInv'
BY DEF grindVars, AloneInv, Alone!TypeOK, Alone!FindingsKept, Alone!Accessed, Alone!Runs

\* Every step keeps it.
LEMMA VerdictsStep == VerdictsInv /\ [VerdictsNext]_verdictsVars => VerdictsInv'
<1>. SUFFICES ASSUME VerdictsInv, [VerdictsNext]_verdictsVars PROVE VerdictsInv'
  OBVIOUS
<1>. USE DEF VerdictsInv
<1>1. CASE UNCHANGED verdictsVars
  <2>1. UNCHANGED <<part, vars, appsVars, grindVars>>
    BY <1>1 DEF verdictsVars
  <2>. QED
    BY <2>1, TestsRest, AppsRest, GrindRest, AloneRest
<1>2. CASE part = "tests" /\ Next /\ TestOnly
  <2>1. IndInv' /\ part' = "tests"
    BY <1>2, ChildSteps, ParentSteps DEF Next, TestOnly
  <2>. QED
    BY <2>1
<1>3. CASE part = "apps" /\ Apps!Next /\ AppsOnly
  <2>1. AppsInv' /\ part' = "apps"
    BY <1>3, AppsSteps DEF AppsOnly
  <2>. QED
    BY <2>1
<1>4. CASE part = "runs" /\ Grind!Next /\ GrindOnly
  <2>1. GrindInv' /\ part' = "runs"
    BY <1>4, GrindSteps DEF GrindOnly
  <2>. QED
    BY <2>1
<1>5. CASE part = "empty" /\ Alone!Next /\ GrindOnly
  <2>1. AloneInv' /\ part' = "empty"
    BY <1>5, AloneSteps DEF GrindOnly
  <2>. QED
    BY <2>1
<1>6. CASE part \in {"args", "words", "numbers", "two", "many"} /\ part' = part
  BY <1>6
<1>. QED
  BY <1>1, <1>2, <1>3, <1>4, <1>5, <1>6
  DEF VerdictsNext, ArgsOnly, CmpOnly, MetrOnly

\* So it holds for ever.
LEMMA VerdictsInvariance == VerdictsSpec => []VerdictsInv
BY VerdictsStart, VerdictsStep, PTL DEF VerdictsSpec

(* What one run has shown stays in the verdict: an APPS program is         *)
(* accepted only if every run ended well and as asked for, every result is *)
(* of its own input, and an invalid access or a loss that valgrind has     *)
(* reported on one input is found, however many inputs, blocks and places  *)
(* there are (apps_sandbox.py:164-449, testing_util.py:506-601).           *)
THEOREM FindingsStay == VerdictsSpec => []FindingsKept
<1>1. VerdictsInv => FindingsKept
  BY DEF VerdictsInv, FindingsKept, IndInv, AppsInv, GrindInv, AloneInv
<1>. QED
  BY <1>1, VerdictsInvariance, PTL
=============================================================================
