--------------------------- MODULE GradingProofs ---------------------------
(***************************************************************************)
(* Proofs about the grading of programs.                                   *)
(*                                                                         *)
(* About Judge: for every number of tests, every timeout and margin and    *)
(* every program, however slow its children are and whenever they die.     *)
(* Two arguments carry them.  Listed and ReadRight follow a verdict from   *)
(* the tests of a child through the shared list into what the parent       *)
(* reads.  Timely accounts for every second of the two joins: a child that *)
(* is still there has spent it idle, or in subprocesses with limits of     *)
(* their own.                                                              *)
(*                                                                         *)
(* About GradePool, as MCGrading instantiates it: for every number of      *)
(* problems, samples and workers.  Placed says where the list of tasks has *)
(* those of a problem, and Filled what the loop over the results has put   *)
(* into the list of a problem so far.                                      *)
(***************************************************************************)
EXTENDS MCGrading, SequenceTheorems, FiniteSetTheorems, TLAPS

\* What a child in state s has spent in subprocesses, at the most.
Used(c, s) ==
  CASE s.st = "compile" -> s.spent
    [] s.st = "run" -> CompileLimit(c) + (s.test - 1) * TestLimit(c) + s.spent
    [] s.st \in {"report", "note"} -> CompileLimit(c) + s.test * TestLimit(c)
    [] OTHER -> 0

InLimits(c, s) ==
  /\ s.st = "compile" => s.spent <= CompileLimit(c) /\ s.test = 1
  /\ s.st = "run" => s.spent <= TestLimit(c)

\* No second of the joins is unaccounted for.
Timely(c) ==
  /\ InLimits(c, child[c])
  /\ Alive(c) /\ child[c].idle < Allowance(c) =>
       age <= child[c].idle + Used(c, child[c])
  /\ child[c].killed => child[c].idle >= Allowance(c)

\* The parent waits its full time for a child that is still there.
Waits ==
  /\ pc = "start" => age = 0 /\ \A c \in Children : child[c] = Off
  /\ pc = "join corr" => waited = age
  /\ pc \in {"join safe", "kill corr"} /\ Alive("corr") => age = JoinTimeout
  /\ pc \in {"kill corr", "kill safe"} /\ Alive("safe") => age = JoinTimeout

Exact == {Clean, "wrong answer", "compile error"}

\* A list of verdicts with its metadata says no more than is true.
Truthful(v, note) ==
  /\ v \in Verdicts \ {<<>>}
  /\ Passed(v) => AllRight
  /\ note \in Exact /\ AllRight => Passed(v)

\* All tests before u have been answered right.
RightBefore(u, v) ==
  /\ v \in [1..(u - 1) -> {Right}]
  /\ prog.compiles["corr"] /\ \A t \in T : t < u => prog.right[t]

\* The most errors of the tests before u, of which there may be none.
WorstBefore(u, n) ==
  /\ n \in 0..MaxErrors
  /\ \A t \in T : t < u => prog.errors[t] <= n
  /\ n = 0 \/ \E t \in T : t < u /\ prog.errors[t] = n

Reported(c, v, note) ==
  IF c = "corr" THEN Truthful(v, note)
  ELSE v \in 0..MaxErrors /\ (note = Clean => WorstBefore(Last + 1, v))

Findings(c, s) ==
  /\ s.st = "compile" => s.found = (IF c = "corr" THEN <<>> ELSE 0)
  /\ s.st = "run" =>
       IF c = "corr" THEN RightBefore(s.test, s.found) ELSE WorstBefore(s.test, s.found)
  /\ s.st \in {"report", "note"} => Reported(c, s.found, s.note)

\* What a child has found, and what it has put into its lists.
Listed(c) ==
  LET s == child[c]
      b == box[c]
  IN  /\ Findings(c, s)
      /\ s.st \in {"off", "boot", "compile", "run", "report"} => b.result = None
      /\ s.st = "note" => b.result = s.found
      /\ s.st # "over" => b.meta = None
      /\ b.result # None => Reported(c, b.result, b.meta)
      /\ b.meta # None => b.result # None

\* The parent is past the signal for a child, and past reading its result.
Past(c) ==
  \/ c = "corr" /\ pc = "kill safe"
  \/ pc \in {"read corr", "note corr", "read safe", "note safe", "done"}

HasRead(c) ==
  \/ c = "corr" /\ pc \in {"note corr", "read safe"}
  \/ pc \in {"note safe", "done"}

Default(c) == IF c = "corr" THEN NoVerdict ELSE 0

\* What was read is in the list, or nothing was; a child that was not killed
\* is over when its list is read.
ReadRight(c) ==
  /\ Past(c) /\ ~child[c].killed => ~Alive(c)
  /\ HasRead(c) => \/ got[c].result = Default(c)
                   \/ box[c].result # None /\ got[c].result = box[c].result
  /\ HasRead(c) /\ ~child[c].killed /\ box[c].result # None =>
       got[c].result = box[c].result

IndInv ==
  /\ TypeOK /\ Waits
  /\ \A c \in Children : Timely(c) /\ Listed(c) /\ ReadRight(c)

-----------------------------------------------------------------------------
(* Nothing about the problem or the program ever changes. *)

\* What depends on the problem alone stays as it is.
LEMMA SameProblem ==
  ASSUME prog' = prog
  PROVE  /\ T' = T /\ Last' = Last /\ JoinTimeout' = JoinTimeout
         /\ NoVerdict' = NoVerdict /\ (AllRight' <=> AllRight)
         /\ \A c \in Children : /\ CompileLimit(c)' = CompileLimit(c)
                                /\ TestLimit(c)' = TestLimit(c)
                                /\ Allowance(c)' = Allowance(c)
                                /\ ChildState(c)' = ChildState(c)
                                /\ Default(c)' = Default(c)
BY DEF T, Last, Kind, JoinTimeout, NoVerdict, AllRight, CompileLimit, TestLimit,
       Allowance, ChildState, Default

\* So does what a child may have found of it.
LEMMA SameFindings ==
  ASSUME prog' = prog
  PROVE  \A c \in Children :
           /\ \A v, note : Reported(c, v, note)' <=> Reported(c, v, note)
           /\ \A s : Findings(c, s)' <=> Findings(c, s)
           /\ \A s : InLimits(c, s)' <=> InLimits(c, s)
           /\ \A s : Used(c, s)' = Used(c, s)
<1>1. T' = T /\ Last' = Last /\ (AllRight' <=> AllRight)
      /\ \A c \in Children : CompileLimit(c)' = CompileLimit(c) /\ TestLimit(c)' = TestLimit(c)
  BY SameProblem
<1>2. \A v, note : Truthful(v, note)' <=> Truthful(v, note)
  BY <1>1 DEF Truthful, Passed
<1>3. \A u, n : WorstBefore(u, n)' <=> WorstBefore(u, n)
  BY <1>1 DEF WorstBefore
<1>4. \A u, v : RightBefore(u, v)' <=> RightBefore(u, v)
  BY <1>1 DEF RightBefore
<1>5. \A c \in Children : \A v, note : Reported(c, v, note)' <=> Reported(c, v, note)
  BY <1>1, <1>2, <1>3 DEF Reported
<1>6. \A c \in Children : \A s : Findings(c, s)' <=> Findings(c, s)
  BY <1>3, <1>4, <1>5 DEF Findings
<1>7. \A c \in Children : \A s : InLimits(c, s)' <=> InLimits(c, s)
  BY <1>1 DEF InLimits
<1>8. \A c \in Children : \A s : Used(c, s)' = Used(c, s)
  BY <1>1 DEF Used
<1>. QED
  BY <1>5, <1>6, <1>7, <1>8

-----------------------------------------------------------------------------
(* The arithmetic of the time limits. *)

\* The time for so many tests grows with their number.
LEMMA Products ==
  ASSUME NEW a \in Nat, NEW b \in Nat, NEW k \in Nat, a <= b
  PROVE  a * k \in Nat /\ b * k \in Nat /\ a * k <= b * k /\ (a + 1) * k = a * k + k
<1>1. PICK d \in Nat : b = a + d
  <2>1. b - a \in Nat /\ b = a + (b - a)
    OBVIOUS
  <2>. QED
    BY <2>1
<1>2. b * k = a * k + d * k /\ d * k \in Nat /\ a * k \in Nat
  BY <1>1
<1>. QED
  BY <1>2

\* The global timeout is the allowance and all that the subprocesses may take.
LEMMA LimitFacts ==
  ASSUME TypeOK, NEW c \in Children
  PROVE  /\ CompileLimit(c) \in Nat /\ TestLimit(c) \in Nat /\ Last \in Nat \ {0}
         /\ T = 1..Last
         /\ Allowance(c) \in Int /\ JoinTimeout \in Nat
         /\ Allowance(c) + CompileLimit(c) + Last * TestLimit(c) = JoinTimeout
<1>. USE JudgeAssumption
<1>0. Kind \in {"io", "call"}
  BY DEF TypeOK, Kind, Program, ProgramOf
<1>1. CASE Kind = "io"
  <2>1. /\ CompileLimit(c) = Timeout /\ TestLimit(c) = Timeout /\ Last = Tests
        /\ Allowance(c) = PerTest * Tests + Margin - Timeout
        /\ JoinTimeout = (Timeout + PerTest) * Tests + Margin
        /\ T = 1..Last
    BY <1>1 DEF CompileLimit, TestLimit, Last, Allowance, JoinTimeout, T, Inputs
  <2>. DEFINE x == Tests * Timeout
              y == PerTest * Tests
  <2>2. (Timeout + PerTest) * Tests = x + y /\ x \in Nat /\ y \in Nat
    OBVIOUS
  <2>3. Last * TestLimit(c) = x /\ JoinTimeout = x + y + Margin
        /\ Allowance(c) = y + Margin - Timeout
    BY <2>1, <2>2
  <2>4. CompileLimit(c) \in Nat /\ TestLimit(c) \in Nat /\ Last \in Nat \ {0} /\ T = 1..Last
    BY <2>1
  <2>5. CompileLimit(c) = Timeout /\ Timeout \in Nat /\ Margin \in Nat
    BY <2>1
  <2>. HIDE DEF x, y
  <2>6. Allowance(c) \in Int /\ JoinTimeout \in Nat
        /\ Allowance(c) + CompileLimit(c) + Last * TestLimit(c) = JoinTimeout
    BY ONLY <2>2, <2>3, <2>5
  <2>. QED
    BY <2>4, <2>6
<1>2. CASE Kind = "call"
  <2>1. Last = 1 /\ T = 1..Last /\ JoinTimeout = Timeout + CallMargin
    BY <1>2 DEF Last, T, Inputs, JoinTimeout
  <2>2. c = "corr" \/ c = "safe"
    BY DEF Children
  <2>. QED
    BY <1>2, <2>1, <2>2 DEF CompileLimit, TestLimit, Allowance
<1>. QED
  BY <1>0, <1>1, <1>2

\* A child within its limits has used no more than all of them together.
LEMMA UsedBound ==
  ASSUME TypeOK, NEW c \in Children, NEW s \in ChildState(c), InLimits(c, s)
  PROVE  /\ Used(c, s) \in Nat
         /\ Used(c, s) <= CompileLimit(c) + Last * TestLimit(c)
<1>1. s.test \in 1..Last /\ s.spent \in Nat /\ s.test - 1 \in Nat /\ s.test \in Nat
  BY LimitFacts DEF ChildState
<1>2. /\ (s.test - 1) * TestLimit(c) \in Nat
      /\ s.test * TestLimit(c) = (s.test - 1) * TestLimit(c) + TestLimit(c)
  BY <1>1, LimitFacts, Products
<1>3. s.test * TestLimit(c) <= Last * TestLimit(c) /\ Last * TestLimit(c) \in Nat
  BY <1>1, LimitFacts, Products
<1>4. CompileLimit(c) \in Nat /\ TestLimit(c) \in Nat
  BY LimitFacts
<1>. DEFINE before == (s.test - 1) * TestLimit(c)
            upTo == s.test * TestLimit(c)
            all == Last * TestLimit(c)
<1>5. /\ before \in Nat /\ upTo = before + TestLimit(c) /\ upTo <= all /\ all \in Nat
      /\ Used(c, s) = CASE s.st = "compile" -> s.spent
                        [] s.st = "run" -> CompileLimit(c) + before + s.spent
                        [] s.st \in {"report", "note"} -> CompileLimit(c) + upTo
                        [] OTHER -> 0
  BY <1>2, <1>3 DEF Used
<1>. HIDE DEF before, upTo, all
<1>. SUFFICES Used(c, s) \in Nat /\ Used(c, s) <= CompileLimit(c) + all
  BY DEF all
<1>6. CASE s.st = "compile"
  BY <1>1, <1>4, <1>5, <1>6 DEF InLimits
<1>7. CASE s.st = "run"
  BY <1>1, <1>4, <1>5, <1>7 DEF InLimits
<1>8. CASE s.st \in {"report", "note"}
  BY <1>1, <1>4, <1>5, <1>8
<1>9. CASE s.st \notin {"compile", "run", "report", "note"}
  BY <1>4, <1>5, <1>9
<1>. QED
  BY <1>6, <1>7, <1>8, <1>9

-----------------------------------------------------------------------------
(* What the steps of a child before its report have in common.             *)

Moves(c) ==
  /\ child[c].st \in {"boot", "compile", "run"}
  /\ DOMAIN child' = Children /\ \A d \in Children \ {c} : child'[d] = child[d]
  /\ child'[c] \in ChildState(c) /\ child'[c].st \in {"compile", "run", "report"}
  /\ child'[c].killed = child[c].killed /\ child'[c].idle = child[c].idle
  /\ InLimits(c, child'[c]) /\ Findings(c, child'[c])
  /\ Used(c, child[c]) <= Used(c, child'[c])
  /\ UNCHANGED <<prog, pc, waited, box, got, age>>

\* A child that goes on to its next step, and nothing else changes.
LEMMA GoesFacts ==
  ASSUME TypeOK, NEW c \in Children, NEW t \in T, NEW f \in Found(c), NEW note \in Notes,
         NEW st \in {"compile", "run", "report"}, Goes(c, st, t, f, note)
  PROVE  /\ DOMAIN child' = Children /\ \A d \in Children \ {c} : child'[d] = child[d]
         /\ child'[c] \in ChildState(c)
         /\ child'[c].st = st /\ child'[c].spent = 0 /\ child'[c].test = t
         /\ child'[c].found = f /\ child'[c].note = note
         /\ child'[c].killed = child[c].killed /\ child'[c].idle = child[c].idle
         /\ UNCHANGED <<prog, pc, waited, box, got, age>>
<1>1. child[c] \in ChildState(c) /\ DOMAIN child = Children
  BY DEF TypeOK, ChildOK
<1>. DEFINE s == [child[c] EXCEPT !.st = st, !.spent = 0, !.test = t, !.found = f, !.note = note]
<1>2. child' = [child EXCEPT ![c] = s]
  BY DEF Goes
<1>3. s \in ChildState(c) /\ s.st = st /\ s.spent = 0 /\ s.test = t /\ s.found = f
      /\ s.note = note /\ s.killed = child[c].killed /\ s.idle = child[c].idle
  BY <1>1 DEF ChildState
<1>. HIDE DEF s
<1>4. DOMAIN child' = Children /\ child'[c] = s
      /\ \A d \in Children \ {c} : child'[d] = child[d]
  BY <1>1, <1>2
<1>. QED
  BY <1>3, <1>4 DEF Goes

\* A child that goes on has used up no more than its new place allows for.
LEMMA GoesMoves ==
  ASSUME TypeOK, NEW c \in Children, NEW t \in T, NEW f \in Found(c), NEW note \in Notes,
         NEW st \in {"compile", "run", "report"}, Goes(c, st, t, f, note),
         child[c].st \in {"boot", "compile", "run"}, InLimits(c, child[c]),
         \/ child[c].st = "boot" /\ t = 1
         \/ child[c].st = "compile" /\ st # "compile"
         \/ child[c].st = "run" /\ st = "run" /\ t = child[c].test + 1
         \/ child[c].st = "run" /\ st = "report" /\ t = child[c].test,
         Findings(c, child'[c])
  PROVE  Moves(c)
<1>. DEFINE s == child[c]
            n == child'[c]
<1>1. s \in ChildState(c) /\ n \in ChildState(c)
  <2>1. s \in ChildState(c)
    BY DEF TypeOK, ChildOK
  <2>2. n \in ChildState(c)
    BY GoesFacts
  <2>. QED
    BY <2>1, <2>2
<1>2. n.st = st /\ n.spent = 0 /\ n.test = t /\ n.found = f /\ n.note = note
  BY GoesFacts
<1>3. InLimits(c, n)
  BY <1>2, LimitFacts DEF InLimits
<1>4. Used(c, s) <= Used(c, n)
  <2>1. s.test \in 1..Last /\ t \in 1..Last /\ s.spent \in Nat
    BY <1>1, LimitFacts DEF ChildState
  <2>2. CompileLimit(c) \in Nat /\ TestLimit(c) \in Nat
    BY LimitFacts
  <2>3. CASE s.st = "boot"
    BY <1>1, <1>3, <2>3, UsedBound DEF Used
  <2>4. CASE s.st = "compile"
    <3>1. Used(c, s) <= CompileLimit(c) /\ Used(c, s) \in Nat
      BY <1>1, <2>4, UsedBound DEF Used, InLimits
    <3>2. CompileLimit(c) <= Used(c, n)
      <4>1. (t - 1) * TestLimit(c) \in Nat /\ t * TestLimit(c) \in Nat
        <5>1. t - 1 \in Nat /\ t \in Nat
          BY <2>1
        <5>. QED
          BY <2>2, <5>1, Products
      <4>. QED
        BY <1>2, <2>2, <2>4, <4>1 DEF Used
    <3>. QED
      BY <1>1, <1>3, <2>2, <3>1, <3>2, UsedBound
  <2>5. CASE s.st = "run"
    <3>1. /\ (s.test - 1) * TestLimit(c) \in Nat
          /\ s.test * TestLimit(c) = (s.test - 1) * TestLimit(c) + TestLimit(c)
      <4>1. s.test - 1 \in Nat
        BY <2>1
      <4>. QED
        BY <2>1, <2>2, <4>1, Products
    <3>2. Used(c, s) <= CompileLimit(c) + s.test * TestLimit(c)
      BY <2>1, <2>2, <2>5, <3>1 DEF Used, InLimits
    <3>3. Used(c, n) = CompileLimit(c) + s.test * TestLimit(c)
      <4>1. CASE st = "run" /\ t = s.test + 1
        <5>1. t - 1 = s.test
          BY <2>1, <4>1
        <5>. QED
          BY <1>2, <2>1, <2>2, <3>1, <4>1, <5>1 DEF Used
      <4>2. CASE st = "report" /\ t = s.test
        BY <1>2, <4>2 DEF Used
      <4>. QED
        BY <2>5, <4>1, <4>2
    <3>. QED
      BY <3>2, <3>3
  <2>. QED
    BY <2>3, <2>4, <2>5
<1>. QED
  BY <1>2, <1>3, <1>4, GoesFacts DEF Moves

-----------------------------------------------------------------------------
(* The verdicts of the first child. *)

\* A list of codes is one of the verdicts, and passed if all are positive.
LEMMA ListOfCodes ==
  ASSUME NEW k \in 1..Tests, NEW v \in [1..k -> -4..1]
  PROVE  v \in Verdicts \ {<<>>} /\ (Passed(v) <=> \A i \in 1..k : v[i] > 0)
<1>1. k \in 0..Tests /\ 1 \in 1..k
  BY JudgeAssumption
<1>2. v \in Verdicts
  BY <1>1 DEF Verdicts
<1>3. v # <<>>
  <2>1. DOMAIN v = 1..k /\ DOMAIN <<>> = {}
    OBVIOUS
  <2>. QED
    BY <1>1, <2>1
<1>. QED
  BY <1>2, <1>3 DEF Passed

\* A single code that is no success is true of every program that fails.
LEMMA OneCode ==
  ASSUME NEW k \in -4..0, NEW note, note \in Exact => ~AllRight
  PROVE  Truthful(<<k>>, note) /\ <<k>> \in Verdicts
<1>. DEFINE v == <<k>>
           n == 1
<1>1. v \in [1..n -> -4..1] /\ v[1] = k /\ n \in 1..Tests
  BY JudgeAssumption
<1>. HIDE DEF v, n
<1>2. v \in Verdicts \ {<<>>} /\ ~Passed(v)
  <2>1. v \in Verdicts \ {<<>>} /\ (Passed(v) <=> \A i \in 1..n : v[i] > 0)
    BY <1>1, ListOfCodes
  <2>2. 1 \in 1..n /\ ~(k > 0)
    BY DEF n
  <2>. QED
    BY <1>1, <2>1, <2>2
<1>3. Truthful(v, note)
  BY <1>2 DEF Truthful
<1>. QED
  BY <1>2, <1>3 DEF v

\* The code of the next test after tests that were all right.
LEMMA OneMore ==
  ASSUME NEW u \in 1..Tests, NEW v \in [1..(u - 1) -> {Right}], NEW x \in -4..1
  PROVE  /\ Append(v, x) \in [1..u -> -4..1]
         /\ \A i \in 1..u : Append(v, x)[i] = IF i < u THEN Right ELSE x
<1>1. v \in Seq({Right}) /\ Len(v) = u - 1 /\ \A i \in 1..(u - 1) : v[i] = Right
  <2>1. u - 1 \in Nat /\ DOMAIN v = 1..(u - 1)
    BY JudgeAssumption
  <2>. QED
    BY <2>1
<1>2. \A i \in 1..u : Append(v, x)[i] = IF i < u THEN Right ELSE x
  BY <1>1, JudgeAssumption
<1>3. Append(v, x) \in [1..u -> -4..1]
  <2>1. Append(v, x) \in Seq(-4..1)
    BY <1>1 DEF Right
  <2>2. Len(Append(v, x)) = u
    BY <1>1, JudgeAssumption
  <2>. QED
    BY <2>1, <2>2, LenProperties
<1>. QED
  BY <1>2, <1>3

\* The worst run up to a test, with that test counted in.
LEMMA WorstLonger ==
  ASSUME TypeOK, NEW u \in T, NEW n, WorstBefore(u, n)
  PROVE  WorstBefore(u + 1, WorstOf(n, prog.errors[u]))
<1>1. u \in 1..Last /\ T = 1..Last /\ Last \in Nat /\ n \in 0..MaxErrors
  BY LimitFacts DEF WorstBefore, Children
<1>2. \A t \in T : prog.errors[t] \in 0..MaxErrors
  BY DEF TypeOK, Program, ProgramOf, T, Kind
<1>3. \A t \in T : t < u + 1 <=> t < u \/ t = u
  BY <1>1
<1>. DEFINE e == prog.errors[u]
            m == WorstOf(n, e)
<1>4. e \in 0..MaxErrors /\ MaxErrors \in Nat
  BY <1>2, JudgeAssumption
<1>5. m \in 0..MaxErrors /\ n <= m /\ e <= m /\ (m = n \/ m = e)
  BY <1>1, <1>4 DEF WorstOf
<1>. HIDE DEF e, m
<1>6. \A t \in T : t < u + 1 => prog.errors[t] <= m
  <2>. SUFFICES ASSUME NEW t \in T, t < u + 1 PROVE prog.errors[t] <= m
    OBVIOUS
  <2>1. CASE t = u
    BY <1>5, <2>1 DEF e
  <2>2. CASE t < u
    BY <1>1, <1>2, <1>5, <2>2 DEF WorstBefore
  <2>. QED
    BY <1>3, <2>1, <2>2
<1>7. m = 0 \/ \E t \in T : t < u + 1 /\ prog.errors[t] = m
  <2>1. CASE m = e
    BY <1>3, <2>1 DEF e
  <2>2. CASE m = n
    BY <1>3, <2>2 DEF WorstBefore
  <2>. QED
    BY <1>5, <2>1, <2>2
<1>8. WorstBefore(u + 1, m)
  BY <1>5, <1>6, <1>7 DEF WorstBefore
<1>. QED
  BY <1>8 DEF m, e

\* What every program and its tests have in common.
LEMMA ProgramFacts ==
  ASSUME TypeOK
  PROVE  /\ Kind \in {"io", "call"} /\ Last \in 1..Tests /\ T = 1..Last /\ 1 \in T
         /\ \A t \in T : prog.right[t] => prog.compiles["corr"]
         /\ None \in Notes /\ Clean \in Notes /\ None \notin Exact
<1>1. Kind \in {"io", "call"}
  BY DEF TypeOK, Kind, Program, ProgramOf
<1>2. Last \in 1..Tests /\ T = 1..Last /\ 1 \in T
  <2>1. Tests \in Nat /\ Tests >= 1
    BY JudgeAssumption
  <2>2. CASE Kind = "io"
    BY <2>1, <2>2 DEF Last, T, Inputs
  <2>3. CASE Kind = "call"
    BY <2>1, <2>3 DEF Last, T, Inputs
  <2>. QED
    BY <1>1, <2>2, <2>3
<1>3. \A t \in T : prog.right[t] => prog.compiles["corr"]
  BY DEF TypeOK, Program, ProgramOf, T, Kind
<1>4. None \in Notes /\ Clean \in Notes /\ None \notin Exact
  BY JudgeAssumption DEF Notes, Metadata, Exact
<1>. QED
  BY <1>1, <1>2, <1>3, <1>4

\* A child's report ends its tests where it is.
LEMMA ReturnsMoves ==
  ASSUME IndInv, NEW c \in Children, NEW v \in Verdicts, NEW note \in Notes,
         child[c].st \in {"compile", "run"}, Returns(c, v, note), note # Clean,
         c = "corr" => Truthful(v, note)
  PROVE  Moves(c)
<1>. DEFINE f == IF c = "corr" THEN v ELSE child[c].found
<1>1. child[c] \in ChildState(c) /\ TypeOK
  BY DEF IndInv, TypeOK, ChildOK
<1>2. child[c].test \in T /\ f \in Found(c)
  BY <1>1 DEF ChildState, Found
<1>3. Goes(c, "report", child[c].test, f, note)
  BY DEF Returns
<1>. HIDE DEF f
<1>4. child'[c].st = "report" /\ child'[c].found = f /\ child'[c].note = note
  BY <1>1, <1>2, <1>3, GoesFacts
<1>5. c = "safe" => child[c].found \in 0..MaxErrors
  BY JudgeAssumption DEF IndInv, Listed, Findings, WorstBefore
<1>6. Findings(c, child'[c])
  BY <1>4, <1>5 DEF Findings, Reported, f, Children
<1>7. InLimits(c, child[c])
  BY DEF IndInv, Timely
<1>8. child[c].st = "compile" \/ child[c].st = "run"
  OBVIOUS
<1>. QED
  BY <1>1, <1>2, <1>3, <1>6, <1>7, <1>8, GoesMoves

\* A child that has started is at its compilation, with nothing used up.
LEMMA BootMoves ==
  ASSUME IndInv, NEW c \in Children, Boot(c)
  PROVE  Moves(c)
<1>. DEFINE f == IF c = "corr" THEN <<>> ELSE 0
<1>1. TypeOK /\ None \in Notes /\ 1 \in T
  BY ProgramFacts DEF IndInv
<1>2. f \in Found(c)
  <2>1. <<>> \in Verdicts
    <3>1. <<>> \in [1..0 -> -4..1] /\ 0 \in 0..Tests
      BY JudgeAssumption
    <3>. QED
      BY <3>1 DEF Verdicts
  <2>. QED
    BY <2>1, JudgeAssumption DEF Found
<1>3. Goes(c, "compile", 1, f, None) /\ child[c].st = "boot"
  BY DEF Boot
<1>4. child'[c].st = "compile" /\ child'[c].found = f
  BY <1>1, <1>2, <1>3, GoesFacts
<1>5. Findings(c, child'[c]) /\ InLimits(c, child[c])
  BY <1>4 DEF Findings, IndInv, Timely
<1>. QED
  BY <1>1, <1>2, <1>3, <1>5, GoesMoves

\* A child that compiled is at its first test.
LEMMA CompiledMoves ==
  ASSUME IndInv, NEW c \in Children, Compiled(c)
  PROVE  Moves(c)
<1>. DEFINE f == child[c].found
<1>1. TypeOK /\ None \in Notes /\ 1 \in T /\ T = 1..Last /\ Last \in Nat
  BY ProgramFacts DEF IndInv
<1>2. child[c] \in ChildState(c) /\ f \in Found(c)
  BY <1>1 DEF TypeOK, ChildOK, ChildState
<1>3. Goes(c, "run", 1, f, None) /\ child[c].st = "compile" /\ prog.compiles[c]
  BY DEF Compiled
<1>4. f = IF c = "corr" THEN <<>> ELSE 0
  BY <1>3 DEF IndInv, Listed, Findings
<1>. HIDE DEF f
<1>5. child'[c].st = "run" /\ child'[c].found = f /\ child'[c].test = 1
  BY <1>1, <1>2, <1>3, GoesFacts
<1>6. ~\E t \in T : t < 1
  BY <1>1
<1>7. CASE c = "corr"
  <2>1. <<>> \in [1..(1 - 1) -> {Right}]
    OBVIOUS
  <2>2. RightBefore(1, f)
    BY <1>3, <1>4, <1>6, <1>7, <2>1 DEF RightBefore
  <2>3. Findings(c, child'[c]) /\ InLimits(c, child[c])
    BY <1>5, <1>7, <2>2 DEF Findings, IndInv, Timely
  <2>. QED
    BY <1>1, <1>2, <1>3, <2>3, GoesMoves
<1>8. CASE c = "safe"
  <2>1. WorstBefore(1, f)
    BY <1>4, <1>6, <1>8, JudgeAssumption DEF WorstBefore
  <2>2. Findings(c, child'[c]) /\ InLimits(c, child[c])
    BY <1>5, <1>8, <2>1 DEF Findings, IndInv, Timely
  <2>. QED
    BY <1>1, <1>2, <1>3, <2>2, GoesMoves
<1>. QED
  BY <1>7, <1>8 DEF Children

\* A child that fails, or is too slow, reports a code and no success.
LEMMA FailureMoves ==
  ASSUME IndInv, NEW c \in Children,
         \/ Refused(c) \/ CompileTimesOut(c) \/ Raises(c)
         \/ c = "corr" /\ TestTimesOut
         \/ c = "safe" /\ ValgrindTimesOut
  PROVE  Moves(c)
<1>1. TypeOK
  BY DEF IndInv
<1>2. \A k \in -4..0 : <<k>> \in Verdicts /\ Truthful(<<k>>, "timeout")
                       /\ Truthful(<<k>>, "exception")
                       /\ (~AllRight => Truthful(<<k>>, "compile error"))
  <2>. SUFFICES ASSUME NEW k \in -4..0
                PROVE  /\ <<k>> \in Verdicts
                       /\ Truthful(<<k>>, "timeout") /\ Truthful(<<k>>, "exception")
                       /\ ~AllRight => Truthful(<<k>>, "compile error")
    OBVIOUS
  <2>1. "timeout" \notin Exact /\ "exception" \notin Exact
    BY DEF Exact, Clean
  <2>2. Truthful(<<k>>, "timeout") /\ <<k>> \in Verdicts
    BY <2>1, OneCode
  <2>3. Truthful(<<k>>, "exception")
    BY <2>1, OneCode
  <2>4. ~AllRight => Truthful(<<k>>, "compile error")
    BY OneCode
  <2>. QED
    BY <2>2, <2>3, <2>4
<1>3. {"timeout", "exception", "compile error"} \subseteq Notes
      /\ Clean \notin {"timeout", "exception", "compile error"}
  BY DEF Notes, Metadata, Clean
<1>4. CASE Refused(c)
  <2>. DEFINE k == IF Kind = "io" THEN -1 ELSE 0
  <2>0. k \in -4..0
    OBVIOUS
  <2>1. Returns(c, <<k>>, "compile error") /\ child[c].st = "compile"
    BY <1>4, Zenon DEF Refused
  <2>2. c = "corr" => ~AllRight
    BY <1>4 DEF Refused, AllRight
  <2>. QED
    BY <1>2, <1>3, <2>0, <2>1, <2>2, ReturnsMoves
<1>5. CASE CompileTimesOut(c)
  <2>. DEFINE k == IF Kind = "io" THEN -3 ELSE -4
  <2>1. k \in -4..0 /\ Returns(c, <<k>>, "timeout") /\ child[c].st = "compile"
    BY <1>5 DEF CompileTimesOut
  <2>. QED
    BY <1>2, <1>3, <2>1, ReturnsMoves
<1>6. CASE Raises(c)
  <2>1. -4 \in -4..0 /\ Returns(c, <<-4>>, "exception") /\ child[c].st \in {"compile", "run"}
    BY <1>6 DEF Raises
  <2>. QED
    BY <1>2, <1>3, <2>1, ReturnsMoves
<1>7. CASE c = "corr" /\ TestTimesOut
  <2>. DEFINE k == IF Kind = "io" THEN -3 ELSE 0
  <2>1. k \in -4..0 /\ Returns(c, <<k>>, "timeout") /\ child[c].st = "run"
    BY <1>7 DEF TestTimesOut
  <2>. QED
    BY <1>2, <1>3, <2>1, ReturnsMoves
<1>8. CASE c = "safe" /\ ValgrindTimesOut
  <2>1. Returns(c, <<>>, "timeout") /\ child[c].st = "run"
    BY <1>8 DEF ValgrindTimesOut
  <2>2. <<>> \in Verdicts
    <3>1. <<>> \in [1..0 -> -4..1] /\ 0 \in 0..Tests
      BY JudgeAssumption
    <3>. QED
      BY <3>1 DEF Verdicts
  <2>. QED
    BY <1>3, <1>8, <2>1, <2>2, ReturnsMoves
<1>. QED
  BY <1>4, <1>5, <1>6, <1>7, <1>8

\* A test that ended is followed by the next, or by the report.
LEMMA TestMoves ==
  ASSUME IndInv, TestEnds
  PROVE  Moves("corr")
<1>. DEFINE c == "corr"
            t == child[c].test
            f == child[c].found
<1>1. /\ TypeOK /\ c \in Children /\ None \in Notes /\ Last \in 1..Tests /\ T = 1..Last
      /\ \A u \in T : prog.right[u] => prog.compiles["corr"]
  BY ProgramFacts DEF IndInv, Children
<1>2. child[c] \in ChildState(c) /\ child[c].st = "run" /\ t \in T /\ t \in 1..Tests
  <2>1. child[c] \in ChildState(c) /\ child[c].st = "run"
    BY <1>1 DEF TestEnds, TypeOK, ChildOK
  <2>2. t \in T
    BY <2>1 DEF ChildState
  <2>. QED
    BY <1>1, <2>1, <2>2, JudgeAssumption
<1>3. RightBefore(t, f) /\ InLimits(c, child[c])
  BY <1>1, <1>2 DEF IndInv, Timely, Listed, Findings
<1>4. ASSUME NEW x \in -4..1
      PROVE  /\ Append(f, x) \in [1..t -> -4..1] /\ Append(f, x) \in Verdicts \ {<<>>}
             /\ \A i \in 1..t : Append(f, x)[i] = IF i < t THEN Right ELSE x
             /\ Append(f, x) \in Found(c)
             /\ Passed(Append(f, x)) <=> x > 0
  <2>. DEFINE a == Append(f, x)
  <2>1. a \in [1..t -> -4..1] /\ \A i \in 1..t : a[i] = IF i < t THEN Right ELSE x
    BY <1>2, <1>3, <1>4, OneMore DEF RightBefore
  <2>. HIDE DEF a
  <2>2. a \in Verdicts \ {<<>>} /\ (Passed(a) <=> \A i \in 1..t : a[i] > 0)
    BY <1>2, <2>1, ListOfCodes
  <2>3. (\A i \in 1..t : a[i] > 0) <=> x > 0
    <3>1. t \in 1..t /\ ~(t < t) /\ Right > 0
      BY <1>2, JudgeAssumption DEF Right
    <3>. QED
      BY <2>1, <3>1
  <2>4. a \in Found(c)
    BY <2>2 DEF Found
  <2>. QED
    BY <2>1, <2>2, <2>3, <2>4 DEF a
<1>. HIDE DEF c, t, f
<1>5. CASE prog.right[t] /\ t < Last /\ Goes(c, "run", t + 1, Append(f, Right), None)
  <2>1. t + 1 \in T
    BY <1>1, <1>2, <1>5
  <2>. DEFINE a == Append(f, Right)
  <2>2. Right \in -4..1
    BY DEF Right
  <2>3. a \in Found(c) /\ a \in [1..t -> -4..1]
        /\ \A i \in 1..t : a[i] = IF i < t THEN Right ELSE Right
    BY <1>4, <2>2
  <2>. HIDE DEF a
  <2>4. a \in [1..((t + 1) - 1) -> {Right}]
    <3>1. (t + 1) - 1 = t
      BY <1>2, JudgeAssumption
    <3>. QED
      BY <2>3, <3>1
  <2>5. \A u \in T : u < t + 1 => prog.right[u]
    <3>1. \A u \in T : u < t + 1 => u < t \/ u = t
      BY <1>1, <1>2
    <3>. QED
      BY <1>3, <1>5, <3>1 DEF RightBefore
  <2>6. RightBefore(t + 1, a)
    BY <1>3, <2>4, <2>5 DEF RightBefore
  <2>7. Goes(c, "run", t + 1, a, None)
    BY <1>5 DEF a
  <2>8. child'[c].st = "run" /\ child'[c].test = t + 1 /\ child'[c].found = a
    BY <1>1, <2>1, <2>3, <2>7, GoesFacts
  <2>9. Findings(c, child'[c])
    BY <2>6, <2>8 DEF Findings, c
  <2>10. Moves(c)
    BY <1>1, <1>2, <1>3, <2>1, <2>3, <2>7, <2>9, GoesMoves DEF t
  <2>. QED
    BY <2>10 DEF c
<1>6. CASE prog.right[t] /\ t = Last /\ Returns(c, Append(f, Right), Clean)
  <2>. DEFINE a == Append(f, Right)
  <2>1. Right \in -4..1 /\ Right > 0
    BY DEF Right
  <2>2. a \in Found(c) /\ a \in Verdicts \ {<<>>} /\ Passed(a)
    BY <1>4, <2>1
  <2>. HIDE DEF a
  <2>3. AllRight
    <3>1. \A u \in T : u < t \/ u = t
      BY <1>1, <1>2, <1>6
    <3>. QED
      BY <1>3, <1>6, <3>1 DEF RightBefore, AllRight
  <2>4. Truthful(a, Clean) /\ Clean \in Notes
    BY <2>2, <2>3, ProgramFacts, <1>1 DEF Truthful
  <2>5. Goes(c, "report", t, a, Clean)
    BY <1>6 DEF Returns, a, c, t
  <2>6. child'[c].st = "report" /\ child'[c].found = a /\ child'[c].note = Clean
    BY <1>1, <1>2, <2>2, <2>4, <2>5, GoesFacts
  <2>7. Findings(c, child'[c])
    BY <2>4, <2>6 DEF Findings, Reported, c
  <2>8. Moves(c)
    BY <1>1, <1>2, <1>3, <2>2, <2>4, <2>5, <2>7, GoesMoves DEF t
  <2>. QED
    BY <2>8 DEF c
<1>7. CASE ~prog.right[t] /\ Returns(c, Append(f, Wrong), "wrong answer")
  <2>. DEFINE a == Append(f, Wrong)
  <2>1. Wrong \in -4..1 /\ ~(Wrong > 0)
    BY DEF Wrong
  <2>2. a \in Found(c) /\ a \in Verdicts \ {<<>>} /\ ~Passed(a)
    BY <1>4, <2>1
  <2>. HIDE DEF a
  <2>3. ~AllRight
    BY <1>2, <1>7 DEF AllRight
  <2>4. Truthful(a, "wrong answer") /\ "wrong answer" \in Notes
    BY <2>2, <2>3 DEF Truthful, Notes, Metadata
  <2>5. Goes(c, "report", t, a, "wrong answer")
    BY <1>7 DEF Returns, a, c, t
  <2>6. child'[c].st = "report" /\ child'[c].found = a /\ child'[c].note = "wrong answer"
    BY <1>1, <1>2, <2>2, <2>4, <2>5, GoesFacts
  <2>7. Findings(c, child'[c])
    BY <2>4, <2>6 DEF Findings, Reported, c
  <2>8. Moves(c)
    BY <1>1, <1>2, <1>3, <2>2, <2>4, <2>5, <2>7, GoesMoves DEF t
  <2>. QED
    BY <2>8 DEF c
<1>. QED
  BY <1>5, <1>6, <1>7 DEF TestEnds, c, t, f

\* So is a run under valgrind.
LEMMA ValgrindMoves ==
  ASSUME IndInv, ValgrindEnds
  PROVE  Moves("safe")
<1>. DEFINE c == "safe"
            t == child[c].test
            w == WorstOf(child[c].found, prog.errors[t])
<1>1. TypeOK /\ c \in Children /\ None \in Notes /\ Clean \in Notes
      /\ Last \in 1..Tests /\ T = 1..Last
  BY ProgramFacts DEF IndInv, Children
<1>2. child[c] \in ChildState(c) /\ child[c].st = "run" /\ t \in T
  <2>1. child[c] \in ChildState(c) /\ child[c].st = "run"
    BY <1>1 DEF ValgrindEnds, TypeOK, ChildOK
  <2>. QED
    BY <2>1 DEF ChildState
<1>3. WorstBefore(t, child[c].found) /\ InLimits(c, child[c])
  BY <1>1, <1>2 DEF IndInv, Timely, Listed, Findings
<1>4. WorstBefore(t + 1, w)
  BY <1>1, <1>2, <1>3, WorstLonger
<1>5. w \in 0..MaxErrors /\ w \in Found(c)
  BY <1>4 DEF WorstBefore, Found
<1>. HIDE DEF c, t, w
<1>6. CASE t < Last /\ Goes(c, "run", t + 1, w, None)
  <2>1. t + 1 \in T
    BY <1>1, <1>2, <1>6
  <2>2. child'[c].st = "run" /\ child'[c].test = t + 1 /\ child'[c].found = w
    BY <1>1, <1>5, <1>6, <2>1, GoesFacts
  <2>3. Findings(c, child'[c])
    BY <1>4, <2>2 DEF Findings, c
  <2>4. Moves(c)
    BY <1>1, <1>2, <1>3, <1>5, <1>6, <2>1, <2>3, GoesMoves DEF t
  <2>. QED
    BY <2>4 DEF c
<1>7. CASE t = Last /\ Goes(c, "report", t, w, Clean)
  <2>1. child'[c].st = "report" /\ child'[c].found = w /\ child'[c].note = Clean
    BY <1>1, <1>2, <1>5, <1>7, GoesFacts
  <2>2. Findings(c, child'[c])
    BY <1>4, <1>5, <1>7, <2>1 DEF Findings, Reported, c
  <2>3. Moves(c)
    BY <1>1, <1>2, <1>3, <1>5, <1>7, <2>2, GoesMoves DEF t
  <2>. QED
    BY <2>3 DEF c
<1>. QED
  BY <1>6, <1>7 DEF ValgrindEnds, c, t, w

-----------------------------------------------------------------------------
(* All steps.  What a step does to a child is stated once. *)

Same(c) == child'[c] = child[c]

\* A child that is over.
LEMMA OverFacts ==
  ASSUME TypeOK, NEW c \in Children,
         child' = [child EXCEPT ![c].st = "over", ![c].found = None, ![c].note = None]
  PROVE  /\ DOMAIN child' = Children /\ \A d \in Children \ {c} : Same(d)
         /\ child'[c] \in ChildState(c) /\ child'[c].st = "over"
         /\ child'[c].killed = child[c].killed /\ child'[c].idle = child[c].idle
<1>1. child[c] \in ChildState(c) /\ DOMAIN child = Children /\ None \in Notes /\ None \in Found(c)
  BY ProgramFacts DEF TypeOK, ChildOK, Found
<1>. DEFINE s == [child[c] EXCEPT !.st = "over", !.found = None, !.note = None]
<1>2. s \in ChildState(c) /\ s.st = "over" /\ s.killed = child[c].killed /\ s.idle = child[c].idle
  BY <1>1 DEF ChildState
<1>3. child' = [child EXCEPT ![c] = s]
  OBVIOUS
<1>. HIDE DEF s
<1>. QED
  BY <1>1, <1>2, <1>3 DEF Same

\* A child that has appended its result and not yet its metadata.
LEMMA NoteFacts ==
  ASSUME TypeOK, NEW c \in Children, child' = [child EXCEPT ![c].st = "note"]
  PROVE  /\ DOMAIN child' = Children /\ \A d \in Children \ {c} : Same(d)
         /\ child'[c] \in ChildState(c) /\ child'[c].st = "note"
         /\ child'[c].killed = child[c].killed /\ child'[c].idle = child[c].idle
         /\ child'[c].found = child[c].found /\ child'[c].note = child[c].note
         /\ child'[c].test = child[c].test
<1>1. child[c] \in ChildState(c) /\ DOMAIN child = Children
  BY DEF TypeOK, ChildOK
<1>. DEFINE s == [child[c] EXCEPT !.st = "note"]
<1>2. /\ s \in ChildState(c) /\ s.st = "note" /\ s.killed = child[c].killed
      /\ s.idle = child[c].idle /\ s.found = child[c].found /\ s.note = child[c].note
      /\ s.test = child[c].test
  BY <1>1 DEF ChildState
<1>3. child' = [child EXCEPT ![c] = s]
  OBVIOUS
<1>. HIDE DEF s
<1>. QED
  BY <1>1, <1>2, <1>3 DEF Same

\* A child that is killed, or was over before.
LEMMA KillFacts ==
  ASSUME TypeOK, NEW c \in Children, child' = [child EXCEPT ![c].killed = Alive(c)]
  PROVE  /\ DOMAIN child' = Children /\ \A d \in Children \ {c} : Same(d)
         /\ child'[c] \in ChildState(c) /\ (child'[c].killed <=> Alive(c))
         /\ child'[c].st = child[c].st /\ child'[c].idle = child[c].idle
         /\ child'[c].found = child[c].found /\ child'[c].note = child[c].note
         /\ child'[c].test = child[c].test /\ child'[c].spent = child[c].spent
<1>1. child[c] \in ChildState(c) /\ DOMAIN child = Children /\ Alive(c) \in BOOLEAN
  BY DEF TypeOK, ChildOK, Alive
<1>. DEFINE s == [child[c] EXCEPT !.killed = Alive(c)]
<1>2. /\ s \in ChildState(c) /\ s.killed = Alive(c) /\ s.st = child[c].st
      /\ s.idle = child[c].idle /\ s.found = child[c].found /\ s.note = child[c].note
      /\ s.test = child[c].test /\ s.spent = child[c].spent
  BY <1>1 DEF ChildState
<1>3. child' = [child EXCEPT ![c] = s]
  OBVIOUS
<1>. HIDE DEF s
<1>. QED
  BY <1>1, <1>2, <1>3 DEF Same

\* A second of a child: in its subprocess or outside of it.
LEMMA TickFacts ==
  ASSUME TypeOK, Tick, NEW c \in Children
  PROVE  /\ DOMAIN child' = Children /\ child'[c] \in ChildState(c)
         /\ child'[c].st = child[c].st /\ child'[c].test = child[c].test
         /\ child'[c].found = child[c].found /\ child'[c].note = child[c].note
         /\ child'[c].killed = child[c].killed
         /\ child[c].st \in {"compile", "run"} =>
              child'[c].spent = child[c].spent + 1 /\ child'[c].idle = child[c].idle
         /\ child[c].st \in {"boot", "report", "note"} =>
              child'[c].idle = UpTo(Allowance(c), child[c].idle) /\ child'[c].spent = child[c].spent
         /\ child[c].st \in {"off", "over"} => Same(c)
<1>1. child[c] \in ChildState(c) /\ DOMAIN child = Children
  BY DEF TypeOK, ChildOK
<1>. DEFINE a == Allowance(c)
            n == UpTo(a, child[c].idle)
            s == CASE child[c].st \in {"compile", "run"} ->
                        [child[c] EXCEPT !.spent = child[c].spent + 1]
                   [] child[c].st \in {"boot", "report", "note"} ->
                        [child[c] EXCEPT !.idle = n]
                   [] OTHER -> child[c]
<1>2. DOMAIN child' = Children /\ child'[c] = s
  BY DEF Tick, Aged
<1>3. n \in Nat
  BY <1>1 DEF UpTo, ChildState
<1>. HIDE DEF n
<1>4. CASE child[c].st \in {"compile", "run"}
  <2>1. s = [child[c] EXCEPT !.spent = child[c].spent + 1]
    BY <1>4
  <2>. QED
    BY <1>1, <1>2, <1>4, <2>1 DEF ChildState
<1>5. CASE child[c].st \in {"boot", "report", "note"}
  <2>1. s = [child[c] EXCEPT !.idle = n]
    BY <1>5
  <2>2. /\ child'[c] \in ChildState(c) /\ child'[c].idle = n
        /\ child'[c].st = child[c].st /\ child'[c].test = child[c].test
        /\ child'[c].found = child[c].found /\ child'[c].note = child[c].note
        /\ child'[c].killed = child[c].killed /\ child'[c].spent = child[c].spent
    BY <1>1, <1>2, <1>3, <2>1 DEF ChildState
  <2>. QED
    BY <1>2, <1>5, <2>2 DEF n
<1>6. CASE child[c].st \notin {"compile", "run", "boot", "report", "note"}
  BY <1>1, <1>2, <1>6 DEF Same
<1>. QED
  BY <1>4, <1>5, <1>6

\* A step of a child moves it on, appends or ends it.
LEMMA ChildKinds ==
  ASSUME IndInv, NEW c \in Children, Child(c)
  PROVE  Moves(c) \/ AppendResult(c) \/ AppendMeta(c) \/ Ends(c)
BY BootMoves, CompiledMoves, FailureMoves, TestMoves, ValgrindMoves
   DEF Child, SignalArrives, DiesAlone

\* No step changes the problem.
LEMMA SameProg == [Next]_vars => prog' = prog
BY DEF Next, Parent, Start, JoinCorr, JoinSafe, Kill, Read, Child, Boot, Compiled,
       Refused, CompileTimesOut, Raises, TestEnds, TestTimesOut, ValgrindEnds,
       ValgrindTimesOut, Returns, Goes, AppendResult, AppendMeta, SignalArrives,
       DiesAlone, Ends, Tick, vars

\* Types are kept.
LEMMA TypeStep ==
  ASSUME IndInv, [Next]_vars
  PROVE  TypeOK'
<1>1. /\ TypeOK /\ prog' = prog /\ JoinTimeout' = JoinTimeout
      /\ \A c \in Children : ChildState(c)' = ChildState(c)
  BY SameProg, SameProblem DEF IndInv
<1>2. prog' \in Program /\ ChildOK /\ BoxOK /\ GotOK /\ TimeOK
  BY <1>1 DEF TypeOK
<1>3. /\ JoinTimeout \in Nat /\ age \in 0..JoinTimeout /\ waited \in 0..age
  BY <1>1, <1>2, LimitFacts DEF TimeOK, Children
<1>4. /\ UNCHANGED child => ChildOK'
      /\ UNCHANGED box => BoxOK'
      /\ UNCHANGED got => GotOK'
      /\ UNCHANGED <<age, waited>> => TimeOK'
  BY <1>1, <1>2 DEF ChildOK, BoxOK, GotOK, TimeOK
<1>5. ASSUME DOMAIN child' = Children, \A c \in Children : child'[c] \in ChildState(c)
      PROVE  ChildOK'
  BY <1>1, <1>5 DEF ChildOK
<1>6. ASSUME NEW c \in Children, DOMAIN child' = Children,
             child'[c] \in ChildState(c), \A d \in Children \ {c} : Same(d)
      PROVE  ChildOK'
  BY <1>2, <1>5, <1>6 DEF ChildOK, Same
<1>7. CASE Start
  <2>1. DOMAIN child' = Children /\ \A c \in Children : child'[c] \in ChildState(c)
    <3>1. None \in Notes /\ 1 \in T /\ \A c \in Children : None \in Found(c)
      BY <1>1, ProgramFacts DEF Found
    <3>. QED
      BY <1>7, <3>1 DEF Start, Off, ChildState
  <2>. QED
    BY <1>2, <1>4, <1>5, <1>7, <2>1 DEF Start, TypeOK
<1>8. CASE JoinCorr \/ JoinSafe
  <2>1. UNCHANGED <<child, box, got>> /\ age' = age /\ waited' = 0
        /\ pc' \in {"join safe", "kill corr"}
    BY <1>8 DEF JoinCorr, JoinSafe
  <2>2. TimeOK'
    <3>1. age' = age /\ waited' = 0
      BY <2>1
    <3>2. age' \in 0..JoinTimeout /\ waited' \in 0..age'
      BY <1>3, <3>1
    <3>. QED
      BY <1>1, <3>2 DEF TimeOK
  <2>. QED
    BY <1>2, <1>4, <2>1, <2>2 DEF TypeOK
<1>9. ASSUME NEW c \in Children, NEW at, NEW next \in {"kill safe", "read corr"}, Kill(c, at, next)
      PROVE  TypeOK'
  <2>1. ChildOK'
    BY <1>1, <1>6, <1>9, KillFacts DEF Kill
  <2>. QED
    BY <1>2, <1>4, <1>9, <2>1 DEF Kill, TypeOK
<1>10. ASSUME NEW c \in Children, NEW default \in Found(c), NEW at, NEW next \in {"note corr", "note safe"},
              Read(c, "result", at, next, default)
       PROVE  TypeOK'
  <2>. DEFINE v == IF box[c].result = None THEN default ELSE box[c].result
              g == [got[c] EXCEPT !.result = v]
  <2>1. v \in Found(c)
    BY <1>2 DEF BoxOK
  <2>2. got' = [got EXCEPT ![c] = g]
    BY <1>10 DEF Read
  <2>. HIDE DEF v
  <2>3. g \in [result : Found(c), meta : Notes \cup {"global timeout"}]
    BY <1>2, <2>1 DEF GotOK
  <2>. HIDE DEF g
  <2>4. GotOK'
    BY <1>2, <2>2, <2>3 DEF GotOK
  <2>. QED
    BY <1>2, <1>4, <1>10, <2>4 DEF Read, TypeOK
<1>11. ASSUME NEW c \in Children, NEW default \in Notes \cup {"global timeout"}, NEW at,
              NEW next \in {"read safe", "done"}, Read(c, "meta", at, next, default)
       PROVE  TypeOK'
  <2>. DEFINE v == IF box[c].meta = None THEN default ELSE box[c].meta
              g == [got[c] EXCEPT !.meta = v]
  <2>1. v \in Notes \cup {"global timeout"}
    BY <1>2 DEF BoxOK
  <2>2. got' = [got EXCEPT ![c] = g]
    BY <1>11 DEF Read
  <2>. HIDE DEF v
  <2>3. g \in [result : Found(c), meta : Notes \cup {"global timeout"}]
    BY <1>2, <2>1 DEF GotOK
  <2>. HIDE DEF g
  <2>4. GotOK'
    BY <1>2, <2>2, <2>3 DEF GotOK
  <2>. QED
    BY <1>2, <1>4, <1>11, <2>4 DEF Read, TypeOK
<1>12. ASSUME NEW c \in Children, Moves(c)
       PROVE  TypeOK'
  <2>1. ChildOK'
    BY <1>6, <1>12 DEF Moves, Same
  <2>. QED
    BY <1>1, <1>2, <1>4, <1>12, <2>1 DEF Moves, TypeOK
<1>13. ASSUME NEW c \in Children, AppendResult(c)
       PROVE  TypeOK'
  <2>. DEFINE b == [box[c] EXCEPT !.result = child[c].found]
  <2>1. b \in [result : Found(c), meta : Notes]
    BY <1>2 DEF ChildOK, ChildState, BoxOK
  <2>2. box' = [box EXCEPT ![c] = b]
    BY <1>13 DEF AppendResult
  <2>. HIDE DEF b
  <2>3. BoxOK'
    BY <1>2, <2>1, <2>2 DEF BoxOK
  <2>4. ChildOK'
    BY <1>1, <1>6, <1>13, NoteFacts DEF AppendResult
  <2>. QED
    BY <1>1, <1>2, <1>4, <1>13, <2>3, <2>4 DEF AppendResult, TypeOK
<1>14. ASSUME NEW c \in Children, AppendMeta(c)
       PROVE  TypeOK'
  <2>. DEFINE b == [box[c] EXCEPT !.meta = child[c].note]
  <2>1. b \in [result : Found(c), meta : Notes]
    BY <1>2 DEF ChildOK, ChildState, BoxOK
  <2>2. box' = [box EXCEPT ![c] = b]
    BY <1>14 DEF AppendMeta
  <2>. HIDE DEF b
  <2>3. BoxOK'
    BY <1>2, <2>1, <2>2 DEF BoxOK
  <2>4. ChildOK'
    BY <1>1, <1>6, <1>14, OverFacts DEF AppendMeta
  <2>. QED
    BY <1>1, <1>2, <1>4, <1>14, <2>3, <2>4 DEF AppendMeta, TypeOK
<1>15. ASSUME NEW c \in Children, Ends(c)
       PROVE  TypeOK'
  <2>1. ChildOK'
    BY <1>1, <1>6, <1>15, OverFacts DEF Ends
  <2>. QED
    BY <1>1, <1>2, <1>4, <1>15, <2>1 DEF Ends, TypeOK
<1>16. CASE Tick
  <2>1. TimeOK'
    <3>1. \/ age' = age /\ waited' = waited
          \/ waited' = UpTo(JoinTimeout, waited) /\ age' = UpTo(JoinTimeout, age)
      BY <1>16, Zenon DEF Tick
    <3>. QED
      BY <1>1, <1>3, <3>1 DEF TimeOK, UpTo
  <2>2. ChildOK'
    BY <1>1, <1>5, <1>16, TickFacts DEF Children
  <2>. QED
    BY <1>1, <1>2, <1>4, <1>16, <2>1, <2>2 DEF Tick, TypeOK
<1>17. CASE UNCHANGED vars
  BY <1>1, <1>2, <1>4, <1>17 DEF vars, TypeOK
<1>18. CASE Parent
  <2>1. NoVerdict \in [1..Last -> -4..1] /\ Last \in 1..Tests
    BY <1>1, ProgramFacts DEF NoVerdict
  <2>2. NoVerdict \in Verdicts
    BY <2>1, ListOfCodes
  <2>3. NoVerdict \in Found("corr") /\ 0 \in Found("safe")
    BY <2>2, JudgeAssumption DEF Found
  <2>4. "corr" \in Children /\ "safe" \in Children /\ Clean \in Notes
    BY <1>1, ProgramFacts DEF Children
  <2>. QED
    BY <1>7, <1>8, <1>9, <1>10, <1>11, <1>18, <2>3, <2>4 DEF Parent
<1>. QED
  BY <1>12, <1>13, <1>14, <1>15, <1>16, <1>17, <1>18, ChildKinds DEF Next

\* How long the parent has waited is told by the age of the children.
LEMMA WaitsStep ==
  ASSUME IndInv, [Next]_vars
  PROVE  Waits'
<1>1. /\ TypeOK /\ Waits /\ JoinTimeout' = JoinTimeout /\ JoinTimeout \in Nat
      /\ age \in 0..JoinTimeout /\ waited \in 0..age
  BY SameProg, SameProblem, LimitFacts DEF IndInv, TypeOK, TimeOK, Children
<1>. USE DEF Children
<1>2. CASE Start
  <2>1. pc' = "join corr" /\ age = 0 /\ waited' = waited /\ age' = age
    BY <1>1, <1>2 DEF Start, Waits
  <2>2. waited = 0
    <3>1. waited \in 0..age /\ age = 0
      BY <1>1, <2>1
    <3>. QED
      BY <3>1
  <2>. QED
    BY <2>1, <2>2 DEF Waits
<1>3. CASE JoinCorr
  <2>1. waited = age
    BY <1>1, <1>3 DEF JoinCorr, Waits
  <2>2. Alive("corr") => age = JoinTimeout
    <3>1. Alive("corr") => waited >= JoinTimeout
      BY <1>3 DEF JoinCorr, Expired
    <3>. QED
      BY <1>1, <2>1, <3>1
  <2>3. pc' = "join safe" /\ age' = age /\ (Alive("corr")' <=> Alive("corr"))
    BY <1>3 DEF JoinCorr, Alive
  <2>. QED
    BY <1>1, <2>2, <2>3 DEF Waits
<1>4. CASE JoinSafe
  <2>1. Alive("safe") => age = JoinTimeout
    <3>1. Alive("safe") => waited >= JoinTimeout
      BY <1>4 DEF JoinSafe, Expired
    <3>. QED
      BY <1>1, <3>1
  <2>2. Alive("corr") => age = JoinTimeout
    BY <1>1, <1>4 DEF JoinSafe, Waits
  <2>3. /\ pc' = "kill corr" /\ age' = age
        /\ \A c \in Children : Alive(c)' <=> Alive(c)
    BY <1>4 DEF JoinSafe, Alive
  <2>. QED
    BY <1>1, <2>1, <2>2, <2>3 DEF Waits
<1>5. CASE Kill("corr", "kill corr", "kill safe")
  BY <1>1, <1>5, KillFacts DEF Kill, Waits, Alive, Same
<1>6. CASE Kill("safe", "kill safe", "read corr")
  BY <1>1, <1>6 DEF Kill, Waits
<1>7. ASSUME NEW c \in Children, NEW field, NEW at, NEW default,
             NEW next \in {"note corr", "note safe", "read safe", "done"},
             Read(c, field, at, next, default)
      PROVE  Waits'
  BY <1>1, <1>7 DEF Read, Waits
\* A step of a child: none is dead that was not, and none starts by itself.
<1>8. ASSUME UNCHANGED <<pc, waited, age>>, pc # "start",
             \A c \in Children : Alive(c)' => Alive(c)
      PROVE  Waits'
  BY <1>1, <1>8 DEF Waits
<1>9. ASSUME NEW c \in Children, Moves(c) \/ AppendResult(c) \/ AppendMeta(c) \/ Ends(c)
      PROVE  Waits'
  <2>1. UNCHANGED <<pc, waited, age>> /\ Alive(c)
    BY <1>9 DEF Moves, AppendResult, AppendMeta, Ends, Alive
  <2>2. pc # "start"
    <3>1. Off.st = "off"
      BY DEF Off
    <3>. QED
      BY <1>1, <2>1, <3>1 DEF Waits, Alive
  <2>3. \A d \in Children \ {c} : Same(d)
    BY <1>1, <1>9, NoteFacts, OverFacts DEF Moves, AppendResult, AppendMeta, Ends, Same
  <2>. QED
    BY <1>8, <2>1, <2>2, <2>3 DEF Alive, Same
<1>10. CASE Tick
  <2>1. \A c \in Children : Alive(c)' <=> Alive(c)
    BY <1>1, <1>10, TickFacts DEF Alive
  <2>2. /\ pc' = pc /\ pc # "start"
        /\ \/ age' = age /\ pc # "join corr"
           \/ waited' = UpTo(JoinTimeout, waited) /\ age' = UpTo(JoinTimeout, age)
    BY <1>10 DEF Tick
  <2>3. (age = JoinTimeout => age' = JoinTimeout) /\ (pc = "join corr" => waited' = age')
    <3>1. CASE age' = age /\ pc # "join corr"
      BY <3>1
    <3>2. CASE waited' = UpTo(JoinTimeout, waited) /\ age' = UpTo(JoinTimeout, age)
      <4>1. pc = "join corr" => waited = age
        BY <1>1 DEF Waits
      <4>2. age = JoinTimeout => UpTo(JoinTimeout, age) = JoinTimeout
        BY <1>1 DEF UpTo
      <4>. QED
        BY <3>2, <4>1, <4>2
    <3>. QED
      BY <2>2, <3>1, <3>2
  <2>. QED
    BY <1>1, <2>1, <2>2, <2>3 DEF Waits
<1>11. CASE UNCHANGED vars
  BY <1>1, <1>11 DEF vars, Waits, Alive
<1>. QED
  BY <1>2, <1>3, <1>4, <1>5, <1>6, <1>7, <1>9, <1>10, <1>11, ChildKinds DEF Next, Parent

\* A second of a join is idle or spent, and the limits bound what is spent.
LEMMA TimelyStep ==
  ASSUME IndInv, [Next]_vars, NEW c \in Children
  PROVE  Timely(c)'
<1>1. /\ TypeOK /\ Waits /\ Timely(c) /\ prog' = prog
      /\ child[c] \in ChildState(c) /\ child[c].idle \in Nat
      /\ InLimits(c, child[c]) /\ Allowance(c)' = Allowance(c)
      /\ (\A s : InLimits(c, s)' <=> InLimits(c, s)) /\ (\A s : Used(c, s)' = Used(c, s))
  BY SameProg, SameProblem, SameFindings DEF IndInv, TypeOK, ChildOK, ChildState, Timely
<1>2. /\ Allowance(c) \in Int /\ JoinTimeout \in Nat /\ age \in Nat /\ age <= JoinTimeout
      /\ Used(c, child[c]) \in Nat
      /\ Allowance(c) + Used(c, child[c]) <= JoinTimeout
  <2>. DEFINE all == Last * TestLimit(c)
              u == Used(c, child[c])
  <2>1. /\ Allowance(c) \in Int /\ JoinTimeout \in Nat /\ CompileLimit(c) \in Nat
        /\ Allowance(c) + CompileLimit(c) + all = JoinTimeout
    BY <1>1, LimitFacts
  <2>2. u \in Nat /\ u <= CompileLimit(c) + all
    BY <1>1, UsedBound
  <2>3. all \in Nat
    BY <1>1, LimitFacts, Products
  <2>. HIDE DEF all, u
  <2>4. age \in Nat /\ age <= JoinTimeout
    <3>1. age \in 0..JoinTimeout
      BY <1>1 DEF TypeOK, TimeOK
    <3>2. JoinTimeout \in Nat
      BY <2>1
    <3>. QED
      BY <3>1, <3>2
  <2>5. Allowance(c) + u <= JoinTimeout
    BY <2>1, <2>2, <2>3
  <2>. QED
    BY <2>1, <2>2, <2>4, <2>5 DEF u
<1>3. ASSUME age' = age, child'[c].idle = child[c].idle, child'[c].killed = child[c].killed,
             InLimits(c, child'[c]),
             Alive(c)' => Alive(c) /\ Used(c, child[c]) <= Used(c, child'[c])
                          /\ Used(c, child'[c]) \in Nat
      PROVE  Timely(c)'
  <2>1. ASSUME Alive(c)', child[c].idle < Allowance(c)
        PROVE  age <= child[c].idle + Used(c, child'[c])
    BY <1>1, <1>2, <1>3, <2>1 DEF Timely
  <2>. QED
    BY <1>1, <1>3, <2>1 DEF Timely
<1>4. ASSUME age' = age, Same(c)
      PROVE  Timely(c)'
  BY <1>1, <1>2, <1>3, <1>4 DEF Same, Alive
<1>5. CASE Start
  <2>1. child'[c] = [Off EXCEPT !.st = "boot"] /\ age' = age /\ age = 0
    BY <1>1, <1>5 DEF Start, Waits
  <2>2. child'[c].st = "boot" /\ child'[c].idle = 0 /\ child'[c].killed = FALSE
    BY <2>1 DEF Off
  <2>3. InLimits(c, child'[c]) /\ Used(c, child'[c]) = 0
    BY <2>2 DEF InLimits, Used
  <2>4. age' <= child'[c].idle + Used(c, child'[c])
    BY <2>1, <2>2, <2>3
  <2>. QED
    BY <1>1, <2>2, <2>3, <2>4 DEF Timely
<1>6. CASE JoinCorr \/ JoinSafe
  BY <1>4, <1>6 DEF JoinCorr, JoinSafe, Same
<1>7. ASSUME NEW d \in Children, NEW at, NEW next, Kill(d, at, next),
             Alive(d) => age = JoinTimeout
      PROVE  Timely(c)'
  <2>1. CASE d # c
    BY <1>1, <1>4, <1>7, <2>1, KillFacts DEF Kill, Same
  <2>2. CASE d = c
    <3>1. /\ child'[c] \in ChildState(c) /\ age' = age
          /\ child'[c].st = child[c].st /\ child'[c].idle = child[c].idle
          /\ child'[c].test = child[c].test /\ child'[c].spent = child[c].spent
          /\ (child'[c].killed <=> Alive(c))
      BY <1>1, <1>7, <2>2, KillFacts DEF Kill
    <3>2. InLimits(c, child'[c]) /\ Used(c, child'[c]) = Used(c, child[c])
      BY <1>1, <3>1 DEF InLimits, Used
    <3>3. ASSUME Alive(c), child[c].idle < Allowance(c)
          PROVE  FALSE
      <4>1. age <= child[c].idle + Used(c, child[c]) /\ age = JoinTimeout
        BY <1>1, <1>7, <2>2, <3>3 DEF Timely
      <4>. QED
        BY <1>1, <1>2, <3>3, <4>1
    <3>4. Alive(c) => child[c].idle >= Allowance(c)
      BY <1>1, <1>2, <3>3
    <3>5. Alive(c)' <=> Alive(c)
      BY <3>1 DEF Alive
    <3>6. InLimits(c, child[c])'
      BY <1>1, <3>2
    <3>7. ~(Alive(c)' /\ child'[c].idle < Allowance(c)')
      <4>1. child'[c].idle = child[c].idle /\ Allowance(c)' = Allowance(c)
        BY <1>1, <3>1
      <4>. QED
        BY <3>3, <3>5, <4>1
    <3>8. child'[c].killed => child'[c].idle >= Allowance(c)'
      <4>1. child'[c].idle = child[c].idle /\ Allowance(c)' = Allowance(c)
        BY <1>1, <3>1
      <4>. QED
        BY <3>1, <3>4, <4>1
    <3>. QED
      BY <3>6, <3>7, <3>8 DEF Timely
  <2>. QED
    BY <2>1, <2>2
<1>8. ASSUME NEW d \in Children, NEW field, NEW at, NEW default, NEW next,
             Read(d, field, at, next, default)
      PROVE  Timely(c)'
  BY <1>4, <1>8 DEF Read, Same
<1>9. ASSUME NEW d \in Children, Moves(d)
      PROVE  Timely(c)'
  <2>1. CASE d # c
    BY <1>4, <1>9, <2>1 DEF Moves, Same
  <2>2. CASE d = c
    <3>1. /\ child'[c] \in ChildState(c) /\ InLimits(c, child'[c]) /\ Alive(c)
          /\ Used(c, child[c]) <= Used(c, child'[c]) /\ age' = age
          /\ child'[c].idle = child[c].idle /\ child'[c].killed = child[c].killed
      BY <1>9, <2>2 DEF Moves, Alive
    <3>. QED
      BY <1>1, <1>3, <3>1, UsedBound
  <2>. QED
    BY <2>1, <2>2
<1>10. ASSUME NEW d \in Children, AppendResult(d)
       PROVE  Timely(c)'
  <2>1. CASE d # c
    BY <1>1, <1>4, <1>10, <2>1, NoteFacts DEF AppendResult
  <2>2. CASE d = c
    <3>1. /\ child'[c].st = "note" /\ child[c].st = "report" /\ age' = age
          /\ child'[c].idle = child[c].idle /\ child'[c].killed = child[c].killed
          /\ child'[c].test = child[c].test
      BY <1>1, <1>10, <2>2, NoteFacts DEF AppendResult
    <3>2. InLimits(c, child'[c]) /\ Alive(c) /\ Used(c, child'[c]) = Used(c, child[c])
      BY <3>1 DEF InLimits, Alive, Used
    <3>. QED
      BY <1>2, <1>3, <3>1, <3>2
  <2>. QED
    BY <2>1, <2>2
<1>11. ASSUME NEW d \in Children, AppendMeta(d) \/ Ends(d)
       PROVE  Timely(c)'
  <2>1. CASE d # c
    BY <1>1, <1>4, <1>11, <2>1, OverFacts DEF AppendMeta, Ends
  <2>2. CASE d = c
    <3>1. /\ child'[c].st = "over" /\ age' = age
          /\ child'[c].idle = child[c].idle /\ child'[c].killed = child[c].killed
      BY <1>1, <1>11, <2>2, OverFacts DEF AppendMeta, Ends
    <3>2. InLimits(c, child'[c]) /\ ~Alive(c)'
      BY <3>1 DEF InLimits, Alive
    <3>. QED
      BY <1>3, <3>1, <3>2
  <2>. QED
    BY <2>1, <2>2
<1>12. CASE Tick
  <2>. DEFINE s == child[c]
              n == child'[c]
  <2>1. age' = age \/ age' = UpTo(JoinTimeout, age)
    BY <1>12 DEF Tick
  <2>2. age' \in Nat /\ age' <= age + 1
    BY <1>2, <2>1 DEF UpTo
  <2>3. ~Spent(c)
    BY <1>12 DEF Tick
  <2>4. /\ n \in ChildState(c) /\ n.st = s.st /\ n.test = s.test /\ n.killed = s.killed
        /\ s.st \in {"compile", "run"} => n.spent = s.spent + 1 /\ n.idle = s.idle
        /\ s.st \in {"boot", "report", "note"} =>
             n.idle = UpTo(Allowance(c), s.idle) /\ n.spent = s.spent
        /\ s.st \in {"off", "over"} => n = s
    BY <1>1, <1>12, TickFacts DEF Same
  <2>5. s.st \in {"off", "boot", "compile", "run", "report", "note", "over"}
        /\ s.spent \in Nat /\ s.test \in Int
    <3>1. s.test \in 1..Last /\ Last \in Nat
      BY <1>1, LimitFacts DEF ChildState
    <3>. QED
      BY <1>1, <3>1 DEF ChildState
  <2>. DEFINE base == CompileLimit(c) + (s.test - 1) * TestLimit(c)
  <2>6. CASE s.st \in {"off", "over"}
    BY <1>1, <2>4, <2>6 DEF Timely, Alive
  <2>7. CASE s.st \in {"compile", "run"}
    <3>1. InLimits(c, n)
      <4>1. CASE s.st = "compile"
        <5>1. CompileLimit(c) \in Nat /\ ~(s.spent >= CompileLimit(c))
          BY <1>1, <2>3, <4>1, LimitFacts DEF Spent
        <5>2. s.spent + 1 <= CompileLimit(c)
          BY <2>5, <5>1
        <5>. QED
          BY <1>1, <2>4, <4>1, <5>2 DEF InLimits
      <4>2. CASE s.st = "run"
        <5>1. TestLimit(c) \in Nat /\ ~(s.spent >= TestLimit(c))
          BY <1>1, <2>3, <4>2, LimitFacts DEF Spent
        <5>2. s.spent + 1 <= TestLimit(c)
          BY <2>5, <5>1
        <5>. QED
          BY <2>4, <4>2, <5>2 DEF InLimits
      <4>. QED
        BY <2>7, <4>1, <4>2
    <3>2. Used(c, n) = Used(c, s) + 1
      <4>1. CASE s.st = "compile"
        BY <2>4, <4>1 DEF Used
      <4>2. CASE s.st = "run"
        <5>1. Used(c, s) = base + s.spent /\ Used(c, n) = base + (s.spent + 1)
          BY <2>4, <4>2 DEF Used
        <5>2. base \in Int
          <6>1. CompileLimit(c) \in Int /\ TestLimit(c) \in Int
            BY <1>1, LimitFacts
          <6>. QED
            BY <2>5, <6>1
        <5>. HIDE DEF base
        <5>. QED
          BY <2>5, <5>1, <5>2
      <4>. QED
        BY <2>7, <4>1, <4>2
    <3>3. ASSUME s.idle < Allowance(c)
          PROVE  age' <= s.idle + Used(c, n)
      <4>1. age <= s.idle + Used(c, s)
        BY <1>1, <2>7, <3>3 DEF Timely, Alive
      <4>. QED
        BY <1>1, <1>2, <2>2, <3>2, <4>1
    <3>. QED
      BY <1>1, <2>4, <2>7, <3>1, <3>3 DEF Timely
  <2>8. CASE s.st \in {"boot", "report", "note"}
    <3>1. InLimits(c, n) /\ Used(c, n) = Used(c, s)
      BY <2>4, <2>8 DEF InLimits, Used
    <3>2. n.idle = (IF s.idle < Allowance(c) THEN s.idle + 1 ELSE s.idle)
      BY <2>4, <2>8 DEF UpTo
    <3>3. ASSUME n.idle < Allowance(c)
          PROVE  age' <= n.idle + Used(c, n)
      <4>1. s.idle < Allowance(c) /\ n.idle = s.idle + 1
        BY <1>1, <1>2, <3>2, <3>3
      <4>2. age <= s.idle + Used(c, s)
        BY <1>1, <2>8, <4>1 DEF Timely, Alive
      <4>. QED
        BY <1>1, <1>2, <2>2, <3>1, <4>1, <4>2
    <3>4. s.idle >= Allowance(c) => n.idle >= Allowance(c)
      BY <1>1, <1>2, <3>2
    <3>. QED
      BY <1>1, <2>4, <3>1, <3>3, <3>4 DEF Timely
  <2>. QED
    BY <2>5, <2>6, <2>7, <2>8
<1>13. CASE UNCHANGED vars
  BY <1>4, <1>13 DEF vars, Same
<1>14. CASE Parent
  <2>1. /\ Kill("corr", "kill corr", "kill safe") => (Alive("corr") => age = JoinTimeout)
        /\ Kill("safe", "kill safe", "read corr") => (Alive("safe") => age = JoinTimeout)
    BY <1>1 DEF Kill, Waits
  <2>2. "corr" \in Children /\ "safe" \in Children
    BY DEF Children
  <2>. QED
    BY <1>5, <1>6, <1>7, <1>8, <1>14, <2>1, <2>2 DEF Parent
<1>. QED
  BY <1>9, <1>10, <1>11, <1>12, <1>13, <1>14, ChildKinds DEF Next

\* A verdict stays what was found, on its way into the list of the child.
LEMMA ListedStep ==
  ASSUME IndInv, [Next]_vars, NEW c \in Children
  PROVE  Listed(c)'
<1>. DEFINE s == child[c]
            b == box[c]
            n == child'[c]
            m == box'[c]
<1>1. /\ TypeOK /\ Waits /\ Listed(c) /\ prog' = prog
      /\ (\A v, note : Reported(c, v, note)' <=> Reported(c, v, note))
      /\ (\A x : Findings(c, x)' <=> Findings(c, x))
  BY SameProg, SameFindings DEF IndInv
<1>2. /\ s \in ChildState(c) /\ b \in [result : Found(c), meta : Notes]
      /\ DOMAIN box = Children
  BY <1>1 DEF TypeOK, ChildOK, BoxOK
<1>3. ASSUME n.st = s.st, n.test = s.test, n.found = s.found, n.note = s.note, m = b
      PROVE  Listed(c)'
  <2>1. Findings(c, n)
    BY <1>1, <1>3 DEF Listed, Findings
  <2>. QED
    BY <1>1, <1>3, <2>1 DEF Listed
<1>4. ASSUME Same(c), m = b
      PROVE  Listed(c)'
  BY <1>3, <1>4 DEF Same
<1>5. ASSUME n.st = "over", m = b
      PROVE  Listed(c)'
  <2>1. Findings(c, n)
    BY <1>5 DEF Findings
  <2>. QED
    BY <1>1, <1>5, <2>1 DEF Listed
<1>6. CASE Start
  <2>1. s.st = "off" /\ n.st = "boot" /\ m = b
    <3>1. s = Off /\ n = [Off EXCEPT !.st = "boot"] /\ m = b
      BY <1>1, <1>6 DEF Start, Waits
    <3>. QED
      BY <3>1 DEF Off
  <2>2. Findings(c, n)
    BY <2>1 DEF Findings
  <2>. QED
    BY <1>1, <2>1, <2>2 DEF Listed
<1>7. CASE JoinCorr \/ JoinSafe
  BY <1>4, <1>7 DEF JoinCorr, JoinSafe, Same
<1>8. ASSUME NEW d \in Children, NEW at, NEW next, Kill(d, at, next)
      PROVE  Listed(c)'
  <2>1. CASE d = c
    BY <1>1, <1>3, <1>8, <2>1, KillFacts DEF Kill
  <2>2. CASE d # c
    BY <1>1, <1>4, <1>8, <2>2, KillFacts DEF Kill
  <2>. QED
    BY <2>1, <2>2
<1>9. ASSUME NEW d \in Children, NEW field, NEW at, NEW default, NEW next,
             Read(d, field, at, next, default)
      PROVE  Listed(c)'
  BY <1>4, <1>9 DEF Read, Same
<1>10. ASSUME NEW d \in Children, Moves(d)
       PROVE  Listed(c)'
  <2>1. CASE d # c
    BY <1>4, <1>10, <2>1 DEF Moves, Same
  <2>2. CASE d = c
    <3>1. /\ s.st \in {"boot", "compile", "run"} /\ n.st \in {"compile", "run", "report"}
          /\ Findings(c, n) /\ m = b
      BY <1>10, <2>2 DEF Moves
    <3>. QED
      BY <1>1, <3>1 DEF Listed
  <2>. QED
    BY <2>1, <2>2
<1>11. ASSUME NEW d \in Children, AppendResult(d)
       PROVE  Listed(c)'
  <2>1. CASE d # c
    <3>1. Same(c)
      BY <1>1, <1>11, <2>1, NoteFacts DEF AppendResult
    <3>2. m = b
      BY <1>2, <1>11, <2>1 DEF AppendResult
    <3>. QED
      BY <1>4, <3>1, <3>2
  <2>2. CASE d = c
    <3>1. /\ s.st = "report" /\ n.st = "note" /\ n.found = s.found /\ n.note = s.note
          /\ n.test = s.test
      BY <1>1, <1>11, <2>2, NoteFacts DEF AppendResult
    <3>2. m.result = s.found /\ m.meta = b.meta
      BY <1>2, <1>11, <2>2 DEF AppendResult
    <3>3. Reported(c, s.found, s.note) /\ b.meta = None
      BY <1>1, <3>1 DEF Listed, Findings
    <3>4. Findings(c, n)
      BY <3>1, <3>3 DEF Findings
    <3>5. Reported(c, s.found, None)
      <4>1. None # Clean
        BY ProgramFacts, <1>1 DEF Exact
      <4>. QED
        BY <1>1, <3>3, <4>1, ProgramFacts DEF Reported, Truthful
    <3>. QED
      BY <1>1, <3>1, <3>2, <3>3, <3>4, <3>5 DEF Listed
  <2>. QED
    BY <2>1, <2>2
<1>12. ASSUME NEW d \in Children, AppendMeta(d)
       PROVE  Listed(c)'
  <2>1. CASE d # c
    <3>1. Same(c)
      BY <1>1, <1>12, <2>1, OverFacts DEF AppendMeta
    <3>2. m = b
      BY <1>2, <1>12, <2>1 DEF AppendMeta
    <3>. QED
      BY <1>4, <3>1, <3>2
  <2>2. CASE d = c
    <3>1. s.st = "note" /\ n.st = "over"
      BY <1>1, <1>12, <2>2, OverFacts DEF AppendMeta
    <3>2. m.result = b.result /\ m.meta = s.note
      BY <1>2, <1>12, <2>2 DEF AppendMeta
    <3>3. b.result = s.found /\ Reported(c, s.found, s.note)
      BY <1>1, <3>1 DEF Listed, Findings
    <3>4. b.result # None
      BY <3>3, JudgeAssumption DEF Reported, Truthful
    <3>5. Findings(c, n)
      BY <3>1 DEF Findings
    <3>. QED
      BY <1>1, <3>1, <3>2, <3>3, <3>4, <3>5 DEF Listed
  <2>. QED
    BY <2>1, <2>2
<1>13. ASSUME NEW d \in Children, Ends(d)
       PROVE  Listed(c)'
  <2>1. CASE d # c
    BY <1>1, <1>4, <1>13, <2>1, OverFacts DEF Ends
  <2>2. CASE d = c
    BY <1>1, <1>5, <1>13, <2>2, OverFacts DEF Ends
  <2>. QED
    BY <2>1, <2>2
<1>14. CASE Tick
  <2>1. m = b
    BY <1>14 DEF Tick
  <2>. QED
    BY <1>1, <1>3, <1>14, <2>1, TickFacts
<1>15. CASE UNCHANGED vars
  BY <1>4, <1>15 DEF vars, Same
<1>16. "corr" \in Children /\ "safe" \in Children
  BY DEF Children
<1>. QED
  BY <1>6, <1>7, <1>8, <1>9, <1>10, <1>11, <1>12, <1>13, <1>14, <1>15, <1>16, ChildKinds
     DEF Next, Parent

\* What the parent reads of a child is what it put there, or that it is dead.
LEMMA ReadStep ==
  ASSUME IndInv, [Next]_vars, NEW c \in Children
  PROVE  ReadRight(c)'
<1>. DEFINE s == child[c]
            b == box[c]
            n == child'[c]
            m == box'[c]
<1>1. /\ TypeOK /\ Listed(c) /\ ReadRight(c) /\ prog' = prog /\ Default(c)' = Default(c)
  BY SameProg, SameProblem DEF IndInv
<1>2. /\ b \in [result : Found(c), meta : Notes] /\ DOMAIN box = Children
      /\ got[c] \in [result : Found(c), meta : Notes \cup {"global timeout"}]
      /\ DOMAIN got = Children
  BY <1>1 DEF TypeOK, BoxOK, GotOK
\* The parent does nothing: a child that may still report has been killed.
<1>3. ASSUME pc' = pc, got' = got, n.killed = s.killed, Alive(c)' => Alive(c),
             m.result = b.result \/ (b.result = None /\ Alive(c))
      PROVE  ReadRight(c)'
  <2>1. (Past(c)' <=> Past(c)) /\ (HasRead(c)' <=> HasRead(c)) /\ (HasRead(c) => Past(c))
    BY <1>3 DEF Past, HasRead
  <2>2. CASE m.result = b.result
    BY <1>1, <1>3, <2>1, <2>2 DEF ReadRight
  <2>3. CASE b.result = None /\ Alive(c)
    <3>1. Past(c) => s.killed
      BY <1>1, <2>3 DEF ReadRight
    <3>2. HasRead(c) => got[c].result = Default(c)
      BY <1>1, <2>3 DEF ReadRight
    <3>. QED
      BY <1>1, <1>3, <2>1, <3>1, <3>2 DEF ReadRight
  <2>. QED
    BY <1>3, <2>2, <2>3
<1>4. CASE Start \/ JoinCorr \/ JoinSafe
  <2>1. pc' \in {"join corr", "join safe", "kill corr"}
    BY <1>4 DEF Start, JoinCorr, JoinSafe
  <2>. QED
    BY <2>1 DEF ReadRight, Past, HasRead
<1>5. ASSUME NEW d \in Children, NEW at, NEW next, Kill(d, at, next),
             \/ d = "corr" /\ next = "kill safe"
             \/ d = "safe" /\ at = "kill safe" /\ next = "read corr"
      PROVE  ReadRight(c)'
  <2>1. ~HasRead(c)'
    BY <1>5 DEF HasRead, Kill
  <2>2. CASE d = c
    <3>1. (n.killed <=> Alive(c)) /\ n.st = s.st
      BY <1>1, <1>5, <2>2, KillFacts DEF Kill
    <3>. QED
      BY <2>1, <3>1 DEF ReadRight, Alive
  <2>3. CASE d # c
    <3>1. Same(c)
      BY <1>1, <1>5, <2>3, KillFacts DEF Kill
    <3>2. Past(c)' => Past(c)
      BY <1>5, <2>3 DEF Past, Kill, Children
    <3>. QED
      BY <1>1, <2>1, <3>1, <3>2 DEF ReadRight, Alive, Same
  <2>. QED
    BY <2>2, <2>3
<1>6. ASSUME NEW d \in Children, NEW at, NEW next, Read(d, "result", at, next, Default(d)),
             \/ d = "corr" /\ at = "read corr" /\ next = "note corr"
             \/ d = "safe" /\ at = "read safe" /\ next = "note safe"
      PROVE  ReadRight(c)'
  <2>1. n = s /\ m = b /\ Past(c)
    BY <1>6 DEF Read, Past
  <2>2. CASE d = c
    <3>1. got'[c].result = IF b.result = None THEN Default(c) ELSE b.result
      BY <1>2, <1>6, <2>2 DEF Read
    <3>. QED
      BY <1>1, <2>1, <3>1 DEF ReadRight, Alive
  <2>3. CASE d # c
    <3>1. got'[c] = got[c] /\ (HasRead(c)' => HasRead(c))
      BY <1>2, <1>6, <2>3 DEF Read, HasRead, Children
    <3>. QED
      BY <1>1, <2>1, <3>1 DEF ReadRight, Alive
  <2>. QED
    BY <2>2, <2>3
<1>7. ASSUME NEW d \in Children, NEW at, NEW next, NEW default,
             Read(d, "meta", at, next, default),
             \/ at = "note corr" /\ next = "read safe"
             \/ at = "note safe" /\ next = "done"
      PROVE  ReadRight(c)'
  <2>1. n = s /\ m = b /\ Past(c) /\ (HasRead(c)' => HasRead(c))
    BY <1>7 DEF Read, Past, HasRead
  <2>2. got'[c].result = got[c].result
    BY <1>2, <1>7 DEF Read
  <2>. QED
    BY <1>1, <2>1, <2>2 DEF ReadRight, Alive
<1>8. CASE Parent
  <2>1. /\ "corr" \in Children /\ "safe" \in Children
        /\ Default("corr") = NoVerdict /\ Default("safe") = 0
    BY DEF Children, Default
  <2>. QED
    BY <1>4, <1>5, <1>6, <1>7, <1>8, <2>1 DEF Parent
<1>9. ASSUME NEW d \in Children, Moves(d)
      PROVE  ReadRight(c)'
  <2>1. pc' = pc /\ got' = got /\ m = b /\ n.killed = s.killed
    BY <1>9 DEF Moves
  <2>2. Alive(c)' => Alive(c)
    BY <1>9 DEF Moves, Alive
  <2>. QED
    BY <1>3, <2>1, <2>2
<1>10. ASSUME NEW d \in Children, AppendResult(d)
       PROVE  ReadRight(c)'
  <2>1. pc' = pc /\ got' = got
    BY <1>10 DEF AppendResult
  <2>2. n.killed = s.killed /\ (Alive(c)' => Alive(c))
    BY <1>1, <1>10, NoteFacts DEF AppendResult, Same, Alive
  <2>3. m.result = b.result \/ (b.result = None /\ Alive(c))
    <3>1. CASE d = c
      BY <1>1, <1>10, <3>1 DEF AppendResult, Listed, Alive
    <3>2. CASE d # c
      BY <1>2, <1>10, <3>2 DEF AppendResult
    <3>. QED
      BY <3>1, <3>2
  <2>. QED
    BY <1>3, <2>1, <2>2, <2>3
<1>11. ASSUME NEW d \in Children, AppendMeta(d) \/ Ends(d)
       PROVE  ReadRight(c)'
  <2>1. pc' = pc /\ got' = got
    BY <1>11 DEF AppendMeta, Ends
  <2>2. n.killed = s.killed /\ (Alive(c)' => Alive(c))
    BY <1>1, <1>11, OverFacts DEF AppendMeta, Ends, Same, Alive
  <2>3. m.result = b.result
    <3>1. CASE AppendMeta(d) /\ d = c
      BY <1>2, <3>1 DEF AppendMeta
    <3>2. CASE AppendMeta(d) /\ d # c
      BY <1>2, <3>2 DEF AppendMeta
    <3>3. CASE Ends(d)
      BY <3>3 DEF Ends
    <3>. QED
      BY <1>11, <3>1, <3>2, <3>3
  <2>. QED
    BY <1>3, <2>1, <2>2, <2>3
<1>12. CASE Tick
  <2>1. pc' = pc /\ got' = got /\ m = b
    BY <1>12 DEF Tick
  <2>2. n.killed = s.killed /\ (Alive(c)' => Alive(c))
    BY <1>1, <1>12, TickFacts DEF Alive
  <2>. QED
    BY <1>3, <2>1, <2>2
<1>13. CASE UNCHANGED vars
  BY <1>3, <1>13 DEF vars, Alive
<1>. QED
  BY <1>8, <1>9, <1>10, <1>11, <1>12, <1>13, ChildKinds DEF Next
-----------------------------------------------------------------------------
(* The inductive invariant, and what it says.                              *)

\* It holds when nothing has been started yet.
LEMMA InitInv == Init => IndInv
<1>. SUFFICES ASSUME Init PROVE IndInv
  OBVIOUS
<1>. DEFINE blank == [result |-> None, meta |-> None]
<1>1. /\ prog \in Program /\ pc = "start" /\ waited = 0 /\ age = 0
      /\ child = [c \in Children |-> Off] /\ box = Empty /\ got = Empty
  BY DEF Init
<1>2. Off \in [st : {"off"}, spent : {0}, test : {1}, found : {None}, note : {None},
               killed : {FALSE}, idle : {0}]
  BY DEF Off
<1>3. /\ Off.st = "off" /\ Off.killed = FALSE
      /\ \A c \in Children : child[c] = Off /\ box[c] = blank /\ got[c] = blank
      /\ DOMAIN child = Children /\ DOMAIN box = Children /\ DOMAIN got = Children
  BY <1>1, <1>2 DEF Empty
<1>4. TypeOK
  <2>1. 1 \in T /\ JoinTimeout \in Nat
    <3>1. Kind \in {"io", "call"}
      BY <1>1 DEF Kind, Program, ProgramOf
    <3>2. 1 \in T
      BY <3>1, JudgeAssumption DEF T, Inputs
    <3>3. JoinTimeout \in Nat
      BY <3>1, JudgeAssumption DEF JoinTimeout
    <3>. QED
      BY <3>2, <3>3
  <2>2. \A c \in Children : None \in Found(c)
    BY DEF Found
  <2>3. ChildOK
    <3>1. 0 \in Nat /\ FALSE \in BOOLEAN /\ None \in Notes
      BY DEF Notes
    <3>2. ASSUME NEW c \in Children PROVE Off \in ChildState(c)
      BY <1>2, <2>1, <2>2, <3>1 DEF ChildState
    <3>. QED
      BY <1>3, <3>2 DEF ChildOK
  <2>4. BoxOK /\ GotOK
    <3>1. None \in Notes
      BY DEF Notes
    <3>2. ASSUME NEW c \in Children
          PROVE  /\ blank \in [result : Found(c), meta : Notes]
                 /\ blank \in [result : Found(c), meta : Notes \cup {"global timeout"}]
      BY <2>2, <3>1
    <3>. HIDE DEF blank
    <3>. QED
      BY <1>3, <3>2 DEF BoxOK, GotOK
  <2>5. TimeOK
    BY <1>1, <2>1 DEF TimeOK
  <2>. QED
    BY <1>1, <2>3, <2>4, <2>5 DEF TypeOK
<1>5. Waits
  BY <1>1, <1>3 DEF Waits
<1>6. ASSUME NEW c \in Children PROVE Timely(c)
  BY <1>3 DEF Timely, InLimits, Alive
<1>7. ASSUME NEW c \in Children PROVE Listed(c)
  BY <1>3 DEF Listed, Findings
<1>8. ASSUME NEW c \in Children PROVE ReadRight(c)
  BY <1>1 DEF ReadRight, Past, HasRead
<1>. QED
  BY <1>4, <1>5, <1>6, <1>7, <1>8 DEF IndInv

\* Every step of the parent, a child or the clock keeps it.
LEMMA StepInv == IndInv /\ [Next]_vars => IndInv'
<1>. SUFFICES ASSUME IndInv, [Next]_vars PROVE IndInv'
  OBVIOUS
<1>1. TypeOK' /\ Waits'
  BY TypeStep, WaitsStep
<1>2. \A c \in Children : Timely(c)' /\ Listed(c)' /\ ReadRight(c)'
  BY TimelyStep, ListedStep, ReadStep
<1>. QED
  BY <1>1, <1>2 DEF IndInv

\* The invariant holds in every state of every execution.
LEMMA Invariance == Spec => []IndInv
BY InitInv, StepInv, PTL DEF Spec

(* Every variable has its type, in every state of every execution.          *)
THEOREM TypeCorrect == Spec => []TypeOK
<1>1. IndInv => TypeOK
  BY DEF IndInv
<1>. QED
  BY <1>1, Invariance, PTL

\* What was not read at all fails the program.
LEMMA NoVerdictFails == ASSUME TypeOK PROVE ~Passed(NoVerdict)
BY ProgramFacts DEF NoVerdict, Passed

\* The counts of a whole run are the largest of the tests' numbers.
LEMMA WorstIsMax ==
  ASSUME TypeOK, NEW n, WorstBefore(Last + 1, n)
  PROVE  n = Max({prog.errors[t] : t \in T})
<1>. DEFINE errors == {prog.errors[t] : t \in T}
<1>1. T = 1..Last /\ Last \in Nat /\ 1 \in T /\ \A t \in T : prog.errors[t] \in 0..MaxErrors
  BY ProgramFacts, LimitFacts DEF TypeOK, Program, ProgramOf, T, Kind, Children
<1>2. \A t \in T : t < Last + 1
  BY <1>1
<1>3. \A e \in errors : e <= n
  BY <1>2 DEF WorstBefore
<1>4. n \in errors
  <2>1. n \in 0..MaxErrors /\ (n = 0 \/ \E t \in T : prog.errors[t] = n)
    BY DEF WorstBefore
  <2>2. prog.errors[1] \in 0..MaxErrors /\ prog.errors[1] <= n
    BY <1>1, <1>3
  <2>3. n = 0 => prog.errors[1] = n
    BY <2>1, <2>2, JudgeAssumption
  <2>. QED
    BY <1>1, <2>1, <2>3
<1>5. errors \subseteq Int /\ n \in Int
  BY <1>1, <1>4, JudgeAssumption
<1>. HIDE DEF errors
<1>6. \A m \in errors : (\A e \in errors : m >= e) => m = n
  BY <1>3, <1>4, <1>5
<1>7. n \in errors /\ \A e \in errors : n >= e
  BY <1>3, <1>4, <1>5
<1>. QED
  BY <1>6, <1>7 DEF Max, errors

(* The verdict of a program is its own: it passes only if it compiles and   *)
(* answers every test right, and what a child that lived has reported is    *)
(* exact, in both directions and on both axes.                              *)
THEOREM VerdictIsRight == Spec => []VerdictRight
<1>1. ASSUME IndInv PROVE VerdictRight
  <2>1. /\ TypeOK /\ "corr" \in Children /\ "safe" \in Children
        /\ Listed("corr") /\ ReadRight("corr") /\ Listed("safe") /\ ReadRight("safe")
    BY <1>1 DEF IndInv, Children
  <2>2. PassedIsRight
    <3>. SUFFICES ASSUME pc = "done", Passed(got["corr"].result) PROVE AllRight
      BY DEF PassedIsRight
    <3>1. got["corr"].result = box["corr"].result /\ box["corr"].result # None
      BY <2>1, NoVerdictFails DEF ReadRight, HasRead, Default
    <3>. QED
      BY <2>1, <3>1 DEF Listed, Reported, Truthful
  <2>3. ASSUME pc = "done", ~child["corr"].killed, box["corr"].meta \in Exact
        PROVE  Passed(got["corr"].result) <=> AllRight
    <3>1. box["corr"].meta # None
      BY <2>1, <2>3, ProgramFacts
    <3>2. box["corr"].result # None /\ got["corr"].result = box["corr"].result
      BY <2>1, <2>3, <3>1 DEF Listed, ReadRight, HasRead
    <3>. QED
      BY <2>1, <2>3, <3>2 DEF Listed, Reported, Truthful
  <2>4. ASSUME pc = "done", ~child["safe"].killed, box["safe"].meta = Clean
        PROVE  got["safe"].result = Max({prog.errors[t] : t \in T})
    <3>1. box["safe"].meta # None
      BY <2>1, <2>4, ProgramFacts DEF Exact
    <3>2. box["safe"].result # None /\ got["safe"].result = box["safe"].result
      BY <2>1, <2>4, <3>1 DEF Listed, ReadRight, HasRead
    <3>3. WorstBefore(Last + 1, box["safe"].result)
      BY <2>1, <2>4, <3>2 DEF Listed, Reported
    <3>. QED
      BY <2>1, <3>2, <3>3, WorstIsMax
  <2>5. ReportIsExact
    BY <2>3, <2>4 DEF ReportIsExact, Exact
  <2>. QED
    BY <2>2, <2>5 DEF VerdictRight
<1>. QED
  BY <1>1, Invariance, PTL

(* The global timeout is the last resort: a child it kills has spent the    *)
(* whole allowance outside of the subprocesses that have their own limits.  *)
THEOREM LocalLimitsFirst == Spec => []LocalTimeoutsFirst
<1>1. IndInv => LocalTimeoutsFirst
  BY DEF IndInv, Timely, LocalTimeoutsFirst
<1>. QED
  BY <1>1, Invariance, PTL

\* Only the parent's signal marks a child as killed, at the end of its time.
LEMMA KillsAtTheEnd == ASSUME IndInv, [Next]_vars PROVE PatientStep
<1>. SUFFICES ASSUME NEW c \in Children, child'[c].killed, ~child[c].killed
              PROVE  age >= JoinTimeout
  BY DEF PatientStep
<1>1. TypeOK /\ Waits /\ JoinTimeout \in Nat
  BY LimitFacts DEF IndInv
<1>2. ASSUME NEW d \in Children, NEW at, NEW next, Kill(d, at, next),
             Alive(d) => age = JoinTimeout
      PROVE  age >= JoinTimeout
  <2>1. d = c /\ Alive(d)
    BY <1>1, <1>2, KillFacts DEF Kill, Same
  <2>2. age = JoinTimeout
    BY <1>2, <2>1
  <2>. QED
    BY <1>1, <2>2
<1>3. CASE Parent
  <2>1. CASE Start
    BY <2>1 DEF Start, Off
  <2>2. CASE Kill("corr", "kill corr", "kill safe")
    BY <1>1, <1>2, <2>2 DEF Kill, Waits, Children
  <2>3. CASE Kill("safe", "kill safe", "read corr")
    BY <1>1, <1>2, <2>3 DEF Kill, Waits, Children
  <2>. QED
    BY <1>3, <2>1, <2>2, <2>3 DEF Parent, JoinCorr, JoinSafe, Read
<1>4. ASSUME NEW d \in Children, Child(d) PROVE FALSE
  <2>1. child'[c].killed = child[c].killed
    <3>1. CASE Moves(d)
      BY <3>1 DEF Moves
    <3>2. CASE AppendResult(d)
      BY <1>1, <3>2, NoteFacts DEF AppendResult, Same
    <3>3. CASE AppendMeta(d) \/ Ends(d)
      BY <1>1, <3>3, OverFacts DEF AppendMeta, Ends, Same
    <3>. QED
      BY <1>4, <3>1, <3>2, <3>3, ChildKinds
  <2>. QED
    BY <2>1
<1>5. CASE Tick
  BY <1>1, <1>5, TickFacts
<1>6. CASE UNCHANGED vars
  BY <1>6 DEF vars
<1>. QED
  BY <1>3, <1>4, <1>5, <1>6 DEF Next

(* No child is killed before it had the whole of its time, although the     *)
(* parent waits for one child after the other.                              *)
THEOREM PatienceKept == Spec => Patience
<1>1. IndInv /\ [Next]_vars => [PatientStep]_vars
  BY KillsAtTheEnd
<1>. QED
  BY <1>1, Invariance, PTL DEF Spec, Patience

-----------------------------------------------------------------------------
(* GradePool: first the lists that are built by going on from a list before. *)

\* A set of numbers has a least one.
LEMMA LeastNumber ==
  ASSUME NEW S \in SUBSET Nat, S # {}
  PROVE  \E m \in S : \A x \in S : m <= x
<1>1. PICK m \in S : \A x \in S : ~(<<x, m>> \in OpToRel(<, Nat))
  BY WFMin, NatLessThanWellFounded
<1>2. \A x \in S : m <= x
  <2>. TAKE x \in S
  <2>1. x \in Nat /\ m \in Nat
    OBVIOUS
  <2>2. ~(x < m)
    BY <1>1, <2>1 DEF OpToRel
  <2>. QED
    BY <2>1, <2>2
<1>. QED
  BY <1>2

\* What starts with x and goes on with a step can be listed: take the least length
\* for which it could not.
Steps(n, S, x, step) ==
  n \in Nat \ {0} /\ x \in S /\ step \in [2..n -> [S -> S]]

Iterates(f, n, S, x, step) ==
  /\ f \in [1..n -> S]
  /\ \A k \in 1..n : f[k] = IF k = 1 THEN x ELSE step[k][f[k - 1]]

LEMMA IterationExists ==
  ASSUME NEW n, NEW S, NEW x, NEW step, Steps(n, S, x, step)
  PROVE  \E f : Iterates(f, n, S, x, step)
<1>. USE DEF Steps, Iterates
<1>. DEFINE Lists(f, m) ==
       \A k \in 1..m : f[k] = IF k = 1 THEN x ELSE step[k][f[k - 1]]
<1>. DEFINE Missing == {m \in 1..n : ~\E f \in [1..m -> S] : Lists(f, m)}
<1>1. SUFFICES ASSUME Missing # {} PROVE FALSE
  <2>1. n \in 1..n
    OBVIOUS
  <2>2. n \notin Missing
    BY <1>1
  <2>. QED
    BY <2>1, <2>2
<1>2. Missing \in SUBSET Nat
  OBVIOUS
<1>3. PICK m \in Missing : \A y \in Missing : m <= y
  BY <1>1, <1>2, LeastNumber
<1>4. m \in 1..n /\ ~\E f \in [1..m -> S] : Lists(f, m)
  OBVIOUS
<1>5. m # 1
  <2>1. SUFFICES ASSUME m = 1 PROVE FALSE
    OBVIOUS
  <2>. DEFINE f == [k \in 1..m |-> x]
  <2>2. f \in [1..m -> S] /\ Lists(f, m)
    BY <2>1
  <2>. QED
    BY <1>4, <2>2
<1>6. m - 1 \in 1..n /\ ~(m <= m - 1)
  BY <1>4, <1>5
<1>7. PICK f \in [1..(m - 1) -> S] : Lists(f, m - 1)
  <2>1. m - 1 \notin Missing
    BY <1>3, <1>6, Zenon
  <2>. QED
    BY <1>6, <2>1
<1>. DEFINE last == step[m][f[m - 1]]
            h == [k \in 1..m |-> IF k = m THEN last ELSE f[k]]
<1>8. last \in S
  <2>1. m \in 2..n /\ m - 1 \in 1..(m - 1)
    BY <1>4, <1>5
  <2>2. step[m] \in [S -> S] /\ f[m - 1] \in S
    BY <2>1
  <2>. QED
    BY <2>2
<1>9. h \in [1..m -> S]
  <2>1. \A k \in 1..m : k # m => k \in 1..(m - 1)
    BY <1>4
  <2>2. \A k \in 1..m : k # m => f[k] \in S
    BY <2>1
  <2>. QED
    BY <1>8, <2>2
<1>10. Lists(h, m)
  <2>1. SUFFICES ASSUME NEW k \in 1..m
                 PROVE  h[k] = IF k = 1 THEN x ELSE step[k][h[k - 1]]
    OBVIOUS
  <2>2. CASE k = m
    <3>1. k # 1 /\ k - 1 \in 1..m /\ k - 1 # m
      BY <1>4, <1>5, <2>2
    <3>2. h[k] = last /\ h[k - 1] = f[k - 1]
      BY <2>2, <3>1
    <3>. QED
      BY <2>2, <3>1, <3>2
  <2>3. CASE k # m
    <3>1. k \in 1..(m - 1) /\ h[k] = f[k]
      BY <1>4, <2>3
    <3>2. k # 1 => k - 1 \in 1..m /\ k - 1 # m
      BY <1>4, <2>3
    <3>3. k # 1 => h[k - 1] = f[k - 1]
      BY <3>2
    <3>4. f[k] = IF k = 1 THEN x ELSE step[k][f[k - 1]]
      BY <1>7, <3>1
    <3>. QED
      BY <3>1, <3>3, <3>4
  <2>. QED
    BY <2>2, <2>3
<1>. QED
  BY <1>4, <1>9, <1>10

-----------------------------------------------------------------------------
LEMMA PoolFacts ==
  Problems \in Nat \ {0} /\ Samples \in Nat /\ Workers \in Nat \ {0}
BY GradingAssumption DEF Pool!GradePoolAssumption

\* The pool counts as everybody does.
LEMMA PoolCounts == \A S : Pool!Cardinality(S) = Cardinality(S)
BY DEF Pool!Cardinality, Cardinality

PoolTask == [prob : Nat, gen : Nat]

LEMMA RowFacts ==
  ASSUME NEW p \in Nat, NEW n \in Nat
  PROVE  /\ Pool!Row(p, n) \in Seq(PoolTask) /\ Len(Pool!Row(p, n)) = n
         /\ \A g \in 1..n : Pool!Row(p, n)[g] = [prob |-> p, gen |-> g]
<1>1. Pool!Row(p, n) \in [1..n -> PoolTask]
  BY DEF Pool!Row, PoolTask
<1>. QED
  BY <1>1 DEF Pool!Row

\* The rows are put together one after the other.
LEMMA UpToFacts ==
  ASSUME NEW sz \in [Pool!P -> Nat]
  PROVE  \A p \in Pool!P :
           Pool!UpTo(sz)[p] = IF p = 1 THEN Pool!Row(1, sz[1])
                              ELSE Pool!UpTo(sz)[p - 1] \o Pool!Row(p, sz[p])
<1>. DEFINE x == Pool!Row(1, sz[1])
            step == [p \in 2..Problems |->
                      [s \in Seq(PoolTask) |-> s \o Pool!Row(p, sz[p])]]
            Step(f) == [p \in Pool!P |-> IF p = 1 THEN Pool!Row(1, sz[1])
                                         ELSE f[p - 1] \o Pool!Row(p, sz[p])]
<1>1. x \in Seq(PoolTask)
  BY RowFacts, PoolFacts DEF Pool!P
<1>2. step \in [2..Problems -> [Seq(PoolTask) -> Seq(PoolTask)]]
  <2>1. ASSUME NEW p \in 2..Problems, NEW s \in Seq(PoolTask)
        PROVE  s \o Pool!Row(p, sz[p]) \in Seq(PoolTask)
    <3>1. p \in Nat /\ sz[p] \in Nat
      BY PoolFacts DEF Pool!P
    <3>2. Pool!Row(p, sz[p]) \in Seq(PoolTask)
      BY <3>1, RowFacts
    <3>. QED
      BY <3>2
  <2>. QED
    BY <2>1
<1>3. PICK f : Iterates(f, Problems, Seq(PoolTask), x, step)
  <2>1. Steps(Problems, Seq(PoolTask), x, step)
    BY <1>1, <1>2, PoolFacts DEF Steps
  <2>. QED
    BY <2>1, IterationExists
<1>4. f = Step(f)
  <2>1. ASSUME NEW p \in 1..Problems
        PROVE  f[p] = IF p = 1 THEN Pool!Row(1, sz[1])
                      ELSE f[p - 1] \o Pool!Row(p, sz[p])
    <3>1. CASE p = 1
      BY <1>3, <3>1 DEF Iterates
    <3>2. CASE p # 1
      <4>1. p \in 2..Problems /\ p - 1 \in 1..Problems
        BY <3>2, PoolFacts
      <4>2. f[p - 1] \in Seq(PoolTask)
        BY <1>3, <4>1 DEF Iterates
      <4>3. step[p][f[p - 1]] = f[p - 1] \o Pool!Row(p, sz[p])
        BY <4>1, <4>2
      <4>4. f[p] = step[p][f[p - 1]]
        BY <1>3, <3>2 DEF Iterates
      <4>. QED
        BY <3>2, <4>3, <4>4
    <3>. QED
      BY <3>1, <3>2
  <2>. QED
    BY <1>3, <2>1 DEF Pool!P, Iterates
<1>5. Pool!UpTo(sz) = CHOOSE g : g = Step(g)
  BY DEF Pool!UpTo
<1>6. Pool!UpTo(sz) = Step(Pool!UpTo(sz))
  BY <1>4, <1>5
<1>. QED
  BY <1>6

(* Where the tasks of a problem stand in the list s of those of the first m: *)
(* the g-th generation of problem p is number start[p] + g.                  *)
Placed(sz, m, s, start) ==
  /\ s \in Seq(PoolTask) /\ start \in [1..m -> Nat]
  /\ \A i \in 1..Len(s) : /\ s[i].prob \in 1..m /\ s[i].gen \in 1..sz[s[i].prob]
                          /\ i = start[s[i].prob] + s[i].gen
  /\ \A p \in 1..m : start[p] + sz[p] <= Len(s)
  /\ \A p \in 1..m : \A g \in 1..sz[p] : s[start[p] + g] = [prob |-> p, gen |-> g]
  /\ \A p, q \in 1..m : p < q => start[p] + sz[p] <= start[q]

\* The first row stands alone.
LEMMA PlacedFirst ==
  ASSUME NEW sz \in [Pool!P -> Nat]
  PROVE  \E start : Placed(sz, 1, Pool!Row(1, sz[1]), start)
<1>. DEFINE start == [p \in 1..1 |-> 0]
            s == Pool!Row(1, sz[1])
            n == sz[1]
<1>1. n \in Nat /\ 1 \in Pool!P
  BY PoolFacts DEF Pool!P
<1>2. s \in Seq(PoolTask) /\ Len(s) = n /\ \A g \in 1..n : s[g] = [prob |-> 1, gen |-> g]
  BY <1>1, RowFacts
<1>3. start \in [1..1 -> Nat] /\ start[1] = 0
  OBVIOUS
<1>. HIDE DEF start, s
<1>4. Placed(sz, 1, s, start)
  BY <1>1, <1>2, <1>3 DEF Placed
<1>. QED
  BY <1>4 DEF s

\* One more row is put behind the others.
LEMMA PlacedNext ==
  ASSUME NEW sz \in [Pool!P -> Nat], NEW m \in 2..Problems, NEW s, NEW start,
         Placed(sz, m - 1, s, start)
  PROVE  \E next : Placed(sz, m, s \o Pool!Row(m, sz[m]), next)
<1>. DEFINE r == Pool!Row(m, sz[m])
            n == sz[m]
            l == Len(s)
            t == s \o r
            next == [p \in 1..m |-> IF p = m THEN l ELSE start[p]]
<1>1. n \in Nat /\ m \in Nat \ {0} /\ \A p \in 1..m : sz[p] \in Nat
  BY PoolFacts DEF Pool!P
<1>2. r \in Seq(PoolTask) /\ Len(r) = n /\ \A g \in 1..n : r[g] = [prob |-> m, gen |-> g]
  BY <1>1, RowFacts
<1>3. s \in Seq(PoolTask) /\ l \in Nat /\ start \in [1..(m - 1) -> Nat]
  BY DEF Placed
<1>. HIDE DEF r
<1>4. /\ t \in Seq(PoolTask) /\ Len(t) = l + n
      /\ \A i \in 1..l : t[i] = s[i]
      /\ \A g \in 1..n : t[l + g] = r[g]
  BY <1>1, <1>2, <1>3
<1>. HIDE DEF n, l, t
<1>5. \A i \in 1..(l + n) : i \in 1..l \/ \E g \in 1..n : i = l + g
  <2>. TAKE i \in 1..(l + n)
  <2>1. CASE i <= l
    BY <1>1, <1>3, <2>1
  <2>2. CASE ~(i <= l)
    <3>1. i - l \in 1..n /\ i = l + (i - l)
      BY <1>1, <1>3, <2>2
    <3>. QED
      BY <3>1
  <2>. QED
    BY <2>1, <2>2
<1>6. next \in [1..m -> Nat] /\ next[m] = l /\ \A p \in 1..(m - 1) : p # m /\ next[p] = start[p]
  BY <1>1, <1>3
<1>. HIDE DEF next
<1>7. ASSUME NEW i \in 1..Len(t)
      PROVE  /\ t[i].prob \in 1..m /\ t[i].gen \in 1..sz[t[i].prob]
             /\ i = next[t[i].prob] + t[i].gen
  <2>1. CASE i \in 1..l
    <3>1. /\ s[i].prob \in 1..(m - 1) /\ s[i].gen \in 1..sz[s[i].prob]
          /\ i = start[s[i].prob] + s[i].gen
      BY <2>1 DEF Placed, l
    <3>2. t[i] = s[i] /\ next[s[i].prob] = start[s[i].prob]
      BY <1>4, <1>6, <2>1, <3>1
    <3>3. \A p \in 1..(m - 1) : p \in 1..m
      BY <1>1
    <3>. QED
      BY <3>1, <3>2, <3>3
  <2>2. ASSUME NEW g \in 1..n, i = l + g
        PROVE  /\ t[i].prob \in 1..m /\ t[i].gen \in 1..sz[t[i].prob]
               /\ i = next[t[i].prob] + t[i].gen
    <3>1. t[i] = [prob |-> m, gen |-> g]
      BY <1>2, <1>4, <2>2
    <3>2. m \in 1..m /\ next[m] = l /\ g \in 1..sz[m]
      BY <1>1, <1>6 DEF n
    <3>. QED
      BY <2>2, <3>1, <3>2
  <2>. QED
    BY <1>4, <1>5, <2>1, <2>2
<1>8. ASSUME NEW p \in 1..m PROVE next[p] + sz[p] <= Len(t)
  <2>1. CASE p = m
    BY <1>1, <1>3, <1>4, <1>6, <2>1 DEF n
  <2>2. CASE p # m
    <3>1. p \in 1..(m - 1)
      BY <1>1, <2>2
    <3>2. start[p] + sz[p] <= l /\ start[p] \in Nat /\ sz[p] \in Nat
      BY <1>1, <3>1, <1>3 DEF Placed, l
    <3>. QED
      BY <1>1, <1>3, <1>4, <1>6, <3>1, <3>2
  <2>. QED
    BY <2>1, <2>2
<1>9. ASSUME NEW p \in 1..m, NEW g \in 1..sz[p]
      PROVE  t[next[p] + g] = [prob |-> p, gen |-> g]
  <2>1. CASE p = m
    BY <1>2, <1>4, <1>6, <2>1 DEF n
  <2>2. CASE p # m
    <3>1. p \in 1..(m - 1)
      BY <1>1, <2>2
    <3>2. start[p] + sz[p] <= l /\ start[p] \in Nat /\ sz[p] \in Nat
      BY <1>1, <3>1, <1>3 DEF Placed, l
    <3>3. start[p] + g \in 1..l
      BY <1>3, <3>2
    <3>4. s[start[p] + g] = [prob |-> p, gen |-> g]
      BY <3>1 DEF Placed
    <3>. QED
      BY <1>4, <1>6, <3>1, <3>3, <3>4
  <2>. QED
    BY <2>1, <2>2
<1>10. ASSUME NEW p \in 1..m, NEW q \in 1..m, p < q PROVE next[p] + sz[p] <= next[q]
  <2>1. p \in 1..(m - 1)
    BY <1>1, <1>10
  <2>2. start[p] + sz[p] <= l /\ next[p] = start[p]
    BY <1>6, <2>1 DEF Placed, l
  <2>3. CASE q = m
    BY <1>6, <2>2, <2>3
  <2>4. CASE q # m
    <3>1. q \in 1..(m - 1)
      BY <1>1, <2>4
    <3>2. start[p] + sz[p] <= start[q]
      BY <1>10, <2>1, <3>1 DEF Placed
    <3>. QED
      BY <1>6, <2>2, <3>1, <3>2
  <2>. QED
    BY <2>3, <2>4
<1>11. Placed(sz, m, t, next)
  BY <1>4, <1>6, <1>7, <1>8, <1>9, <1>10 DEF Placed
<1>. QED
  BY <1>11 DEF t, r

\* All tasks have their places: take the first problem up to which they have not.
LEMMA LinearPlaced ==
  ASSUME NEW sz \in [Pool!P -> Nat]
  PROVE  \E start : Placed(sz, Problems, Pool!Linear(sz), start)
<1>. DEFINE u == Pool!UpTo(sz)
            Missing == {m \in 1..Problems : ~\E start : Placed(sz, m, u[m], start)}
<1>1. SUFFICES ASSUME Missing # {} PROVE FALSE
  <2>1. Problems \in 1..Problems /\ Problems \notin Missing
    BY <1>1, PoolFacts
  <2>2. \E start : Placed(sz, Problems, u[Problems], start)
    BY <2>1
  <2>. QED
    BY <2>2 DEF Pool!Linear
<1>2. Missing \in SUBSET Nat
  BY PoolFacts
<1>3. PICK m \in Missing : \A y \in Missing : m <= y
  BY <1>1, <1>2, LeastNumber
<1>4. m \in 1..Problems /\ ~\E start : Placed(sz, m, u[m], start)
  OBVIOUS
<1>5. u[m] = IF m = 1 THEN Pool!Row(1, sz[1]) ELSE u[m - 1] \o Pool!Row(m, sz[m])
  BY <1>4, UpToFacts DEF Pool!P
<1>6. m # 1
  BY <1>4, <1>5, PlacedFirst
<1>7. m - 1 \in 1..Problems /\ ~(m <= m - 1) /\ m \in 2..Problems
  BY <1>4, <1>6, PoolFacts
<1>8. PICK start : Placed(sz, m - 1, u[m - 1], start)
  <2>1. m - 1 \notin Missing
    BY <1>3, <1>7, Zenon
  <2>. QED
    BY <1>7, <2>1
<1>. HIDE DEF u
<1>9. \E next : Placed(sz, m, u[m - 1] \o Pool!Row(m, sz[m]), next)
  BY <1>7, <1>8, PlacedNext
<1>. QED
  BY <1>4, <1>5, <1>6, <1>9

\* The tasks of the pool have numbers, and each its problem.
LEMMA TaskFacts ==
  ASSUME NEW start, Placed(sizes, Problems, Pool!Tasks, start)
  PROVE  /\ Len(Pool!Tasks) \in Nat /\ Pool!Ids = 1..Len(Pool!Tasks)
         /\ \A i \in Pool!Ids : Pool!Remap(i) \in Pool!P
<1>1. Pool!Tasks \in Seq(PoolTask)
  BY DEF Placed
<1>2. Len(Pool!Tasks) \in Nat /\ Pool!Ids = 1..Len(Pool!Tasks)
  BY <1>1 DEF Pool!Ids
<1>. QED
  BY <1>2 DEF Placed, Pool!Remap, Pool!P

\* The loop over the results appends each to the list of its problem.
LEMMA AppendedFacts ==
  ASSUME NEW start, Placed(sizes, Problems, Pool!Tasks, start),
         NEW V, results \in [Pool!Ids -> V], Pool!Ids # {}
  PROVE  \A i \in Pool!Ids :
           /\ Pool!Appended[i] \in [Pool!P -> Seq(V)]
           /\ Pool!Appended[i] =
                [(IF i = 1 THEN Pool!NoLists ELSE Pool!Appended[i - 1])
                   EXCEPT ![Pool!Remap(i)] = Append(@, results[i])]
<1>. DEFINE n == Len(Pool!Tasks)
            S == [Pool!P -> Seq(V)]
            Put(l, i) == [l EXCEPT ![Pool!Remap(i)] = Append(@, results[i])]
            x == Put(Pool!NoLists, 1)
            step == [i \in 2..n |-> [l \in S |-> Put(l, i)]]
            Step(f) == [i \in Pool!Ids |-> Put(IF i = 1 THEN Pool!NoLists ELSE f[i - 1], i)]
<1>1. n \in Nat \ {0} /\ Pool!Ids = 1..n /\ \A i \in 1..n : Pool!Remap(i) \in Pool!P
  BY TaskFacts
<1>. HIDE DEF n
<1>2. ASSUME NEW l \in S, NEW i \in 1..n PROVE Put(l, i) \in S
  <2>1. results[i] \in V /\ Pool!Remap(i) \in Pool!P /\ l[Pool!Remap(i)] \in Seq(V)
    BY <1>1
  <2>2. Append(l[Pool!Remap(i)], results[i]) \in Seq(V)
    BY <2>1
  <2>. QED
    BY <2>1, <2>2
<1>3. Pool!NoLists \in S
  BY DEF Pool!NoLists
<1>4. Steps(n, S, x, step)
  <2>1. x \in S
    BY <1>1, <1>2, <1>3
  <2>2. \A i \in 2..n : i \in 1..n
    BY <1>1
  <2>3. step \in [2..n -> [S -> S]]
    BY <1>2, <2>2
  <2>. HIDE DEF S, x, step
  <2>. QED
    BY <1>1, <2>1, <2>3 DEF Steps
<1>5. PICK f : Iterates(f, n, S, x, step)
  BY <1>4, IterationExists
<1>6. f \in [1..n -> S] /\ \A i \in 1..n : f[i] = IF i = 1 THEN x ELSE step[i][f[i - 1]]
  BY <1>5 DEF Iterates
<1>7. f = Step(f)
  <2>1. ASSUME NEW i \in 1..n
        PROVE  f[i] = Put(IF i = 1 THEN Pool!NoLists ELSE f[i - 1], i)
    <3>1. CASE i = 1
      BY <1>6, <3>1
    <3>2. CASE i # 1
      <4>1. i \in 2..n /\ i - 1 \in 1..n
        BY <1>1, <3>2
      <4>2. f[i - 1] \in S
        BY <1>6, <4>1
      <4>3. step[i][f[i - 1]] = Put(f[i - 1], i)
        BY <4>1, <4>2
      <4>. HIDE DEF step, Put
      <4>. QED
        BY <1>6, <3>2, <4>3
    <3>. QED
      BY <3>1, <3>2
  <2>. HIDE DEF Put, S
  <2>. QED
    BY <1>1, <1>6, <2>1
<1>8. Pool!Appended = CHOOSE g : g = Step(g)
  BY DEF Pool!Appended
<1>9. Pool!Appended = Step(Pool!Appended)
  BY <1>7, <1>8
<1>10. \A i \in 1..n : Pool!Appended[i] = Put(IF i = 1 THEN Pool!NoLists ELSE Pool!Appended[i - 1], i)
  <2>. HIDE DEF Put
  <2>. QED
    BY <1>1, <1>9
<1>11. \A i \in 1..n : Pool!Appended[i] \in S
  <2>. DEFINE Bad == {i \in 1..n : Pool!Appended[i] \notin S}
  <2>1. SUFFICES ASSUME Bad # {} PROVE FALSE
    OBVIOUS
  <2>a. Bad \in SUBSET Nat
    BY <1>1
  <2>2. PICK m \in Bad : \A y \in Bad : m <= y
    BY <2>1, <2>a, LeastNumber
  <2>3. m \in 1..n /\ Pool!Appended[m] \notin S
    OBVIOUS
  <2>. HIDE DEF S, Put
  <2>4. m # 1
    BY <1>2, <1>3, <1>10, <2>3
  <2>5. m - 1 \in 1..n /\ ~(m <= m - 1)
    BY <1>1, <2>3, <2>4
  <2>6. Pool!Appended[m - 1] \in S
    BY <2>2, <2>5, Zenon
  <2>. QED
    BY <1>2, <1>10, <2>3, <2>4, <2>6
<1>. QED
  BY <1>1, <1>10, <1>11

\* How much of a row of n that stands behind a is done after i tasks.
Part(i, a, n) == IF i <= a THEN 0 ELSE IF a + n <= i THEN n ELSE i - a

\* After i tasks every list has the results of its own tasks, in their order.
Filled(l, i, start) ==
  \A p \in Pool!P :
    /\ l[p] \in Seq({results[j] : j \in Pool!Ids})
    /\ Len(l[p]) = Part(i, start[p], sizes[p])
    /\ \A k \in 1..Len(l[p]) : l[p][k] = results[start[p] + k]

\* One more task fills its own list.
LEMMA FilledNext ==
  ASSUME sizes \in [Pool!P -> Nat],
         NEW start, Placed(sizes, Problems, Pool!Tasks, start),
         NEW i \in Pool!Ids, NEW l, l \in [Pool!P -> Seq({results[j] : j \in Pool!Ids})],
         Filled(l, i - 1, start)
  PROVE  Filled([l EXCEPT ![Pool!Remap(i)] = Append(@, results[i])], i, start)
<1>. DEFINE q == Pool!Remap(i)
            g == Pool!Tasks[i].gen
            V == {results[j] : j \in Pool!Ids}
            h == [l EXCEPT ![q] = Append(@, results[i])]
<1>1. /\ q \in Pool!P /\ g \in 1..sizes[q] /\ i = start[q] + g
      /\ i \in Nat /\ g \in Nat \ {0} /\ start[q] \in Nat /\ sizes[q] \in Nat
  <2>1. Len(Pool!Tasks) \in Nat /\ Pool!Ids = 1..Len(Pool!Tasks) /\ q \in Pool!P
    BY TaskFacts
  <2>2. g \in 1..sizes[q] /\ i = start[q] + g /\ start[q] \in Nat
    BY <2>1 DEF Placed, Pool!Remap, Pool!P
  <2>. QED
    BY <2>1, <2>2
<1>. HIDE DEF q, g
<1>. SUFFICES ASSUME NEW p \in Pool!P
              PROVE  /\ h[p] \in Seq(V)
                     /\ Len(h[p]) = Part(i, start[p], sizes[p])
                     /\ \A k \in 1..Len(h[p]) : h[p][k] = results[start[p] + k]
  BY DEF Filled, q
<1>2. /\ l[p] \in Seq(V) /\ Len(l[p]) = Part(i - 1, start[p], sizes[p])
      /\ \A k \in 1..Len(l[p]) : l[p][k] = results[start[p] + k]
  BY DEF Filled
<1>3. results[i] \in V
  OBVIOUS
<1>. HIDE DEF V
<1>4. start[p] \in Nat /\ sizes[p] \in Nat
  BY DEF Placed, Pool!P
<1>5. CASE p = q
  <2>1. h[p] = Append(l[p], results[i])
    BY <1>5
  <2>2. Part(i - 1, start[p], sizes[p]) = g - 1 /\ Part(i, start[p], sizes[p]) = g
    <3>. DEFINE a == start[p]
                n == sizes[p]
    <3>1. a \in Nat /\ n \in Nat /\ g \in 1..n /\ i = a + g
      BY <1>1, <1>4, <1>5
    <3>. HIDE DEF a, n
    <3>2. Part(i - 1, a, n) = g - 1 /\ Part(i, a, n) = g
      BY <3>1 DEF Part
    <3>. QED
      BY <3>2 DEF a, n
  <2>. DEFINE s == l[p]
              r == results[i]
  <2>3. s \in Seq(V) /\ Len(s) = g - 1 /\ r \in V
    BY <1>2, <1>3, <2>2
  <2>4. /\ Append(s, r) \in Seq(V) /\ Len(Append(s, r)) = g /\ Append(s, r)[g] = r
        /\ \A k \in 1..(g - 1) : Append(s, r)[k] = s[k]
    <3>. HIDE DEF s, r
    <3>. QED
      BY <1>1, <2>3
  <2>5. ASSUME NEW k \in 1..g PROVE h[p][k] = results[start[p] + k]
    <3>1. CASE k = g
      BY <1>1, <1>5, <2>1, <2>4, <3>1
    <3>2. CASE k # g
      <4>1. k \in 1..(g - 1)
        BY <1>1, <3>2
      <4>. QED
        BY <1>2, <2>1, <2>3, <2>4, <4>1
    <3>. QED
      BY <3>1, <3>2
  <2>. QED
    BY <2>1, <2>2, <2>4, <2>5
<1>6. CASE p # q
  <2>1. h[p] = l[p]
    BY <1>6
  <2>2. Part(i - 1, start[p], sizes[p]) = Part(i, start[p], sizes[p])
    <3>. DEFINE a == start[p]
                n == sizes[p]
                b == start[q]
                m == sizes[q]
    <3>1. a + n <= b \/ b + m <= a
      <4>1. p \in 1..Problems /\ q \in 1..Problems
        BY <1>1 DEF Pool!P
      <4>2. p < q \/ q < p
        BY <1>6, <4>1, PoolFacts
      <4>. QED
        BY <4>1, <4>2 DEF Placed
    <3>2. a \in Nat /\ n \in Nat /\ b \in Nat /\ m \in Nat /\ g \in 1..m /\ i = b + g
      BY <1>1, <1>4
    <3>. HIDE DEF a, n, b, m
    <3>3. Part(i - 1, a, n) = Part(i, a, n)
      BY <3>1, <3>2 DEF Part
    <3>. QED
      BY <3>3 DEF a, n
  <2>. QED
    BY <1>2, <2>1, <2>2
<1>. QED
  BY <1>5, <1>6

\* In the end every list has the results of all tasks of its problem.
LEMMA RegroupedFacts ==
  ASSUME sizes \in [Pool!P -> Nat],
         NEW start, Placed(sizes, Problems, Pool!Tasks, start),
         NEW W, results \in [Pool!Ids -> W]
  PROVE  \A p \in Pool!P :
           /\ Len(Pool!Regrouped[p]) = sizes[p]
           /\ Pool!Regrouped[p] = <<>> <=> sizes[p] = 0
           /\ \A g \in 1..sizes[p] : Pool!Regrouped[p][g] = results[start[p] + g]
<1>. DEFINE V == {results[j] : j \in Pool!Ids}
            n == Len(Pool!Tasks)
            S == [Pool!P -> Seq(V)]
<1>1. /\ n \in Nat /\ Pool!Ids = 1..n
      /\ results \in [Pool!Ids -> V]
      /\ \A i \in Pool!Ids : Pool!Remap(i) \in Pool!P
  BY TaskFacts
<1>2. \A p \in Pool!P : start[p] \in Nat /\ sizes[p] \in Nat /\ start[p] + sizes[p] <= n
  BY DEF Placed, Pool!P
<1>3. Pool!NoLists \in S
  BY DEF Pool!NoLists
<1>4. Filled(Pool!NoLists, 0, start)
  <2>1. ASSUME NEW p \in Pool!P PROVE Part(0, start[p], sizes[p]) = 0
    BY <1>2 DEF Part
  <2>2. \A p \in Pool!P : Pool!NoLists[p] = <<>>
    BY DEF Pool!NoLists
  <2>3. <<>> \in Seq(V) /\ Len(<<>>) = 0 /\ \A k \in 1..0 : FALSE
    OBVIOUS
  <2>. HIDE DEF V
  <2>. QED
    BY <2>1, <2>2, <2>3 DEF Filled, V
<1>5. ASSUME Pool!Ids # {}, NEW k \in Pool!Ids
      PROVE  Pool!Appended[k] \in S /\ Filled(Pool!Appended[k], k, start)
  <2>1. \A i \in Pool!Ids :
          /\ Pool!Appended[i] \in S
          /\ Pool!Appended[i] =
               [(IF i = 1 THEN Pool!NoLists ELSE Pool!Appended[i - 1])
                  EXCEPT ![Pool!Remap(i)] = Append(@, results[i])]
    BY <1>1, <1>5, AppendedFacts
  <2>. DEFINE Bad == {i \in 1..n : ~Filled(Pool!Appended[i], i, start)}
  <2>2. SUFFICES ASSUME Bad # {} PROVE FALSE
    BY <1>1, <2>1
  <2>a. Bad \in SUBSET Nat
    BY <1>1
  <2>3. PICK m \in Bad : \A y \in Bad : m <= y
    BY <2>2, <2>a, LeastNumber
  <2>4. m \in 1..n /\ ~Filled(Pool!Appended[m], m, start)
    OBVIOUS
  <2>. DEFINE before == IF m = 1 THEN Pool!NoLists ELSE Pool!Appended[m - 1]
  <2>5. before \in S /\ Filled(before, m - 1, start)
    <3>1. CASE m = 1
      BY <1>3, <1>4, <3>1
    <3>2. CASE m # 1
      <4>a. n \in Nat /\ m \in 1..n
        BY <1>1, <2>4
      <4>1. m - 1 \in 1..n /\ ~(m <= m - 1)
        <5>. HIDE DEF n
        <5>. QED
          BY ONLY <4>a, <3>2
      <4>2. Filled(Pool!Appended[m - 1], m - 1, start)
        BY <2>3, <4>1, Zenon
      <4>. QED
        BY <1>1, <2>1, <3>2, <4>1, <4>2
    <3>. QED
      BY <3>1, <3>2
  <2>6. Pool!Appended[m] = [before EXCEPT ![Pool!Remap(m)] = Append(@, results[m])]
    BY <1>1, <2>1, <2>4
  <2>. HIDE DEF before
  <2>7. m \in Pool!Ids
    BY <1>1, <2>4
  <2>8. Filled([before EXCEPT ![Pool!Remap(m)] = Append(@, results[m])], m, start)
    BY <2>5, <2>7, FilledNext
  <2>. QED
    BY <2>4, <2>6, <2>8
<1>6. Pool!Regrouped \in S /\ Filled(Pool!Regrouped, n, start)
  <2>1. CASE Pool!Ids = {}
    <3>1. n = 0
      BY <1>1, <2>1
    <3>. QED
      BY <1>3, <1>4, <2>1, <3>1 DEF Pool!Regrouped
  <2>2. CASE Pool!Ids # {}
    <3>1. n \in Pool!Ids
      BY <1>1, <2>2
    <3>. QED
      BY <1>5, <2>2, <3>1 DEF Pool!Regrouped
  <2>. QED
    BY <2>1, <2>2
<1>. SUFFICES ASSUME NEW p \in Pool!P
              PROVE  /\ Len(Pool!Regrouped[p]) = sizes[p]
                     /\ Pool!Regrouped[p] = <<>> <=> sizes[p] = 0
                     /\ \A g \in 1..sizes[p] : Pool!Regrouped[p][g] = results[start[p] + g]
  OBVIOUS
<1>. DEFINE list == Pool!Regrouped[p]
<1>7. /\ list \in Seq(V) /\ Len(list) = Part(n, start[p], sizes[p])
      /\ \A k \in 1..Len(list) : list[k] = results[start[p] + k]
  BY <1>6 DEF Filled
<1>8. Part(n, start[p], sizes[p]) = sizes[p]
  <2>. DEFINE a == start[p]
              c == sizes[p]
  <2>1. a \in Nat /\ c \in Nat /\ n \in Nat /\ a + c <= n
    BY <1>1, <1>2
  <2>. HIDE DEF a, c, n
  <2>2. Part(n, a, c) = c
    BY <2>1 DEF Part
  <2>. QED
    BY <2>2 DEF a, c
<1>9. list = <<>> <=> Len(list) = 0
  BY <1>7
<1>. QED
  BY <1>7, <1>8, <1>9

\* Where every problem has samples the lists come in the order of the problems.
LEMMA AllKeys ==
  ASSUME sizes \in [Pool!P -> Nat],
         NEW start, Placed(sizes, Problems, Pool!Tasks, start),
         NEW W, results \in [Pool!Ids -> W], \A p \in Pool!P : sizes[p] > 0
  PROVE  /\ Cardinality(Pool!Keys) = Problems
         /\ \A p \in Pool!P : Pool!NthKey(p) = p
<1>1. Pool!Keys = 1..Problems
  <2>1. ASSUME NEW p \in Pool!P PROVE Pool!Regrouped[p] # <<>>
    <3>1. sizes[p] # 0
      OBVIOUS
    <3>. QED
      BY <3>1, RegroupedFacts
  <2>. QED
    BY <2>1 DEF Pool!Keys, Pool!P
<1>2. Cardinality(Pool!Keys) = Problems
  BY <1>1, PoolFacts, FS_Interval
<1>3. ASSUME NEW p \in 1..Problems
      PROVE  Cardinality({q \in 1..Problems : q < p}) = p - 1
  <2>1. {q \in 1..Problems : q < p} = 1..(p - 1)
    BY PoolFacts
  <2>2. Cardinality(1..(p - 1)) = p - 1
    <3>1. p - 1 \in Int /\ 1 \in Int /\ ~(1 > p - 1) => p - 1 - 1 + 1 = p - 1
      OBVIOUS
    <3>2. p \in Nat \ {0}
      OBVIOUS
    <3>3. Cardinality(1..(p - 1)) = IF 1 > p - 1 THEN 0 ELSE (p - 1) - 1 + 1
      BY <3>2, FS_Interval
    <3>. QED
      BY <3>2, <3>3
  <2>. QED
    BY <2>1, <2>2
<1>4. ASSUME NEW p \in 1..Problems PROVE Pool!NthKey(p) = p
  <2>1. ASSUME NEW q \in 1..Problems
        PROVE  Cardinality({r \in 1..Problems : r < q}) = p - 1 <=> q = p
    <3>1. q - 1 = p - 1 <=> q = p
      OBVIOUS
    <3>. QED
      BY <1>3, <3>1
  <2>2. Pool!NthKey(p) =
          CHOOSE q \in 1..Problems : Cardinality({r \in 1..Problems : r < q}) = p - 1
    BY <1>1, PoolCounts DEF Pool!NthKey
  <2>. HIDE DEF Pool!NthKey
  <2>. QED
    BY <2>1, <2>2
<1>. QED
  BY <1>2, <1>4 DEF Pool!P

\* What is returned where every problem has samples: each result at its place.
LEMMA GroupedFacts ==
  ASSUME sizes \in [Pool!P -> Nat],
         NEW W, results \in [Pool!Ids -> W], \A p \in Pool!P : sizes[p] > 0
  PROVE  /\ DOMAIN Pool!Grouped = 1..Problems /\ Len(Pool!Grouped) = Problems
         /\ \A p \in Pool!P : Len(Pool!Grouped[p]) = sizes[p]
         /\ \A i \in Pool!Ids :
              Pool!Grouped[Pool!Tasks[i].prob][Pool!Tasks[i].gen] = results[i]
<1>1. PICK start : Placed(sizes, Problems, Pool!Tasks, start)
  BY LinearPlaced DEF Pool!Tasks
<1>2. /\ Cardinality(Pool!Keys) = Problems
      /\ \A p \in Pool!P : Pool!NthKey(p) = p
  BY <1>1, AllKeys
<1>3. Pool!Grouped = [p \in 1..Problems |-> Pool!Regrouped[p]]
  BY <1>2, PoolCounts DEF Pool!Grouped, Pool!P
<1>4. \A p \in Pool!P :
        /\ Len(Pool!Regrouped[p]) = sizes[p]
        /\ \A g \in 1..sizes[p] : Pool!Regrouped[p][g] = results[start[p] + g]
  BY <1>1, RegroupedFacts
<1>5. ASSUME NEW i \in Pool!Ids
      PROVE  /\ Pool!Tasks[i].prob \in Pool!P
             /\ Pool!Regrouped[Pool!Tasks[i].prob][Pool!Tasks[i].gen] = results[i]
  <2>. DEFINE p == Pool!Tasks[i].prob
              g == Pool!Tasks[i].gen
  <2>1. p \in Pool!P /\ g \in 1..sizes[p] /\ i = start[p] + g
    <3>1. i \in 1..Len(Pool!Tasks)
      BY <1>1, TaskFacts
    <3>. QED
      BY <1>1, <3>1 DEF Placed, Pool!P
  <2>. QED
    BY <1>4, <2>1
<1>6. DOMAIN Pool!Grouped = 1..Problems /\ Len(Pool!Grouped) = Problems
  BY <1>3, PoolFacts
<1>7. \A p \in Pool!P : Pool!Grouped[p] = Pool!Regrouped[p]
  BY <1>3 DEF Pool!P
<1>. QED
  BY <1>4, <1>5, <1>6, <1>7

\* The assertion holds where all problems have equally many samples.
LEMMA EvenIsEnough ==
  ASSUME sizes \in [Pool!P -> Nat],
         NEW W, results \in [Pool!Ids -> W], \A p \in Pool!P : sizes[p] = sizes[1]
  PROVE  Pool!SameLengths(Pool!Grouped)
<1>1. sizes[1] \in Nat /\ 1 \in Pool!P
  BY PoolFacts DEF Pool!P
<1>2. CASE sizes[1] = 0
  <2>1. PICK start : Placed(sizes, Problems, Pool!Tasks, start)
    BY LinearPlaced DEF Pool!Tasks
  <2>2. \A p \in Pool!P : Pool!Regrouped[p] = <<>>
    BY <1>2, <2>1, RegroupedFacts
  <2>3. Pool!Keys = {}
    BY <2>2 DEF Pool!Keys
  <2>4. Pool!Cardinality(Pool!Keys) = 0
    BY <2>3, FS_EmptySet, PoolCounts
  <2>. QED
    BY <2>4 DEF Pool!SameLengths, Pool!Grouped
<1>3. CASE sizes[1] # 0
  <2>1. \A p \in Pool!P : sizes[p] > 0
    BY <1>1, <1>3
  <2>2. DOMAIN Pool!Grouped = 1..Problems /\ \A p \in Pool!P : Len(Pool!Grouped[p]) = sizes[p]
    BY <2>1, GroupedFacts
  <2>. QED
    BY <2>2 DEF Pool!SameLengths, Pool!P
<1>. QED
  BY <1>2, <1>3

-----------------------------------------------------------------------------
\* Futures that have ended stay as they are, and the results are theirs.
PoolInv ==
  /\ Pool!TypeOK
  /\ main = "submit" => yielded = {}
  /\ \A i \in yielded : future[i] \in {"done", "failed"} /\ results[i] = Pool!Verdict(i)
  /\ main = "returned" => yielded = Pool!Ids
  /\ Pool!OwnVerdicts /\ Pool!AssertionHolds

LEMMA PoolStarts == ASSUME Pool!Init PROVE PoolInv
<1>. USE DEF Pool!Init
<1>1. \A p \in Pool!P : sizes[p] \in Nat
  BY PoolFacts
<1>2. Pool!In("running") = {}
  BY DEF Pool!In
<1>3. Cardinality(Pool!In("running")) <= Workers
  <2>1. Cardinality({}) = 0
    BY FS_EmptySet
  <2>2. Cardinality(Pool!In("running")) = 0
    BY <1>2, <2>1
  <2>3. 0 <= Workers
    BY ONLY PoolFacts
  <2>. QED
    BY <2>2, <2>3
<1>. QED
  BY <1>1, <1>3, PoolCounts DEF PoolInv, Pool!TypeOK, Pool!OwnVerdicts, Pool!AssertionHolds

\* The tasks are as many as they were, and the futures that run are so many.
LEMMA Running ==
  ASSUME Pool!TypeOK
  PROVE  /\ IsFiniteSet(Pool!Ids) /\ IsFiniteSet(Pool!In("running"))
         /\ Cardinality(Pool!In("running")) \in Nat /\ sizes \in [Pool!P -> Nat]
<1>1. sizes \in [Pool!P -> Nat]
  BY PoolFacts DEF Pool!TypeOK
<1>2. PICK start : Placed(sizes, Problems, Pool!Tasks, start)
  BY <1>1, LinearPlaced DEF Pool!Tasks
<1>3. Len(Pool!Tasks) \in Nat /\ Pool!Ids = 1..Len(Pool!Tasks)
  BY <1>2, TaskFacts
<1>4. IsFiniteSet(Pool!Ids)
  BY <1>3, FS_Interval
<1>5. Pool!In("running") \in SUBSET Pool!Ids
  BY DEF Pool!In
<1>6. IsFiniteSet(Pool!In("running"))
  BY <1>4, <1>5, FS_Subset
<1>. QED
  BY <1>1, <1>4, <1>6, FS_CardinalityType

\* Of what runs there is no more when nothing starts.
LEMMA NoneStarted ==
  ASSUME Pool!TypeOK, NEW S \in SUBSET Pool!In("running")
  PROVE  Cardinality(S) <= Workers
<1>1. IsFiniteSet(Pool!In("running")) /\ Cardinality(Pool!In("running")) \in Nat
  BY Running
<1>2. IsFiniteSet(S) /\ Cardinality(S) <= Cardinality(Pool!In("running"))
  BY <1>1, FS_Subset
<1>3. Cardinality(S) \in Nat
  BY <1>2, FS_CardinalityType
<1>4. Cardinality(Pool!In("running")) <= Workers
  BY PoolCounts DEF Pool!TypeOK
<1>. QED
  BY <1>1, <1>2, <1>3, <1>4, PoolFacts

\* One task more is started where a worker is free.
LEMMA OneStarted ==
  ASSUME Pool!TypeOK, NEW i, Cardinality(Pool!In("running")) < Workers
  PROVE  Cardinality(Pool!In("running") \cup {i}) <= Workers
<1>1. IsFiniteSet(Pool!In("running")) /\ Cardinality(Pool!In("running")) \in Nat
  BY Running
<1>2. Cardinality(Pool!In("running") \cup {i}) =
        IF i \in Pool!In("running") THEN Cardinality(Pool!In("running"))
        ELSE Cardinality(Pool!In("running")) + 1
  BY <1>1, FS_AddElement
<1>. QED
  BY <1>1, <1>2, PoolFacts

\* What a step of the pool leaves alone of the main thread's invariant.
LEMMA PoolKept ==
  ASSUME PoolInv, UNCHANGED <<sizes, main, yielded, results, graded>>,
         broken => broken',
         future' \in [Pool!Ids -> {"new", "queued", "running", "done", "failed"}],
         \A i \in Pool!Ids : future[i] = "new" <=> future'[i] = "new",
         \A i \in Pool!Ids : future[i] \in {"done", "failed"} => future'[i] = future[i],
         Cardinality(Pool!In("running")') <= Workers, broken' \in BOOLEAN
  PROVE  PoolInv'
<1>1. Pool!Tasks' = Pool!Tasks /\ Pool!Ids' = Pool!Ids
  BY DEF Pool!Ids, Pool!Tasks
<1>2. Pool!TypeOK'
  <2>1. Pool!Cardinality(Pool!In("running")') <= Workers
    BY PoolCounts
  <2>. QED
    BY <1>1, <2>1 DEF PoolInv, Pool!TypeOK
<1>3. yielded \subseteq Pool!Ids
  BY DEF PoolInv, Pool!TypeOK
<1>4. \A i \in yielded : future'[i] = future[i]
  BY <1>3 DEF PoolInv
<1>5. \A i \in yielded : future'[i] \in {"done", "failed"} /\ results'[i] = Pool!Verdict(i)'
  BY <1>1, <1>4 DEF PoolInv, Pool!Verdict
<1>6. Pool!OwnVerdicts'
  <2>1. main = "returned" => \A i \in Pool!Ids : future'[i] = future[i]
    BY <1>4 DEF PoolInv
  <2>. QED
    BY <1>1, <2>1 DEF PoolInv, Pool!OwnVerdicts
<1>7. Pool!AssertionHolds'
  <2>1. Pool!In("new")' = Pool!In("new")
    BY <1>1 DEF Pool!In
  <2>. QED
    BY <2>1 DEF PoolInv, Pool!AssertionHolds
<1>. QED
  BY <1>1, <1>2, <1>5, <1>6, <1>7 DEF PoolInv

LEMMA SubmitKeeps ==
  ASSUME PoolInv, NEW i \in Pool!Ids, Pool!Submit(i) PROVE PoolInv'
<1>. USE DEF Pool!Submit
<1>1. Pool!Tasks' = Pool!Tasks /\ Pool!Ids' = Pool!Ids
  BY DEF Pool!Ids, Pool!Tasks
<1>2. Pool!TypeOK /\ yielded = {}
  BY DEF PoolInv
<1>3. CASE broken
  <2>1. Pool!TypeOK'
    <3>1. Pool!In("running")' = Pool!In("running")
      BY <1>1, <1>3 DEF Pool!In
    <3>. QED
      BY <1>1, <1>2, <1>3, <3>1 DEF Pool!TypeOK
  <2>2. Pool!AssertionHolds'
    <3>1. i \in Pool!In("new")'
      BY <1>1, <1>3 DEF Pool!In
    <3>. QED
      BY <1>3, <3>1 DEF Pool!AssertionHolds
  <2>. QED
    BY <1>1, <1>2, <1>3, <2>1, <2>2 DEF PoolInv, Pool!OwnVerdicts
<1>4. CASE ~broken
  <2>1. Pool!TypeOK'
    <3>1. Pool!In("running")' = Pool!In("running")
      BY <1>1, <1>2, <1>4 DEF Pool!In, Pool!TypeOK
    <3>. QED
      BY <1>1, <1>2, <1>4, <3>1 DEF Pool!TypeOK
  <2>. QED
    BY <1>1, <1>2, <1>4, <2>1 DEF PoolInv, Pool!OwnVerdicts, Pool!AssertionHolds
<1>. QED
  BY <1>3, <1>4

LEMMA CollectKeeps ==
  ASSUME PoolInv, NEW i \in Pool!Ids, Pool!Collect(i) PROVE PoolInv'
<1>. USE DEF Pool!Collect, Pool!Slot
<1>1. Pool!Tasks' = Pool!Tasks /\ Pool!Ids' = Pool!Ids
  BY DEF Pool!Ids, Pool!Tasks
<1>2. Pool!TypeOK /\ yielded \subseteq Pool!Ids
  BY DEF PoolInv, Pool!TypeOK
<1>3. Pool!Verdict(i) \in {Pool!Tasks[j] : j \in Pool!Ids} \cup {Crashed}
  BY DEF Pool!Verdict
<1>4. Pool!TypeOK'
  <2>1. Pool!In("running")' = Pool!In("running")
    BY <1>1 DEF Pool!In
  <2>2. results' \in [Pool!Ids -> {Pool!Tasks[j] : j \in Pool!Ids} \cup {Crashed, NotYet}]
    BY <1>2, <1>3 DEF Pool!TypeOK
  <2>. QED
    BY <1>1, <1>2, <2>1, <2>2 DEF Pool!TypeOK
<1>5. \A j \in yielded' : future'[j] \in {"done", "failed"} /\ results'[j] = Pool!Verdict(j)'
  <2>1. results \in [Pool!Ids -> {Pool!Tasks[j] : j \in Pool!Ids} \cup {Crashed, NotYet}]
    BY <1>2 DEF Pool!TypeOK
  <2>2. \A j \in Pool!Ids : Pool!Verdict(j)' = Pool!Verdict(j)
    BY <1>1 DEF Pool!Verdict
  <2>3. results'[i] = Pool!Verdict(i) /\ \A j \in yielded : results'[j] = results[j]
    BY <1>2, <2>1
  <2>. QED
    BY <1>2, <2>2, <2>3 DEF PoolInv
<1>. QED
  BY <1>1, <1>4, <1>5 DEF PoolInv, Pool!OwnVerdicts, Pool!AssertionHolds

LEMMA RegroupKeeps == ASSUME PoolInv, Pool!Regroup PROVE PoolInv'
<1>. USE DEF Pool!Regroup
<1>1. Pool!Tasks' = Pool!Tasks /\ Pool!Ids' = Pool!Ids
  BY DEF Pool!Ids, Pool!Tasks
<1>2. Pool!TypeOK /\ sizes \in [Pool!P -> Nat]
  BY Running DEF PoolInv
<1>3. results \in [Pool!Ids -> {Pool!Tasks[j] : j \in Pool!Ids} \cup {Crashed, NotYet}]
  BY <1>2 DEF Pool!TypeOK
<1>4. Pool!TypeOK'
  <2>1. Pool!In("running")' = Pool!In("running")
    BY <1>1 DEF Pool!In
  <2>2. main' \in {"returned", "raised"}
    OBVIOUS
  <2>. QED
    BY <1>1, <1>2, <2>1, <2>2 DEF Pool!TypeOK
<1>5. Pool!OwnVerdicts'
  <2>1. SUFFICES ASSUME main' = "returned", \A p \in Pool!P : sizes[p] > 0
                 PROVE  /\ Len(graded') = Problems
                        /\ \A p \in Pool!P : Len(graded'[p]) = sizes[p]
                        /\ \A i \in Pool!Ids :
                             graded'[Pool!Tasks[i].prob][Pool!Tasks[i].gen] =
                               IF future[i] = "done" THEN Pool!Tasks[i] ELSE Crashed
    BY <1>1 DEF Pool!OwnVerdicts
  <2>2. graded' = Pool!Grouped
    BY <2>1
  <2>3. /\ Len(Pool!Grouped) = Problems
        /\ \A p \in Pool!P : Len(Pool!Grouped[p]) = sizes[p]
        /\ \A i \in Pool!Ids :
             Pool!Grouped[Pool!Tasks[i].prob][Pool!Tasks[i].gen] = results[i]
    BY <1>2, <1>3, <2>1, GroupedFacts
  <2>4. \A i \in Pool!Ids : results[i] = Pool!Verdict(i)
    BY DEF PoolInv
  <2>. QED
    BY <2>2, <2>3, <2>4 DEF Pool!Verdict
<1>6. Pool!AssertionHolds'
  <2>1. SUFFICES ASSUME main' = "raised" PROVE \E p \in Pool!P : sizes[p] # sizes[1]
    BY DEF Pool!AssertionHolds
  <2>2. ~Pool!SameLengths(Pool!Grouped)
    BY <2>1
  <2>. QED
    BY <1>2, <1>3, <2>2, EvenIsEnough
<1>7. \A i \in yielded : Pool!Verdict(i)' = Pool!Verdict(i)
  BY <1>1 DEF Pool!Verdict
<1>. QED
  BY <1>1, <1>4, <1>5, <1>6, <1>7 DEF PoolInv

\* Every step of the pool keeps the invariant.
LEMMA PoolStep == ASSUME PoolInv, Pool!Next PROVE PoolInv'
<1>1. Pool!TypeOK
  BY DEF PoolInv
<1>2. ASSUME NEW i \in Pool!Ids, Pool!Submit(i) PROVE PoolInv'
  BY <1>2, SubmitKeeps
<1>3. ASSUME NEW i \in Pool!Ids, Pool!Collect(i) PROVE PoolInv'
  BY <1>3, CollectKeeps
<1>4. CASE Pool!Submitted
  <2>. USE <1>4 DEF Pool!Submitted
  <2>1. Pool!Tasks' = Pool!Tasks /\ Pool!Ids' = Pool!Ids
    BY DEF Pool!Ids, Pool!Tasks
  <2>2. Pool!TypeOK'
    <3>1. Pool!In("running")' = Pool!In("running")
      BY <2>1 DEF Pool!In
    <3>. QED
      BY <1>1, <2>1, <3>1 DEF Pool!TypeOK
  <2>. QED
    BY <2>1, <2>2 DEF PoolInv, Pool!OwnVerdicts, Pool!AssertionHolds
<1>5. CASE Pool!Regroup
  BY <1>5, RegroupKeeps
<1>6. ASSUME NEW i \in Pool!Ids, Pool!Take(i) PROVE PoolInv'
  <2>. USE <1>6 DEF Pool!Take
  <2>1. Pool!Ids' = Pool!Ids /\ broken \in BOOLEAN
    BY <1>1 DEF Pool!Ids, Pool!Tasks, Pool!TypeOK
  <2>2. future \in [Pool!Ids -> {"new", "queued", "running", "done", "failed"}]
    BY <1>1 DEF Pool!TypeOK
  <2>3. future' \in [Pool!Ids -> {"new", "queued", "running", "done", "failed"}]
    BY <2>2
  <2>4. Pool!In("running")' = Pool!In("running") \cup {i}
    BY <2>1, <2>2 DEF Pool!In
  <2>5. Cardinality(Pool!In("running")') <= Workers
    <3>1. Cardinality(Pool!In("running")) < Workers
      BY PoolCounts
    <3>. QED
      BY <1>1, <2>4, <3>1, OneStarted
  <2>6. \A j \in Pool!Ids : /\ future[j] = "new" <=> future'[j] = "new"
                            /\ future[j] \in {"done", "failed"} => future'[j] = future[j]
    BY <2>2
  <2>. QED
    BY <2>1, <2>3, <2>5, <2>6, PoolKept
<1>7. ASSUME NEW i \in Pool!Ids, Pool!Judged(i) PROVE PoolInv'
  <2>. USE <1>7 DEF Pool!Judged
  <2>1. Pool!Ids' = Pool!Ids /\ broken \in BOOLEAN
    BY <1>1 DEF Pool!Ids, Pool!Tasks, Pool!TypeOK
  <2>2. future \in [Pool!Ids -> {"new", "queued", "running", "done", "failed"}]
    BY <1>1 DEF Pool!TypeOK
  <2>3. future' \in [Pool!Ids -> {"new", "queued", "running", "done", "failed"}]
    BY <2>2
  <2>4. Pool!In("running")' \in SUBSET Pool!In("running")
    BY <2>1, <2>2 DEF Pool!In
  <2>5. Cardinality(Pool!In("running")') <= Workers
    BY <1>1, <2>4, NoneStarted
  <2>6. \A j \in Pool!Ids : /\ future[j] = "new" <=> future'[j] = "new"
                            /\ future[j] \in {"done", "failed"} => future'[j] = future[j]
    BY <2>2
  <2>. QED
    BY <2>1, <2>3, <2>5, <2>6, PoolKept
<1>8. CASE Pool!WorkerDies
  <2>. USE <1>8 DEF Pool!WorkerDies
  <2>1. Pool!Ids' = Pool!Ids /\ broken' \in BOOLEAN /\ broken'
    BY DEF Pool!Ids, Pool!Tasks
  <2>2. future \in [Pool!Ids -> {"new", "queued", "running", "done", "failed"}]
    BY <1>1 DEF Pool!TypeOK
  <2>3. future' \in [Pool!Ids -> {"new", "queued", "running", "done", "failed"}]
    BY <2>2
  <2>4. Pool!In("running")' \in SUBSET Pool!In("running")
    BY <2>1, <2>2 DEF Pool!In
  <2>5. Cardinality(Pool!In("running")') <= Workers
    BY <1>1, <2>4, NoneStarted
  <2>6. \A j \in Pool!Ids : /\ future[j] = "new" <=> future'[j] = "new"
                            /\ future[j] \in {"done", "failed"} => future'[j] = future[j]
    BY <2>2
  <2>. QED
    BY <2>1, <2>3, <2>5, <2>6, PoolKept
<1>. QED
  BY <1>2, <1>3, <1>4, <1>5, <1>6, <1>7, <1>8
  DEF Pool!Next, Pool!Main, Pool!Worker

(* However many problems, samples and workers there are, and whenever a    *)
(* worker dies: the list that comes back has the verdict of every sample   *)
(* at its place, and grading raises only for a pool that broke while tasks *)
(* were submitted or for uneven lists (lines 289-378).                     *)
THEOREM PlacedByProblem == GradingSpec => []VerdictsPlaced
<1>. DEFINE I == part = "pool" => PoolInv
<1>1. GradingInit => I
  BY PoolStarts DEF GradingInit
<1>2. I /\ [GradingNext]_gradingVars => I'
  <2>. SUFFICES ASSUME I, [GradingNext]_gradingVars PROVE I'
    OBVIOUS
  <2>1. CASE UNCHANGED gradingVars
    <3>1. UNCHANGED <<part, sizes, main, future, broken, yielded, results, graded>>
      BY <2>1 DEF gradingVars, poolVars
    <3>2. PoolInv' = PoolInv
      BY <3>1 DEF PoolInv, Pool!TypeOK, Pool!OwnVerdicts, Pool!AssertionHolds,
                  Pool!In, Pool!Ids, Pool!Tasks, Pool!Verdict
    <3>. QED
      BY <3>1, <3>2
  <2>2. CASE part = "judge" /\ UNCHANGED part
    BY <2>2
  <2>3. CASE part = "pool" /\ Pool!Next /\ UNCHANGED part
    BY <2>3, PoolStep
  <2>. QED
    BY <2>1, <2>2, <2>3 DEF GradingNext
<1>3. I => VerdictsPlaced
  BY DEF PoolInv, VerdictsPlaced
<1>. QED
  BY <1>1, <1>2, <1>3, PTL DEF GradingSpec
=============================================================================
