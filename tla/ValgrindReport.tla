--------------------------- MODULE ValgrindReport ---------------------------
(***************************************************************************)
(* What get_valgrind_errors (evaluate/evaluation/testing_util.py) reads    *)
(* off a program run under valgrind: on every input the program runs, and  *)
(* valgrind writes a report; four patterns count lines of it, and the      *)
(* largest count of every pattern over the runs is the verdict.            *)
(*                                                                         *)
(* valgrind is external.  It reports an error once per place, an access to *)
(* a freed block as an invalid access (with a note on the block), writes   *)
(* numbers from a thousand on with a comma, and sums up the leaks whenever *)
(* some block is left at the end, those still reachable included.          *)
(* Compilation and the limits of the run are in Judge.                     *)
(***************************************************************************)
EXTENDS Integers, FiniteSets, FiniteSetsExt

CONSTANTS
  Inputs,   \* number of inputs
  Blocks,   \* bound: allocations of a run
  Size,     \* their sizes in bytes
  Sites     \* bound: places in the program that may err

ValgrindReportAssumption ==
  /\ Inputs \in Nat
  /\ IsFiniteSet(Blocks)
  /\ Size \in [Blocks -> Nat \ {0}]
  /\ IsFiniteSet(Sites)

VARIABLES
  run,     \* the run that goes on
  heap,    \* its blocks
  errs,    \* the errors valgrind has reported in it: what and where
  worst,   \* max_error_counts
  past,    \* what was true of the finished runs
  pc

vars == <<run, heap, errs, worst, past, pc>>

\* Without inputs the program runs once, with an empty input.
Runs == IF Inputs = 0 THEN 1 ELSE Inputs

Keys == {"memory_leak", "invalid_read", "invalid_write", "use_after_free"}
Reads == {"read", "read of freed"}
Writes == {"write", "write to freed"}
Others == {"uninitialised value", "invalid free"}

Init ==
  /\ run = 1
  /\ heap = [b \in Blocks |-> "none"]
  /\ errs = {}
  /\ worst = [k \in Keys |-> 0]
  /\ past = {}
  /\ pc = "run"

-----------------------------------------------------------------------------
(* The program. *)
Block(b, from, to) ==
  /\ pc = "run" /\ heap[b] = from
  /\ heap' = [heap EXCEPT ![b] = to]
  /\ UNCHANGED <<run, errs, worst, past, pc>>

Allocate(b) == Block(b, "none", "held")
Lose(b)     == Block(b, "held", "lost")
Free(b)     == Block(b, "held", "freed")

Err(kind, s) ==
  /\ pc = "run"
  /\ kind \in {"read of freed", "write to freed", "invalid free"}
        => \E b \in Blocks : heap[b] = "freed"
  /\ errs' = errs \cup {<<kind, s>>}
  /\ UNCHANGED <<run, heap, worst, past, pc>>

-----------------------------------------------------------------------------
(* The report. *)
Lost == MapThenSumSet(LAMBDA b : Size[b], {b \in Blocks : heap[b] = "lost"})

\* "definitely lost: N bytes" is written when any block is left.
Summed == \E b \in Blocks : heap[b] \in {"held", "lost"}

\* An access is known by its place, to freed memory or not.
Errors(kinds) == Cardinality({e[2] : e \in {f \in errs : f[1] \in kinds}})

\* The four patterns: digits up to " bytes", and words valgrind never writes.
Count ==
  [memory_leak    |-> IF Summed /\ Lost < 1000 THEN 1 ELSE 0,
   invalid_read   |-> Errors(Reads),
   invalid_write  |-> Errors(Writes),
   use_after_free |-> 0]

Larger(a, b) == IF a > b THEN a ELSE b

\* Mutation: the counts of the last run.
LastCounts == [k \in Keys |-> Count[k]]

\* max_error_counts[k] = max(max_error_counts[k], count)
WorstCounts == [k \in Keys |-> Larger(worst[k], Count[k])]

\* The program ends, and the next input is given to it.
ProgramEnds ==
  /\ pc = "run"
  /\ worst' = WorstCounts
  /\ past' = past \cup {[errs |-> errs, lost |-> Lost]}
  /\ run' = IF run = Runs THEN run ELSE run + 1
  /\ pc' = IF run = Runs THEN "done" ELSE "run"
  /\ heap' = [b \in Blocks |-> "none"]
  /\ errs' = {}

\* A timeout or an exception: what the runs before have found is returned.
Cut ==
  /\ pc = "run" /\ pc' = "cut"
  /\ UNCHANGED <<run, heap, errs, worst, past>>

Next ==
  \/ \E b \in Blocks : Allocate(b) \/ Lose(b) \/ Free(b)
  \/ \E kind \in Reads \cup Writes \cup Others, s \in Sites : Err(kind, s)
  \/ ProgramEnds
  \/ Cut

Spec == Init /\ [][Next]_vars

-----------------------------------------------------------------------------
TypeOK ==
  /\ run \in 1..Runs /\ pc \in {"run", "done", "cut"}
  /\ heap \in [Blocks -> {"none", "held", "lost", "freed"}]
  /\ errs \subseteq (Reads \cup Writes \cup Others) \X Sites
  /\ worst \in [Keys -> {1} \cup 0..Cardinality(Sites)]

Accessed(p) == \E e \in p.errs : e[1] \in Reads \cup Writes

\* What one run has shown stays in the verdict, whatever later runs show and
\* however the series ends: an invalid access, of freed memory too, and a loss
\* that valgrind writes without a comma.  The other way round, accesses are only
\* reported when there were some.
FindingsKept ==
  LET accesses == worst["invalid_read"] + worst["invalid_write"]
  IN  /\ (accesses > 0) <=> (\E p \in past : Accessed(p))
      /\ (\E p \in past : p.lost \in 1..999) => worst["memory_leak"] > 0

Verdict == MapThenSumSet(LAMBDA k : worst[k], Keys)
ErrorFree(p) == p.errs = {} /\ p.lost = 0

\* README.md:234: mem_safe is 1.0 if and only if there are no errors at all.
\* First half: who gets 1.0 has none.  A loss of a thousand bytes is not seen,
\* nor is the use of uninitialised values or an invalid free.
SafeIsClean == (pc = "done" /\ Verdict = 0) => \A p \in past : ErrorFree(p)

\* Second half: a program without errors gets 1.0.  A block that is still
\* reachable at the end makes valgrind write "definitely lost: 0 bytes".
CleanIsSafe == (pc = "done" /\ \A p \in past : ErrorFree(p)) => Verdict = 0
=============================================================================
