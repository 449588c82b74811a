----------------------------- MODULE MCGrading -----------------------------
(***************************************************************************)
(* The grading of the evaluation for TLC: how one program is judged        *)
(* (Judge, for an IO_BASED problem and for a CALL_BASED one) and how the   *)
(* verdicts of all programs are put together (GradePool).                  *)
(*                                                                         *)
(* Judge is extended and keeps its names; the pool is an instance.         *)
(*                                                                         *)
(* The pool knows a judgement only by its end, so the two are checked side *)
(* by side and not interleaved: a behaviour belongs to one part, and the   *)
(* other part rests in one of its initial states.                          *)
(***************************************************************************)
EXTENDS Judge

CONSTANTS
  Parts,                         \* the parts that are checked
  Problems, Samples, Workers,    \* of GradePool ...
  Crashed, NotYet

VARIABLES
  part,
  sizes, main, future, broken, yielded, results, graded    \* GradePool

poolVars == <<sizes, main, future, broken, yielded, results, graded>>
gradingVars == <<part, vars, poolVars>>

Pool == INSTANCE GradePool WITH pc <- main

ASSUME GradingAssumption ==
  Parts \subseteq {"judge", "pool"} /\ Pool!GradePoolAssumption

-----------------------------------------------------------------------------
JudgeRests ==
  /\ prog = [kind |-> "call", compiles |-> [c \in Children |-> TRUE],
             right |-> [t \in {1} |-> TRUE], errors |-> [t \in {1} |-> 0]]
  /\ Init
PoolRests == sizes = [p \in 1..Problems |-> 0] /\ Pool!Init

GradingInit ==
  /\ part \in Parts
  /\ \/ part = "judge" /\ Init /\ PoolRests
     \/ part = "pool" /\ Pool!Init /\ JudgeRests

GradingNext ==
  \/ part = "judge" /\ Next /\ UNCHANGED <<part, poolVars>>
  \/ part = "pool" /\ Pool!Next /\ UNCHANGED <<part, vars>>

GradingSpec == GradingInit /\ [][GradingNext]_gradingVars

(* Judge's fairness and GradePool's, each for its part. *)
GradingFair ==
  /\ GradingSpec
  /\ WF_vars(part = "judge" /\ Parent) /\ WF_vars(part = "judge" /\ Tick)
  /\ \A c \in Children :
       /\ WF_vars(part = "judge" /\ SignalArrives(c))
       /\ WF_vars(part = "judge" /\ Expires(c))
  /\ WF_poolVars(part = "pool" /\ Pool!Main) /\ WF_poolVars(part = "pool" /\ Pool!Worker)

-----------------------------------------------------------------------------
(* The list that comes back has the verdict of every sample at its place,  *)
(* and grading raises only for a broken pool or uneven lists:              *)
(* GradePool!OwnVerdicts and GradePool!AssertionHolds (lines 289-378).     *)
VerdictsPlaced ==
  part = "pool" => Pool!TypeOK /\ Pool!OwnVerdicts /\ Pool!AssertionHolds

(* Every program is judged and leaves no child behind, even when the       *)
(* children hang, and the grading of all of them ends, whoever dies:       *)
(* Judge!Settles, GradePool!Ends.                                          *)
GradingEnds ==
  /\ <>[](part = "judge" => Settled)
  /\ <>(part = "pool" => Pool!Ended)
=============================================================================
