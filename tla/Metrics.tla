------------------------------ MODULE Metrics ------------------------------
(***************************************************************************)
(* What is reported: compute_metrics, estimate_pass_at_k and               *)
(* extract_instance_results in evaluate/evaluation/metric_utils.py, called *)
(* with the verdicts and memory errors of every generation of every        *)
(* problem.                                                                *)
(*                                                                         *)
(* A floating-point number is an exact fraction <<numerator, denominator>>.*)
(* The caps of _compute_caps are computed by the code and used nowhere;    *)
(* they are left out, and so are the four classes of memory errors, of     *)
(* which only the sum is used.                                             *)
(***************************************************************************)
EXTENDS Integers, Sequences, FiniteSets, SequencesExt

CONSTANTS
  Problems,   \* number of problems
  Samples,    \* bound: generations of a problem
  Verdicts,   \* bound: the lists of verdicts a generation can have
  MaxErrors,  \* bound: memory errors of a generation
  Types,      \* the problem types that occur
  None        \* no entry in results_safe

MetricsAssumption ==
  /\ Problems \in Nat \ {0}
  /\ Samples \in Nat \ {0}
  /\ \A v \in Verdicts : v \in Seq(Int)
  /\ Types \subseteq {"io_based", "call_based", "call_based_ctypes"}

VARIABLES
  results,  \* results[p][g]: the verdicts; results_safe[p][g], or None; the type
  total, correct, msc_correct, mem_safe,  \* one entry for each problem done
  metrics   \* what compute_metrics returns; before that, empty

vars == <<results, total, correct, msc_correct, mem_safe, metrics>>

P == 1..Problems
Generations == [verdicts : Verdicts, errors : 0..MaxErrors \cup {None}]

-----------------------------------------------------------------------------
(* Fractions, and the mean of a sequence of them. *)

Plus(a, b) == <<a[1] * b[2] + b[1] * a[2], a[2] * b[2]>>
Leq(a, b) == a[1] * b[2] <= b[1] * a[2]
Same(a, b) == a[1] * b[2] = b[1] * a[2]
Mean(s) == LET sum == FoldLeft(Plus, <<0, 1>>, s) IN <<sum[1], sum[2] * Len(s)>>

\* Mutation: with just enough wrong samples a pass is taken for certain.
EstimatorSure(n, c, k) ==
  IF n - c <= k THEN <<1, 1>>
  ELSE LET Factor(a, j) == <<a[1] * (j - k), a[2] * j>>
           none == FoldLeft(Factor, <<1, 1>>, [j \in 1..c |-> n - c + j])
       IN  <<none[2] - none[1], none[2]>>

\* 1 - prod(1 - k / i) for i from n - c + 1 to n
Estimator(n, c, k) ==
  IF n - c < k THEN <<1, 1>>
  ELSE LET Factor(a, j) == <<a[1] * (j - k), a[2] * j>>
           none == FoldLeft(Factor, <<1, 1>>, [j \in 1..c |-> n - c + j])
       IN  <<none[2] - none[1], none[2]>>

EstimatePassAtK(totals, corrects, k) ==
  Mean([p \in DOMAIN totals |-> Estimator(totals[p], corrects[p], k)])

-----------------------------------------------------------------------------
\* np.all(gen > 0), true of an empty list
Passed(gen) == \A j \in DOMAIN gen.verdicts : gen.verdicts[j] > 0

\* total_errs: none where valgrind does not apply, or where an entry is missing
ErrorsOf(type, gen) ==
  IF type = "call_based_ctypes" \/ gen.errors = None THEN 0 ELSE gen.errors

\* 1 / (1 + total_errs) == 1.0
MemSafe(type, gen) == ErrorsOf(type, gen) = 0

Init ==
  /\ \E types \in [P -> Types], gens \in [P -> SeqOf(Generations, Samples) \ {<<>>}] :
       results = [p \in P |-> [type |-> types[p], gens |-> gens[p]]]
  /\ total = <<>> /\ correct = <<>> /\ msc_correct = <<>> /\ mem_safe = <<>>
  /\ metrics = <<>>

\* One turn of the loop over results.items(): the counts of a problem, and the
\* minimum of 1 / (1 + errors) over its generations.
Task ==
  LET r == results[Len(total) + 1]
      Count(Test(_)) == Cardinality({g \in DOMAIN r.gens : Test(r.gens[g])})
      Joint(gen) == Passed(gen) /\ MemSafe(r.type, gen)
      worst == CHOOSE e \in {ErrorsOf(r.type, r.gens[g]) : g \in DOMAIN r.gens} :
                 \A g \in DOMAIN r.gens : ErrorsOf(r.type, r.gens[g]) <= e
  IN  /\ Len(total) < Problems
      /\ total' = Append(total, Len(r.gens))
      /\ correct' = Append(correct, Count(Passed))
      /\ msc_correct' = Append(msc_correct, Count(Joint))
      /\ mem_safe' = Append(mem_safe, <<1, 1 + worst>>)
      /\ UNCHANGED <<results, metrics>>

\* The k of k_list that every problem has enough generations for.
Ks == {k \in 1..Samples : \A p \in DOMAIN total : total[p] >= k}

Aggregate ==
  /\ Len(total) = Problems /\ metrics = <<>>
  /\ metrics' = [pass |-> [k \in Ks |-> EstimatePassAtK(total, correct, k)],
                 msc_pass |-> [k \in Ks |-> EstimatePassAtK(total, msc_correct, k)],
                 mem_safe |-> Mean(mem_safe)]
  /\ UNCHANGED <<results, total, correct, msc_correct, mem_safe>>

Next == Task \/ Aggregate

Spec == Init /\ [][Next]_vars
-----------------------------------------------------------------------------
Reported == metrics # <<>>

TypeOK ==
  /\ Len(correct) = Len(total) /\ Len(msc_correct) = Len(total)
  /\ Len(mem_safe) = Len(total)
  /\ \A p \in DOMAIN total : 0 <= msc_correct[p] /\ correct[p] <= total[p]
  /\ Reported => Leq(<<0, 1>>, metrics.mem_safe) /\ Leq(metrics.mem_safe, <<1, 1>>)

\* The share of the choices of k generations of a problem in which one is good.
ShareOfChoices(p, k, Good(_)) ==
  LET g == results[p].gens
      choices == {S \in SUBSET DOMAIN g : Cardinality(S) = k}
  IN  <<Cardinality({S \in choices : \E j \in S : Good(g[j])}),
        Cardinality(choices)>>

(* pass@k is the mean, over the problems, of the probability that one of k *)
(* generations drawn without replacement passes; the product in            *)
(* estimate_pass_at_k is that, whatever the numbers are (lines 9-13, 111-  *)
(* 162).                                                                   *)
PassIsProbability ==
  Reported => \A k \in DOMAIN metrics.pass :
    Same(metrics.pass[k], Mean([p \in P |-> ShareOfChoices(p, k, Passed)]))

(* msc_pass@k is never larger than pass@k, and both grow with k.           *)
JointAndMonotone ==
  Reported => \A k \in DOMAIN metrics.pass :
    /\ Leq(metrics.msc_pass[k], metrics.pass[k])
    /\ \A l \in DOMAIN metrics.pass : k <= l =>
         Leq(metrics.pass[k], metrics.pass[l])
           /\ Leq(metrics.msc_pass[k], metrics.msc_pass[l])

(* A k is reported for both or for none, only if every problem has that    *)
(* many generations; pass@1 always is, as get_metrics prints it            *)
(* (scenario_router.py).                                                   *)
EnoughSamples ==
  Reported =>
    /\ 1 \in DOMAIN metrics.pass /\ DOMAIN metrics.pass = DOMAIN metrics.msc_pass
    /\ \A k \in DOMAIN metrics.pass, p \in P : k <= Len(results[p].gens)

(* Perfect joint correctness means that every generation passed and has no *)
(* memory error that valgrind reported, and then mem_safe is 1 (README.md: *)
(* 235, lines 84-88, 137-147, 170).                                        *)
PerfectIsSafe ==
  Reported /\ Same(metrics.msc_pass[1], <<1, 1>>) =>
    /\ \A p \in P, g \in 1..Samples : g <= Len(results[p].gens) =>
         LET gen == results[p].gens[g]
         IN  /\ \A j \in DOMAIN gen.verdicts : gen.verdicts[j] > 0
             /\ results[p].type # "call_based_ctypes" => gen.errors \in {0, None}
    /\ Same(metrics.mem_safe, <<1, 1>>)

\* All generations, one after the other.
All == FlattenSeq([p \in P |-> [g \in DOMAIN results[p].gens |->
                     ErrorsOf(results[p].type, results[p].gens[g])]])

(* README.md:240 "mem_safe (mean) - overall fraction of generations that   *)
(* are memory-safe": their fraction, or the mean of 1 / (1 + errors).      *)
MemSafeIsFraction ==
  Reported =>
    \/ Same(metrics.mem_safe,
            Mean([j \in DOMAIN All |-> <<IF All[j] = 0 THEN 1 ELSE 0, 1>>]))
    \/ Same(metrics.mem_safe, Mean([j \in DOMAIN All |-> <<1, 1 + All[j]>>]))
=============================================================================
