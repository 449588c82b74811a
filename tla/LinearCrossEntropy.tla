------------------------- MODULE LinearCrossEntropy -------------------------
(***************************************************************************)
(* The log-probability of a label and the entropy of a row of logits, which*)
(* are never held as a whole (verl/utils/kernel).  The vocabulary is spread*)
(* over tensor-parallel ranks and, on each, over splits.  Every split keeps*)
(* a maximum and two sums relative to it; splits and ranks are joined by   *)
(* rescaling.  The logits of the label are summed up on a stream of their  *)
(* own meanwhile.  The backward pass goes over the columns again.          *)
(*                                                                         *)
(* One token whose hidden state is 1, so that a weight is a logit, and a   *)
(* temperature of 1.  Only sums and quotients of exponentials are formed:  *)
(* powers of two take their place, and all numbers are exact.              *)
(***************************************************************************)
EXTENDS Integers, FiniteSets, FiniteSetsExt, SequencesExt

CONSTANTS
  Grouped,        \* there is a dist_process_group
  WorldSize,      \* its ranks
  VocabSize,      \* columns of a rank
  VocabPerSplit,  \* vocab_per_split of the forward pass
  BackSplit,      \* and of the backward pass
  Logits,         \* values of a logit
  Grads,          \* pairs of dlogprobs and dentropy
  Backwards,      \* _config._backward: "MN", "separate", "split_N"
  Bits            \* a bound: exp(0) is 2^Bits, and nothing smaller than 1 occurs

LinearCrossEntropyAssumption ==
  /\ Grouped \in BOOLEAN /\ (~Grouped => WorldSize = 1)
  /\ {WorldSize, VocabSize, VocabPerSplit, BackSplit, Bits} \subseteq Nat \ {0}
  /\ \A x, y \in Logits \cup {0} : x \in Int /\ x - y <= Bits
  /\ Backwards \subseteq {"MN", "separate", "split_N"}

Ranks == 0..(WorldSize - 1)
Columns == 0..(VocabSize - 1)
NumSplits(size) == (VocabSize + size - 1) \div size
Splits == 0..(NumSplits(VocabPerSplit) - 1)

VARIABLES
  logits,    \* [rank -> column -> logit]
  label,     \* a column of the whole vocabulary
  grad,      \* dlogprobs, dentropy
  backward,  \* _config._backward
  pc,        \* [rank -> where its stream is]
  partial,   \* [rank -> split -> _max, _accu and _entropy_b, or NotYet]
  maxima,    \* [rank -> split -> _max after its all_reduce, or NotYet]
  logprobs,  \* [rank -> the logit of the label]
  joined,    \* the all_reduce of logprobs is done
  sums,      \* [rank -> maximum, accumulate and entropy_b]
  out,       \* [rank -> what is returned and saved for the backward pass]
  done,      \* [rank -> columns or splits the backward pass is done with]
  d_hidden,  \* [rank -> times accumulate^2]
  d_weight   \* [rank -> column -> times accumulate^2]

forward == <<partial, maxima, logprobs, joined, sums, out>>
vars == <<logits, label, grad, backward, pc, forward, done, d_hidden, d_weight>>

NotYet == <<>>
Garbage == 99   \* what torch.empty holds

Larger(x, y) == IF x > y THEN x ELSE y
Sum(f) == MapThenSumSet(LAMBDA i : f[i], DOMAIN f)
Exp(x) == 2 ^ (Bits + x)

\* A sum relative to one maximum, relative to a larger one.
Rescaled(n, from, to) == n \div 2 ^ (to - from)

Fresh(value) == IF backward = "MN" THEN 0 ELSE value

Init ==
  /\ logits \in [Ranks -> [Columns -> Logits]]
  /\ label \in 0..(WorldSize * VocabSize - 1)
  /\ grad \in Grads /\ backward \in Backwards
  /\ pc = [r \in Ranks |-> "main"]
  /\ partial = [r \in Ranks |-> [s \in Splits |-> NotYet]]
  /\ maxima = [r \in Ranks |-> NotYet]
  /\ logprobs = [r \in Ranks |-> IF Grouped THEN 0 ELSE Garbage]
  /\ joined = FALSE
  /\ sums = [r \in Ranks |-> NotYet] /\ out = [r \in Ranks |-> NotYet]
  /\ done = [r \in Ranks |-> {}]
  /\ d_hidden = [r \in Ranks |-> Fresh(Garbage)]
  /\ d_weight = [r \in Ranks |-> [c \in Columns |-> Fresh(Garbage)]]

-----------------------------------------------------------------------------
(***************************************************************************)
(* The forward pass.  The blocks of a split go as far as a split is wide:  *)
(* beyond the vocabulary they meet weights of 0.                           *)
(***************************************************************************)
Logit(r, c) == IF c \in Columns THEN logits[r][c] ELSE 0

\* Mutation: the sums stay relative to the maximum they began with.
NeverRescaled(p, x) ==
  LET m == Larger(p.max, x)
  IN  [max |-> m, accu |-> p.accu + Exp(x - m), ent |-> p.ent + x * Exp(x - m)]
Grown(p, x) ==
  LET m == Larger(p.max, x)
  IN  [max |-> m,
       accu |-> Rescaled(p.accu, p.max, m) + Exp(x - m),
       ent |-> Rescaled(p.ent, p.max, m) + x * Exp(x - m)]

Nothing == [max |-> -Bits, accu |-> 0, ent |-> 0]

\* Mutation: every split stores what it has found.
EverySplit(r, s) == TRUE
HasLabel(r, s) ==
  /\ label >= s * VocabPerSplit + r * VocabSize
  /\ label < Min({(s + 1) * VocabPerSplit, VocabSize}) + r * VocabSize

Mainloop(r, s) ==
  /\ pc[r] = "main" /\ partial[r][s] = NotYet
  /\ LET column(i) == s * VocabPerSplit + i - 1
         found == {i \in 1..VocabPerSplit : column(i) + r * VocabSize = label}
     IN  /\ partial' = [partial EXCEPT ![r][s] =
              FoldLeft(Grown, Nothing,
                       [i \in 1..VocabPerSplit |-> Logit(r, column(i))])]
         /\ logprobs' = IF ~HasLabel(r, s) THEN logprobs
              ELSE [logprobs EXCEPT ![r] =
                      MapThenSumSet(LAMBDA i : Logit(r, column(i)), found)]
  /\ UNCHANGED <<logits, label, grad, backward, pc, maxima, joined, sums, out,
                 done, d_hidden, d_weight>>

Launched(r) == pc[r] = "main" /\ \A s \in Splits : partial[r][s] # NotYet

\* The maxima given, and what is summed relative to those the splits have had.
Joined(r, max) ==
  LET m == Larger(0, Max({max[s] : s \in Splits}))
      old(s) == partial[r][s].max
  IN  [max |-> m,
       accu |-> Sum([s \in Splits |-> Rescaled(partial[r][s].accu, old(s), m)]),
       ent |-> Sum([s \in Splits |-> Rescaled(partial[r][s].ent, old(s), m)])]

Answered(r, total) ==
  [label |-> logprobs[r], max |-> total.max, accu |-> total.accu, ent |-> total.ent]

\* efficient_entropy_triton_kernel_epilogue
Epilogue(r) ==
  /\ ~Grouped /\ Launched(r)
  /\ LET total == Joined(r, [s \in Splits |-> partial[r][s].max])
     IN  /\ sums' = [sums EXCEPT ![r] = total]
         /\ out' = [out EXCEPT ![r] = Answered(r, total)]
  /\ pc' = [pc EXCEPT ![r] = "forwarded"]
  /\ UNCHANGED <<logits, label, grad, backward, partial, maxima, logprobs, joined,
                 done, d_hidden, d_weight>>

\* all_reduce(_max, MAX), with a copy of what it was.
ReduceMax ==
  /\ Grouped /\ \A r \in Ranks : Launched(r)
  /\ maxima' = [r \in Ranks |-> [s \in Splits |->
                  Max({partial[q][s].max : q \in Ranks})]]
  /\ pc' = [r \in Ranks |-> "reduced"]
  /\ UNCHANGED <<logits, label, grad, backward, partial, logprobs, joined, sums, out,
                 done, d_hidden, d_weight>>

\* all_reduce(_logprobs) on _dedicated_stream, behind _dedicated_events[0].
ReduceLogprobs ==
  /\ Grouped /\ ~joined /\ \A r \in Ranks : pc[r] # "main"
  /\ logprobs' = [r \in Ranks |-> Sum(logprobs)]
  /\ joined' = TRUE
  /\ UNCHANGED <<logits, label, grad, backward, pc, partial, maxima, sums, out,
                 done, d_hidden, d_weight>>

\* Mutation: each rank sums relative to its own maximum.
OwnMaxima(r) == [s \in Splits |-> partial[r][s].max]
ReducedMaxima(r) == maxima[r]

\* efficient_entropy_triton_kernel_epilogue_tp
EpilogueTp(r) ==
  /\ pc[r] = "reduced"
  /\ sums' = [sums EXCEPT ![r] = Joined(r, ReducedMaxima(r))]
  /\ pc' = [pc EXCEPT ![r] = "summed"]
  /\ UNCHANGED <<logits, label, grad, backward, partial, maxima, logprobs, joined, out,
                 done, d_hidden, d_weight>>

\* Mutation: the stream does not wait for the other one.
NoWait == TRUE
\* wait_event(_dedicated_events[1])
EventPassed == joined

\* all_reduce(accumulate_and_entropy_b)
ReduceSums ==
  /\ EventPassed /\ \A r \in Ranks : pc[r] = "summed"
  /\ sums' = [r \in Ranks |->
                [max |-> sums[r].max,
                 accu |-> Sum([q \in Ranks |-> sums[q].accu]),
                 ent |-> Sum([q \in Ranks |-> sums[q].ent])]]
  /\ pc' = [r \in Ranks |-> "update"]
  /\ UNCHANGED <<logits, label, grad, backward, partial, maxima, logprobs, joined, out,
                 done, d_hidden, d_weight>>

\* efficient_entropy_triton_epilogue_tp_update
Update(r) ==
  /\ pc[r] = "update"
  /\ out' = [out EXCEPT ![r] = Answered(r, sums[r])]
  /\ pc' = [pc EXCEPT ![r] = "forwarded"]
  /\ UNCHANGED <<logits, label, grad, backward, partial, maxima, logprobs, joined, sums,
                 done, d_hidden, d_weight>>

-----------------------------------------------------------------------------
(***************************************************************************)
(* The backward pass, from what was saved.                                 *)
(***************************************************************************)
\* d_logits, times accumulate^2.
DLogit(r, c) ==
  LET a == out[r].accu
      e == Exp(logits[r][c] - out[r].max)
      hit == IF c + r * VocabSize = label THEN 1 ELSE 0
  IN  grad[1] * (hit * a * a - e * a) - grad[2] * e * (logits[r][c] * a - out[r].ent)

ToHidden(r, cols) == MapThenSumSet(LAMBDA c : DLogit(r, c) * logits[r][c], cols)

\* A program of the fused kernel adds atomically to what began as zeros.
BackwardMN(r, c) ==
  /\ pc[r] = "forwarded" /\ backward = "MN" /\ c \notin done[r]
  /\ d_hidden' = [d_hidden EXCEPT ![r] = @ + ToHidden(r, {c})]
  /\ d_weight' = [d_weight EXCEPT ![r][c] = @ + DLogit(r, c)]
  /\ done' = [done EXCEPT ![r] = @ \cup {c}]
  /\ UNCHANGED <<logits, label, grad, backward, pc, forward>>

BackwardSeparate(r) ==
  /\ pc[r] = "forwarded" /\ backward = "separate" /\ done[r] = {}
  /\ d_hidden' = [d_hidden EXCEPT ![r] = ToHidden(r, Columns)]
  /\ d_weight' = [d_weight EXCEPT ![r] = [c \in Columns |-> DLogit(r, c)]]
  /\ done' = [done EXCEPT ![r] = Columns]
  /\ UNCHANGED <<logits, label, grad, backward, pc, forward>>

\* The columns of a split, the last one cut at the end of the vocabulary.
SplitColumns(s) == (s * BackSplit)..(Min({(s + 1) * BackSplit, VocabSize}) - 1)

\* Mutation: the product of every split is written over the last one's.
Overwritten(old, s, new) == new
\* matmul(..., out=d_hidden) for the first split, += for the others.
Accumulated(old, s, new) == IF s = 0 THEN new ELSE old + new

BackwardSplit(r, s) ==
  /\ pc[r] = "forwarded" /\ backward = "split_N"
  /\ s * BackSplit = Cardinality(done[r])
  /\ d_hidden' = [d_hidden EXCEPT ![r] =
                    Accumulated(@, s, ToHidden(r, SplitColumns(s)))]
  /\ d_weight' = [d_weight EXCEPT ![r] = [c \in Columns |->
                    IF c \in SplitColumns(s) THEN DLogit(r, c) ELSE @[c]]]
  /\ done' = [done EXCEPT ![r] = @ \cup SplitColumns(s)]
  /\ UNCHANGED <<logits, label, grad, backward, pc, forward>>

Next ==
  \/ ReduceMax \/ ReduceLogprobs \/ ReduceSums
  \/ \E r \in Ranks :
       \/ \E s \in Splits : Mainloop(r, s)
       \/ Epilogue(r) \/ EpilogueTp(r) \/ Update(r)
       \/ \E c \in Columns : BackwardMN(r, c)
       \/ BackwardSeparate(r)
       \/ \E s \in 0..(NumSplits(BackSplit) - 1) : BackwardSplit(r, s)

Spec == Init /\ [][Next]_vars

-----------------------------------------------------------------------------
TypeOK ==
  /\ DOMAIN pc = Ranks /\ joined \in BOOLEAN
  /\ \A r \in Ranks : out[r] # NotYet => out[r].max >= 0 /\ out[r].accu > 0

\* What is to be summed: every column of every split.
Counted == {<<r, c>> : r \in Ranks, c \in 0..(NumSplits(VocabPerSplit) * VocabPerSplit - 1)}
Weight(rc) == Exp(Logit(rc[1], rc[2]))
Normaliser(cols) == MapThenSumSet(Weight, cols)
Mean(cols) == MapThenSumSet(LAMBDA rc : Logit(rc[1], rc[2]) * Weight(rc), cols)
LabelLogit == logits[label \div VocabSize][label % VocabSize]

NormalisedBy(r, cols) ==
  /\ out[r].label = LabelLogit
  /\ out[r].accu * 2 ^ out[r].max = Normaliser(cols)
  /\ out[r].ent * 2 ^ out[r].max = Mean(cols)

\* Every rank ends with the same log-probability and entropy, those of all the
\* columns of all ranks, whichever split has the maximum, whichever the label,
\* and whenever the second stream gets its turn.
LogProbRight == \A r \in Ranks : out[r] # NotYet => NormalisedBy(r, Counted)

\* The gradients are those of log-probability and entropy, whichever way and in
\* whichever order the columns are gone through; nothing uninitialised is left.
GradientRight ==
  \A r \in Ranks :
    done[r] = Columns =>
      LET z == Normaliser(Counted)
          n == Mean(Counted)
          w(c) == Exp(logits[r][c])
          hit(c) == IF c + r * VocabSize = label THEN 1 ELSE 0
          true(c) == grad[1] * (hit(c) * z * z - w(c) * z)
                       - grad[2] * w(c) * (logits[r][c] * z - n)
          unit == 4 ^ out[r].max
      IN  /\ \A c \in Columns : d_weight[r][c] * unit = true(c)
          /\ d_hidden[r] * unit =
               MapThenSumSet(LAMBDA c : true(c) * logits[r][c], Columns)

\* Refuted where the last split reaches beyond the vocabulary: the probabilities
\* are those of the vocabulary (the tests compare them with torch's).  The
\* columns beyond it, with their logits of 0, are counted.
VocabularyOnly ==
  \A r \in Ranks :
    out[r] # NotYet => NormalisedBy(r, {rc \in Counted : rc[2] \in Columns})
=============================================================================
