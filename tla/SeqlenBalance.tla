--------------------------- MODULE SeqlenBalance ---------------------------
(***************************************************************************)
(* Sequences dealt out to data-parallel ranks or to micro-batches so that  *)
(* each has about the same number of tokens (verl/utils/                   *)
(* seqlen_balancing.py): the largest differencing method of Karmarkar and  *)
(* Karp, one merge per step, then the checks on its result, the order of   *)
(* the micro-batches, and the way back to the original order.              *)
(*                                                                         *)
(* _balance_batch of the PPO trainer wants partitions of equal size, one   *)
(* per rank.  rearrange_micro_batches wants as many as the token budget    *)
(* asks for, here or on the rank of the group that needs most.             *)
(***************************************************************************)
EXTENDS Naturals, Sequences, SequencesExt, FiniteSetsExt

CONSTANTS
  Inputs,     \* lists of sequence lengths
  EqualSize,  \* partitions of equal size
  WorldSize,  \* number of partitions then
  MaxTokens,  \* max_token_len otherwise
  MinMicro    \* min_num_micro_batch otherwise; 0 for None

SeqlenBalanceAssumption ==
  /\ EqualSize \in BOOLEAN /\ MinMicro \in Nat
  /\ WorldSize \in Nat \ {0} /\ MaxTokens \in Nat \ {0}

VARIABLES
  lens,   \* seqlen_list
  k,      \* k_partitions
  pq,     \* states_pq: states of k sets, a set being the list of its indices
  parts,  \* the result
  pc

vars == <<lens, k, pq, parts, pc>>

Total(items) == FoldSeq(LAMBDA i, sum : sum + lens[i], 0, items)
Indices == DOMAIN lens

\* Set.__lt__: by sum, then size, then items.
SetLess(a, b) ==
  \/ Total(a) < Total(b)
  \/ Total(a) = Total(b) /\ Len(a) < Len(b)
  \/ /\ Total(a) = Total(b) /\ Len(a) = Len(b)
     /\ \E i \in DOMAIN a : a[i] < b[i] /\ SubSeq(a, 1, i - 1) = SubSeq(b, 1, i - 1)

\* sorted(sets, reverse=True)
Decreasing(sets) ==
  LET order == SetToSortSeq(1..k, LAMBDA i, j :
                 \/ SetLess(sets[j], sets[i])
                 \/ ~SetLess(sets[i], sets[j]) /\ i < j)
  IN  [i \in 1..k |-> sets[order[i]]]

Spread(state) == Total(state[1]) - Total(state[k])

\* State.__lt__: the largest spread first, then the largest set.
StateLess(s, t) ==
  \/ Spread(s) > Spread(t)
  \/ Spread(s) = Spread(t) /\ SetLess(t[1], s[1])

\* Mutation: sets are merged in the same order.
MergedAlike(s, t) == Decreasing([i \in 1..k |-> s[i] \o t[i]])

\* The largest set of one state goes with the smallest of the other.
Merged(s, t) == Decreasing([i \in 1..k |-> s[i] \o t[k + 1 - i]])

\* heapq.heappop
First(states) == CHOOSE s \in states : \A t \in states \ {s} : StateLess(s, t)

ByLength == SetToSortSeq(Indices, LAMBDA i, j :
              lens[i] < lens[j] \/ (lens[i] = lens[j] /\ i < j))

\* The states at the start: groups of k by length, or single sequences.
Groups ==
  IF EqualSize
    THEN LET order == ByLength
         IN  {Decreasing([i \in 1..k |-> <<order[g * k + i]>>]) :
                g \in 0..((Len(lens) \div k) - 1)}
    ELSE {Decreasing([i \in 1..k |-> IF i = 1 THEN <<j>> ELSE <<>>]) : j \in Indices}

CeilDiv(a, b) == (a + b - 1) \div b

\* Partitions asked for: one per rank, or what the tokens of this rank need
\* and at most one per sequence, raised to what another rank needs.
Partitions ==
  IF EqualSize THEN {WorldSize}
  ELSE LET needed == Min({Len(lens), CeilDiv(Total([i \in Indices |-> i]), MaxTokens)})
       IN  Max({MinMicro, needed}) .. Max({MinMicro, Len(lens)})

Init ==
  /\ lens \in Inputs
  /\ k \in Partitions
  /\ pq = {} /\ parts = <<>> /\ pc = "groups"

Group ==
  /\ pc = "groups"
  /\ IF k <= Len(lens) /\ (EqualSize => Len(lens) % k = 0)
       THEN pq' = Groups /\ pc' = "merge"
       ELSE pc' = "error" /\ UNCHANGED pq
  /\ UNCHANGED <<lens, k, parts>>

Merge ==
  /\ pc = "merge" /\ Cardinality(pq) > 1
  /\ LET s == First(pq)
         t == First(pq \ {s})
     IN  pq' = (pq \ {s, t}) \cup {Merged(s, t)}
  /\ UNCHANGED <<lens, k, parts, pc>>

Ascending(items) == SetToSortSeq(Range(items), LAMBDA i, j : i < j)

\* The assertions of karmarkar_karp and _check_and_sort_partitions.
Checked(sets) ==
  /\ EqualSize => \A i \in 1..k : Len(sets[i]) * k = Len(lens)
  /\ \A i \in 1..k : sets[i] # <<>>
  /\ UNION {Range(sets[i]) : i \in 1..k} = Indices

Check ==
  /\ pc = "merge" /\ Cardinality(pq) = 1
  /\ LET sets == First(pq) IN
       IF Checked(sets)
         THEN /\ parts' = [i \in 1..k |-> Ascending(sets[i])]
              /\ pc' = IF EqualSize THEN "done" ELSE "arrange"
         ELSE pc' = "error" /\ UNCHANGED parts
  /\ UNCHANGED <<lens, k, pq>>

Workload(items) == FoldSeq(LAMBDA i, sum : sum + lens[i] * lens[i], 0, items)

\* micro_bsz_idx.sort(reverse=True) by workload, then by first index.
Arrange ==
  /\ pc = "arrange"
  /\ parts' = SetToSortSeq(Range(parts), LAMBDA a, b :
       \/ Workload(a) > Workload(b)
       \/ Workload(a) = Workload(b) /\ a[1] > b[1])
  /\ pc' = "done"
  /\ UNCHANGED <<lens, k, pq>>

Next == Group \/ Merge \/ Check \/ Arrange
Spec == Init /\ [][Next]_vars

\* get_reverse_idx
Reversed(order) == [j \in DOMAIN order |-> CHOOSE i \in DOMAIN order : order[i] = j]

\* The rows in the order of the partitions, as reorder and torch.cat make it.
Flat == FlattenSeq(parts)

\* restore_dynamic_batch: rows that came in the order of the partitions.
Restored(rows) == [i \in DOMAIN rows |-> rows[Reversed(Flat)[i]]]

-----------------------------------------------------------------------------
TypeOK ==
  /\ lens \in Inputs /\ k \in 1..Max({MinMicro, Len(lens)})
  /\ \A s \in pq : Len(s) = k /\ \A i \in 1..k : Range(s[i]) \subseteq Indices
  /\ \A i \in DOMAIN parts : Range(parts[i]) \subseteq Indices
  /\ pc \in {"groups", "merge", "arrange", "done", "error"}

\* At every step of the method each sequence is in exactly one set of exactly
\* one state (karmarkar_karp): none is lost and none is dealt out twice.
EachOnce ==
  pc \in {"merge", "arrange", "done"} =>
    /\ UNION {UNION {Range(s[i]) : i \in 1..k} : s \in pq} = Indices
    /\ MapThenSumSet(LAMBDA s : Len(FlattenSeq(s)), pq) = Len(lens)

\* For equal partitions all sets of a state have the same size at every step,
\* so the assertion at the end holds (karmarkar_karp, equal_size).
SameSize ==
  EqualSize => \A s \in pq : \A i, j \in 1..k : Len(s[i]) = Len(s[j])

\* No merge makes the partitions less even: a spread is at most the largest one
\* there was at the start (State.merge).
SpreadNeverGrows ==
  pc # "groups" => \A s \in pq : \E g \in Groups : Spread(s) <= Spread(g)

\* No assertion fails when there are as many sequences as partitions and, for
\* equal ones, a multiple of them: no partition is empty
\* (get_seqlen_balanced_partitions).
NeverFails == pc # "error"

\* Results of micro-batches come back in the order of the batch
\* (restore_dynamic_batch after rearrange_micro_batches).
BackInOrder ==
  pc = "done" =>
    LET row == [i \in 1..Len(lens) |-> i]
    IN  Restored([i \in 1..Len(lens) |-> row[Flat[i]]]) = row

\* A micro-batch has at most max_token_len tokens (rearrange_micro_batches,
\* "max sum of attention_mask per micro-batch").
WithinBudget == pc = "done" => \A i \in DOMAIN parts : Total(parts[i]) <= MaxTokens
============================================================================
