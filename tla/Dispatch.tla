------------------------------ MODULE Dispatch ------------------------------
(***************************************************************************)
(* A call of a worker group of verl (verl/single_controller): a batch is   *)
(* split among the ranks, every rank computes its part, and the parts are  *)
(* put together.  A call that does not block returns futures, which may be *)
(* given to the next call: its ranks wait for them and split them on their *)
(* own.                                                                    *)
(*                                                                         *)
(* The driver makes two calls, the second on the result of the first.  The *)
(* ranks of a Megatron group are laid out by megatron.core (external):     *)
(* tensor parallel ranks are neighbours, then context, data and pipeline   *)
(* parallel ones; the last stage of the pipeline has the output.  A row is *)
(* its number and how often it was computed on.                            *)
(***************************************************************************)
EXTENDS Naturals, Sequences, SequencesExt

CONSTANTS
  Tp, Cp, Dp, Pp,  \* sizes of the mesh; of a group without Megatron only Dp
  Megatron,        \* MEGATRON_COMPUTE_PROTO; DP_COMPUTE_PROTO otherwise
  Sizes,           \* sizes of a batch
  Blocking,        \* values of the attribute of the first method
  Padding          \* values of auto_padding

DispatchAssumption ==
  /\ {Tp, Cp, Dp, Pp} \subseteq Nat \ {0} /\ Sizes \subseteq Nat \ {0}
  /\ Blocking \subseteq BOOLEAN /\ Padding \subseteq BOOLEAN
  /\ ~Megatron => Tp = 1 /\ Cp = 1 /\ Pp = 1
  \* No method that does not block is given a batch of any size.
  /\ TRUE \in Padding => Blocking = {TRUE} /\ ~Megatron

VARIABLES
  batch,     \* the batch of the driver
  blocking,  \* whether the first call blocks
  padded,    \* is_padding_enabled
  pc,        \* of the driver: "split", "wait" or "failed"; "done"
  call,      \* the call it is at
  size,      \* _padding_size_key of the call
  arg,       \* call -> rank -> what it was sent: rows, or the futures of a call
  task,      \* call -> rank -> "none", "queued" or "done"
  out,       \* call -> rank -> what it returned
  result     \* call -> rows, or futures

vars == <<batch, blocking, padded, pc, call, size, arg, task, out, result>>

World == Tp * Cp * Dp * Pp
R == 0..(World - 1)
Calls == {1, 2}

\* get_megatron_rank_info
TpRank(r) == r % Tp
CpRank(r) == (r \div Tp) % Cp
DpRank(r) == (r \div (Tp * Cp)) % Dp
PpRank(r) == r \div (Tp * Cp * Dp)

Rows(n) == [i \in 1..n |-> [row |-> i, times |-> 0]]
NoRows == [rows |-> <<>>, future |-> FALSE]

Init ==
  /\ blocking \in Blocking /\ padded \in Padding
  /\ \E n \in Sizes : batch = Rows(n)
  /\ pc = "split" /\ call = 1 /\ size = 0
  /\ arg = [c \in Calls |-> [r \in R |-> NoRows]]
  /\ task = [c \in Calls |-> [r \in R |-> "none"]]
  /\ out = [c \in Calls |-> [r \in R |-> <<>>]]
  /\ result = [c \in Calls |-> NoRows]

-----------------------------------------------------------------------------
\* DataProto.chunk, of rows that can be split evenly.
Chunk(rows, i) ==
  LET n == Len(rows) \div Dp IN SubSeq(rows, i * n + 1, (i + 1) * n)

\* Mutation: as many rows as the batch is over.
PaddingSizeOver(n) == n % Dp
PaddingSize(n) == IF (n % Dp) > 0 THEN Dp - (n % Dp) ELSE 0

\* DataProto.padding: the last row, again and again.
PaddedWith(rows, n) == rows \o [i \in 1..n |-> Last(rows)]

Fail ==
  /\ pc' = "failed"
  /\ UNCHANGED <<batch, blocking, padded, call, size, arg, task, out, result>>

\* What the call is given: the batch, or the result of the call before.
Given == IF call = 1 THEN [rows |-> batch, future |-> FALSE] ELSE result[1]

\* Mutation: a rank has the part of its own number.
PartByRank(r) == r % Dp
\* dispatch_megatron_compute; without Megatron a rank is its own DpRank.
Part(r) == DpRank(r)

\* The split among the ranks, of futures by their own split later.  Padding is
\* added to the batch itself.
Split ==
  /\ pc = "split"
  /\ LET given == Given
         n == IF padded /\ ~given.future THEN PaddingSize(Len(given.rows)) ELSE 0
         rows == PaddedWith(given.rows, n)
     IN  IF ~given.future /\ ~padded /\ (Len(rows) % Dp) # 0 THEN Fail
         ELSE /\ size' = n
              /\ arg' = [arg EXCEPT ![call] = [r \in R |->
                   IF given.future THEN given
                   ELSE [rows |-> Chunk(rows, Part(r)), future |-> FALSE]]]
              /\ task' = [task EXCEPT ![call] = [r \in R |-> "queued"]]
              /\ batch' = (IF call = 1 THEN rows ELSE batch)
              /\ result' = (IF call = 1 \/ given.future THEN result
                            ELSE [result EXCEPT ![1].rows = rows])
              /\ pc' = "wait"
              /\ UNCHANGED <<blocking, padded, call, out>>

\* collect_megatron_compute
Collected == {r \in R : TpRank(r) = 0 /\ PpRank(r) = Pp - 1 /\ CpRank(r) = 0}

\* DataProto.concat of what they have returned, in the order of the ranks.
Concat(c) ==
  LET order == SetToSortSeq(Collected, <)
  IN  FlattenSeq([i \in DOMAIN order |-> out[c][order[i]]])

\* _materialize_futures: all futures, put together, and the rank's part.
Materialized(c, r) ==
  IF arg[c][r].future THEN Chunk(Concat(1), Part(r)) ELSE arg[c][r].rows

\* A rank runs its tasks in their order, and waits for the futures it was given.
Run(c, r) ==
  /\ task[c][r] = "queued"
  /\ c = 2 => task[1][r] = "done"
  /\ arg[c][r].future => \A q \in Collected : task[1][q] = "done"
  /\ task' = [task EXCEPT ![c][r] = "done"]
  /\ out' = [out EXCEPT ![c][r] =
       IF PpRank(r) < Pp - 1 THEN <<>>
       ELSE [i \in DOMAIN Materialized(c, r) |->
              [Materialized(c, r)[i] EXCEPT !.times = @ + 1]]]
  /\ UNCHANGED <<batch, blocking, padded, pc, call, size, arg, result>>

Waits == call = 2 \/ blocking

WithoutPadding(rows) == SubSeq(rows, 1, Len(rows) - size)

\* What the functor of func_generator does after the dispatch.  The second call
\* is waited for.
Return ==
  /\ pc = "wait" /\ (Waits => \A r \in R : task[call][r] = "done")
  /\ result' = [result EXCEPT ![call] =
       IF Waits THEN [rows |-> WithoutPadding(Concat(call)), future |-> FALSE]
       ELSE [rows |-> <<>>, future |-> TRUE]]
  /\ pc' = (IF call = 2 THEN "done" ELSE "split")
  /\ call' = 2
  /\ UNCHANGED <<batch, blocking, padded, size, arg, task, out>>

Next == Split \/ Return \/ \E c \in Calls, r \in R : Run(c, r)

\* Ranks run their tasks, and the driver goes on.
Fairness == WF_vars(Next)

Spec == Init /\ [][Next]_vars

FairSpec == Spec /\ Fairness

-----------------------------------------------------------------------------
TypeOK ==
  /\ pc \in {"split", "wait", "done", "failed"} /\ call \in Calls
  /\ size \in 0..(Dp - 1)
  /\ \A c \in Calls, r \in R :
       /\ task[c][r] \in {"none", "queued", "done"}
       /\ arg[c][r].future \in BOOLEAN

\* Every row comes back at its place, once and computed once by every call,
\* over whatever ranks, paddings and futures it went (func_generator).
ComesBack ==
  pc = "done" =>
    \E n \in Sizes :
      /\ Len(batch) = n + (IF padded THEN PaddingSize(n) ELSE 0)
      /\ SubSeq(batch, 1, n) = Rows(n)
      /\ result[2].rows = [i \in 1..n |-> [row |-> i, times |-> 2]]

Answered == pc \in {"done", "failed"}

\* Both calls return: a rank never waits for futures of tasks that are behind its
\* own in a queue.
CallsReturn == <>Answered

\* test_auto_padding_on_cpu.py:70: the padding is undone.  That of the batch the
\* driver has is not: it has the rows that were added.
BatchStays == \E n \in Sizes : batch = Rows(n)
=============================================================================
