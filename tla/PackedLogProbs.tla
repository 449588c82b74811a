--------------------------- MODULE PackedLogProbs ---------------------------
(***************************************************************************)
(* The log-probabilities of the responses of a micro-batch.  Prompts are   *)
(* padded on the left and responses on the right; the padding is removed   *)
(* and the rows are put one after the other into one sequence, which is    *)
(* padded, cut for the ranks of a sequence group, gathered and put back.   *)
(* At every step a token is one off from its label, or in another's row.   *)
(*                                                                         *)
(* The model is external: what it says at a token is what it has seen, the *)
(* tokens since the last one with position 0, whichever rank they are on.  *)
(***************************************************************************)
EXTENDS Naturals, Sequences, SequencesExt

CONSTANTS
  PromptLength, ResponseLength,  \* columns of a batch
  BatchSizes,                    \* rows of a micro-batch
  SpSizes                        \* ulysses_sequence_parallel_size

PackedLogProbsAssumption ==
  /\ {PromptLength, ResponseLength} \subseteq Nat \ {0}
  /\ BatchSizes \cup SpSizes \subseteq Nat \ {0}

VARIABLES
  rows,         \* tokens of the prompt and of the response of every row
  sp,           \* ranks of the sequence group
  packed,       \* use_remove_padding
  pc,
  ids, labels,  \* input_ids_rmpad, input_ids_rmpad_rolled
  positions,    \* position_ids_rmpad
  parts,        \* [rank -> what it has computed, or NotYet]
  log_probs     \* [row -> response columns]

vars == <<rows, sp, packed, pc, ids, labels, positions, parts, log_probs>>

NotYet == <<>>
Pad == <<"pad">>
Seqlen == PromptLength + ResponseLength

Row == [prompt : 1..PromptLength, response : 1..ResponseLength]

\* Sequences of one row are not shared by ranks unless the padding is removed.
Init ==
  /\ \E n \in BatchSizes : rows \in [1..n -> Row]
  /\ sp \in SpSizes /\ packed \in BOOLEAN /\ (sp > 1 => packed)
  /\ pc = "unpad"
  /\ ids = <<>> /\ labels = <<>> /\ positions = <<>>
  /\ parts = [r \in 1..sp |-> NotYet] /\ log_probs = <<>>

(***************************************************************************)
(* A token is its row and column; the first of a row has position 0.       *)
(***************************************************************************)
First(b) == PromptLength - rows[b].prompt + 1
Token(b, c) == <<b, c>>
Attended(b, c) == c \in First(b)..(PromptLength + rows[b].response)
Tokens(b, last) == [i \in 1..(last - First(b) + 1) |-> Token(b, First(b) + i - 1)]

\* unpad_input: the attended tokens of all rows.
Unpadded ==
  FlattenSeq([b \in DOMAIN rows |-> Tokens(b, PromptLength + rows[b].response)])
PositionOf(t) == t[2] - First(t[1])

\* torch.roll by -1
Rolled(s) == Append(Tail(s), Head(s))

\* ulysses_pad
PadSize == (sp - (Len(Unpadded) % sp)) % sp
Padded(s) == s \o [i \in 1..PadSize |-> Pad]
PaddedPositions(s) == s \o [i \in 1..PadSize |-> i - 1]

\* slice_input_tensor
Share(s) == Len(s) \div sp
Slice(s, r) == SubSeq(s, (r - 1) * Share(s) + 1, r * Share(s))

\* Mutation: every rank rolls the tokens it has.
LabelsOfSlices == FlattenSeq([r \in 1..sp |-> Rolled(Slice(Padded(Unpadded), r))])
Labels == Padded(Rolled(Unpadded))

Unpad ==
  /\ pc = "unpad" /\ packed
  /\ ids' = Padded(Unpadded) /\ labels' = Labels
  /\ positions' = PaddedPositions([i \in DOMAIN Unpadded |-> PositionOf(Unpadded[i])])
  /\ pc' = "forward"
  /\ UNCHANGED <<rows, sp, packed, parts, log_probs>>

\* What the model has seen at a token of the sequence.
Context(i) ==
  LET starts == {j \in 1..i : positions[j] = 0}
      start == CHOOSE j \in starts : \A k \in starts : k <= j
  IN  SubSeq(ids, start, i)

LogProb(context, label) == [context |-> context, label |-> label]

\* The model on one rank, and logprobs_from_logits with the rank's labels.
Forward(r) ==
  /\ pc = "forward" /\ parts[r] = NotYet
  /\ LET first == (r - 1) * Share(ids) IN
       parts' = [parts EXCEPT ![r] =
         [i \in 1..Share(ids) |-> LogProb(Context(first + i), Slice(labels, r)[i])]]
  /\ UNCHANGED <<rows, sp, packed, pc, ids, labels, positions, log_probs>>

\* gather_outputs_and_unpad
Gathered ==
  LET all == FlattenSeq([r \in 1..sp |-> parts[r]])
  IN  SubSeq(all, 1, Len(all) - PadSize)

\* pad_input: what was computed goes back to where its token was.
PaddedBack(s) ==
  [b \in DOMAIN rows |-> [c \in 1..Seqlen |->
     IF Attended(b, c)
     THEN s[CHOOSE i \in DOMAIN Unpadded : Unpadded[i] = Token(b, c)] ELSE Pad]]

\* Mutation: the columns of the response itself.
ResponseItself(full) ==
  [b \in DOMAIN rows |-> SubSeq(full[b], PromptLength + 1, Seqlen)]
\* [:, -response_length - 1 : -1]
ResponsePart(full) ==
  [b \in DOMAIN rows |-> SubSeq(full[b], PromptLength, Seqlen - 1)]

Gather ==
  /\ pc = "forward" /\ \A r \in 1..sp : parts[r] # NotYet
  /\ log_probs' = ResponsePart(PaddedBack(Gathered))
  /\ pc' = "done"
  /\ UNCHANGED <<rows, sp, packed, ids, labels, positions, parts>>

\* With its padding, every row is a sequence of its own, and its labels are the
\* responses.
Whole ==
  /\ pc = "unpad" /\ ~packed
  /\ LET seen == [b \in DOMAIN rows |-> [c \in 1..Seqlen |->
           IF Attended(b, c) THEN Tokens(b, c) ELSE Pad]]
         label(b, k) ==
           IF k <= rows[b].response THEN Token(b, PromptLength + k) ELSE Pad
     IN  log_probs' = [b \in DOMAIN rows |-> [k \in 1..ResponseLength |->
                        LogProb(ResponsePart(seen)[b][k], label(b, k))]]
  /\ pc' = "done"
  /\ UNCHANGED <<rows, sp, packed, ids, labels, positions, parts>>

Next == Unpad \/ Whole \/ Gather \/ \E r \in 1..sp : Forward(r)

Spec == Init /\ [][Next]_vars

-----------------------------------------------------------------------------
TypeOK ==
  /\ pc \in {"unpad", "forward", "done"}
  /\ DOMAIN parts = 1..sp /\ Len(ids) = Len(labels) /\ Len(ids) = Len(positions)
  /\ Len(ids) % sp = 0

\* The log-probability of a response token is that of this token, given its own
\* prompt and the response before it and nothing of another row, whatever was
\* packed with it and wherever the ranks' slices end.
LogProbsOwn ==
  pc = "done" =>
    \A b \in DOMAIN rows :
      /\ Len(log_probs[b]) = ResponseLength
      /\ \A k \in 1..rows[b].response :
           log_probs[b][k] = LogProb(Tokens(b, PromptLength + k - 1),
                                     Token(b, PromptLength + k))
=============================================================================
