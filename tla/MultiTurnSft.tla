---------------------------- MODULE MultiTurnSft ----------------------------
(***************************************************************************)
(* A conversation of the multi-turn SFT dataset (verl/utils/dataset): its  *)
(* tokens are put together message by message, each cut out of what the    *)
(* chat template makes of the conversation so far, so that it is known     *)
(* which of them the assistant has said; then they are compared with the   *)
(* whole conversation, padded and truncated.                               *)
(*                                                                         *)
(* The templates are external: "plain" puts a system message before the    *)
(* others where there is none (Qwen2.5), "thinking" shows the thoughts of  *)
(* the assistant after the last question only (Qwen3).  A piece of text is *)
(* a token, so that a thought is as long as an empty one.                  *)
(***************************************************************************)
EXTENDS Naturals, Sequences, SequencesExt, FiniteSetsExt

CONSTANTS
  MaxMessages,  \* bound: messages of a conversation
  Templates,    \* pairs of a template and enable_thinking
  Lengths,      \* values of max_length
  Truncations   \* values of truncation: "error", "left", "right"

MultiTurnSftAssumption ==
  /\ MaxMessages \in Nat \ {0} /\ Lengths \subseteq Nat \ {0}
  /\ Templates \subseteq {"plain", "thinking"} \X BOOLEAN
  /\ Truncations \subseteq {"error", "left", "right"}

VARIABLES
  messages,   \* role, and whether it thinks
  template,
  i,          \* messages that are done
  pc,
  ids,        \* concat_tokens, and then input_ids
  loss_mask,
  attention_mask,
  position_ids,
  max_length

vars == <<messages, template, i, pc, ids, loss_mask, attention_mask, position_ids,
          max_length>>

Says(role, thinks) == [role |-> role, thinks |-> thinks]
Messages ==
  {Says(role, FALSE) : role \in {"system", "user", "assistant", "tool"}}
    \cup {Says("assistant", TRUE)}

Init ==
  /\ messages \in UNION {[1..n -> Messages] : n \in 1..MaxMessages}
  /\ template \in Templates
  /\ i = 0 /\ pc = "messages"
  /\ ids = <<>> /\ loss_mask = <<>> /\ attention_mask = <<>> /\ position_ids = <<>>
  /\ max_length = 0

-----------------------------------------------------------------------------
(***************************************************************************)
(* apply_chat_template                                                     *)
(***************************************************************************)
IsRole(said, k, role) == k \in DOMAIN said /\ said[k].role = role

LastQuestion(said) ==
  LET users == {k \in DOMAIN said : IsRole(said, k, "user")}
  IN  IF users = {} THEN Len(said) ELSE Max(users)

Thought(said, k) ==
  IF template[1] = "plain" \/ k <= LastQuestion(said) THEN <<>>
  ELSE IF said[k].thinks THEN <<<<"think", k>>>>
  ELSE IF k = Len(said) THEN <<<<"empty", k>>>> ELSE <<>>

Turn(said, k) ==
  CASE said[k].role = "assistant" ->
         <<<<"open", "assistant">>>> \o Thought(said, k) \o <<<<"body", k>>, <<"end", k>>>>
    [] said[k].role = "tool" ->
         (IF IsRole(said, k - 1, "tool") THEN <<>> ELSE <<<<"open", "user">>>>)
           \o <<<<"body", k>>>>
           \o (IF IsRole(said, k + 1, "tool") THEN <<>> ELSE <<<<"end", k>>>>)
    [] OTHER -> <<<<"open", said[k].role>>, <<"body", k>>, <<"end", k>>>>

Applied(said) ==
  (IF template[1] = "plain" /\ ~IsRole(said, 1, "system")
     THEN <<<<"default", 0>>>> ELSE <<>>)
    \o FlattenSeq([k \in DOMAIN said |-> Turn(said, k)])

\* What add_generation_prompt adds.
GenerationPrompt(said) ==
  <<<<"open", "assistant">>>>
    \o (IF template = <<"thinking", FALSE>> THEN <<<<"empty", Len(said) + 1>>>> ELSE <<>>)

-----------------------------------------------------------------------------
SoFar(n) == SubSeq(messages, 1, n)
Before == IF i = 0 THEN <<>> ELSE Applied(SoFar(i))
Behind(text, prefix) == SubSeq(text, Len(prefix) + 1, Len(text))
Repeated(n, bit) == [k \in 1..n |-> bit]

\* _process_message_tokens for the messages up to end, the first of whose tokens
\* are a prompt and the others are said by the assistant.
Process(end, prompted, own) ==
  /\ ids' = ids \o prompted \o own
  /\ attention_mask' = attention_mask \o Repeated(Len(prompted) + Len(own), 1)
  /\ i' = end
  /\ UNCHANGED <<messages, template, pc, position_ids, max_length>>

\* Mutation: the whole turn of an assistant is trained on.
TrainedPrompt(prompted) == Repeated(Len(prompted), 1)
PromptMask(prompted) == Repeated(Len(prompted), 0)

IsNext(role) == pc = "messages" /\ IsRole(messages, i + 1, role)

\* With nothing said before, the text with the generation prompt is never
\* assigned.
Assistant ==
  /\ IsNext("assistant")
  /\ IF i = 0
       THEN /\ pc' = "raised"
            /\ UNCHANGED <<messages, template, i, ids, loss_mask, attention_mask,
                           position_ids, max_length>>
       ELSE LET prompt == GenerationPrompt(SoFar(i))
                own == Behind(Applied(SoFar(i + 1)), Before \o prompt)
            IN  /\ Process(i + 1, prompt, own)
                /\ loss_mask' = loss_mask \o PromptMask(prompt) \o Repeated(Len(own), 1)

\* Mutation: each tool message is one of its own.
OneTool == i + 1
LastTool ==
  Max({n \in DOMAIN messages : \A k \in (i + 1)..n : IsRole(messages, k, "tool")})

Tools ==
  /\ IsNext("tool")
  /\ LET text == Behind(Applied(SoFar(LastTool)), Before)
     IN  /\ Process(LastTool, text, <<>>)
         /\ loss_mask' = loss_mask \o Repeated(Len(text), 0)

Other ==
  /\ IsNext("user") \/ IsNext("system")
  /\ IF IsRole(messages, i + 1, "system") /\ i # 0
       THEN /\ pc' = "raised"
            /\ UNCHANGED <<messages, template, i, ids, loss_mask, attention_mask,
                           position_ids, max_length>>
       ELSE LET text == Behind(Applied(SoFar(i + 1)), Before)
            IN  /\ Process(i + 1, text, <<>>)
                /\ loss_mask' = loss_mask \o Repeated(Len(text), 0)

\* _validate_and_convert_tokens: whichever differ, the concatenated ones are used.
Convert ==
  /\ pc = "messages" /\ i = Len(messages)
  /\ pc' = "converted"
  /\ UNCHANGED <<messages, template, i, ids, loss_mask, attention_mask, position_ids,
                 max_length>>

\* Mutation: what is cut on the left is cut on the right in the mask.
CutRight(s, length, left) == SubSeq(s, 1, length)
Cut(s, length, left) ==
  IF left THEN SubSeq(s, Len(s) - length + 1, Len(s)) ELSE SubSeq(s, 1, length)
CutMask(s, length, left) == Cut(s, length, left)

Padded(s, length, value) == s \o Repeated(length - Len(s), value)
Positions(attention) == [k \in DOMAIN attention |-> (k - 1) * attention[k]]

Fit(length, truncation) ==
  /\ pc = "converted"
  /\ max_length' = length
  /\ IF Len(ids) > length /\ truncation = "error"
       THEN pc' = "raised" /\ UNCHANGED <<ids, loss_mask, attention_mask, position_ids>>
       ELSE /\ pc' = "done"
            /\ IF Len(ids) <= length
                 THEN /\ ids' = Padded(ids, length, <<"pad", 0>>)
                      /\ loss_mask' = Padded(loss_mask, length, 0)
                      /\ attention_mask' = Padded(attention_mask, length, 0)
                 ELSE LET left == truncation = "left"
                      IN  /\ ids' = Cut(ids, length, left)
                          /\ loss_mask' = CutMask(loss_mask, length, left)
                          /\ attention_mask' = Cut(attention_mask, length, left)
            /\ position_ids' = Positions(attention_mask')
  /\ UNCHANGED <<messages, template, i>>

Next ==
  \/ Assistant \/ Tools \/ Other \/ Convert
  \/ \E length \in Lengths, truncation \in Truncations : Fit(length, truncation)

Spec == Init /\ [][Next]_vars

-----------------------------------------------------------------------------
TypeOK ==
  /\ i \in 0..Len(messages) /\ pc \in {"messages", "converted", "done", "raised"}
  /\ Len(ids) = Len(loss_mask) /\ Len(ids) = Len(attention_mask)
  /\ pc = "done" => Len(ids) = max_length /\ Len(position_ids) = max_length

\* What the assistant says itself: its thoughts, its words and its end, but not
\* the thought that the prompt holds.
Own(token) ==
  \/ token[1] \in {"think", "body", "end"} /\ messages[token[2]].role = "assistant"
  \/ token[1] = "empty" /\ template[2]

\* Trained on are the assistant's own tokens and no others, wherever the
\* conversation is cut or padded, and whatever the template leaves out.
MaskIsOwn ==
  \A k \in DOMAIN ids :
    /\ loss_mask[k] = 1 <=> Own(ids[k])
    /\ attention_mask[k] = 0 <=> ids[k] = <<"pad", 0>>

\* Where the template only ever adds to a conversation, its messages together are
\* the conversation as a whole, of which the row holds one end.
IsConversation ==
  template[1] = "plain" =>
    LET whole == Applied(messages)
    IN  /\ pc = "converted" => ids = whole
        /\ pc = "done" =>
             \/ ids = Padded(whole, max_length, <<"pad", 0>>)
             \/ IsPrefix(ids, whole) \/ IsSuffix(ids, whole)

\* Refuted where the template leaves out thoughts of earlier turns: a row is the
\* conversation as the engine would see it.  The turn after a thought loses its
\* beginning, and the thought is trained on.
IsWhole == pc = "converted" => ids = Applied(messages)
=============================================================================
