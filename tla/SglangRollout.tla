--------------------------- MODULE SglangRollout ---------------------------
(***************************************************************************)
(* A request of the SGLang rollout of verl: a conversation of a model with *)
(* tools and with an interaction that stands for a user, of which the model*)
(* is trained on its own tokens.  Every message is put through the chat    *)
(* template alone, after a fixed conversation, and its tokens are appended.*)
(*                                                                         *)
(* Requests of a batch run at the same time and share nothing: each has its*)
(* own instances of the tools.  What one of them raises ends the batch.    *)
(* Messages are their lengths and a token is what it belongs to; the       *)
(* engine, the tools and the user are external.  max_model_len is          *)
(* prompt_length + response_length, its default.                           *)
(***************************************************************************)
EXTENDS Naturals, Sequences, SequencesExt

CONSTANTS
  PromptLens,      \* lengths of the messages of a prompt
  GenLen,          \* tokens of the generation prompt
  EndLen,          \* tokens the template puts after the text of a message
  TextLens,        \* lengths of what tools and users say, with EndLen
  Tools,           \* names of tools_kwargs
  CallLists,       \* sequences of names the model may call
  More,            \* tokens that calls have more when they are written anew
  Interaction,     \* the request has interaction_kwargs
  MaxModelLen,     \* max_model_len
  ResponseLength,  \* response_length
  MaxAssistant,    \* multi_turn.max_assistant_turns
  MaxUser          \* multi_turn.max_user_turns

SglangRolloutAssumption ==
  /\ {GenLen, EndLen, MaxModelLen, ResponseLength, MaxAssistant} \subseteq Nat \ {0}
  /\ PromptLens \cup TextLens \subseteq Nat \ {0}
  /\ {MaxUser} \cup More \subseteq Nat
  /\ Interaction \in BOOLEAN
  /\ \A c \in CallLists : c \in Seq(STRING)

VARIABLES
  state,       \* AsyncRolloutRequestStateEnum
  waits,       \* the engine has been asked
  prompt,      \* length of the messages of the prompt
  messages,    \* those after the prompt
  input_ids, loss_mask,
  current_turns, user_turns,
  finish_reason_type,
  open,        \* tools that have an instance of the request
  started,     \* start_interaction was called, and nothing to end it
  response     \* what the batch gets: tokens and mask

counts == <<current_turns, user_turns>>
tokens == <<input_ids, loss_mask>>
vars == <<state, waits, prompt, messages, tokens, counts, finish_reason_type, open,
          started, response>>

Token(of, m) == [of |-> of, message |-> m]
Tokens(of, m, n) == [i \in 1..n |-> Token(of, m)]
Minimum(a, b) == IF a < b THEN a ELSE b
None == <<>>

GenerationPrompt == Tokens("generation prompt", 0, GenLen)

\* A prompt is given with the generation prompt.
Init ==
  /\ prompt \in PromptLens
  /\ state = "pending" /\ waits = FALSE /\ messages = <<>>
  /\ input_ids = Tokens("prompt", 0, prompt) \o GenerationPrompt
  /\ loss_mask = [i \in 1..(prompt + GenLen) |-> FALSE]
  /\ current_turns = 0 /\ user_turns = 0 /\ finish_reason_type = "none"
  /\ open = {} /\ started = FALSE /\ response = None

(***************************************************************************)
(* Tokens of messages.  The model's message has a text of some length, and *)
(* the template adds the end.                                              *)
(***************************************************************************)
TextOf(m, len) == Tokens("text", m, len) \o Tokens("end", m, EndLen)

\* _update_input_ids
Updated(ids, mask, new, loss) ==
  [ids |-> ids \o new, mask |-> mask \o [i \in DOMAIN new |-> loss]]

EndsInGenerationPrompt(ids) ==
  SubSeq(ids, Len(ids) - GenLen + 1, Len(ids)) = GenerationPrompt

\* Mutation: the generation prompt is added in every turn.
WithGenerationPromptAlways == Updated(input_ids, loss_mask, GenerationPrompt, FALSE)
\* get_generation_prompt_ids
WithGenerationPrompt ==
  IF EndsInGenerationPrompt(input_ids) THEN [ids |-> input_ids, mask |-> loss_mask]
  ELSE Updated(input_ids, loss_mask, GenerationPrompt, FALSE)

SetTokens(t) == input_ids' = t.ids /\ loss_mask' = t.mask

\* What ends a request, but for the number of its turns.
Ends(reason) == state' = "ending" /\ finish_reason_type' = reason

-----------------------------------------------------------------------------
\* _handle_pending_state: tool.create of every tool, start_interaction.
Pending ==
  /\ state = "pending"
  /\ open' = Tools /\ started' = Interaction /\ state' = "running"
  /\ UNCHANGED <<waits, prompt, messages, tokens, counts, finish_reason_type,
                 response>>

InTurns == current_turns < MaxAssistant

\* A conversation that has no room for an answer is over.
Run ==
  /\ state = "running" /\ ~waits /\ InTurns
  /\ SetTokens(WithGenerationPrompt)
  /\ IF Len(WithGenerationPrompt.ids) + 1 >= MaxModelLen
     THEN Ends("length") /\ UNCHANGED waits
     ELSE waits' = TRUE /\ UNCHANGED <<state, finish_reason_type>>
  /\ UNCHANGED <<prompt, messages, counts, open, started, response>>

\* _handle_engine_generate
MaxNewTokens == Minimum(ResponseLength, MaxModelLen - Len(input_ids) - 1)

Message(role, len) == [role |-> role, len |-> len, calls |-> <<>>, cut |-> FALSE]

\* add_assistant_message
AddAssistant(len, calls, cut) ==
  /\ messages' = Append(messages,
       [Message("assistant", len) EXCEPT !.calls = calls, !.cut = cut])
  /\ SetTokens(Updated(input_ids, loss_mask, TextOf(Len(messages) + 1, len), TRUE))

Answered ==
  /\ state = "running" /\ waits
  /\ waits' = FALSE /\ current_turns' = current_turns + 1
  /\ UNCHANGED <<prompt, user_turns, open, started, response>>

\* The engine stops at the longest answer.
AnswerTooLong ==
  /\ Answered
  /\ AddAssistant(MaxNewTokens, <<>>, TRUE)
  /\ Ends("length")

AsksUser == Interaction /\ user_turns < MaxUser /\ current_turns + 1 < MaxAssistant

AnswerText ==
  /\ Answered
  /\ \E len \in 0..(MaxNewTokens - 1) : AddAssistant(len, <<>>, FALSE)
  /\ IF AsksUser THEN state' = "interacting" /\ finish_reason_type' = "stop"
     ELSE Ends("stop")

\* Calls that cannot be read are dropped; without any, the text is the answer.
\* The others are written by the template and not as the model wrote them.
AnswerCalls ==
  /\ Answered
  /\ \E len \in 0..(MaxNewTokens - 1), calls \in CallLists, more \in More :
       /\ AddAssistant(IF calls = <<>> THEN len ELSE len + more, calls, FALSE)
       /\ IF calls = <<>> THEN Ends("stop")
          ELSE state' = "tool_calling" /\ finish_reason_type' = "tool_calls"

Said(lens) ==
  FlattenSeq([i \in DOMAIN lens |-> Tokens("said", Len(messages) + i, lens[i])])

\* Mutation: the results of all calls are one message of the first.
AddToolOnce(lens) ==
  /\ messages' = Append(messages, Message("tool", lens[1]))
  /\ SetTokens(Updated(input_ids, loss_mask, Said(lens), FALSE))
\* add_tool_response_messages
AddTool(lens) ==
  /\ messages' = messages \o [i \in DOMAIN lens |-> Message("tool", lens[i])]
  /\ SetTokens(Updated(input_ids, loss_mask, Said(lens), FALSE))

\* input_ids is a tensor of one row, and tokens are put at the end of that row.
Rows == 1

\* After a tool or a user: on.  The code asks for room here, but of the length of the
\* tensor, which is its rows; it is Run that finds that there is no room left.
GoesOn ==
  IF Rows >= MaxModelLen THEN Ends("stop")
  ELSE state' = "running" /\ UNCHANGED finish_reason_type

CallTools ==
  /\ state = "tool_calling" /\ InTurns
  /\ LET calls == Last(messages).calls IN
       /\ ToSet(calls) \subseteq Tools
       /\ \E lens \in [DOMAIN calls -> TextLens] : AddTool(lens)
  /\ GoesOn
  /\ UNCHANGED <<waits, prompt, counts, open, started, response>>

\* A name that is no tool is a KeyError, which is not caught.
CallUnknown ==
  /\ state = "tool_calling" /\ InTurns
  /\ ~(ToSet(Last(messages).calls) \subseteq Tools)
  /\ state' = "raised"
  /\ UNCHANGED <<waits, prompt, messages, tokens, counts, finish_reason_type, open,
                 started, response>>

\* generate_response of the interaction, and add_user_message.
Interact ==
  /\ state = "interacting" /\ InTurns
  /\ user_turns' = user_turns + 1
  /\ \/ Ends("stop") /\ UNCHANGED <<messages, tokens>>
     \/ /\ \E len \in TextLens :
             /\ messages' = Append(messages, Message("user", len))
             /\ SetTokens(Updated(input_ids, loss_mask, Said(<<len>>), FALSE))
        /\ GoesOn
  /\ UNCHANGED <<waits, prompt, current_turns, open, started, response>>

\* The while loop is left by its condition.
OutOfTurns ==
  /\ state \in {"running", "tool_calling", "interacting"} /\ ~waits /\ ~InTurns
  /\ state' = "ending"
  /\ UNCHANGED <<waits, prompt, messages, tokens, counts, finish_reason_type, open,
                 started, response>>

\* The generation prompt of an answer that did not come is taken away.
WithoutGenerationPrompt ==
  LET n == IF EndsInGenerationPrompt(input_ids) THEN Len(input_ids) - GenLen
           ELSE Len(input_ids)
  IN  [ids |-> SubSeq(input_ids, 1, n), mask |-> SubSeq(loss_mask, 1, n)]

\* truncate_output_ids
Response(s) ==
  LET whole == SubSeq(s, 1, Minimum(Len(s), MaxModelLen))
      from == prompt + GenLen + 1
  IN  SubSeq(whole, from, Minimum(Len(whole), from + ResponseLength - 1))

\* The tools are rewarded and released, and finalize.
Finalize ==
  /\ state = "ending"
  /\ finish_reason_type' = (IF InTurns THEN finish_reason_type ELSE "stop")
  /\ state' = (IF finish_reason_type' \in {"stop", "length"} THEN "completed"
               ELSE "raised")
  /\ open' = open \ Tools
  /\ SetTokens(WithoutGenerationPrompt)
  /\ response' = [ids |-> Response(WithoutGenerationPrompt.ids),
                  mask |-> Response(WithoutGenerationPrompt.mask)]
  /\ UNCHANGED <<waits, prompt, messages, counts, started>>

Next ==
  \/ Pending \/ Run \/ AnswerTooLong \/ AnswerText \/ AnswerCalls
  \/ CallTools \/ CallUnknown \/ Interact \/ OutOfTurns \/ Finalize

\* The engine, the tools and the user answer.
Fairness == WF_vars(Next)

Spec == Init /\ [][Next]_vars

FairSpec == Spec /\ Fairness

-----------------------------------------------------------------------------
TypeOK ==
  /\ state \in {"pending", "running", "tool_calling", "interacting", "ending",
                "completed", "raised"}
  /\ waits \in BOOLEAN /\ started \in BOOLEAN
  /\ current_turns \in 0..MaxAssistant /\ user_turns \in 0..MaxUser
  /\ finish_reason_type \in {"none", "stop", "length", "tool_calls"}
  /\ open \subseteq Tools
  /\ Len(loss_mask) = Len(input_ids)

\* A message as the template puts it into a whole conversation.
Rendered(m) ==
  IF messages[m].role = "assistant"
  THEN GenerationPrompt \o TextOf(m, messages[m].len)
  ELSE Tokens("said", m, messages[m].len)

\* The tokens that were put together message by message are those of the whole
\* conversation, with a generation prompt before every answer and none after the
\* last: what the sanity check of finalize compares.
TokenizationConsistent ==
  state = "completed" =>
    input_ids = Tokens("prompt", 0, prompt)
                  \o FlattenSeq([m \in DOMAIN messages |-> Rendered(m)])

\* The response is what follows the prompt, and its mask has the model's messages
\* and nothing a tool, a user or the template said before it.
MaskIsAssistant ==
  state = "completed" =>
    /\ Len(response.ids) = Len(response.mask)
    /\ \A i \in DOMAIN response.ids :
         /\ response.ids[i].of # "prompt"
         /\ response.mask[i] <=> response.ids[i].of \in {"text", "end"}

\* No limit cuts what the model was let generate: at most the end that the
\* template adds to an answer, calls that it writes anew, or what was said last, is
\* beyond max_model_len.
AnswersFit ==
  \A i \in DOMAIN input_ids :
    input_ids[i].of = "text" /\ messages[input_ids[i].message].calls = <<>> =>
      i < MaxModelLen

\* Every call is answered by one message of its own before the model goes on, and
\* a user is answered by the model; the turns are those counted.
Alternates ==
  /\ current_turns = Len(SelectSeq(messages, LAMBDA m : m.role = "assistant"))
  /\ user_turns <= MaxUser
  /\ \A i \in DOMAIN messages :
       messages[i].role = "assistant" /\ i < Len(messages) =>
         LET n == IF messages[i].calls = <<>> THEN 1 ELSE Len(messages[i].calls)
             role == IF messages[i].calls = <<>> THEN "user" ELSE "tool"
         IN  /\ Len(messages) >= i + n
             /\ \A j \in (i + 1)..(i + n) : messages[j].role = role
             /\ Len(messages) > i + n => messages[i + n + 1].role = "assistant"

\* Every tool has an instance while the model may call it and none after, whatever
\* ended the conversation; only a call of no tool raises.
ToolsReleased ==
  /\ state \in {"running", "tool_calling", "interacting"} => open = Tools
  /\ state = "completed" => open = {}
  /\ state = "raised" => finish_reason_type = "tool_calls"

Ended == state \in {"completed", "raised"}

\* A conversation ends, if only by its turns and its room.
RequestEnds == <>Ended

\* docs/sglang_multiturn/multiturn.rst:142: only tokens generated by the assistant
\* are included in the loss mask.  An answer that was cut off has no end of its own;
\* the template's is in the mask.  (Nor were calls generated as they are written.)
TrainedIsGenerated ==
  state = "completed" =>
    \A i \in DOMAIN response.ids :
      response.mask[i] /\ response.ids[i].of = "end" =>
        ~messages[response.ids[i].message].cut

\* docs/sglang_multiturn/interaction_system.rst: finalize_interaction cleans up.
\* Nothing calls it.
InteractionFinalized == state = "completed" => ~started
=============================================================================
