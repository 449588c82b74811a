----------------------------- MODULE MCRollout -----------------------------
(**************************************************************************)
(* The rollout of verl for TLC: the loops of conversations over the LLM   *)
(* servers (AgentLoop), with tools and with servers that are awake and    *)
(* asleep, a request of the SGLang rollout (SglangRollout), the worker    *)
(* whose engine answers (FsdpWorker), the activations it moves to the CPU *)
(* when it trains (ActivationOffload), and the limiter of the calls of the*)
(* code tool (RateLimit); and conversations that are not generated but    *)
(* read (MultiTurnSft).                                                   *)
(*                                                                        *)
(* They hold no state of each other: a behaviour belongs to one part, and *)
(* the others rest.  The worker with an adapter is FsdpWorker itself; all *)
(* others are instances.                                                  *)
(**************************************************************************)
EXTENDS FsdpWorker

CONSTANTS
  Parts,       \* the parts that are checked
  LoopRows, LoopWorkers, LoopWorkerOf,   \* AgentLoop's, over several servers
  LoopAgent, LoopServers, LoopCache, LoopBatches,
  LoopLimits,  \* of tokens and turns of a conversation, and of parallel calls
  LoopLens,    \* lengths of answers, numbers of calls, lengths of responses
  RateWorkers, RateCalls, RateThreads, RateMax, RateLimited,  \* RateLimit's
  ActSizes, ActBatches, ActBlocks        \* ActivationOffload's

VARIABLES
  part,
  loopBatch, phase, loopAwake, byHash, given, cache, loopPc, loopIds,  \* AgentLoop
  mask, turns, loopCalls, loopOpen, loopAsked, out,
  fullStarts, fullPc, fullModel, fullModelOn, fullOptimOn, fullAdapterOn,  \* FsdpWorker, another
  fullEngine, fullAwake, fullSynced, fullRng, fullTorch, fullGen,
  fullGenerations, fullRows, fullCkpt,
  reqState, reqWaits, reqPrompt, reqMessages, input_ids,  \* SglangRollout
  reqLoss_mask, current_turns, user_turns, finish_reason_type,
  reqOpen, reqStarted, reqResponse,
  actBatch, actPc, actLayer, actTag, current_group,  \* ActivationOffload
  offloaded_group_count, tensor_tag_to_state, tensor_tag_to_buf,
  group_offload_mapping, actQueue, actDone, actMemory, actWrong, actSizes,
  convMessages, convTemplate, convI, convPc, convIds, convLoss_mask,  \* MultiTurnSft
  convAttention_mask, convPosition_ids, convMax_length,
  call, rateAsked, returned, permits                \* RateLimit

loopVars == <<loopBatch, phase, loopAwake, byHash, given, cache, loopPc,
               loopIds, mask, turns, loopCalls, loopOpen, loopAsked, out>>
fullVars == <<fullStarts, fullPc, fullModel, fullModelOn, fullOptimOn,
               fullAdapterOn, fullEngine, fullAwake, fullSynced, fullRng,
               fullTorch, fullGen, fullGenerations, fullRows, fullCkpt>>
reqVars == <<reqState, reqWaits, reqPrompt, reqMessages, input_ids,
              reqLoss_mask, current_turns, user_turns, finish_reason_type,
              reqOpen, reqStarted, reqResponse>>
actVars == <<actBatch, actPc, actLayer, actTag, current_group,
              offloaded_group_count, tensor_tag_to_state, tensor_tag_to_buf,
              group_offload_mapping, actQueue, actDone, actMemory, actWrong,
              actSizes>>
convVars == <<convMessages, convTemplate, convI, convPc, convIds,
               convLoss_mask, convAttention_mask, convPosition_ids,
               convMax_length>>
rateVars == <<call, rateAsked, returned, permits>>
rolloutVars == <<part, loopVars, vars, fullVars, reqVars, actVars, convVars, rateVars>>

\* Two rows of one worker; or two of the first worker and one of the second,
\* which has one turn.
OneWorker == [i \in {1, 2} |-> 1]
AllTools == [i \in {1, 2} |-> "tool"]
TwoWorkers == <<1, 1, 2>>
MixedAgents == <<"tool", "tool", "single_turn">>
FewTurns == [response |-> 4, assistant |-> 3, user |-> 2, parallel |-> 1]
ShortTurns == [answers |-> {1}, calls |-> {0, 1}, responses |-> {0}]

\* Layers of a model, and those that are copied.
ModelSizes == {<<4, 3>>, <<5, 2>>, <<3, 3>>}

\* Conversations with several tools; or batches over several servers.
WithTools == INSTANCE AgentLoop WITH
  batch <- loopBatch, awake <- loopAwake, pc <- loopPc, ids <- loopIds,
  calls <- loopCalls, open <- loopOpen, asked <- loopAsked, Rows <- {1, 2},
  Workers <- {1}, WorkerOf <- OneWorker, Agent <- AllTools,
  Servers <- {1, 2}, CacheSize <- 2, Batches <- 1, ResponseLength <- 4,
  MaxAssistant <- 0, MaxUser <- 0, MaxParallel <- 2, GenLens <- {1, 2},
  CallCounts <- {0, 3}, ToolLens <- {1, 2}
Servers == INSTANCE AgentLoop WITH
  batch <- loopBatch, awake <- loopAwake, pc <- loopPc, ids <- loopIds,
  calls <- loopCalls, open <- loopOpen, asked <- loopAsked,
  Rows <- LoopRows, Workers <- LoopWorkers, WorkerOf <- LoopWorkerOf,
  Agent <- LoopAgent, Servers <- LoopServers, CacheSize <- LoopCache,
  Batches <- LoopBatches, ResponseLength <- LoopLimits.response,
  MaxAssistant <- LoopLimits.assistant, MaxUser <- LoopLimits.user,
  MaxParallel <- LoopLimits.parallel, GenLens <- LoopLens.answers,
  CallCounts <- LoopLens.calls, ToolLens <- LoopLens.responses

\* The worker that is extended has an adapter, with sequences shared by all
\* ranks; this one trains all parameters, with an engine that starts without.
Full == INSTANCE FsdpWorker WITH
  Sp <- 2, PerRank <- 2, Lora <- FALSE, Dummy <- TRUE,
  starts <- fullStarts, pc <- fullPc, model <- fullModel,
  modelOn <- fullModelOn, optimOn <- fullOptimOn,
  adapterOn <- fullAdapterOn, engine <- fullEngine, awake <- fullAwake,
  base_sync_done <- fullSynced, rng <- fullRng,
  torch_random_states <- fullTorch, gen_random_states <- fullGen,
  generations <- fullGenerations, rows <- fullRows, ckpt <- fullCkpt

\* Three turns of the model, two tools, a call of neither, and a user.
Request == INSTANCE SglangRollout WITH
  state <- reqState, waits <- reqWaits, prompt <- reqPrompt,
  messages <- reqMessages, loss_mask <- reqLoss_mask, open <- reqOpen,
  started <- reqStarted, response <- reqResponse, PromptLens <- {2, 8},
  GenLen <- 1, EndLen <- 2, TextLens <- {1, 3}, Tools <- {"a", "b"},
  CallLists <- {<<>>, <<"a">>, <<"a", "b">>, <<"c">>}, More <- {0, 2},
  Interaction <- TRUE, MaxModelLen <- 18, ResponseLength <- 14,
  MaxAssistant <- 3, MaxUser <- 1

\* Models of several sizes: all layers but one are copied, as the code has it, or
\* few of them.
Act == INSTANCE ActivationOffload WITH
  sizes <- actSizes, batch <- actBatch, pc <- actPc, layer <- actLayer,
  tag <- actTag, queue <- actQueue, done <- actDone, memory <- actMemory,
  wrong <- actWrong, Sizes <- ActSizes, Batches <- ActBatches,
  Blocks <- ActBlocks

\* Every conversation of up to four messages.
Read == INSTANCE MultiTurnSft WITH
  messages <- convMessages, template <- convTemplate, i <- convI,
  pc <- convPc, ids <- convIds, loss_mask <- convLoss_mask,
  attention_mask <- convAttention_mask, position_ids <- convPosition_ids,
  max_length <- convMax_length, MaxMessages <- 4,
  Templates <- {<<"plain", FALSE>>, <<"thinking", TRUE>>, <<"thinking", FALSE>>},
  Lengths <- {5, 12}, Truncations <- {"error", "left", "right"}

\* Workers with the limit, and others without.
Rate == INSTANCE RateLimit WITH
  asked <- rateAsked, Workers <- RateWorkers, Calls <- RateCalls,
  NumWorkers <- RateThreads, RateLimit <- RateMax, Limited <- RateLimited

ASSUME RolloutAssumption ==
  /\ Parts \subseteq {"tools", "servers", "adapter", "full", "request",
                       "offload", "read", "rate"}
  /\ WithTools!AgentLoopAssumption
  /\ Servers!AgentLoopAssumption
  /\ Request!SglangRolloutAssumption
  /\ Act!ActivationOffloadAssumption
  /\ Read!MultiTurnSftAssumption
  /\ Rate!RateLimitAssumption

-----------------------------------------------------------------------------
\* What a part that is not looked at rests in: one of its initial
\* states.
LoopRests ==
  /\ byHash = [w \in {1} |-> [s \in {1, 2} |-> s]]
  /\ WithTools!Init
ReqRests ==
  /\ reqPrompt = 2
  /\ Request!Init
ActRests ==
  /\ actSizes = CHOOSE z \in ActSizes : TRUE
  /\ Act!Init
ConvRests ==
  /\ convMessages = <<[role |-> "user", thinks |-> FALSE]>>
  /\ convTemplate = <<"plain", FALSE>>
  /\ Read!Init
RateRests == Rate!Init

RolloutInit ==
  /\ part \in Parts
  /\ CASE part = "tools" -> WithTools!Init
       [] part = "servers" -> Servers!Init
       [] OTHER -> LoopRests
  /\ Init /\ Full!Init
  /\ IF part = "request" THEN Request!Init ELSE ReqRests
  /\ IF part = "offload" THEN Act!Init ELSE ActRests
  /\ IF part = "read" THEN Read!Init ELSE ConvRests
  /\ IF part = "rate" THEN Rate!Init ELSE RateRests

\* The others stay where they are.
LoopOnly == UNCHANGED <<part, vars, fullVars, reqVars, actVars, convVars, rateVars>>
WorkOnly == UNCHANGED <<part, loopVars, fullVars, reqVars, actVars, convVars, rateVars>>
FullOnly == UNCHANGED <<part, loopVars, vars, reqVars, actVars, convVars, rateVars>>
ReqOnly == UNCHANGED <<part, loopVars, vars, fullVars, actVars, convVars, rateVars>>
ActOnly == UNCHANGED <<part, loopVars, vars, fullVars, reqVars, convVars, rateVars>>
ConvOnly == UNCHANGED <<part, loopVars, vars, fullVars, reqVars, actVars, rateVars>>
RateOnly == UNCHANGED <<part, loopVars, vars, fullVars, reqVars, actVars, convVars>>

RolloutNext ==
  \/ part = "tools" /\ WithTools!Next /\ LoopOnly
  \/ part = "servers" /\ Servers!Next /\ LoopOnly
  \/ part = "adapter" /\ Next /\ WorkOnly
  \/ part = "full" /\ Full!Next /\ FullOnly
  \/ part = "request" /\ Request!Next /\ ReqOnly
  \/ part = "offload" /\ Act!Next /\ ActOnly
  \/ part = "read" /\ Read!Next /\ ConvOnly
  \/ part = "rate" /\ Rate!Next /\ RateOnly

RolloutSpec == RolloutInit /\ [][RolloutNext]_rolloutVars

\* The fairness of AgentLoop, SglangRollout, ActivationOffload and RateLimit.
RolloutFair ==
  /\ RolloutSpec
  /\ WF_loopVars(part = "tools" /\ (WithTools!Begin \/ WithTools!End))
  /\ \A i \in {1, 2} : WF_loopVars(part = "tools" /\ WithTools!Step(i))
  /\ WF_reqVars(part = "request" /\ Request!Next)
  /\ WF_actVars(part = "offload" /\ Act!Host)
  /\ \A s \in {"compute", "d2h", "h2d"} :
       WF_actVars(part = "offload" /\ Act!Work(s))
  /\ WF_rateVars(part = "rate" /\ Rate!Grant)
  /\ WF_rateVars(part = "rate" /\ Rate!Release)
  /\ \A c \in RateWorkers \X RateCalls :
       /\ WF_rateVars(part = "rate" /\ Rate!Start(c))
       /\ WF_rateVars(part = "rate" /\ Rate!Ask(c))
       /\ WF_rateVars(part = "rate" /\ Rate!Raise(c))
       /\ WF_rateVars(part = "rate" /\ Rate!Over(c))

-----------------------------------------------------------------------------
(* What a finished loop hands back is the conversation it had, with the    *)
(* mask on the model's own tokens, and it has released its tools: AgentLoop*)
(* !MaskIsGenerated, !ModelHasTheLastWord, !NothingLeftOpen, SglangRollout!*)
(* TokenizationConsistent, !MaskIsAssistant, !AnswersFit, !Alternates,     *)
(* !ToolsReleased.  So is one that is read, wherever it is cut:            *)
(* MultiTurnSft!MaskIsOwn, !IsConversation; and the worker that generates  *)
(* the words is right with all parameters trained as with an adapter:      *)
(* FsdpWorker!WorkerRight.                                                 *)
ConversationsRight ==
  /\ part = "tools" =>
       /\ WithTools!TypeOK /\ WithTools!MaskIsGenerated
       /\ WithTools!ModelHasTheLastWord /\ WithTools!NothingLeftOpen
  /\ part = "servers" => Servers!TypeOK
  /\ part = "request" =>
       /\ Request!TypeOK /\ Request!TokenizationConsistent
       /\ Request!MaskIsAssistant /\ Request!AnswersFit
       /\ Request!Alternates /\ Request!ToolsReleased
  /\ part = "read" => Read!TypeOK /\ Read!MaskIsOwn /\ Read!IsConversation
  /\ part = "full" => Full!TypeOK /\ Full!WorkerRight

(* What is shared is used in turn.  A conversation stays with one server,  *)
(* the servers are used evenly and are awake while asked: AgentLoop!Sticky,*)
(* !EvenlySpread, !AwakeWhileAsked; no more calls than the limit are at the*)
(* sandbox: RateLimit!WithinRate.  A backward pass reads the activations   *)
(* that its forward pass has saved: ActivationOffload!ReadsOwn,            *)
(* !NothingLeft, !TwoGroups.                                               *)
ResourcesRight ==
  /\ part = "servers" =>
       Servers!Sticky /\ Servers!EvenlySpread /\ Servers!AwakeWhileAsked
  /\ part = "rate" => Rate!TypeOK /\ Rate!WithinRate
  /\ part = "offload" =>
       /\ Act!TypeOK /\ Act!ReadsOwn
       /\ Act!NothingLeft /\ Act!TwoGroups
  /\ TypeOK

(* Every batch is answered, every conversation and every pass ends, and    *)
(* every call of the tool gets its turn: AgentLoop!EveryBatchEnds,         *)
(* SglangRollout!RequestEnds, ActivationOffload!PassesEnd, RateLimit!      *)
(* EveryCallEnds.                                                          *)
RolloutEnds ==
  /\ <>(part = "tools" => WithTools!BatchesEnded)
  /\ <>(part = "request" => Request!Ended)
  /\ <>(part = "offload" => Act!Ended)
  /\ <>(part = "rate" => Rate!CallsEnded)
=============================================================================
