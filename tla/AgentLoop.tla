------------------------------ MODULE AgentLoop ------------------------------
(***************************************************************************)
(* Multi-turn rollout (verl/experimental/agent_loop): a manager wakes the  *)
(* LLM servers and gives every worker its rows; a worker runs one agent    *)
(* loop per row, all of them at once in one event loop.  A loop asks a     *)
(* server, calls tools, appends what they say and asks again, until one of *)
(* several limits is met.                                                  *)
(*                                                                         *)
(* A worker's AsyncLLMServerManager chooses the server of a request by the *)
(* number of requests it has ever given to each, and remembers the choice  *)
(* in an LRU cache.  A token is only what produced it: the prompt "p", the *)
(* model "g" or a tool "t".  The servers and the tools are outside: a      *)
(* server answers with at least one token (the stop token) or fails.       *)
(***************************************************************************)
EXTENDS Naturals, Sequences, FiniteSetsExt

CONSTANTS
  Rows,           \* rows of a batch, numbers
  Workers,        \* agent loop workers
  WorkerOf,       \* row -> the worker whose chunk it is in
  Agent,          \* row -> agent_name, "single_turn" or "tool"
  Servers,        \* LLM servers, numbers
  CacheSize,      \* max_cache_size
  Batches,        \* calls of generate_sequences (bound)
  ResponseLength, \* response_length
  MaxAssistant,   \* max_assistant_turns; 0 for None
  MaxUser,        \* max_user_turns; 0 for None
  MaxParallel,    \* max_parallel_calls
  GenLens,        \* lengths of an answer of the model (bound)
  CallCounts,     \* numbers of tool calls in an answer (bound)
  ToolLens        \* lengths of the tokenized tool responses (bound)

AgentLoopAssumption ==
  /\ Rows \subseteq Nat /\ IsFiniteSet(Rows)
  /\ Servers \subseteq Nat /\ IsFiniteSet(Servers) /\ Servers # {}
  /\ WorkerOf \in [Rows -> Workers] /\ Agent \in [Rows -> {"single_turn", "tool"}]
  /\ CacheSize \in Nat \ {0} /\ ResponseLength \in Nat \ {0} /\ MaxParallel \in Nat \ {0}
  /\ GenLens \subseteq Nat \ {0} /\ CallCounts \subseteq Nat /\ ToolLens \subseteq Nat

VARIABLES
  batch,   \* number of the batch
  phase,   \* of the manager: "asleep", "running" or "failed"
  awake,   \* the servers hold their weights and caches
  byHash,  \* worker -> server -> place of its hash among the hashes
  given,   \* worker -> server -> weight in weighted_serveres
  cache,   \* worker -> request_id_to_server, least recently used first
  pc,      \* row -> where its loop is
  ids,     \* row -> prompt_ids
  mask,    \* row -> response_mask
  turns,   \* row -> user_turns and assistant_turns
  calls,   \* row -> states of the tool calls being made
  open,    \* row -> tool instances created and not released
  asked,   \* row -> servers its requests went to, in order
  out      \* row -> AgentLoopOutput

loops == <<pc, ids, mask, turns, calls, open, asked, out>>
choice == <<byHash, given, cache>>
vars == <<batch, phase, awake, choice, loops>>

Prompt == <<"p">>
NoOutput == [prompt |-> <<>>, resp |-> <<>>, mask |-> <<>>]

Init ==
  /\ batch = 0 /\ phase = "asleep" /\ awake = FALSE
  /\ byHash \in [Workers -> {f \in [Servers -> 1..Cardinality(Servers)] : \A s, t \in Servers : f[s] = f[t] => s = t}]
  /\ given = [w \in Workers |-> [s \in Servers |-> 0]]
  /\ cache = [w \in Workers |-> <<>>]
  /\ pc = [i \in Rows |-> "idle"]
  /\ ids = [i \in Rows |-> <<>>] /\ mask = [i \in Rows |-> <<>>]
  /\ turns = [i \in Rows |-> [user |-> 0, assistant |-> 0]]
  /\ calls = [i \in Rows |-> <<>>] /\ open = [i \in Rows |-> 0]
  /\ asked = [i \in Rows |-> <<>>] /\ out = [i \in Rows |-> NoOutput]

\* AgentLoopManager.generate_sequences: wake_up, then every chunk to its worker,
\* which makes one task per row.
Begin ==
  /\ phase = "asleep" /\ batch < Batches
  /\ batch' = batch + 1 /\ phase' = "running" /\ awake' = TRUE
  /\ pc' = [i \in Rows |-> "ask"]
  /\ ids' = [i \in Rows |-> Prompt] /\ mask' = [i \in Rows |-> <<>>]
  /\ turns' = [i \in Rows |-> [user |-> 0, assistant |-> 0]]
  /\ calls' = [i \in Rows |-> <<>>] /\ open' = [i \in Rows |-> 0]
  /\ asked' = [i \in Rows |-> <<>>] /\ out' = [i \in Rows |-> NoOutput]
  /\ UNCHANGED choice

\* uuid4: a new request id for every row of every batch.
Request(i) == <<batch, i>>

\* LRUCache.__setitem__ of a full cache.
MadeRoom(entries) ==
  IF Len(entries) = CacheSize THEN Tail(entries) ELSE entries

\* The root of the heap: the lowest weight, then the lowest hash.
Lightest(w) ==
  CHOOSE s \in Servers : \A t \in Servers \ {s} :
    \/ given[w][s] < given[w][t]
    \/ given[w][s] = given[w][t] /\ byHash[w][s] < byHash[w][t]

\* heapreplace with the root's raised weight.
Raised(w, s) == [given[w] EXCEPT ![s] = @ + 1]

\* The conversation's entry among those of its worker.
Entries(i) ==
  {k \in DOMAIN cache[WorkerOf[i]] : cache[WorkerOf[i]][k][1] = Request(i)}

\* LRUCache.__getitem__: the entry becomes the last one used.
UsedLast(entries, k) ==
  Append(SubSeq(entries, 1, k - 1) \o SubSeq(entries, k + 1, Len(entries)), entries[k])

\* The server of the entry.
Remembered(i, k) ==
  LET w == WorkerOf[i]
  IN  /\ cache' = [cache EXCEPT ![w] = UsedLast(@, k)]
      /\ asked' = [asked EXCEPT ![i] = Append(@, cache[w][k][2])]
      /\ UNCHANGED given

\* The lightest server, and a new entry.
Chosen(i) ==
  LET w == WorkerOf[i]
      s == Lightest(w)
  IN  /\ given' = [given EXCEPT ![w] = Raised(w, s)]
      /\ cache' = [cache EXCEPT ![w] = Append(MadeRoom(@), <<Request(i), s>>)]
      /\ asked' = [asked EXCEPT ![i] = Append(@, s)]

\* AsyncLLMServerManager._choose_server and the call of the server.
Ask(i) ==
  /\ phase = "running" /\ pc[i] = "ask"
  /\ IF Entries(i) = {} THEN Chosen(i) ELSE \E k \in Entries(i) : Remembered(i, k)
  /\ pc' = [pc EXCEPT ![i] = "wait"]
  /\ UNCHANGED <<batch, phase, awake, byHash, ids, mask, turns, calls, open, out>>

Cut(seq) == SubSeq(seq, 1, Min({Len(seq), ResponseLength}))

\* Mutation: the last tokens of the answer are kept, and the first of the mask.
OutputOfTheEnd(tokens, m) ==
  [prompt |-> SubSeq(tokens, 1, Len(tokens) - Len(m)),
   resp |-> SubSeq(tokens, Len(tokens) - Min({Len(m), ResponseLength}) + 1, Len(tokens)),
   mask |-> Cut(m)]

\* The end of run: the response is the last Len(m) tokens.
Output(tokens, m) ==
  [prompt |-> SubSeq(tokens, 1, Len(tokens) - Len(m)),
   resp |-> Cut(SubSeq(tokens, Len(tokens) - Len(m) + 1, Len(tokens))),
   mask |-> Cut(m)]

Finish(i, tokens, m) ==
  /\ out' = [out EXCEPT ![i] = Output(tokens, m)]
  /\ pc' = [pc EXCEPT ![i] = "done"]

\* The breaks before the tool calls are looked for.
LimitMet(i, m) ==
  \/ Len(m) >= ResponseLength
  \/ MaxAssistant > 0 /\ turns[i].assistant + 1 >= MaxAssistant
  \/ MaxUser > 0 /\ turns[i].user >= MaxUser

\* A server answers; run goes on to the tools or ends.
Answer(i) ==
  /\ phase = "running" /\ pc[i] = "wait"
  /\ \E n \in GenLens, c \in CallCounts :
       LET tokens == ids[i] \o [k \in 1..n |-> "g"]
           m == mask[i] \o [k \in 1..n |-> 1]
       IN  /\ ids' = [ids EXCEPT ![i] = tokens]
           /\ mask' = [mask EXCEPT ![i] = m]
           /\ turns' = [turns EXCEPT ![i].assistant = @ + 1]
           /\ IF Agent[i] = "single_turn" \/ LimitMet(i, m) \/ c = 0
                THEN Finish(i, tokens, m) /\ UNCHANGED calls
                ELSE /\ calls' = [calls EXCEPT ![i] =
                                    [k \in 1..Min({c, MaxParallel}) |-> "called"]]
                     /\ pc' = [pc EXCEPT ![i] = "tools"]
                     /\ UNCHANGED out
  /\ UNCHANGED <<batch, phase, awake, choice, open, asked>>

\* A server's error leaves asyncio.gather, the worker and ray.get of the manager
\* at once: the other loops are left running and nothing puts the servers to sleep.
ServerFails(i) ==
  /\ phase = "running" /\ pc[i] = "wait"
  /\ phase' = "failed"
  /\ UNCHANGED <<batch, awake, choice, loops>>

To(i, k, state) == calls' = [calls EXCEPT ![i][k] = state]

\* _call_tool up to tool.create: no such tool, malformed arguments or a failed
\* create return the exception with no instance.
Create(i, k) ==
  /\ calls[i][k] = "called"
  /\ \/ To(i, k, "open") /\ open' = [open EXCEPT ![i] = @ + 1]
     \/ To(i, k, "error") /\ UNCHANGED open

\* Mutation: the release is not in a finally.
ExecuteThenRelease(i, k) ==
  /\ calls[i][k] = "open"
  /\ \/ To(i, k, "answered") \/ To(i, k, "error")
  /\ UNCHANGED open

\* tool.execute
Execute(i, k) ==
  /\ calls[i][k] = "open"
  /\ \/ To(i, k, "answered") \/ To(i, k, "raised")
  /\ UNCHANGED open

\* The finally of _call_tool.
Release(i, k) ==
  /\ \/ calls[i][k] = "answered" /\ To(i, k, "ok")
     \/ calls[i][k] = "raised" /\ To(i, k, "error")
  /\ open' = [open EXCEPT ![i] = @ - 1]

CallTool(i) ==
  /\ phase = "running" /\ pc[i] = "tools"
  /\ \E k \in DOMAIN calls[i] : Create(i, k) \/ Execute(i, k) \/ Release(i, k)
  /\ UNCHANGED <<batch, phase, awake, choice, pc, ids, mask, turns, asked, out>>

Fits(i, n) == Len(mask[i]) + n < ResponseLength

\* All tool calls are back: their responses are appended, or run ends.
Return(i) ==
  /\ phase = "running" /\ pc[i] = "tools"
  /\ \A k \in DOMAIN calls[i] : calls[i][k] \in {"ok", "error"}
  /\ \E n \in ToolLens :
       IF "error" \notin Range(calls[i]) /\ Fits(i, n)
         THEN /\ ids' = [ids EXCEPT ![i] = @ \o [k \in 1..n |-> "t"]]
              /\ mask' = [mask EXCEPT ![i] = @ \o [k \in 1..n |-> 0]]
              /\ turns' = [turns EXCEPT ![i].user = @ + 1]
              /\ pc' = [pc EXCEPT ![i] = "ask"]
              /\ UNCHANGED out
         ELSE Finish(i, ids[i], mask[i]) /\ UNCHANGED <<ids, mask, turns>>
  /\ calls' = [calls EXCEPT ![i] = <<>>]
  /\ UNCHANGED <<batch, phase, awake, choice, open, asked>>

\* Mutation: the manager does not wait for all chunks.
AnyReturned == \E w \in Workers : \A i \in Rows : WorkerOf[i] = w => pc[i] = "done"

\* ray.get of all chunks.
AllReturned == \A i \in Rows : pc[i] = "done"

\* The chunks are concatenated and the servers put to sleep.
End ==
  /\ phase = "running" /\ AllReturned
  /\ phase' = "asleep" /\ awake' = FALSE
  /\ UNCHANGED <<batch, choice, loops>>

Step(i) == Ask(i) \/ Answer(i) \/ CallTool(i) \/ Return(i)

Next == Begin \/ End \/ \E i \in Rows : Step(i) \/ ServerFails(i)

\* Event loops run their tasks, servers answer and tools return.
Fairness == WF_vars(Begin \/ End) /\ \A i \in Rows : WF_vars(Step(i))

Spec == Init /\ [][Next]_vars

FairSpec == Spec /\ Fairness

-----------------------------------------------------------------------------
TypeOK ==
  /\ batch \in 0..Batches /\ phase \in {"asleep", "running", "failed"} /\ awake \in BOOLEAN
  /\ \A i \in Rows :
       /\ pc[i] \in {"idle", "ask", "wait", "tools", "done"}
       /\ Range(ids[i]) \subseteq {"p", "g", "t"} /\ Range(mask[i]) \subseteq {0, 1}
       /\ Range(calls[i]) \subseteq {"called", "open", "answered", "raised", "ok", "error"}
       /\ open[i] \in 0..MaxParallel /\ Range(asked[i]) \subseteq Servers
  /\ \A w \in Workers : Len(cache[w]) <= CacheSize

Done == {i \in Rows : pc[i] = "done"}

\* The prompt of the output is the prompt of the row, the response what came
\* after it, and the mask is 1 exactly on the tokens of the model: the policy is
\* never trained on a tool's words (the slices at the end of ToolAgentLoop.run).
MaskIsGenerated ==
  \A i \in Done :
    /\ out[i].prompt = Prompt /\ Len(out[i].resp) = Len(out[i].mask)
    /\ \A k \in DOMAIN out[i].resp : out[i].resp[k] = IF out[i].mask[k] = 1 THEN "g" ELSE "t"

\* A response ends with a token of the model, also when it was cut
\* ("last turn should not be user turn", ToolAgentLoop.run).
ModelHasTheLastWord ==
  \A i \in Done : out[i].mask # <<>> /\ out[i].mask[Len(out[i].mask)] = 1

\* A finished loop has released every tool instance it created, whatever failed
\* (the finally of _call_tool).
NothingLeftOpen == \A i \in Done : open[i] = 0

Chunk(w) == {i \in Rows : WorkerOf[i] = w}

\* All turns of a conversation go to one server: no conversation of a chunk that
\* fits the cache loses its entry to another one, of this batch or an earlier
\* one (_choose_server).
Sticky ==
  \A i \in Rows : Cardinality(Chunk(WorkerOf[i])) <= CacheSize =>
    \A k, l \in DOMAIN asked[i] : asked[i][k] = asked[i][l]

\* A worker's conversations are spread evenly over the servers, over all batches
\* (the heap of _choose_server).
EvenlySpread ==
  \A w \in Workers : \A s, t \in Servers : given[w][s] <= given[w][t] + 1

\* No server is asleep while a request is with it, not even after an error of
\* another one (AgentLoopManager.generate_sequences).
AwakeWhileAsked == (\E i \in Rows : pc[i] = "wait") => awake

BatchesEnded == phase = "failed" \/ (phase = "asleep" /\ batch = Batches)

\* Unless a server fails, every batch is answered: a loop has a limit on tokens
\* even where it has none on turns (ToolAgentLoop.run).
EveryBatchEnds == <>BatchesEnded

InFlight(s) == Cardinality({i \in Rows : pc[i] = "wait" /\ asked[i][Len(asked[i])] = s})

\* "Load balance: least requests load balancing" (AsyncLLMServerManager): a new
\* conversation goes to a server with the fewest requests in flight.
LeastRequests ==
  [][\A i \in Rows : (pc[i] = "ask" /\ asked[i] = <<>> /\ pc'[i] = "wait") =>
       \A s \in Servers : InFlight(asked'[i][1]) <= InFlight(s)]_vars
=============================================================================
