---------------------------- MODULE ModelMerger -----------------------------
(***************************************************************************)
(* A model on its way through the formats of verl.  "megatron": a Hugging  *)
(* Face model is converted to a distributed checkpoint of Megatron by the  *)
(* ranks of a pipeline (converter_hf_to_mcore.py), and merged back by      *)
(* those of another one (megatron_model_merger.py), which may die and be   *)
(* started again.  "fsdp": the files of the FSDP ranks are read by threads *)
(* and put together (fsdp_model_merger.py), without or with an adapter.    *)
(*                                                                         *)
(* A row of a weight is the name of the weight and its place there, so     *)
(* that one which ends elsewhere is seen.  A name is a sequence of words   *)
(* with the numbers of its layer and its expert apart; the word "E" stands *)
(* where the number of the expert is.                                      *)
(***************************************************************************)
EXTENDS Integers, Sequences, SequencesExt, FiniteSetsExt

CONSTANTS
  Archs,       \* some of "qwen2_moe", "qwen3_moe", "deepseek_v3"
  Layers,      \* values of num_hidden_layers
  RankCounts,  \* numbers of ranks of a conversion or merge, no more than layers
  Heads, KvHeads, Experts,
  ManyLayers,  \* layers from which on each is saved in two files: 30
  Meshes,      \* pairs of ddp and fsdp sizes
  MaxMerges    \* bound: how often a merge is started

ModelMergerAssumption ==
  /\ Archs \subseteq {"qwen2_moe", "qwen3_moe", "deepseek_v3"}
  /\ Layers \subseteq Nat \ {0} /\ RankCounts \subseteq Nat \ {0}
  /\ \A l \in Layers : \E n \in RankCounts : n <= l
  /\ KvHeads \in Nat \ {0} /\ Heads \in Nat \ {0} /\ Heads % KvHeads = 0
  /\ Experts \in Nat \ {0} /\ ManyLayers \in Nat /\ MaxMerges \in Nat \ {0}
  /\ Meshes \subseteq (Nat \ {0}) \X (Nat \ {0})

VARIABLES
  model,   \* its architecture and number of layers
  mesh,    \* sizes of ddp and fsdp, or 1 and that of the pipeline that runs
  stage,
  held,    \* what a rank has in its memory: weights by name
  next,    \* files a rank has saved
  ckpt,    \* the distributed checkpoint
  files,   \* the target directory: weights by name and file
  index,   \* weight_map of model.safetensors.index.json
  starts

vars == <<model, mesh, stage, held, next, ckpt, files, index, starts>>

RanksOf(n) == 0..(n - 1)
size == mesh[2]
Counts == {n \in RankCounts : n <= model.layers}
Name(layer, expert, words) == [layer |-> layer, expert |-> expert, words |-> words]
NoLayer == -1
NoExpert == -1

-----------------------------------------------------------------------------
(***************************************************************************)
(* The models of transformers                                              *)
(***************************************************************************)
Attn(proj, kind) == <<"self_attn", proj, kind>>
Mlp(proj) == <<"mlp", proj, "weight">>
Expert(proj) == <<"mlp", "experts", "E", proj, "weight">>
Shared(a) == IF a = "qwen2_moe" THEN "shared_expert" ELSE "shared_experts"
SharedMlp(a, proj) == <<"mlp", Shared(a), proj, "weight">>
Norm(which) == <<which, "weight">>

IsDense(a, layer) == a = "deepseek_v3" /\ layer = 0

AttnNames(a) ==
  CASE a = "deepseek_v3" ->
         {Attn(p, "weight") : p \in {"q_a_proj", "q_a_layernorm", "q_b_proj",
            "kv_a_proj_with_mqa", "kv_a_layernorm", "kv_b_proj", "o_proj"}}
    [] a = "qwen3_moe" ->
         {Attn(p, "weight") : p \in {"q_proj", "k_proj", "v_proj", "o_proj", "q_norm", "k_norm"}}
    [] a = "qwen2_moe" ->
         {Attn(p, "weight") : p \in {"q_proj", "k_proj", "v_proj", "o_proj"}}
           \cup {Attn(p, "bias") : p \in {"q_proj", "k_proj", "v_proj"}}

Projections == {"gate_proj", "up_proj", "down_proj"}
SharedNames(a) ==
  IF a = "qwen3_moe" THEN {} ELSE {SharedMlp(a, p) : p \in Projections}
MlpNames(a, layer) ==
  IF IsDense(a, layer) THEN {Mlp(p) : p \in Projections}
  ELSE {Mlp("gate")} \cup SharedNames(a)
         \cup (IF a = "qwen2_moe" THEN {Mlp("shared_expert_gate")} ELSE {})
         \cup (IF a = "deepseek_v3" THEN {<<"mlp", "gate", "e_score_correction_bias">>} ELSE {})

LayerNames(a, layer) ==
  {Name(layer, NoExpert, <<"model", "layers">> \o w) :
     w \in {Norm("input_layernorm"), Norm("post_attention_layernorm")}
             \cup AttnNames(a) \cup MlpNames(a, layer)}
    \cup {Name(layer, e, <<"model", "layers">> \o Expert(p)) :
            e \in (IF IsDense(a, layer) THEN {} ELSE RanksOf(Experts)), p \in Projections}

HfNames ==
  UNION {LayerNames(model.arch, l) : l \in RanksOf(model.layers)}
    \cup {Name(NoLayer, NoExpert, w) :
            w \in {<<"model", "embed_tokens", "weight">>, <<"model", "norm", "weight">>,
                   <<"lm_head", "weight">>}}

\* Rows of a weight: a head of attention is one row.
Height(words) ==
  LET proj == words[Len(words) - 1]
  IN  CASE proj = "q_proj" -> Heads
        [] proj \in {"k_proj", "v_proj"} -> KvHeads
        [] proj \in {"gate_proj", "up_proj"} -> 2
        [] OTHER -> 1
Original(name) == [i \in 1..Height(name.words) |-> <<name, i>>]

-----------------------------------------------------------------------------
(***************************************************************************)
(* get_dynamic_pipeline_shards                                             *)
(***************************************************************************)
FirstSize(layers, ranks, middle) == (layers - middle * (ranks - 2)) \div 2
LastSize(layers, ranks, middle) ==
  layers - middle * (ranks - 2) - FirstSize(layers, ranks, middle)
MiddleSizes(layers, ranks) ==
  {m \in RanksOf(layers) : /\ FirstSize(layers, ranks, m) \in 1..m
                         /\ LastSize(layers, ranks, m) \in 1..m}

Shards(layers, ranks) ==
  CASE ranks = 1 -> <<layers>>
    [] ranks = 2 -> <<layers \div 2, layers - (layers \div 2)>>
    [] OTHER ->
         LET Diff(m) == m - FirstSize(layers, ranks, m)
             sizes == MiddleSizes(layers, ranks)
             m == CHOOSE s \in sizes :
                    \A t \in sizes : Diff(s) < Diff(t) \/ (Diff(s) = Diff(t) /\ s <= t)
         IN  <<FirstSize(layers, ranks, m)>> \o [i \in 1..(ranks - 2) |-> m]
               \o <<LastSize(layers, ranks, m)>>

HasShards(layers, ranks) == ranks <= 2 \/ MiddleSizes(layers, ranks) # {}

Cumsum(rank) ==
  FoldLeft(LAMBDA s, n : s + n, 0, SubSeq(Shards(model.layers, size), 1, rank))
\* Mutation: the layers up to and with those of the rank.
LayerStartOwn(rank) == Cumsum(rank + 1)
LayerStart(rank) == Cumsum(rank)
LayersOf(rank) == LayerStart(rank)..(LayerStart(rank) + Shards(model.layers, size)[rank + 1] - 1)

-----------------------------------------------------------------------------
(***************************************************************************)
(* convert_checkpoint_from_transformers_to_megatron and ..._dpskv3         *)
(***************************************************************************)
Copy(to, from) == [to |-> to, from |-> from]
SelfAttention(part, kind) == <<"self_attention", part, kind>>
Attention(part, hf) == Copy(SelfAttention(part, "weight"), <<Attn(hf, "weight")>>)
Qkv(kind) ==
  Copy(SelfAttention("linear_qkv", kind),
       <<Attn("q_proj", kind), Attn("k_proj", kind), Attn("v_proj", kind)>>)

QwenAttention(a) ==
  {Copy(SelfAttention("linear_qkv", "layer_norm_weight"), <<Norm("input_layernorm")>>),
   Qkv("weight"), Attention("linear_proj", "o_proj")}
    \cup (IF a = "qwen2_moe" THEN {Qkv("bias")} ELSE {})
    \cup (IF a = "qwen3_moe"
          THEN {Attention("q_layernorm", "q_norm"), Attention("k_layernorm", "k_norm")}
          ELSE {})

DpskAttention ==
  {Copy(<<"input_layernorm", "weight">>, <<Norm("input_layernorm")>>),
   Attention("linear_q_down_proj", "q_a_proj"), Attention("linear_q_up_proj", "q_b_proj"),
   Copy(SelfAttention("linear_q_up_proj", "layer_norm_weight"),
        <<Attn("q_a_layernorm", "weight")>>),
   Attention("linear_kv_down_proj", "kv_a_proj_with_mqa"),
   Attention("linear_kv_up_proj", "kv_b_proj"),
   Copy(SelfAttention("linear_kv_up_proj", "layer_norm_weight"),
        <<Attn("kv_a_layernorm", "weight")>>),
   Attention("linear_proj", "o_proj")}

DenseMlp ==
  {Copy(<<"mlp", "linear_fc1", "layer_norm_weight">>, <<Norm("post_attention_layernorm")>>),
   Copy(<<"mlp", "linear_fc1", "weight">>, <<Mlp("gate_proj"), Mlp("up_proj")>>),
   Copy(<<"mlp", "linear_fc2", "weight">>, <<Mlp("down_proj")>>)}

SharedExperts(a) ==
  {Copy(<<"mlp", "shared_experts", "linear_fc1", "weight">>,
        <<SharedMlp(a, "gate_proj"), SharedMlp(a, "up_proj")>>),
   Copy(<<"mlp", "shared_experts", "linear_fc2", "weight">>, <<SharedMlp(a, "down_proj")>>)}

MoeMlp(a) ==
  {Copy(<<"pre_mlp_layernorm", "weight">>, <<Norm("post_attention_layernorm")>>),
   Copy(<<"mlp", "router", "weight">>, <<Mlp("gate")>>)}
    \cup (IF a = "qwen3_moe" THEN {} ELSE SharedExperts(a))
    \cup (IF a = "qwen2_moe"
          THEN {Copy(<<"mlp", "shared_experts", "gate_weight">>, <<Mlp("shared_expert_gate")>>)}
          ELSE {})
    \cup (IF a = "deepseek_v3"
          THEN {Copy(<<"mlp", "router", "expert_bias">>,
                     <<<<"mlp", "gate", "e_score_correction_bias">>>>)}
          ELSE {})

ExpertCopies ==
  {Copy(<<"mlp", "experts", "linear_fc1", "weight", "E">>,
        <<Expert("gate_proj"), Expert("up_proj")>>),
   Copy(<<"mlp", "experts", "linear_fc2", "weight", "E">>, <<Expert("down_proj")>>)}

LayerCopies(a, layer) ==
  (IF a = "deepseek_v3" THEN DpskAttention ELSE QwenAttention(a))
    \cup (IF IsDense(a, layer) THEN DenseMlp ELSE MoeMlp(a))

PerGroup == Heads \div KvHeads
\* Mutation: the projections one after the other.
FusedWhole(parts) == FlattenSeq(parts)
\* q, k and v one after the other for each group of heads.
Fused(parts) ==
  IF Len(parts) < 3 THEN FlattenSeq(parts)
  ELSE FlattenSeq([g \in 1..KvHeads |->
         SubSeq(parts[1], (g - 1) * PerGroup + 1, g * PerGroup) \o <<parts[2][g], parts[3][g]>>])

Copied(layer, expert, c) ==
  Fused([i \in DOMAIN c.from |-> Original(Name(layer, expert, <<"model", "layers">> \o c.from[i]))])

\* The weights of a rank under the names of its own layers, counted from 0.
Converted(rank) ==
  LET Key(layer, expert, c) ==
        Name(layer - LayerStart(rank), expert, <<"decoder", "layers">> \o c.to)
      weights ==
        UNION {{<<Key(l, NoExpert, c), Copied(l, NoExpert, c)>> : c \in LayerCopies(model.arch, l)}
                 : l \in LayersOf(rank)}
          \cup UNION {{<<Key(l, e, c), Copied(l, e, c)>> : c \in ExpertCopies, e \in RanksOf(Experts)}
                        : l \in {m \in LayersOf(rank) : ~IsDense(model.arch, m)}}
      Ends(to, from) == <<Name(NoLayer, NoExpert, to), Original(Name(NoLayer, NoExpert, from))>>
      ends ==
        (IF rank = 0
         THEN {Ends(<<"embedding", "word_embeddings", "weight">>, <<"model", "embed_tokens", "weight">>)}
         ELSE {})
          \cup (IF rank = size - 1
                THEN {Ends(<<"decoder", "final_layernorm", "weight">>, <<"model", "norm", "weight">>),
                      Ends(<<"output_layer", "weight">>, <<"lm_head", "weight">>)}
                ELSE {})
      all == weights \cup ends
  IN  [key \in {w[1] : w \in all} |-> (CHOOSE w \in all : w[1] = key)[2]]

\* dist_checkpointing: layers are counted over all ranks.
Global(key, rank) ==
  IF key.layer = NoLayer THEN key ELSE [key EXCEPT !.layer = @ + LayerStart(rank)]
Loaded(rank) ==
  LET mine == {key \in DOMAIN ckpt :
                 \/ key.layer \in LayersOf(rank)
                 \/ key.layer = NoLayer /\ key.words[1] = "embedding" /\ rank = 0
                 \/ key.layer = NoLayer /\ key.words[1] # "embedding" /\ rank = size - 1}
      Local(key) == IF key.layer = NoLayer THEN key
                    ELSE [key EXCEPT !.layer = @ - LayerStart(rank)]
  IN  [key \in {Local(k) : k \in mine} |-> ckpt[Global(key, rank)]]

-----------------------------------------------------------------------------
(***************************************************************************)
(* MegatronModelMerger                                                     *)
(***************************************************************************)
\* The first pair whose left side is found in a name replaces it there.
ParamsMapping ==
  <<<<<<"embedding", "word_embeddings">>, <<"model", "embed_tokens">>>>,
    <<<<"input_layernorm", "weight">>, <<"input_layernorm", "weight">>>>,
    <<<<"self_attention", "linear_qkv", "layer_norm_weight">>, <<"input_layernorm", "weight">>>>,
    <<<<"self_attention", "linear_qkv">>, <<"self_attn", "qkv_proj">>>>,
    <<<<"self_attention", "q_layernorm">>, <<"self_attn", "q_norm">>>>,
    <<<<"self_attention", "k_layernorm">>, <<"self_attn", "k_norm">>>>,
    <<<<"self_attention", "linear_proj">>, <<"self_attn", "o_proj">>>>,
    <<<<"self_attention", "linear_q_proj">>, <<"self_attn", "q_proj">>>>,
    <<<<"self_attention", "linear_q_down_proj">>, <<"self_attn", "q_a_proj">>>>,
    <<<<"self_attention", "linear_q_up_proj", "layer_norm_weight">>,
      <<"self_attn", "q_a_layernorm", "weight">>>>,
    <<<<"self_attention", "linear_q_up_proj">>, <<"self_attn", "q_b_proj">>>>,
    <<<<"self_attention", "linear_kv_down_proj">>, <<"self_attn", "kv_a_proj_with_mqa">>>>,
    <<<<"self_attention", "linear_kv_up_proj", "layer_norm_weight">>,
      <<"self_attn", "kv_a_layernorm", "weight">>>>,
    <<<<"self_attention", "linear_kv_up_proj">>, <<"self_attn", "kv_b_proj">>>>,
    <<<<"pre_mlp_layernorm">>, <<"post_attention_layernorm">>>>,
    <<<<"mlp", "linear_fc1", "layer_norm_weight">>, <<"post_attention_layernorm", "weight">>>>,
    <<<<"mlp", "linear_fc1">>, <<"mlp", "gate_up_proj">>>>,
    <<<<"mlp", "linear_fc2">>, <<"mlp", "down_proj">>>>,
    <<<<"mlp", "router", "expert_bias">>, <<"mlp", "gate", "e_score_correction_bias">>>>,
    <<<<"mlp", "router">>, <<"mlp", "gate">>>>,
    <<<<"mlp", "shared_experts", "linear_fc1">>, <<"mlp", Shared(model.arch), "gate_up_proj">>>>,
    <<<<"mlp", "shared_experts", "linear_fc2">>, <<"mlp", Shared(model.arch), "down_proj">>>>,
    <<<<"linear_fc1">>, <<"gate_up_proj">>>>,
    <<<<"linear_fc2">>, <<"down_proj">>>>,
    <<<<"final_layernorm">>, <<"norm">>>>,
    <<<<"output_layer">>, <<"lm_head">>>>>>
    \o (IF model.arch = "qwen2_moe"
        THEN <<<<<<"mlp", "shared_experts", "gate_weight">>,
                 <<"mlp", "shared_expert_gate", "weight">>>>>>
        ELSE <<>>)

Found(words) == {i \in DOMAIN ParamsMapping : ParamsMapping[i][1] \in SubSeqs(words)}
ReplaceName(words) ==
  LET pair == ParamsMapping[Min(Found(words))]
  IN  ReplaceFirstSubSeq(pair[2], pair[1], ReplaceAll(words, "decoder", "model"))

Holds(words, part) == part \in SubSeqs(words)
IsFc1(words) == Holds(words, <<"linear_fc1", "weight">>)
IsQkv(words) == Holds(words, <<"linear_qkv">>) /\ words[Len(words)] # "layer_norm_weight"

\* Rows i to j of each of n equal chunks, put together.
OfChunks(rows, n, i, j) ==
  LET len == Len(rows) \div n
  IN  FlattenSeq([c \in 1..n |-> SubSeq(rows, ((c - 1) * len) + i, ((c - 1) * len) + j)])
\* Mutation: the rows are split as if there were one group.
QkvPartsWhole(rows) ==
  <<SubSeq(rows, 1, Heads), SubSeq(rows, Heads + 1, Heads + KvHeads),
    SubSeq(rows, Heads + KvHeads + 1, Len(rows))>>
QkvParts(rows) ==
  <<OfChunks(rows, KvHeads, 1, PerGroup), OfChunks(rows, KvHeads, PerGroup + 1, PerGroup + 1),
    OfChunks(rows, KvHeads, PerGroup + 2, PerGroup + 2)>>

SplitTensors(words, rows) ==
  CASE IsFc1(words) ->
         LET half == (Len(rows) + 1) \div 2
         IN  <<SubSeq(rows, 1, half), SubSeq(rows, half + 1, Len(rows))>>
    [] IsQkv(words) -> QkvParts(rows)
    [] OTHER -> <<rows>>
SplitNames(words) ==
  CASE IsFc1(words) -> <<"gate_up_proj", <<"gate_proj", "up_proj">>>>
    [] IsQkv(words) -> <<"qkv_proj", <<"q_proj", "k_proj", "v_proj">>>>
    [] OTHER -> <<"", <<"">>>>

\* The number of an expert goes from the end of the name before the projection.
ExpertFirst(words) ==
  LET n == Len(words)
  IN  IF words[n] # "E" THEN words
      ELSE SubSeq(words, 1, n - 3) \o <<"E", words[n - 2], words[n - 1]>>

MergedName(key, rank) ==
  Name(IF key.layer = NoLayer THEN NoLayer ELSE key.layer + LayerStart(rank),
       key.expert, ExpertFirst(ReplaceName(key.words)))

Merged(rank) ==
  LET weights == Loaded(rank)
      Split(key) ==
        LET name == MergedName(key, rank)
            rows == SplitTensors(key.words, weights[key])
            words == SplitNames(key.words)
        IN  {<<[name EXCEPT !.words = ReplaceAll(@, words[1], words[2][i])], rows[i]>> :
               i \in DOMAIN rows}
      all == UNION {Split(key) : key \in DOMAIN weights}
  IN  [name \in {w[1] : w \in all} |-> (CHOOSE w \in all : w[1] = name)[2]]

\* The files of a rank: its names split into as many chunks as it has files.
SavesPerLayer == IF model.layers < ManyLayers THEN 1 ELSE 2
Saves(rank) == Shards(model.layers, size)[rank + 1] * SavesPerLayer
Chunk(names, n, i) ==
  LET all == FoldSet(LAMBDA name, keys : Append(keys, name), <<>>, names)
      short == Len(all) \div n
      long == Len(all) % n
      End(j) == (j * short) + Min({j, long})
  IN  {all[k] : k \in (End(i) + 1)..End(i + 1)}
\* Mutation: files are counted from the first layer for every rank.
SaveIdxLocal(rank, i) == i
SaveIdx(rank, i) == (LayerStart(rank) * SavesPerLayer) + i

-----------------------------------------------------------------------------
Nothing == [rank \in {} |-> <<>>]
Fresh(n) == [rank \in RanksOf(n) |-> <<>>]

\* An adapter is trained on some projections: peft gives their names another
\* form and adds the two weights of the adapter.
Adapted(name) == model.lora /\ Holds(name.words, <<"self_attn", "o_proj", "weight">>)
Adapters == {"lora_A", "lora_B"}
LoraName(name, part) ==
  [name EXCEPT !.words = <<"base_model", "model">> \o SubSeq(@, 1, Len(@) - 1) \o part]
PeftNames(name) ==
  IF ~model.lora THEN {<<name, Original(name)>>}
  ELSE IF ~Adapted(name) THEN {<<LoraName(name, <<name.words[Len(name.words)]>>), Original(name)>>}
  ELSE {<<LoraName(name, <<"base_layer", "weight">>), Original(name)>>}
         \cup {<<LoraName(name, <<a, "default", "weight">>), <<<<name, a>>>>>> : a \in Adapters}

\* What an FSDP rank has saved: its chunk of the rows of every weight.
RankFile(rank) ==
  LET all == UNION {PeftNames(name) : name \in HfNames}
      column == rank % size
      Share(rows) ==
        LET len == (Len(rows) + size - 1) \div size
        IN  SubSeq(rows, (column * len) + 1, Min({(column + 1) * len, Len(rows)}))
  IN  [name \in {w[1] : w \in all} |-> Share((CHOOSE w \in all : w[1] = name)[2])]

Init ==
  /\ \E a \in Archs, l \in Layers, lora \in BOOLEAN :
       model = [arch |-> a, layers |-> l, lora |-> lora]
  /\ \/ /\ ~model.lora /\ stage = "convert"
        /\ mesh \in {<<1, n>> : n \in Counts}
     \/ stage = "load" /\ mesh \in Meshes
  /\ held = Fresh(mesh[2]) /\ next = [rank \in RanksOf(mesh[2]) |-> 0]
  /\ ckpt = Nothing /\ files = Nothing /\ index = Nothing
  /\ starts = 1

AllHold == \A rank \in DOMAIN held : held[rank] # <<>>

\* sorted(shards_strategy)[0] of an empty list.
NoStrategy ==
  /\ stage \in {"convert", "merge"} /\ ~HasShards(model.layers, size)
  /\ stage' = "failed"
  /\ UNCHANGED <<model, mesh, held, next, ckpt, files, index, starts>>

Convert(rank) ==
  /\ stage = "convert" /\ HasShards(model.layers, size)
  /\ held[rank] = <<>>
  /\ held' = [held EXCEPT ![rank] = Converted(rank)]
  /\ UNCHANGED <<model, mesh, stage, next, ckpt, files, index, starts>>

StartMerge(n) ==
  /\ stage' = "merge" /\ mesh' = <<1, n>>
  /\ held' = Fresh(n) /\ next' = [rank \in RanksOf(n) |-> 0]

SaveCheckpoint ==
  /\ stage = "convert" /\ AllHold
  /\ LET Keys(rank) == {Global(key, rank) : key \in DOMAIN held[rank]}
         OfRank(key) == CHOOSE rank \in DOMAIN held : key \in Keys(rank)
         Held(key, rank) == CHOOSE k \in DOMAIN held[rank] : Global(k, rank) = key
     IN  ckpt' = [key \in UNION {Keys(r) : r \in DOMAIN held} |->
                    held[OfRank(key)][Held(key, OfRank(key))]]
  /\ \E n \in Counts : StartMerge(n)
  /\ UNCHANGED <<model, files, index, starts>>

Merge(rank) ==
  /\ stage = "merge" /\ HasShards(model.layers, size)
  /\ held[rank] = <<>>
  /\ held' = [held EXCEPT ![rank] = Merged(rank)]
  /\ UNCHANGED <<model, mesh, stage, next, ckpt, files, index, starts>>

WithFile(i, weights) ==
  files' = [j \in DOMAIN files \cup {i} |-> IF j = i THEN weights ELSE files[j]]

\* save_pretrained, of the only rank.
SaveModel(weights) ==
  /\ WithFile(0, weights)
  /\ index' = [name \in DOMAIN weights |-> 0]

SaveAlone ==
  /\ stage = "merge" /\ size = 1 /\ AllHold
  /\ SaveModel(held[0])
  /\ stage' = "merged"
  /\ UNCHANGED <<model, mesh, held, next, ckpt, starts>>

SaveFile(rank) ==
  /\ stage = "merge" /\ size > 1
  /\ held[rank] # <<>> /\ next[rank] < Saves(rank)
  /\ LET chunk == Chunk(DOMAIN held[rank], Saves(rank), next[rank])
     IN  WithFile(SaveIdx(rank, next[rank]), [name \in chunk |-> held[rank][name]])
  /\ next' = [next EXCEPT ![rank] = @ + 1]
  /\ UNCHANGED <<model, mesh, stage, held, ckpt, index, starts>>

\* Mutation: the first rank does not wait for the others.
GatheredAlone == held[0] # <<>> /\ next[0] = Saves(0)
\* all_gather_object: every rank has saved its files.
Gathered == \A rank \in RanksOf(size) : held[rank] # <<>> /\ next[rank] = Saves(rank)

WriteIndex ==
  /\ stage = "merge" /\ size > 1 /\ Gathered
  /\ LET Of(rank, i) ==
           [name \in Chunk(DOMAIN held[rank], Saves(rank), i) |-> SaveIdx(rank, i)]
         maps == UNION {{Of(r, i) : i \in RanksOf(next[r])} : r \in RanksOf(size)}
     IN  index' = [name \in UNION {DOMAIN m : m \in maps} |->
                     (CHOOSE m \in maps : name \in DOMAIN m)[name]]
  /\ stage' = "merged"
  /\ UNCHANGED <<model, mesh, held, next, ckpt, files, starts>>

\* The ranks die and are started again, as many of them or not.
MergeAgain ==
  /\ stage = "merge" /\ starts < MaxMerges
  /\ starts' = starts + 1
  /\ \E n \in Counts : StartMerge(n)
  /\ UNCHANGED <<model, ckpt, files, index>>

-----------------------------------------------------------------------------
(***************************************************************************)
(* FSDPModelMerger                                                         *)
(***************************************************************************)
\* Mutation: the shards in the order in which the threads have read them.
PlaceInTurn(rank) == Cardinality({r \in DOMAIN held : held[r] # <<>>})
\* model_state_dict_lst[rank].
Place(rank) == rank

\* A thread of _load_and_merge_state_dicts; "next" marks what it has read.
LoadShard(rank) ==
  /\ stage = "load" /\ next[rank] = 0
  /\ held' = [held EXCEPT ![Place(rank)] = RankFile(rank)]
  /\ next' = [next EXCEPT ![rank] = 1]
  /\ UNCHANGED <<model, mesh, stage, ckpt, files, index, starts>>

\* save_lora_adapter: the adapter apart, the others under the model's names.
IsLora(name) == \E a \in Adapters : Holds(name.words, <<a>>)
AdapterFile == -1
AdapterKey(name) == [name EXCEPT !.words = ReplaceFirstSubSeq(<<>>, <<"default">>, @)]
BaseKey(name) ==
  [name EXCEPT !.words =
     ReplaceFirstSubSeq(<<>>, <<"base_layer">>, ReplaceFirstSubSeq(<<>>, <<"base_model", "model">>, @))]
Renamed(weights, keys) ==
  [key \in Range(keys) |-> weights[CHOOSE n \in DOMAIN keys : keys[n] = key]]

MergeShards ==
  /\ stage = "load" /\ \A rank \in DOMAIN next : next[rank] = 1
  /\ LET weights == [name \in DOMAIN held[0] |->
                       FlattenSeq([i \in 1..size |-> held[i - 1][name]])]
         lora == {name \in DOMAIN weights : IsLora(name)}
         base == IF lora = {} THEN weights
                 ELSE Renamed(weights, [n \in DOMAIN weights \ lora |-> BaseKey(n)])
     IN  /\ files' = [f \in {0} \cup (IF lora = {} THEN {} ELSE {AdapterFile}) |->
                        IF f = 0 THEN base
                        ELSE Renamed(weights, [n \in lora |-> AdapterKey(n)])]
         /\ index' = [name \in DOMAIN base |-> 0]
  /\ stage' = "merged"
  /\ UNCHANGED <<model, mesh, held, next, ckpt, starts>>

Next ==
  \/ NoStrategy \/ SaveCheckpoint \/ SaveAlone \/ WriteIndex \/ MergeAgain \/ MergeShards
  \/ \E rank \in DOMAIN held :
       Convert(rank) \/ Merge(rank) \/ SaveFile(rank) \/ LoadShard(rank)

Spec == Init /\ [][Next]_vars

-----------------------------------------------------------------------------
TypeOK ==
  /\ model \in [arch : Archs, layers : Layers, lora : BOOLEAN]
  /\ stage \in {"convert", "merge", "load", "merged", "failed"}
  /\ DOMAIN held = RanksOf(size) /\ DOMAIN next = DOMAIN held
  /\ starts \in 1..MaxMerges

(* What is read by the index of a merged model is the model that was       *)
(* converted or trained: every weight under its name and nothing else, in  *)
(* the file the index names, its rows in their order.  It takes that the   *)
(* converter and the merger, which are written apart, agree on names,      *)
(* layers, groups of heads and halves, with any two numbers of ranks, and  *)
(* that no rank is waited for in vain after a merge that died.             *)
MergedIsOriginal ==
  stage = "merged" =>
    /\ DOMAIN index = HfNames
    /\ \A name \in HfNames :
         /\ index[name] \in DOMAIN files /\ name \in DOMAIN files[index[name]]
         /\ files[index[name]][name] = Original(name)

(* The adapter of a merged FSDP checkpoint has both weights of every       *)
(* projection it was trained on, under the names peft reads.               *)
AdapterIsWhole ==
  stage = "merged" /\ model.lora =>
    files[AdapterFile] =
      [key \in {LoraName(n, <<a, "weight">>) : n \in {m \in HfNames : Adapted(m)}, a \in Adapters} |->
         LET n == CHOOSE m \in HfNames : \E a \in Adapters : LoraName(m, <<a, "weight">>) = key
             a == CHOOSE b \in Adapters : LoraName(n, <<b, "weight">>) = key
         IN  <<<<n, a>>>>]

(* Not so: a model with at least as many layers as there are ranks is      *)
(* given a place on them (the ValueError of get_dynamic_pipeline_shards).  *)
NeverFails == stage # "failed"
=============================================================================
