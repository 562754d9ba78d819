------------------------------ MODULE DecoderPlan ------------------------------
(***************************************************************************)
(* The decoder's plans (parametric.rs in crates/hologram-ai-safetensors):  *)
(* one recipe, emitted as one graph or cut into stages, over the whole     *)
(* window or over carried K/V (opt/decode_plan.rs), its weights bound by   *)
(* label and moved onto quantized artifacts (staged.rs, lower/quantize.rs).*)
(*                                                                         *)
(* An activation is a sequence of terms, one per position; a weight is an  *)
(* interval of the rows of a tensor.  Heads, batch and layout are left     *)
(* out, and so is the substrate's arithmetic.                              *)
(***************************************************************************)
EXTENDS GraphIR

\* A tensor is <<name, layer>>; what belongs to no layer has Model for one.
Model == -1
Embed == <<"embed_tokens", Model>>
FinalNorm == <<"norm", Model>>
LmHead == <<"lm_head", Model>>
Port(name) == <<name, Model>>

HiddenPort == Port("hidden_states")
ResidualPort == Port("hidden_residual")
SharedPorts == {Port(n) : n \in {"rope_cos_q", "rope_sin_q", "rope_cos_k", "rope_sin_k",
                                 "decode_mask", "decode_pos"}}

\* With hidden size, head size and MLP width one: two query heads, one K/V head.
RowsOf == [q_proj |-> 2, qkv_proj |-> 4, gate_up_proj |-> 2]
Rows(r, t) == IF t \in {Embed, LmHead} THEN r.vocab
              ELSE IF t[1] \in DOMAIN RowsOf THEN RowsOf[t[1]] ELSE 1
elem_bytes(r) == IF r.narrow THEN 2 ELSE 4

BiasOf == [q_proj |-> "q_proj.bias", k_proj |-> "k_proj.bias", v_proj |-> "v_proj.bias",
           o_proj |-> "o_proj.bias", gate_proj |-> "gate_proj.bias",
           up_proj |-> "up_proj.bias", down_proj |-> "down_proj.bias"]

\* A recipe r: arch, layers, block (layers per stage), vocab, narrow (stored
\* in two bytes), biased (attention_bias), mlp_biased, manifest (tensors),
\* twin (lm_head has the embedding's bytes), staged, int8.
kappa(r, t) == IF r.twin /\ t = LmHead THEN Embed ELSE t

-----------------------------------------------------------------------------
(* Families.                                                               *)

Family(bias, fused_qkv, fused_mlp, qk_norm) ==
  [bias |-> bias, fused_qkv |-> fused_qkv, fused_mlp |-> fused_mlp, qk_norm |-> qk_norm]

\* MistralForCausalLM builds as Llama does.
known_families == [Llama |-> Family(FALSE, FALSE, FALSE, FALSE),
                   Qwen2 |-> Family(TRUE, FALSE, FALSE, FALSE),
                   Qwen3 |-> Family(FALSE, FALSE, FALSE, TRUE),
                   Phi3 |-> Family(FALSE, TRUE, TRUE, FALSE)]

Names(r) == {t[1] : t \in r.manifest}

derive_family(r) == Family("q_proj.bias" \in Names(r), "qkv_proj" \in Names(r),
                           "gate_up_proj" \in Names(r), "q_norm" \in Names(r))
Derivable(r) == /\ ("q_norm" \in Names(r)) = ("k_norm" \in Names(r))
                /\ Names(r) \cap {"qkv_proj", "q_proj"} # {}
                /\ Names(r) \cap {"gate_up_proj", "gate_proj"} # {}

family(r) == IF r.arch \in DOMAIN known_families THEN known_families[r.arch] ELSE derive_family(r)

\* prepare
Prepared(r) == /\ r.arch \in DOMAIN known_families \/ Derivable(r)
               /\ \E t \in r.manifest : t[2] # Model
               /\ Max({t[2] : t \in r.manifest}) + 1 = r.layers

-----------------------------------------------------------------------------
(* The emitters.                                                           *)

OpNode(op, in, out) == [op |-> op, in |-> in, out |-> out]

\* A weight stored narrow is widened by a Cast.
View(r, w) == IF r.narrow THEN <<"f32", w>> ELSE w
add_weight_f32(r, w) == IF r.narrow THEN <<OpNode(<<"Cast">>, <<w>>, View(r, w))>> ELSE <<>>

add_linear_layer(x, w, out) ==
  <<OpNode(<<"Transpose">>, <<w>>, <<"transposed", w>>),
    OpNode(<<"MatMul">>, <<x, <<"transposed", w>>>>, out)>>

add_row_slice(fused, from, rows, out) == <<OpNode(<<"Slice", from, rows>>, <<fused>>, out)>>

\* A bias the manifest carries is added, expected or not.
Biases(r, l, names) == {<<BiasOf[n], l>> : n \in names}
add_projection(r, l, name, x, out) ==
  LET w == <<name, l>>
      bias == <<BiasOf[name], l>>
  IN add_weight_f32(r, w)
     \o (IF bias \in r.manifest
           THEN add_linear_layer(x, View(r, w), <<"matmul", out>>)
                \o add_weight_f32(r, bias)
                \o <<OpNode(<<"Add", "bias">>, <<<<"matmul", out>>, View(r, bias)>>, out)>>
           ELSE add_linear_layer(x, View(r, w), out))

Norm(r, w, x, out) == add_weight_f32(r, w) \o <<OpNode(<<"RmsNorm">>, <<x, View(r, w)>>, out)>>

\* The fused tensor's rows: queries, keys, values.
QkvNodes(r, l, x) ==
  LET fused == View(r, <<"qkv_proj", l>>)
  IN IF family(r).fused_qkv
       THEN add_weight_f32(r, <<"qkv_proj", l>>)
            \o add_row_slice(fused, 0, 2, <<"q_weight", l>>)
            \o add_row_slice(fused, 2, 1, <<"k_weight", l>>)
            \o add_row_slice(fused, 3, 1, <<"v_weight", l>>)
            \o add_linear_layer(x, <<"q_weight", l>>, <<"q_flat", l>>)
            \o add_linear_layer(x, <<"k_weight", l>>, <<"k_flat", l>>)
            \o add_linear_layer(x, <<"v_weight", l>>, <<"v_flat", l>>)
       ELSE add_projection(r, l, "q_proj", x, <<"q_flat", l>>)
            \o add_projection(r, l, "k_proj", x, <<"k_flat", l>>)
            \o add_projection(r, l, "v_proj", x, <<"v_flat", l>>)

AttentionNodes(r, l) ==
  LET gqa(q, k) ==
        <<OpNode(<<"GroupedQueryAttention">>, <<q, k, <<"v_flat", l>>>>, <<"attn_out", l>>)>>
  IN IF family(r).qk_norm
       THEN Norm(r, <<"q_norm", l>>, <<"q_flat", l>>, <<"q_normed", l>>)
            \o Norm(r, <<"k_norm", l>>, <<"k_flat", l>>, <<"k_normed", l>>)
            \o gqa(<<"q_normed", l>>, <<"k_normed", l>>)
       ELSE gqa(<<"q_flat", l>>, <<"k_flat", l>>)

MlpNodes(r, l, x) ==
  LET fused == View(r, <<"gate_up_proj", l>>)
  IN (IF family(r).fused_mlp
        THEN add_weight_f32(r, <<"gate_up_proj", l>>)
             \o add_row_slice(fused, 0, 1, <<"gate_weight", l>>)
             \o add_row_slice(fused, 1, 1, <<"up_weight", l>>)
             \o add_linear_layer(x, <<"gate_weight", l>>, <<"gate_out", l>>)
             \o add_linear_layer(x, <<"up_weight", l>>, <<"up_out", l>>)
        ELSE add_projection(r, l, "gate_proj", x, <<"gate_out", l>>)
             \o add_projection(r, l, "up_proj", x, <<"up_out", l>>))
     \o <<OpNode(<<"Silu">>, <<<<"gate_out", l>>>>, <<"silu_out", l>>),
          OpNode(<<"Mul">>, <<<<"silu_out", l>>, <<"up_out", l>>>>, <<"mul_out", l>>)>>
     \o add_projection(r, l, "down_proj", <<"mul_out", l>>, <<"down_out", l>>)

\* A layer up to its closing residual add.
emit_layer_core(r, l, current) ==
  Norm(r, <<"input_layernorm", l>>, current, <<"attn_norm", l>>)
  \o QkvNodes(r, l, <<"attn_norm", l>>)
  \o AttentionNodes(r, l)
  \o add_projection(r, l, "o_proj", <<"attn_out", l>>, <<"o_out", l>>)
  \o <<OpNode(<<"Add">>, <<current, <<"o_out", l>>>>, <<"res1", l>>)>>
  \o Norm(r, <<"post_attention_layernorm", l>>, <<"res1", l>>, <<"mlp_norm", l>>)
  \o MlpNodes(r, l, <<"mlp_norm", l>>)

seal_layer(l, residual, down) == <<OpNode(<<"Add">>, <<residual, down>>, <<"res2", l>>)>>

\* The emitters' own refusals, but for the size of an F32 head.
Emits(r) ==
  \A l \in 0 .. r.layers - 1 :
    LET qkv_bias == family(r).bias \/ r.biased
        expected == (IF qkv_bias THEN {"q_proj", "k_proj", "v_proj"} ELSE {})
                      \cup (IF r.biased THEN {"o_proj"} ELSE {})
                      \cup (IF r.mlp_biased THEN {"gate_proj", "up_proj", "down_proj"} ELSE {})
    IN /\ Biases(r, l, expected) \subseteq r.manifest
       /\ family(r).fused_qkv => ~qkv_bias /\ <<"qkv_proj", l>> \in r.manifest
       /\ family(r).fused_mlp => ~r.mlp_biased /\ <<"gate_up_proj", l>> \in r.manifest

\* Rows are gathered as stored; only they are widened.
emit_embedding(r) ==
  IF r.narrow THEN <<OpNode(<<"Gather">>, <<Embed, Port("input_ids")>>, <<"embedded", Model>>),
                     OpNode(<<"Cast">>, <<<<"embedded", Model>>>>, HiddenPort)>>
              ELSE <<OpNode(<<"Gather">>, <<Embed, Port("input_ids")>>, HiddenPort)>>

\* A plan p: decode (over carried K/V, else the whole window), chunk (its
\* positions), all (logits at every position).
Gathers(p) == ~p.all /\ ~(p.decode /\ p.chunk = 1)
gather_last_position(p) ==
  LET normed == <<"norm_out", Model>>
  IN IF Gathers(p) THEN <<OpNode(<<"Pick">>, <<normed, Port("last_pos")>>, Port("normed_states"))>>
                   ELSE <<OpNode(<<"Same">>, <<normed>>, Port("normed_states"))>>

head_source(r) == IF LmHead \in r.manifest THEN LmHead ELSE Embed

FinalNormNodes(r, p, current) ==
  Norm(r, FinalNorm, current, <<"norm_out", Model>>) \o gather_last_position(p)

HeadNodes(r, out) ==
  add_weight_f32(r, head_source(r))
  \o add_linear_layer(Port("normed_states"), View(r, head_source(r)), out)

emit_head(r, p, current) == FinalNormNodes(r, p, current) \o HeadNodes(r, Port("logits"))

-----------------------------------------------------------------------------
(* The partition.                                                          *)

\* A stage: its input ports, nodes, output ports (each with its tensor) and
\* the byte range it reads of the head's tensor (kappa_range), <<>> for none.
Stage(in, nodes, out, range) == [in |-> in, nodes |-> nodes, out |-> out, range |-> range]

LastPos(p) == IF Gathers(p) THEN {Port("last_pos")} ELSE {}

layer_param_elements == 9
head_chunk_rows(r) == Min({Max({1, layer_param_elements * r.block}), r.vocab})
head_chunks(r) == (r.vocab + head_chunk_rows(r) - 1) \div head_chunk_rows(r)

Layers(r, start, end, current) ==
  Concatenated([k \in 1 .. end - start |->
    LET l == start + k - 1
    IN emit_layer_core(r, l, IF k = 1 THEN current ELSE <<"res2", l - 1>>)
       \o IF l + 1 = r.layers THEN <<>> ELSE seal_layer(l, <<"res1", l>>, <<"down_out", l>>)])

EmbeddingStage(r) == Stage({Port("input_ids")}, emit_embedding(r), HiddenPort :> HiddenPort, <<>>)

\* The last layer's closing add is left to the head.
LayerStage(r, start) ==
  LET end == Min({start + r.block, r.layers})
  IN Stage({HiddenPort}, Layers(r, start, end, HiddenPort),
           IF end = r.layers
             THEN (HiddenPort :> <<"res1", end - 1>>) @@ (ResidualPort :> <<"down_out", end - 1>>)
             ELSE HiddenPort :> <<"res2", end - 1>>, <<>>)

Sealed(r) == seal_layer(r.layers - 1, HiddenPort, ResidualPort)

HeadStage(r, p) ==
  Stage({HiddenPort, ResidualPort} \cup LastPos(p),
        Sealed(r) \o emit_head(r, p, <<"res2", r.layers - 1>>),
        Port("logits") :> Port("logits"), <<>>)

RowsOfChunk(r, c) == Min({head_chunk_rows(r), r.vocab - c * head_chunk_rows(r)})

\* Chunk 0 seals and norms; each appends its slice; the last emits logits.
HeadChunk(r, p, c) ==
  LET chunk == <<"logits_chunk", c>>
      normed == Port("normed_states")
      acc == Port("logits_acc")
      joined == IF c = 0 THEN chunk ELSE <<"joined", c>>
      offset == c * head_chunk_rows(r) * elem_bytes(r)
  IN Stage(IF c = 0 THEN {HiddenPort, ResidualPort} \cup LastPos(p) ELSE {normed, acc},
           (IF c = 0 THEN Sealed(r) \o FinalNormNodes(r, p, <<"res2", r.layers - 1>>) ELSE <<>>)
             \o HeadNodes(r, chunk)
             \o (IF c = 0 THEN <<>> ELSE <<OpNode(<<"Concat">>, <<acc, chunk>>, joined)>>),
           IF c + 1 = head_chunks(r) THEN Port("logits") :> joined
                                     ELSE (normed :> normed) @@ (acc :> joined),
           <<offset, RowsOfChunk(r, c) * elem_bytes(r)>>)

-----------------------------------------------------------------------------
(* Attention over carried K/V.                                             *)

\* Fault: layers are numbered from the start of their own stage.
StageLayer(layer_base, order) == order

LayerOf(layer_base, order) == layer_base + order

FusedNodes(stage) == {i \in DOMAIN stage.nodes : stage.nodes[i].op[1] = "GroupedQueryAttention"}

\* The rotation is at the positions the tables name, the scale is folded into
\* the query, and the updated caches leave through the carried ports.
DecodeNodes(l, n) ==
  <<OpNode(<<"Rope">>, <<n.in[1], Port("rope_cos_q"), Port("rope_sin_q")>>, <<"q_r", l>>),
    OpNode(<<"Rope">>, <<n.in[2], Port("rope_cos_k"), Port("rope_sin_k")>>, <<"k_r", l>>),
    OpNode(<<"Scale">>, <<<<"q_r", l>>>>, <<"q_scaled", l>>),
    OpNode(<<"DecodeAttention">>,
       <<<<"q_scaled", l>>, <<"past_k", l>>, <<"past_v", l>>, <<"k_r", l>>, n.in[3],
         Port("decode_mask")>>, n.out),
    OpNode(<<"KvCacheWrite">>, <<<<"past_k", l>>, <<"k_r", l>>, Port("decode_pos")>>, <<"k_upd", l>>),
    OpNode(<<"KvCacheWrite">>, <<<<"past_v", l>>, n.in[3], Port("decode_pos")>>, <<"v_upd", l>>)>>

rewrite_decode_attention(stage, layer_base) ==
  LET layer(i) == LayerOf(layer_base, Cardinality({j \in FusedNodes(stage) : j < i}))
      layers == {layer(i) : i \in FusedNodes(stage)}
      carried(name) == {<<name, l>> : l \in layers}
  IN [stage EXCEPT
        !.in = @ \cup SharedPorts \cup carried("past_k") \cup carried("past_v"),
        !.nodes = Concatenated([i \in DOMAIN @ |-> IF i \in FusedNodes(stage)
                                                   THEN DecodeNodes(layer(i), @[i])
                                                   ELSE <<@[i]>>]),
        !.out = [q \in carried("k_new") |-> <<"k_upd", q[2]>>]
                  @@ [q \in carried("v_new") |-> <<"v_upd", q[2]>>] @@ @]

OverCache(p, stage, layer_base) ==
  IF p.decode THEN rewrite_decode_attention(stage, layer_base) ELSE stage

\* build_parametric_graph_from_manifest, build_chunk_graph_with: one graph.
Monolith(r, p) ==
  LET last == r.layers - 1
  IN OverCache(p, Stage({Port("input_ids")} \cup LastPos(p),
                        emit_embedding(r) \o Layers(r, 0, r.layers, HiddenPort)
                          \o seal_layer(last, <<"res1", last>>, <<"down_out", last>>)
                          \o emit_head(r, p, <<"res2", last>>),
                        Port("logits") :> Port("logits"), <<>>), 0)

assemble_stage_graphs(r, p) ==
  <<EmbeddingStage(r)>>
  \o [s \in 1 .. (r.layers + r.block - 1) \div r.block |->
        OverCache(p, LayerStage(r, (s - 1) * r.block), (s - 1) * r.block)]
  \o IF head_chunks(r) = 1 THEN <<HeadStage(r, p)>>
     ELSE [c \in 1 .. head_chunks(r) |-> HeadChunk(r, p, c - 1)]

PlanGraphs(r, p) == IF r.staged THEN assemble_stage_graphs(r, p) ELSE <<Monolith(r, p)>>
===============================================================================
