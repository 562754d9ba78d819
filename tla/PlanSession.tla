------------------------------ MODULE PlanSession ------------------------------
(***************************************************************************)
(* A decoder's plans at work: labels bound to the stages and weights moved *)
(* onto quantized artifacts (staged.rs, lower/quantize.rs), stages walked  *)
(* with their ports routed by name (StagedRunner), and the passes of a     *)
(* decode session over one carried cache (decode.rs).                      *)
(*                                                                         *)
(* The text is fixed: the token at position n is n, and 0 pads.  A cache   *)
(* row past the realized length is Stale whatever it holds.                *)
(***************************************************************************)
EXTENDS DecoderPlan

CONSTANTS PlanRecipes,  \* the models
          MaxText,      \* realized positions
          PlanBuckets,  \* rungs of the window ladder
          PlanChunk     \* width of the seeder and of the verify runner

VARIABLES recipe,    \* the model
          built,       \* "no", "refused" or "yes": are its plans compiled?
          artifacts,   \* keys of the quantized artifacts its plans are compiled onto
          retired,     \* labels whose wide tensor is let go
          bound,       \* labels its compiled plans bind wide
          realized,    \* realized positions
          rows,        \* per layer, the carried cache
          answers      \* the last pass's logits: position asked, what was read

plan_vars == <<recipe, built, artifacts, retired, bound, realized, rows, answers>>

-----------------------------------------------------------------------------
(* Binding and quantization.                                               *)

Read(stage) == UNION {ToSet(stage.nodes[i].in) : i \in DOMAIN stage.nodes}

\* External params of a stage: the manifest's tensors it reads.
Params(r, stage) == Read(stage) \cap r.manifest

\* bind_manifest_kappas: no tensor of the manifest is read by no stage.
AllConsumed(r, stages) == r.manifest \subseteq UNION {Read(stages[s]) : s \in DOMAIN stages}

\* Lowering refuses a tensor that nothing defines.
Lowers(r, stage) ==
  Read(stage) \subseteq
    r.manifest \cup stage.in \cup {stage.nodes[i].out : i \in DOMAIN stage.nodes}

\* The rows a stage reads of a weight, and the key of its artifact.
RangeOf(stage, r, w) == IF w = head_source(r) THEN stage.range ELSE <<>>
Binding(r, stage, w) ==
  LET range == RangeOf(stage, r, w)
      size == elem_bytes(r)
  IN [of |-> kappa(r, w), tier |-> "wide", turned |-> FALSE,
      from |-> IF range = <<>> THEN 0 ELSE range[1] \div size,
      rows |-> IF range = <<>> THEN Rows(r, w) ELSE range[2] \div size]
quant_key(r, stage, w) == <<kappa(r, w)>> \o RangeOf(stage, r, w)

\* MatMul(x, Transpose(Cast?(weight))): the weights of node i so read.
Matched(r, stage, i) ==
  LET n == stage.nodes
      reads(t, op) == {n[j].in[1] : j \in {m \in DOMAIN n : n[m].out = t /\ n[m].op = <<op>>}}
      turned == reads(n[i].in[2], "Transpose")
      cast == UNION {reads(t, "Cast") : t \in turned}
  IN IF n[i].op = <<"MatMul">> THEN (turned \cup cast) \cap r.manifest ELSE {}

transposed_external_matmul_weights(r, stage) ==
  UNION {Matched(r, stage, i) : i \in DOMAIN stage.nodes}

\* A Cast or Transpose that nothing reads any more goes.
Pruned(nodes, outputs) ==
  Through(LAMBDA kept, n :
            IF n.op \in {<<"Cast">>, <<"Transpose">>} /\ n.out \notin kept.read THEN kept
            ELSE [nodes |-> <<n>> \o kept.nodes, read |-> kept.read \cup ToSet(n.in)],
          [nodes |-> <<>>, read |-> outputs], Reverse(nodes)).nodes

\* The artifact is stored in the matmul's orientation and read before it.
Dequantized(r, stage, n, quantized) ==
  IF quantized = {} THEN <<n>>
  ELSE LET w == CHOOSE x \in quantized : TRUE
           artifact == [Binding(r, stage, w) EXCEPT !.tier = "int8", !.turned = TRUE]
       IN <<OpNode(<<"Dequantize", artifact>>, <<>>, <<"deq", w>>), [n EXCEPT !.in[2] = <<"deq", w>>]>>
quantize_external_matmul_weights(r, stage, quant) ==
  [stage EXCEPT !.nodes =
     Pruned(Concatenated([i \in DOMAIN @ |->
              Dequantized(r, stage, @[i], {w \in Matched(r, stage, i) : quant_key(r, stage, w) \in quant})]),
            {stage.out[q] : q \in DOMAIN stage.out})]

WideLabels(r, stage) == {kappa(r, w) : w \in Params(r, stage)}

\* The labels a stage no longer binds once its matches are rewritten.
Rewritable(r, stage, whole) ==
  {kappa(r, w) : w \in whole}
    \ WideLabels(r, quantize_external_matmul_weights(r, stage, {quant_key(r, stage, w) : w \in whole}))
quantizable_external_weights(r, stage) ==
  Rewritable(r, stage, {w \in transposed_external_matmul_weights(r, stage) :
                          RangeOf(stage, r, w) = <<>>})

WholeWindow == [decode |-> FALSE, chunk |-> 0, all |-> FALSE]
DecodePlan(chunk) == [decode |-> TRUE, chunk |-> chunk, all |-> FALSE]
VerifyPlan(chunk) == [decode |-> TRUE, chunk |-> chunk, all |-> TRUE]

\* Eligible in a stage and kept wide by none.
LetGo(stages) == UNION {s.eligible : s \in stages} \ UNION {s.wide \ s.eligible : s \in stages}
quantizable_weights(r) ==
  LetGo({[wide |-> WideLabels(r, s), eligible |-> quantizable_external_weights(r, s)] :
           s \in ToSet(PlanGraphs(r, WholeWindow))})

head_quant_chunks(r) ==
  UNION {{quant_key(r, s, w) : w \in {v \in transposed_external_matmul_weights(r, s) :
                                         RangeOf(s, r, v) # <<>>}}
           : s \in ToSet(PlanGraphs(r, WholeWindow))}

QuantizedStages(r, stages, quant) ==
  [s \in DOMAIN stages |-> quantize_external_matmul_weights(r, stages[s], quant)]

\* compile_stages_with, bind_quantize_compile
CompiledStages(r, p, quant) ==
  QuantizedStages(r, PlanGraphs(r, p), quant)

Plans == {WholeWindow, DecodePlan(1), DecodePlan(PlanChunk), VerifyPlan(PlanChunk)}

\* Only the staged path refuses a tensor that no graph reads.
Accepted(r) ==
  /\ Prepared(r) /\ Emits(r)
  /\ \A p \in Plans : \A stages \in {PlanGraphs(r, p)} :
       /\ r.staged => AllConsumed(r, stages)
       /\ \A s \in DOMAIN stages : Lowers(r, stages[s])

-----------------------------------------------------------------------------
(* Execution: what the emitted nodes compute, position by position.        *)

Product(x, w) == <<"Product", x, w.of, w.from, w.rows, w.tier>>
\* A value per position, computed once.
Tupled(s) == s \o <<>>
Each(x, f(_)) == Tupled([i \in DOMAIN x |-> f(x[i])])

\* Two runs of rows of one product, end to end, are one.
Joined(a, b) ==
  IF a[2] = b[2] /\ a[3] = b[3] /\ a[4] + a[5] = b[4] /\ a[6] = b[6]
    THEN <<"Product", a[2], a[3], a[4], a[5] + b[5], a[6]>>
    ELSE <<"Concat", a, b>>

Rotated(x, heads, position) == <<"Rope", x, heads, position>>

\* A query over the keys it sees, in order, each with its value.
Attended(q, seen) == <<"Attention", q, seen>>

\* The tables of one pass must agree on the heads and on the position.
RotatedBy(x, cos, sin) ==
  IF cos[1] = "cos" /\ sin[1] = "sin" /\ Tail(cos) = Tail(sin)
    THEN Rotated(x, cos[2], cos[3]) ELSE <<"mixed tables">>

Visible(mask, columns) ==
  LET seen == SelectSeq([c \in DOMAIN columns |-> c], LAMBDA c : mask[c])
  IN [n \in DOMAIN seen |-> columns[seen[n]]]

Pairs(k, v) == [c \in DOMAIN k |-> <<k[c], v[c]>>]

\* The ring write: row pos on takes the new rows (external; past the end the
\* bucket keeps none of them here).
Written(past, new, pos) ==
  [c \in DOMAIN past |-> IF c - pos \in DOMAIN new THEN new[c - pos] ELSE past[c]]

\* An op whose result has a term per position.
RowsOp(op, a) ==
  CASE op[1] = "Gather" -> Each(a[2], LAMBDA id : <<"embedding", a[1].of, id>>)
    [] op[1] = "Pick" -> <<a[1][a[2][1] + 1]>>
    [] op[1] = "RmsNorm" -> Each(a[1], LAMBDA x : <<"RmsNorm", x, a[2].of>>)
    [] op[1] = "MatMul" -> Each(a[1], LAMBDA x : IF a[2].turned THEN Product(x, a[2])
                                                                ELSE <<"mismatched">>)
    [] op[1] = "Concat" -> [i \in DOMAIN a[1] |-> Joined(a[1][i], a[2][i])]
    [] op = <<"Add", "bias">> -> Each(a[1], LAMBDA x : <<"Add", {x, <<"bias", a[2].of>>}>>)
    [] op[1] \in {"Add", "Mul"} /\ Len(op) = 1 -> [i \in DOMAIN a[1] |-> <<op[1], {a[1][i], a[2][i]}>>]
    [] op[1] \in {"Silu", "Scale"} -> Each(a[1], LAMBDA x : <<op[1], x>>)
    [] op[1] = "GroupedQueryAttention" ->
         LET k == [i \in DOMAIN a[2] |-> Rotated(a[2][i], "k", i - 1)]
         IN [i \in DOMAIN a[1] |-> Attended(<<"Scale", Rotated(a[1][i], "q", i - 1)>>,
                                            SubSeq(Pairs(k, a[3]), 1, i))]
    [] op[1] = "Rope" -> [i \in DOMAIN a[1] |-> RotatedBy(a[1][i], a[2][i], a[3][i])]
    [] op[1] = "DecodeAttention" ->
         [i \in DOMAIN a[1] |->
            Attended(a[1][i], Visible(a[6][i], Pairs(a[2], a[3]) \o Pairs(a[4], a[5])))]
    [] op[1] = "KvCacheWrite" -> Written(a[1], a[2], a[3][1])

EvalOp(op, a) ==
  CASE op[1] \in {"Cast", "Same"} -> a[1]
    [] op[1] = "Transpose" -> [a[1] EXCEPT !.turned = ~@]
    [] op[1] = "Slice" -> [a[1] EXCEPT !.from = @ + op[2], !.rows = op[3]]
    [] op[1] = "Dequantize" -> op[2]
    [] OTHER -> Tupled(RowsOp(op, a))

\* One stage: what its output ports hold.
Run(r, stage, inputs) ==
  LET weights == [w \in Params(r, stage) |-> Binding(r, stage, w)]
      env == Through(LAMBDA e, n : (n.out :> EvalOp(n.op, [k \in DOMAIN n.in |-> e[n.in[k]]])) @@ e,
                     inputs @@ weights, stage.nodes)
  IN [q \in DOMAIN stage.out |-> env[stage.out[q]]]

\* StagedRunner: a port the previous stage puts out is carried, any other is
\* a pipeline input; an output the next stage does not take is surfaced.
Walk(r, stages, inputs) ==
  Through(LAMBDA w, s :
            LET taken == DOMAIN w.carried \cap stages[s].in
                fed == [q \in stages[s].in |-> IF q \in taken THEN w.carried[q] ELSE inputs[q]]
            IN [carried |-> Run(r, stages[s], fed),
                surfaced |-> [q \in DOMAIN w.carried \ taken |-> w.carried[q]] @@ w.surfaced],
          [carried |-> <<>>, surfaced |-> <<>>], [s \in DOMAIN stages |-> s])

PortsOf(w) == w.carried @@ w.surfaced
Outputs(r, stages, inputs) ==
  PortsOf(Walk(r, stages, inputs))

\* refresh_buffers, bind_inputs: the inputs of one pass over p's chunk.
PassInputs(r, p, tokens, pos, past) ==
  LET n == IF p.decode THEN p.chunk ELSE Len(tokens)
      width == Len(past[0].k)
      tables(kind, heads) == [i \in 1 .. n |-> <<kind, heads, pos + i - 1>>]
      carried(name, half(_)) == [q \in {<<name, l>> : l \in DOMAIN past} |-> half(past[q[2]])]
  IN (Port("input_ids") :> [i \in 1 .. n |-> IF i <= Len(tokens) THEN tokens[i] ELSE 0])
     @@ (Port("rope_cos_q") :> tables("cos", "q")) @@ (Port("rope_sin_q") :> tables("sin", "q"))
     @@ (Port("rope_cos_k") :> tables("cos", "k")) @@ (Port("rope_sin_k") :> tables("sin", "k"))
     @@ (Port("decode_mask") :>
           [i \in 1 .. n |-> [c \in 1 .. width + n |-> IF c <= width THEN c <= pos ELSE c - width <= i]])
     @@ (Port("decode_pos") :> <<pos>>) @@ (Port("last_pos") :> <<Len(tokens) - 1>>)
     @@ carried("past_k", LAMBDA cache : cache.k) @@ carried("past_v", LAMBDA cache : cache.v)

-----------------------------------------------------------------------------
(* What a pass should compute: the transformer of the recipe's manifest    *)
(* over rows <<"k", l, n>>, <<"v", l, n>> of layer l at position n.        *)

Part == [q_proj |-> <<"qkv_proj", 0, 2>>, k_proj |-> <<"qkv_proj", 2, 1>>,
         v_proj |-> <<"qkv_proj", 3, 1>>, gate_proj |-> <<"gate_up_proj", 0, 1>>,
         up_proj |-> <<"gate_up_proj", 1, 1>>]

\* A slice of a fused tensor stays wide.
Projection(r, l, name, x) ==
  LET product == IF <<name, l>> \in r.manifest
                   THEN <<"Product", x, <<name, l>>, 0, Rows(r, <<name, l>>),
                          IF r.int8 THEN "int8" ELSE "wide">>
                   ELSE <<"Product", x, <<Part[name][1], l>>, Part[name][2], Part[name][3], "wide">>
      bias == <<BiasOf[name], l>>
  IN IF bias \in r.manifest THEN <<"Add", {product, <<"bias", bias>>}>> ELSE product

Normed(r, t, x) == IF t \in r.manifest THEN <<"RmsNorm", x, t>> ELSE x

Earlier(name, l, n) == [j \in 1 .. n |-> <<name, l, j - 1>>]

\* A layer over positions pos on: what it hands on and its new rows.
RefLayer(r, l, pos, xs) ==
  LET normed == Each(xs, LAMBDA x : <<"RmsNorm", x, <<"input_layernorm", l>>>>)
      turned(name, norm, heads) ==
        Tupled([i \in DOMAIN xs |->
                  Rotated(Normed(r, <<norm, l>>, Projection(r, l, name, normed[i])),
                          heads, pos + i - 1)])
      k == turned("k_proj", "k_norm", "k")
      v == Each(normed, LAMBDA x : Projection(r, l, "v_proj", x))
      seen(i) == Pairs(Earlier("k", l, pos) \o SubSeq(k, 1, i), Earlier("v", l, pos) \o SubSeq(v, 1, i))
      q == turned("q_proj", "q_norm", "q")
      mixed == Tupled([i \in DOMAIN xs |->
        <<"Add", {xs[i], Projection(r, l, "o_proj", Attended(<<"Scale", q[i]>>, seen(i)))}>>])
      mlp(x) == LET y == <<"RmsNorm", x, <<"post_attention_layernorm", l>>>>
                IN Projection(r, l, "down_proj",
                     <<"Mul", {<<"Silu", Projection(r, l, "gate_proj", y)>>,
                               Projection(r, l, "up_proj", y)}>>)
  IN [out |-> Each(mixed, LAMBDA x : <<"Add", {x, mlp(x)}>>), k |-> k, v |-> v]

\* Per layer 1 .. layers, and the logits at every position.
Reference(r, tokens, pos) ==
  LET embedded == Each(tokens, LAMBDA id : <<"embedding", Embed, id>>)
      passes == Through(LAMBDA done, l : Append(done, RefLayer(r, l, pos, IF l = 0 THEN embedded
                                                                          ELSE done[l].out)),
                        <<>>, [l \in 1 .. r.layers |-> l - 1])
      head == IF LmHead \in r.manifest THEN LmHead ELSE Embed
      \* A whole head that shares the embedding's label is kept wide.
      tier == IF r.int8 /\ (head_chunks(r) > 1 \/ kappa(r, head) # Embed) THEN "int8" ELSE "wide"
      logits(x) == <<"Product", <<"RmsNorm", x, FinalNorm>>, kappa(r, head), 0, r.vocab, tier>>
  IN [layers |-> passes, logits |-> Each(passes[r.layers].out, logits)]

-----------------------------------------------------------------------------
(* The passes.                                                             *)

Stale == <<"stale">>
Other == <<"other">>
Wrong == -1
Filled(n, l, width, name) == [j \in 1 .. width |-> IF j <= n THEN <<name, l, j - 1>> ELSE Stale]

\* The rows of one half of a layer's cache after a pass over realized rows.
Kept(old, new, computed, l, name, to) ==
  [j \in DOMAIN new |->
     CASE j > to -> Stale
       [] j <= realized /\ new[j] = old[j] -> old[j]
       [] j > realized /\ new[j] = computed[j - realized] -> <<name, l, j - 1>>
       [] OTHER -> Other]

\* Only a cache that some port puts out changes.
CacheAfter(out, name, l, old) == IF <<name, l>> \in DOMAIN out THEN out[<<name, l>>] ELSE old

\* A plan answers at every position or at the last alone.
Answers(p, logits, i, right) == IF p.all THEN logits[i] = right ELSE logits = <<right>>

\* pass, speculate_pass: the rows up to `to` are realized; the logits read are
\* those of the asked rows of the chunk.
PlanPass(p, tokens, past, to, asked) ==
  \E out \in {Outputs(recipe, CompiledStages(recipe, p, artifacts),
                      PassInputs(recipe, p, tokens, realized, past))},
     right \in {Reference(recipe, tokens, realized)} :
    /\ realized' = to
    /\ rows' = [l \in DOMAIN past |->
                  [k |-> Kept(past[l].k, CacheAfter(out, "k_new", l, past[l].k),
                              right.layers[l + 1].k, l, "k", to),
                   v |-> Kept(past[l].v, CacheAfter(out, "v_new", l, past[l].v),
                              right.layers[l + 1].v, l, "v", to)]]
    /\ answers' = {<<realized + i - 1,
                     IF Answers(p, out[Port("logits")], i, right.logits[i])
                       THEN realized + i - 1 ELSE Wrong>> : i \in asked}
    /\ UNCHANGED <<recipe, built, artifacts, retired, bound>>

\* ensure_capacity: the least rung that holds the chunk, its rows copied.
PlanGrown(real) ==
  LET width == Len(rows[0].k)
      wide == IF realized + real <= width THEN width
              ELSE Min({b \in PlanBuckets : realized + real <= b})
      copied(half) == [j \in 1 .. wide |-> IF j <= realized THEN half[j] ELSE Stale]
  IN [l \in DOMAIN rows |-> [k |-> copied(rows[l].k), v |-> copied(rows[l].v)]]

Text(from, n) == [i \in 1 .. n |-> from + i - 1]

\* One token takes the step runner, more the seeder, padded to its chunk.
PlanFeed(real) ==
  /\ built = "yes" /\ realized + real <= MaxText
  /\ PlanPass(DecodePlan(IF real = 1 THEN 1 ELSE PlanChunk), Text(realized, real), PlanGrown(real),
              realized + real, {real})

\* The drafts past the accepted ones are not the text's; their rows are let go.
Draft == MaxText + 1
PlanSpeculate(accepted, drafted) ==
  /\ built = "yes" /\ realized + 1 + drafted <= Len(rows[0].k)
  /\ realized + 1 + accepted <= MaxText
  /\ PlanPass(VerifyPlan(PlanChunk),
              Text(realized, 1 + accepted) \o [i \in 1 .. drafted - accepted |-> Draft],
              rows, realized + 1 + accepted, 1 .. 1 + accepted)

\* The whole text through the plan without a cache.
WindowPass(n) ==
  /\ built = "yes" /\ realized = 0
  /\ LET out == Outputs(recipe, CompiledStages(recipe, WholeWindow, artifacts),
                        PassInputs(recipe, WholeWindow, Text(0, n), 0, rows))
     IN answers' = {<<n - 1, IF out[Port("logits")] = <<Reference(recipe, Text(0, n), 0).logits[n]>>
                              THEN n - 1 ELSE Wrong>>}
  /\ UNCHANGED <<recipe, built, artifacts, retired, bound, realized, rows>>

PlanRewind(n) ==
  /\ built = "yes" /\ n < realized
  /\ realized' = n
  /\ rows' = [l \in DOMAIN rows |-> [k |-> Filled(n, l, Len(rows[l].k), "k"),
                                     v |-> Filled(n, l, Len(rows[l].v), "v")]]
  /\ answers' = {}
  /\ UNCHANGED <<recipe, built, artifacts, retired, bound>>

\* Compiled onto the artifacts of every weight that retires and of every
\* chunk of the head, or refused.
Build ==
  /\ built = "no"
  /\ built' = IF Accepted(recipe) THEN "yes" ELSE "refused"
  /\ retired' = IF built' = "yes" /\ recipe.int8 THEN quantizable_weights(recipe) ELSE {}
  /\ artifacts' = IF built' = "yes" /\ recipe.int8
                    THEN {<<label>> : label \in retired'} \cup head_quant_chunks(recipe)
                    ELSE {}
  /\ bound' = IF built' = "yes"
                THEN LET stages(p) == ToSet(CompiledStages(recipe, p, artifacts'))
                     IN UNION {UNION {WideLabels(recipe, s) : s \in stages(p)} : p \in Plans}
                ELSE {}
  /\ UNCHANGED <<recipe, realized, rows, answers>>

PlanInit(recipes) ==
  /\ recipe \in recipes
  /\ built = "no" /\ artifacts = {} /\ retired = {} /\ bound = {} /\ realized = 0 /\ answers = {}
  /\ rows = [l \in 0 .. recipe.layers - 1 |-> [k |-> Filled(0, l, Min(PlanBuckets), "k"),
                                               v |-> Filled(0, l, Min(PlanBuckets), "v")]]

PlanNext ==
  \/ Build
  \/ \E real \in 1 .. PlanChunk : PlanFeed(real)
  \/ \E drafted \in 0 .. PlanChunk - 1 : \E accepted \in 0 .. drafted :
       PlanSpeculate(accepted, drafted)
  \/ \E n \in 1 .. MaxText : WindowPass(n)
  \/ \E n \in 0 .. MaxText - 1 : PlanRewind(n)

-----------------------------------------------------------------------------

\* A wide tensor goes once its artifact is at rest: no stage of any plan
\* compiled onto the artifacts, the decode and verify plans among them, still
\* binds a label that quantizable_weights, asked of the whole-window plan
\* alone, lets go.
RetiredUnread == retired \cap bound = {}

\* Whatever the family, the way it is staged, the width of a pass and the rows
\* carried over from earlier passes, each realized row of a layer's cache is
\* the key and value of its own layer and position, and the logits a pass
\* answers with are those of the position asked: one plan computes what the
\* whole forward does, from tensors that are still there
\* (build_parametric_stage_graphs, rewrite_decode_attention, StagedRunner's
\* routing by name, DecodeState::pass, quantize_weights).
PlanExact ==
  /\ \A l \in DOMAIN rows : \A j \in 1 .. realized :
       rows[l].k[j] = <<"k", l, j - 1>> /\ rows[l].v[j] = <<"v", l, j - 1>>
  /\ \A asked \in answers : asked[1] = asked[2]
  /\ RetiredUnread
===============================================================================
