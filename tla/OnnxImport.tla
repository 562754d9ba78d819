------------------------------ MODULE OnnxImport ------------------------------
(***************************************************************************)
(* build_ai_graph (hologram-ai-onnx): an ONNX model becomes the compiler's *)
(* graph.  Most nodes keep their operator; five of the exporters' are      *)
(* taken apart into the compiler's own, on tensors named after the node.   *)
(*                                                                         *)
(* A model: nodes [op, name, ins, outs] in order ("" where an optional     *)
(* input or output is absent), initializers (name to tensor), inputs       *)
(* (records name, dtype, dims), value_info and output_info (name to dtype, *)
(* dims), outputs.  Left out: the names and attributes of map_op, the      *)
(* encodings of initializers, control flow and its subgraphs.              *)
(***************************************************************************)
EXTENDS DataRules

Info(dtype, dims) == [dtype |-> dtype, dims |-> dims, known |-> {}]
Placeholder == Info("F32", <<>>)
\* The import fails.
Refused == [refused |-> TRUE]

LOCAL IR == INSTANCE GraphIR
Present(names) == SelectSeq(names, LAMBDA t : t # "")
LOCAL Op(kind) == [kind |-> kind]
LOCAL CastTo(to) == [kind |-> "Cast", to |-> to]
LOCAL WholeReduce(kind) == [kind |-> kind, axes |-> <<>>, keepdims |-> FALSE]
LOCAL CutLast(from, to) == [kind |-> "Slice", axes |-> <<-1>>, starts |-> <<from>>, ends |-> <<to>>, steps |-> <<1>>]
LOCAL SwapHeads == [kind |-> "Transpose", perm |-> <<0, 2, 1, 3>>]
LOCAL Inner(n, tag) == n.name \o "." \o tag

\* A step: operator, inputs, output, and the type of an output not the
\* node's own.
LOCAL Pushed(b, step) ==
  [b EXCEPT !.nodes = Append(@, [op |-> step[1], ins |-> step[2], outs |-> <<step[3]>>]),
            !.info = IF step[4] = "" THEN @ ELSE (step[3] :> Info(step[4], <<>>)) @@ @]
LOCAL Pushes(b, steps) == FoldLeft(Pushed, b, steps)
LOCAL Retyped(b, t, dtype) == [b EXCEPT !.info[t].dtype = dtype]
LOCAL Number(b, t, v) ==
  [b EXCEPT !.info = (t :> Placeholder) @@ @,
            !.params = (t :> [dtype |-> "F32", shape |-> <<>>, data |-> <<v>>]) @@ @]
LOCAL Numbers(b, t, vals) ==
  [b EXCEPT !.info = (t :> [Info("INT64", <<Concrete(Len(vals))>>) EXCEPT !.known = {vals}]) @@ @,
            !.params = (t :> Vector(vals)) @@ @]

-----------------------------------------------------------------------------
(* DynamicQuantizeLinear: range, scale and zero point, then the input.      *)
\* The zero point added is the one before rounding.
QuantizedScale(b, n) ==
  LET T(tag) == Inner(n, tag)
      scale == n.outs[2]
  IN Pushes(Number(Number(Retyped(Retyped(Retyped(b, n.outs[1], "U8"), scale, "F32"), n.outs[3], "U8"),
                          T("c0"), 0), T("c255"), 255),
       <<<<WholeReduce("ReduceMax"), <<n.ins[1]>>, T("max_x"), "F32">>,
         <<WholeReduce("ReduceMin"), <<n.ins[1]>>, T("min_x"), "F32">>,
         <<Op("Max"), <<T("max_x"), T("c0")>>, T("max_clip"), "F32">>,
         <<Op("Min"), <<T("min_x"), T("c0")>>, T("min_clip"), "F32">>,
         <<Op("Sub"), <<T("max_clip"), T("min_clip")>>, T("range"), "F32">>,
         <<Op("Div"), <<T("range"), T("c255")>>, scale, "">>,
         <<Op("Neg"), <<T("min_clip")>>, T("neg_min"), "F32">>,
         <<Op("Div"), <<T("neg_min"), scale>>, T("zp_f32"), "F32">>,
         <<Op("Round"), <<T("zp_f32")>>, T("zp_round"), "F32">>,
         <<Op("Max"), <<T("zp_round"), T("c0")>>, T("zp_max"), "F32">>,
         <<Op("Min"), <<T("zp_max"), T("c255")>>, T("zp_clip"), "F32">>,
         <<CastTo("U8"), <<T("zp_clip")>>, n.outs[3], "">>>>)
QuantizedInput(b, n) ==
  LET T(tag) == Inner(n, tag)
  IN Pushes(b, <<<<Op("Div"), <<n.ins[1], n.outs[2]>>, T("x_scaled"), "F32">>,
                 <<Op("Round"), <<T("x_scaled")>>, T("x_round"), "F32">>,
                 <<Op("Add"), <<T("x_round"), T("zp_f32")>>, T("x_shift"), "F32">>,
                 <<Op("Max"), <<T("x_shift"), T("c0")>>, T("x_max"), "F32">>,
                 <<Op("Min"), <<T("x_max"), T("c255")>>, T("x_clip"), "F32">>,
                 <<CastTo("U8"), <<T("x_clip")>>, n.outs[1], "">>>>)

\* Which zero point is which is read off the position.
MatMulInteger(b, n) ==
  LET T(tag) == Inner(n, tag)
      Side(letter, t, zero) ==
        <<<<CastTo("INT32"), <<t>>, T(letter \o "_i32"), "INT32">>>>
        \o (IF zero = "" THEN <<>>
            ELSE <<<<CastTo("INT32"), <<zero>>, T(letter \o "_zp"), "INT32">>,
                   <<Op("Sub"), <<T(letter \o "_i32"), T(letter \o "_zp")>>, T(letter \o "_centered"), "INT32">>>>)
        \o <<<<CastTo("F32"), <<T(letter \o (IF zero = "" THEN "_i32" ELSE "_centered"))>>,
               T(letter \o "_f32"), "F32">>>>
      Zero(k) == IF k \in DOMAIN n.ins THEN n.ins[k] ELSE ""
  IN Pushes(Retyped(b, n.outs[1], "INT32"),
            Side("a", n.ins[1], Zero(3)) \o Side("b", n.ins[2], Zero(4))
            \o <<<<Op("MatMul"), <<T("a_f32"), T("b_f32")>>, T("mm_f32"), "F32">>,
                 <<CastTo("INT32"), <<T("mm_f32")>>, n.outs[1], "">>>>)

-----------------------------------------------------------------------------
(* RotaryEmbedding and GroupQueryAttention.                                 *)
\* The last size of a tensor, when it is recorded.
LOCAL LastSize(b, t) ==
  LET dims == b.info[t].dims
  IN IF dims = <<>> THEN {} ELSE IF Fixed(Last(dims)) THEN {Last(dims)[1]} ELSE {}

\* <<width of a head, heads>>, or {} when they cannot be derived.
RotarySizes(b, n) ==
  LET width == IF n.op.rotary_embedding_dim > 0 THEN {n.op.rotary_embedding_dim}
               ELSE {2 * half : half \in LastSize(b, n.ins[3])}
      heads == IF n.op.num_heads > 0 THEN {n.op.num_heads}
               ELSE UNION {{size \div hd : size \in {size \in LastSize(b, n.ins[1]) : hd > 0 /\ size % hd = 0}} :
                             hd \in width}
  IN {sizes \in width \X heads : sizes[1] > 0 /\ sizes[2] > 0 /\ sizes[1] % 2 = 0}

RotaryEmbedding(b, n) ==
  LET T(tag) == Inner(n, tag)
      hd == The(RotarySizes(b, n))[1]
      heads == The(RotarySizes(b, n))[2]
      Row(table, tag) ==
        <<[kind |-> "Gather", axis |-> 0], <<table, n.ins[2]>>, T(tag), "F32">>
      Lifted(tag) == <<[kind |-> "Unsqueeze", axes |-> <<2>>], <<T(tag)>>, T(tag \o "_4d"), "F32">>
      Product(p, q) == <<Op("Mul"), <<T(p), T(q \o "_4d")>>, T(p \o "_" \o q), "F32">>
  IN IF n.op.interleaved # 0 \/ Len(n.ins) < 4 \/ RotarySizes(b, n) = {} THEN Refused
     ELSE Pushes(Numbers(Numbers(b, T("in_shape"), <<0, 0, heads, hd>>), T("out_shape"), <<0, 0, -1>>),
            <<Row(n.ins[3], "cos"), Row(n.ins[4], "sin"),
              <<Op("Reshape"), <<n.ins[1], T("in_shape")>>, T("in_4d"), "F32">>,
              <<CutLast(0, hd \div 2), <<T("in_4d")>>, T("x1"), "F32">>,
              <<CutLast(hd \div 2, hd), <<T("in_4d")>>, T("x2"), "F32">>,
              Lifted("cos"), Lifted("sin"), Product("x1", "cos"), Product("x2", "sin"),
              <<Op("Sub"), <<T("x1_cos"), T("x2_sin")>>, T("first"), "F32">>,
              Product("x1", "sin"), Product("x2", "cos"),
              <<Op("Add"), <<T("x1_sin"), T("x2_cos")>>, T("second"), "F32">>,
              <<[kind |-> "Concat", axis |-> -1], <<T("first"), T("second")>>, T("rot_4d"), "F32">>,
              <<Op("Reshape"), <<T("rot_4d"), T("out_shape")>>, n.outs[1], "">>>>)

\* The width of a head, from the queries; {} and the node is skipped when it
\* does not divide or the keys or values disagree.
AttentionWidth(b, n) ==
  {size \div n.op.num_heads : size \in
     {size \in LastSize(b, n.ins[1]) :
        /\ size % n.op.num_heads = 0 /\ size > 0
        /\ \A t \in {n.ins[2], n.ins[3]} :
             LastSize(b, t) \subseteq {n.op.kv_num_heads * (size \div n.op.num_heads)}}}

GroupQueryAttention(b, n) ==
  LET T(tag) == Inner(n, tag)
      hd == The(AttentionWidth(b, n))
      Parted(t, shape, tag, out, dtype) ==
        <<<<Op("Reshape"), <<t, T(shape)>>, T(tag \o "_4d"), "F32">>, <<SwapHeads, <<T(tag \o "_4d")>>, out, dtype>>>>
  IN IF \/ n.op.do_rotary # 0 \/ Len(n.ins) < 3 \/ Len(n.outs) < 3
        \/ n.op.num_heads <= 0 \/ n.op.kv_num_heads <= 0 THEN Refused
     ELSE IF AttentionWidth(b, n) = {} THEN b
     ELSE Pushes(Numbers(Numbers(Numbers(b, T("q_shape"), <<0, 0, n.op.num_heads, hd>>),
                                 T("kv_shape"), <<0, 0, n.op.kv_num_heads, hd>>),
                         T("out_shape"), <<0, 0, -1>>),
            Parted(n.ins[1], "q_shape", "q", T("q_t"), "F32")
            \o Parted(n.ins[2], "kv_shape", "k", n.outs[2], "") \o Parted(n.ins[3], "kv_shape", "v", n.outs[3], "")
            \o <<<<Op("GroupedQueryAttention"), <<T("q_t"), n.outs[2], n.outs[3]>>, T("out_4d"), "F32">>,
                 <<SwapHeads, <<T("out_4d")>>, T("out_pre"), "F32">>,
                 <<Op("Reshape"), <<T("out_pre"), T("out_shape")>>, n.outs[1], "">>>>)

\* The sum is an output of its own, when the node names one.
SkipSimplifiedLayerNormalization(b, n) ==
  LET sum == IF Len(n.outs) >= 4 THEN n.outs[4] ELSE Inner(n, "skip_sum")
  IN Pushes([b EXCEPT !.info = @ @@ (sum :> Placeholder)],
            <<<<Op("Add"), <<n.ins[1], n.ins[2]>>, sum, "">>,
              <<Op("RmsNorm"), <<sum, n.ins[3]>>, n.outs[1], "">>>>)

-----------------------------------------------------------------------------
(* Attributes that newer opsets pass as inputs.                             *)
extract_i64_const(b, t) ==
  IF t \in DOMAIN b.params /\ b.info[t].dtype \in {"INT64", "INT32"} THEN {b.params[t].data} ELSE {}

resolve_dynamic_op_params(b, n) ==
  LET Values(k) == IF k \in DOMAIN n.ins THEN extract_i64_const(b, n.ins[k]) ELSE {}
      Scalar0(k, default) == IF k \in DOMAIN n.ins
                               THEN IF n.ins[k] \in DOMAIN b.params THEN b.params[n.ins[k]].data[1] ELSE default
                               ELSE default
      integers == SelectSeq(Tail(n.ins), LAMBDA t : b.info[t].dtype = "INT64")
      Count == Len(The(Values(2)))
  IN CASE n.op.kind = "Slice" /\ n.op.starts = <<>> /\ Values(2) # {} /\ Values(3) # {} ->
            [n EXCEPT !.op = [@ EXCEPT !.starts = The(Values(2)), !.ends = The(Values(3)),
                                       !.axes = IF Values(4) # {} THEN The(Values(4)) ELSE [k \in 1 .. Count |-> k - 1],
                                       !.steps = IF Values(5) # {} THEN The(Values(5)) ELSE [k \in 1 .. Count |-> 1]],
                      !.ins = <<@[1]>>]
       [] n.op.kind \in {"Unsqueeze", "Squeeze", "ReduceSum", "ReduceMax", "ReduceMin"}
          /\ n.op.axes = <<>> /\ Values(2) # {} ->
            [n EXCEPT !.op.axes = The(Values(2)), !.ins = <<@[1]>>]
       [] n.op.kind = "Pad" /\ Len(n.ins) > 2 -> [n EXCEPT !.ins = SubSeq(@, 1, 2)]
       [] n.op.kind = "Resize" /\ Len(n.ins) > 2 ->
            [n EXCEPT !.ins = <<@[1], IF integers # <<>> THEN integers[1] ELSE Last(@)>>]
       [] n.op.kind = "Clip" ->
            [n EXCEPT !.op = [@ EXCEPT !.min = Scalar0(2, -Unbounded), !.max = Scalar0(3, Unbounded)],
                      !.ins = <<@[1]>>]
       [] OTHER -> n

-----------------------------------------------------------------------------
\* What is recorded of every tensor before its node is met.
Declared(m) ==
  LET OfInputs == {k \in DOMAIN m.inputs : m.inputs[k].name \notin DOMAIN m.initializers}
  IN [t \in DOMAIN m.initializers |-> Info(m.initializers[t].dtype, shape_from_concrete(m.initializers[t].shape))]
     @@ [t \in {m.inputs[k].name : k \in OfInputs} |->
           LET input == m.inputs[CHOOSE k \in OfInputs : m.inputs[k].name = t] IN Info(input.dtype, input.dims)]
     @@ [t \in DOMAIN m.value_info |-> Info(m.value_info[t].dtype, m.value_info[t].dims)]

Imported1(b, node) ==
  LET n == [node EXCEPT !.ins = Present(@)]
      met == [b EXCEPT !.info = @ @@ [t \in ToSet(n.ins) \cup ToSet(n.outs) |-> Placeholder]]
  IN IF b = Refused THEN Refused
     ELSE CASE n.op.kind = "DynamicQuantizeLinear" -> QuantizedInput(QuantizedScale(met, n), n)
            [] n.op.kind = "MatMulInteger" -> MatMulInteger(met, n)
            [] n.op.kind = "RotaryEmbedding" -> RotaryEmbedding(met, n)
            [] n.op.kind = "GroupQueryAttention" -> GroupQueryAttention(met, n)
            [] n.op.kind = "SkipSimplifiedLayerNormalization" -> SkipSimplifiedLayerNormalization(met, n)
            [] n.op.kind = "Constant" -> Bind(met, n.outs[1], n.op.value)
            [] OTHER -> [met EXCEPT !.nodes = Append(@, [op |-> n.op, ins |-> n.ins, outs |-> n.outs])]

build_ai_graph(m) ==
  LET b == IR!Through(Imported1, [nodes |-> <<>>, info |-> Declared(m), params |-> m.initializers], m.nodes)
      \* An output's declaration counts where nothing is recorded yet.
      Declares(t) == t \in DOMAIN m.output_info /\ b.info[t].dims = <<>>
      info == [t \in DOMAIN b.info |-> IF Declares(t) THEN Info(m.output_info[t].dtype, m.output_info[t].dims)
                                       ELSE b.info[t]]
      fed == SelectSeq(m.inputs, LAMBDA input : input.name \notin DOMAIN m.initializers)
  IN IF b = Refused THEN Refused
     ELSE [nodes |-> [p \in DOMAIN b.nodes |-> resolve_dynamic_op_params([b EXCEPT !.info = info], b.nodes[p])],
           info |-> info, params |-> b.params, inputs |-> [k \in DOMAIN fed |-> fed[k].name],
           outputs |-> m.outputs]
===============================================================================
