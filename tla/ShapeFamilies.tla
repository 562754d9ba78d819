----------------------------- MODULE ShapeFamilies -----------------------------
(***************************************************************************)
(* Small ONNX models as exporters write them, for the compiler's shape and *)
(* value passes: a decoder's shape arithmetic and causal mask, a key and   *)
(* value cache at an empty past, images, the exporters' own operators.     *)
(***************************************************************************)
EXTENDS ShapeFlow

\* Terms of a model.
Call(op, ins, outs) == [op |-> op, name |-> outs[1], ins |-> ins, outs |-> outs]
Do(kind, ins, out) == Call([kind |-> kind], ins, <<out>>)
With(op, ins, out) == Call(op, ins, <<out>>)
Input(name, dtype, dims) == [name |-> name, dtype |-> dtype, dims |-> dims]
Named(name) == <<1, name>>
Ints(numbers) == [dtype |-> "INT64", shape |-> <<Len(numbers)>>, data |-> numbers]
Number0(n) == [dtype |-> "INT64", shape |-> <<>>, data |-> <<n>>]
Floats(shape, numbers) == [dtype |-> "F32", shape |-> shape, data |-> numbers]
\* Weights: small numbers that differ.
Weights(shape) == Floats(shape, [n \in 1 .. Volume(shape) |-> ((n * 3) % 5) - 1])
OnnxModel(nodes, initializers, inputs, outputs) ==
  [nodes |-> nodes, initializers |-> initializers, inputs |-> inputs, value_info |-> <<>>, output_info |-> <<>>,
   outputs |-> outputs, feed |-> <<>>,
   sizes |-> "past_seq + 1" :> Window @@ [batch |-> 1, seq |-> Window, total_length |-> Window, past_len |-> 0,
                                          N |-> 1, height |-> 4, width |-> 4, channels |-> 4]]
TokenIds == Input("input_ids", "INT64", <<Named("batch"), Named("seq")>>)
Pixels == Input("pixel_values", "F32", <<Named("N"), Named("channels"), Named("height"), Named("width")>>)

ShapeOf(x, out) == With([kind |-> "Shape", start |-> 0, end |-> Unbounded], <<x>>, out)
Axis0(x, idx, out) == With([kind |-> "Gather", axis |-> 0], <<x, idx>>, out)
Lifted(axes, x, out) == With([kind |-> "Unsqueeze", axes |-> axes], <<x>>, out)
Joined0(ins, out) == With([kind |-> "Concat", axis |-> 0], ins, out)
Swapped(perm, x, out) == With([kind |-> "Transpose", perm |-> perm], <<x>>, out)
CutAt(axis, from, to, x, out) ==
  With([kind |-> "Slice", axes |-> <<axis>>, starts |-> <<from>>, ends |-> <<to>>, steps |-> <<1>>], <<x>>, out)

-----------------------------------------------------------------------------
\* The heads of an attention: the target of each Reshape is computed from the
\* shape of what is reshaped.
Heads ==
  OnnxModel(
    <<Axis0("table", "input_ids", "h"),
      Do("MatMul", <<"h", "w_q">>, "q"),
      ShapeOf("q", "q.shape"), Axis0("q.shape", "zero", "b"), Axis0("q.shape", "one", "s"),
      Lifted(<<0>>, "b", "b1"), Lifted(<<0>>, "s", "s1"),
      Joined0(<<"b1", "s1", "heads", "minus">>, "target"),
      Do("Reshape", <<"q", "target">>, "q4"), Swapped(<<0, 2, 1, 3>>, "q4", "qt"), Swapped(<<0, 2, 3, 1>>, "q4", "kt"),
      Do("MatMul", <<"qt", "kt">>, "scores"), Do("Softmax", <<"scores">>, "weights"),
      Do("MatMul", <<"weights", "qt">>, "mixed"), Swapped(<<0, 2, 1, 3>>, "mixed", "back"),
      Do("Reshape", <<"back", "flat">>, "logits0"), Do("Add", <<"logits0", "h">>, "logits")>>,
    "table" :> Weights(<<3, 4>>) @@ "w_q" :> Weights(<<4, 4>>) @@ "zero" :> Number0(0) @@ "one" :> Number0(1)
      @@ "heads" :> Ints(<<2>>) @@ "minus" :> Ints(<<-1>>) @@ "flat" :> Ints(<<0, 0, -1>>),
    <<TokenIds>>, <<"logits">>)

\* A causal mask from positions counted in the graph, widened to the heads;
\* the exporter declares the shape of what is counted.
Mask ==
  [OnnxModel(
    <<ShapeOf("input_ids", "ids.shape"), Axis0("ids.shape", "zero", "b"), Axis0("ids.shape", "one", "s"),
      Do("Range", <<"zero", "s", "one">>, "positions"),
      Lifted(<<1>>, "positions", "rows"), Lifted(<<0>>, "positions", "columns"),
      Do("Less", <<"rows", "columns">>, "ahead"),
      Do("Where", <<"ahead", "low", "none">>, "causal"),
      Lifted(<<0>>, "b", "b1"), Lifted(<<0>>, "s", "s1"),
      Joined0(<<"b1", "ones1", "s1", "s1">>, "wide"),
      Do("Expand", <<"causal", "wide">>, "mask"),
      Axis0("table", "input_ids", "h"), Lifted(<<1>>, "h", "h4"), Swapped(<<0, 1, 3, 2>>, "h4", "ht"),
      Do("MatMul", <<"h4", "ht">>, "scores"),
      Do("Add", <<"scores", "mask">>, "logits")>>,
    "table" :> Weights(<<3, 4>>) @@ "zero" :> Number0(0) @@ "one" :> Number0(1) @@ "ones1" :> Ints(<<1>>)
      @@ "low" :> Floats(<<>>, <<-9>>) @@ "none" :> Floats(<<>>, <<0>>),
    <<TokenIds>>, <<"logits">>)
   EXCEPT !.value_info = [positions |-> [dtype |-> "INT64", dims |-> <<Named("seq")>>]]]

\* The same from a filled square and its upper triangle.
Triangular ==
  OnnxModel(
    <<ShapeOf("input_ids", "ids.shape"), CutAt(0, 1, 2, "ids.shape", "s1"),
      Joined0(<<"s1", "s1">>, "square"),
      With([kind |-> "ConstantOfShape", fill |-> -9], <<"square">>, "full"),
      With([kind |-> "Trilu", upper |-> TRUE], <<"full", "one">>, "causal"),
      Axis0("table", "input_ids", "h"), Swapped(<<0, 2, 1>>, "h", "ht"),
      Do("MatMul", <<"h", "ht">>, "scores"), Do("Add", <<"scores", "causal">>, "logits")>>,
    "table" :> Weights(<<3, 4>>) @@ "one" :> Number0(1),
    <<TokenIds>>, <<"logits">>)

\* A decoder with its past, empty: keys are joined to the past's, and the
\* mask's length is the exporter's own variable.
Past ==
  OnnxModel(
    <<Axis0("table", "input_ids", "h"), Do("MatMul", <<"h", "w_k">>, "k"),
      Do("Reshape", <<"k", "split">>, "k4"), Swapped(<<0, 2, 1, 3>>, "k4", "k_new"),
      With([kind |-> "Concat", axis |-> 2], <<"past_key_values.0.key", "k_new">>, "present.0.key"),
      Swapped(<<0, 1, 3, 2>>, "present.0.key", "kt"),
      Do("MatMul", <<"k_new", "kt">>, "scores"),
      Lifted(<<1, 2>>, "attention_mask", "mask4"), With([kind |-> "Cast", to |-> "F32"], <<"mask4">>, "mask"),
      Do("Mul", <<"scores", "mask">>, "masked"), Do("Softmax", <<"masked">>, "weights"),
      Do("MatMul", <<"weights", "present.0.key">>, "logits")>>,
    "table" :> Weights(<<3, 4>>) @@ "w_k" :> Weights(<<4, 4>>) @@ "split" :> Ints(<<0, -1, 2, 2>>),
    <<TokenIds,
      Input("attention_mask", "INT64", <<Named("batch"), Named("past_seq + 1")>>),
      Input("past_key_values.0.key", "F32", <<Named("batch"), Concrete(2), Named("past_len"), Concrete(2)>>)>>,
    <<"logits", "present.0.key">>)

-----------------------------------------------------------------------------
(* Images.                                                                  *)
Windowed(kind, kernel, stride, pad, up) ==
  [kind |-> kind, kernel |-> <<kernel, kernel>>, strides |-> <<stride, stride>>, pads |-> <<pad, pad, pad, pad>>,
   dilations |-> <<1, 1>>, extra |-> <<0, 0>>, ceil |-> up]
Blocks(kind) == [kind |-> kind, block |-> 2, mode |-> "DCR"]

Vision ==
  OnnxModel(
    <<With(Windowed("Conv", 3, 1, 1, FALSE), <<"pixel_values", "kernel">>, "c"),
      Call([kind |-> "BatchNorm", training |-> FALSE], <<"c", "row", "row", "row", "row">>, <<"n">>),
      With(Windowed("MaxPool", 3, 2, 0, TRUE), <<"n">>, "m"),
      With(Windowed("ConvTranspose", 2, 2, 0, FALSE), <<"m", "up">>, "u"),
      With(Windowed("AveragePool", 2, 2, 1, FALSE), <<"u">>, "a"),
      Do("GlobalAveragePool", <<"a">>, "g"), With([kind |-> "Flatten", axis |-> 1], <<"g">>, "f"),
      With([kind |-> "Gemm", transA |-> FALSE, transB |-> TRUE], <<"f", "head">>, "logits")>>,
    "kernel" :> Weights(<<2, 4, 3, 3>>) @@ "row" :> Weights(<<2>>) @@ "up" :> Weights(<<2, 3, 2, 2>>)
      @@ "head" :> Weights(<<5, 3>>),
    <<Pixels>>, <<"logits">>)

\* Sizes of a Resize computed from the image's own, then given as scales.
Upscaled ==
  OnnxModel(
    <<ShapeOf("pixel_values", "image.shape"), CutAt(0, 0, 2, "image.shape", "planes"),
      Joined0(<<"planes", "eights">>, "larger"),
      Do("Resize", <<"pixel_values", "", "", "larger">>, "big"),
      Do("Pad", <<"big", "pads", "nil">>, "padded"),
      With(Blocks("DepthToSpace"), <<"padded">>, "wide"), With(Blocks("SpaceToDepth"), <<"wide">>, "deep"),
      Do("Resize", <<"deep", "", "double">>, "logits")>>,
    "eights" :> Ints(<<8, 8>>) @@ "pads" :> Ints(<<0, 0, 1, 0, 0, 0, 1, 2>>) @@ "nil" :> Floats(<<>>, <<0>>)
      @@ "double" :> Floats(<<4>>, <<1, 1, 2, 2>>),
    <<Pixels>>, <<"logits">>)

-----------------------------------------------------------------------------
(* A net of single operators over a row of hidden states.                   *)
Embedded == With([kind |-> "Embed"], <<"input_ids", "table">>, "h")
FourWide == "table" :> Weights(<<3, 4>>)
\* Bounds that bind: there are values on both sides of them.
Bounds == "low" :> Floats(<<>>, <<0>>) @@ "high" :> Floats(<<>>, <<2>>)
Clip == [kind |-> "Clip", min |-> 0, max |-> 0]

\* Selections and copies.
Selecting ==
  OnnxModel(
    <<Embedded,
      Call([kind |-> "Split", axis |-> -1, sizes |-> <<1, 3>>], <<"h">>, <<"narrow", "rest">>),
      With([kind |-> "Tile", repeats |-> <<1, 1, 3>>], <<"narrow">>, "tiled"),
      Do("Mul", <<"tiled", "rest">>, "p"),
      With([kind |-> "Squeeze", axes |-> <<0>>], <<"p">>, "flat"),
      With([kind |-> "GatherND", batch |-> 0], <<"flat", "pairs">>, "picked"),
      With([kind |-> "GatherElements", axis |-> -1], <<"flat", "columns">>, "ordered"),
      Do("ScatterND", <<"ordered", "rows", "patch">>, "patched"),
      With([kind |-> "ReduceSum", axes |-> <<>>, keepdims |-> TRUE], <<"patched", "last">>, "sums"),
      With([kind |-> "ReduceMax", axes |-> <<0>>, keepdims |-> FALSE], <<"patched">>, "highest"),
      Do("Sub", <<"sums", "highest">>, "spread"),
      With(Clip, <<"spread", "low", "high">>, "logits")>>,
    FourWide @@ "pairs" :> [Ints(<<0, 1, 2, 2, 1, 0>>) EXCEPT !.shape = <<3, 2>>]
      @@ "columns" :> [Ints(<<2, 0, 1, 0, 1, 2, 1, 2, 0>>) EXCEPT !.shape = <<3, 3>>]
      @@ "rows" :> [Ints(<<2, 0>>) EXCEPT !.shape = <<2, 1>>] @@ "patch" :> Weights(<<2, 3>>)
      @@ "last" :> Ints(<<-1>>) @@ Bounds,
    <<TokenIds>>, <<"picked", "logits">>)

\* Conditions, and sizes that values decide.
Deciding ==
  OnnxModel(
    <<Embedded,
      Do("Less", <<"h", "line">>, "below"), Do("Equal", <<"h", "line">>, "on"),
      Do("Or", <<"below", "on">>, "either"), Do("Not", <<"on">>, "off"), Do("And", <<"either", "off">>, "both"),
      Do("Where", <<"both", "h", "line">>, "lifted"),
      Do("FusedSwiGluProjection", <<"lifted", "h", "w_down">>, "down"),
      With([kind |-> "ArgMax", axis |-> -1, keepdims |-> TRUE], <<"down">>, "kept"),
      With([kind |-> "ArgMax", axis |-> 1, keepdims |-> FALSE], <<"down">>, "best"),
      Call([kind |-> "TopK", axis |-> -1], <<"down", "two">>, <<"top", "at">>),
      Do("NonZero", <<"both">>, "where"),
      With([kind |-> "OneHot", axis |-> -1], <<"best", "two", "off_on">>, "hot"),
      With([kind |-> "Compress", axis |-> 1, flat |-> FALSE], <<"down", "chosen">>, "fewer"),
      With([kind |-> "Compress", axis |-> 1, flat |-> TRUE], <<"down", "chosen">>, "fewest")>>,
    FourWide @@ "line" :> Floats(<<4>>, <<1, 2, 1, 0>>) @@ "w_down" :> Weights(<<4, 2>>) @@ "two" :> Ints(<<2>>)
      @@ "off_on" :> Floats(<<2>>, <<0, 1>>) @@ "chosen" :> [Ints(<<1, 0, 1>>) EXCEPT !.dtype = "BOOL"],
    <<TokenIds>>, <<"lifted", "kept", "best", "top", "where", "hot", "fewer", "fewest">>)

-----------------------------------------------------------------------------
(* Operators of the exporters.                                              *)
Quantized ==
  [OnnxModel(
    <<Call([kind |-> "DynamicQuantizeLinear"], <<"x">>, <<"q", "scale", "zero">>),
      Call([kind |-> "MatMulInteger"], <<"q", "w", "zero", "w_zero">>, <<"sums">>),
      With([kind |-> "Cast", to |-> "F32"], <<"sums">>, "wide"), Do("Mul", <<"wide", "scale">>, "logits"),
      Call([kind |-> "MatMulInteger"], <<"q", "w">>, <<"raw">>)>>,
    "w" :> [Weights(<<3, 2>>) EXCEPT !.dtype = "INT8"] @@ "w_zero" :> [Number0(1) EXCEPT !.dtype = "INT8"],
    <<Input("x", "F32", <<Named("batch"), Concrete(3)>>)>>, <<"logits", "raw">>)
   EXCEPT !.feed = [x |-> Floats(<<1, 3>>, <<-55, 200, 7>>)]]

Rotary(heads, dim, interleaved) ==
  [kind |-> "RotaryEmbedding", num_heads |-> heads, rotary_embedding_dim |-> dim, interleaved |-> interleaved]
Grouped(rotary) == [kind |-> "GroupQueryAttention", num_heads |-> 2, kv_num_heads |-> 1, do_rotary |-> rotary]
\* A layer: positions turned into the queries and keys, grouped heads, and a
\* norm over the residual.
Layer(turn, attend) ==
  [OnnxModel(
    <<Do("Mul", <<"hidden", "ones">>, "q"), Do("MatMul", <<"hidden", "w_k">>, "k"),
      Call(turn, <<"q", "position_ids", "cos", "sin">>, <<"q_turned">>),
      Call(Rotary(1, 0, 0), <<"k", "position_ids", "cos", "sin">>, <<"k_turned">>),
      Call(attend, <<"q_turned", "k_turned", "k">>, <<"mixed", "present.k", "present.v">>),
      Call([kind |-> "SkipSimplifiedLayerNormalization"], <<"mixed", "hidden", "gamma">>,
           <<"normed", "", "", "residual">>),
      Call([kind |-> "SkipSimplifiedLayerNormalization"], <<"residual", "normed", "gamma">>, <<"logits">>)>>,
    "w_k" :> Weights(<<4, 2>>) @@ "cos" :> Weights(<<3, 1>>) @@ "sin" :> Weights(<<3, 1>>)
      @@ "ones" :> Weights(<<4>>) @@ "gamma" :> Weights(<<4>>),
    <<Input("hidden", "F32", <<Named("batch"), Named("seq"), Concrete(4)>>),
      Input("position_ids", "INT64", <<Named("batch"), Named("seq")>>)>>, <<"logits", "present.k", "present.v">>)
   EXCEPT !.value_info = [t \in {"q", "q_turned"} |->
                            [dtype |-> "F32", dims |-> <<Named("batch"), Named("seq"), Concrete(4)>>]]]
GroupedLayers == {Layer(Rotary(2, 0, 0), Grouped(0)), Layer(Rotary(0, 2, 0), Grouped(0)),
           \* Refused.
           Layer(Rotary(2, 0, 1), Grouped(0)), Layer(Rotary(2, 0, 0), Grouped(1))}

-----------------------------------------------------------------------------
(* Constants.                                                               *)
\* Halves of each head turned by hand; the tables are computed in the graph.
Turned ==
  OnnxModel(
    <<Embedded,
      CutAt(2, 0, 2, "h", "x1"), CutAt(-1, 2, 4, "h", "x2"),
      Do("Neg", <<"x2">>, "minus"), With([kind |-> "Concat", axis |-> -1], <<"minus", "x1">>, "half"),
      With([kind |-> "Cast", to |-> "F32"], <<"steps">>, "angles0"), Lifted(<<1>>, "angles0", "angles1"),
      Do("Mul", <<"angles1", "rates">>, "angles"),
      With([kind |-> "Concat", axis |-> -1], <<"angles", "angles">>, "table0"), Lifted(<<0>>, "table0", "cos"),
      Do("Mul", <<"h", "cos">>, "kept"), Do("Mul", <<"half", "cos">>, "moved"),
      Do("Add", <<"kept", "moved">>, "logits")>>,
    FourWide @@ "steps" :> Ints(<<0, 1, 2>>) @@ "rates" :> Floats(<<1, 2>>, <<2, 3>>),
    <<TokenIds>>, <<"logits">>)

\* A bias out of constants alone, by every evaluator.
Biased ==
  OnnxModel(
    <<Do("Add", <<"a", "b">>, "sum"), Do("Sub", <<"sum", "c">>, "less"), Do("Mul", <<"less", "a">>, "product"),
      Do("Div", <<"product", "two">>, "quotient"), Do("Neg", <<"quotient">>, "negated"),
      Do("Less", <<"a", "b">>, "below"), Do("Equal", <<"a", "b">>, "same"), Do("Or", <<"below", "same">>, "either"),
      Do("Not", <<"same">>, "differ"), Do("And", <<"either", "differ">>, "both"),
      Do("Where", <<"both", "negated", "c">>, "chosen"), Swapped(<<1, 0>>, "chosen", "turned"),
      With([kind |-> "Gather", axis |-> 0], <<"turned", "order">>, "mixed"),
      CutAt(0, 0, -1, "mixed", "cut"), With([kind |-> "Concat", axis |-> 1], <<"cut", "cut">>, "doubled"),
      Do("ScatterND", <<"doubled", "place", "patch">>, "patched"),
      Lifted(<<0>>, "patched", "batched"), Do("Expand", <<"batched", "wide">>, "spread"),
      With([kind |-> "Flatten", axis |-> 2], <<"spread">>, "rows"), Do("Identity", <<"rows">>, "bias"),
      Embedded, Do("Reshape", <<"h", "flat">>, "x"), Do("MatMul", <<"bias", "x">>, "logits")>>,
    "table" :> Weights(<<3, 4>>) @@ "a" :> Weights(<<2, 3>>) @@ "b" :> Floats(<<3>>, <<1, 2, 2>>)
      @@ "c" :> Floats(<<2, 1>>, <<4, -2>>) @@ "two" :> Floats(<<>>, <<2>>)
      @@ "order" :> Ints(<<2, 0, -2>>) @@ "place" :> [Ints(<<1, 2>>) EXCEPT !.shape = <<1, 2>>]
      @@ "patch" :> Floats(<<1>>, <<7>>) @@ "wide" :> Ints(<<2, 2, 4>>) @@ "flat" :> Ints(<<4, 3>>),
    <<TokenIds>>, <<"logits">>)

\* A target put together from the sizes of what is reshaped, every way that
\* keeps the elements.
TargetParts == {"batch", "seq", "half", "rows", "width", "heads", "keep", "rest"}
SizeAt(part, d) == CASE part = "keep" -> <<1, Window, 4>>[d]
                     [] part = "batch" -> 1
                     [] part \in {"seq", "rows"} -> Window
                     [] part \in {"half", "heads"} -> 2
                     [] part = "width" -> 4
Rebuilt(parts) ==
  OnnxModel(
    <<Embedded, ShapeOf("h", "h.shape"), Axis0("h.shape", "zero", "batch0"), Lifted(<<0>>, "batch0", "batch"),
      CutAt(0, 1, 2, "h.shape", "seq"), CutAt(0, -1, Unbounded, "h.shape", "last"),
      Do("Div", <<"last", "heads">>, "half"),
      Do("Mul", <<"batch", "seq">>, "rows"),
      Axis0("h.shape", "two", "width0"), With([kind |-> "Cast", to |-> "INT64"], <<"width0">>, "width"),
      Joined0(parts, "target"), Do("Reshape", <<"h", "target">>, "logits")>>,
    FourWide @@ "zero" :> Number0(0) @@ "two" :> Ints(<<2>>) @@ "heads" :> Ints(<<2>>) @@ "keep" :> Ints(<<0>>)
      @@ "rest" :> Ints(<<-1>>),
    <<TokenIds>>, <<"logits">>)
KeepsElements(parts) ==
  LET given == Volume([d \in DOMAIN parts |-> IF parts[d] = "rest" THEN 1 ELSE SizeAt(parts[d], d)])
      rests == Cardinality({d \in DOMAIN parts : parts[d] = "rest"})
  IN \/ rests = 0 /\ given = 4 * Window
     \/ rests = 1 /\ (4 * Window) % given = 0
Rebuilding == {Rebuilt(parts) : parts \in {parts \in [1 .. 3 -> TargetParts] : KeepsElements(parts)}}

-----------------------------------------------------------------------------
(* Pipelines of kernels.                                                    *)
\* Cuts and joins off the first axis, copies, and a product of two matrices
\* of each batch.
Arranged ==
  OnnxModel(
    <<Embedded,
      Call([kind |-> "Split", axis |-> -1, sizes |-> <<1, 3>>], <<"h">>, <<"narrow", "rest">>),
      With([kind |-> "Concat", axis |-> 2], <<"rest", "narrow", "rest">>, "wide"),
      With([kind |-> "Tile", repeats |-> <<2, 1, 1>>], <<"wide">>, "twice"),
      Do("Mul", <<"twice", "each">>, "batches"), Swapped(<<0, 2, 1>>, "batches", "turned"),
      Do("MatMul", <<"batches", "turned">>, "scores"),
      With([kind |-> "ReduceSum", axes |-> <<-1>>, keepdims |-> TRUE], <<"scores">>, "sums"),
      Do("Sub", <<"scores", "sums">>, "spread"),
      Call([kind |-> "Split", axis |-> 0, sizes |-> <<1, 1>>], <<"spread">>, <<"first", "second">>),
      Joined0(<<"second", "first", "second">>, "logits")>>,
    FourWide @@ "each" :> Floats(<<2, 1, 1>>, <<2, -1>>), <<TokenIds>>, <<"logits", "narrow">>)

\* Rows picked by a mark, one at a time, and a gated projection; the
\* exporter declares the shape of the marks.
Picked ==
  [OnnxModel(
    <<Embedded,
      With([kind |-> "OneHot", axis |-> -1], <<"input_ids", "three", "off_on">>, "hot"),
      Do("MatMul", <<"hot", "table">>, "looked"),
      With([kind |-> "GatherND", batch |-> 0], <<"looked", "only">>, "rows"),
      Do("FusedSwiGLU", <<"looked", "h">>, "gated"),
      Do("FusedSwiGluProjection", <<"gated", "looked", "w_down">>, "down"),
      Do("Less", <<"h", "line">>, "below"), Do("Where", <<"below", "h", "gated">>, "logits")>>,
    FourWide @@ "three" :> Ints(<<3>>) @@ "off_on" :> Floats(<<2>>, <<0, 1>>)
      @@ "line" :> Floats(<<4>>, <<1, 2, 1, 0>>) @@ "only" :> [Ints(<<0>>) EXCEPT !.shape = <<1, 1>>] @@ "w_down" :> Weights(<<4, 2>>),
    <<TokenIds>>, <<"rows", "down", "logits">>)
   EXCEPT !.value_info = [hot |-> [dtype |-> "F32", dims |-> <<Named("batch"), Named("seq"), Concrete(3)>>]]]

\* Blocks of channels as the mode names them; the other mode is missed.
Shuffled(mode) ==
  OnnxModel(
    <<With([Blocks("DepthToSpace") EXCEPT !.mode = mode], <<"pixel_values">>, "plane"),
      With([kind |-> "Flatten", axis |-> 1], <<"plane">>, "row"), Do("MatMul", <<"row", "head">>, "logits")>>,
    "head" :> Weights(<<64, 2>>), <<Pixels>>, <<"plane", "logits">>)

\* Missed: copies off the first axis or more than two, sums off the last
\* axes, extremes, marks, bounds, a choice that stretches an operand.
OneOp(op, ins, weights) ==
  OnnxModel(<<Embedded, With(op, ins, "logits")>>, FourWide @@ weights, <<TokenIds>>, <<"logits">>)
Missed ==
  {OneOp([kind |-> "Tile", repeats |-> <<1, 1, 2>>], <<"h">>, <<>>),
   OneOp([kind |-> "Tile", repeats |-> <<3, 1, 1>>], <<"h">>, <<>>),
   OneOp(Clip, <<"h", "low", "high">>, Bounds),
   OneOp([kind |-> "Where"], <<"marks", "h", "line">>,
         "marks" :> [Ints(<<1, 0, 1, 0>>) EXCEPT !.dtype = "BOOL"] @@ "line" :> Floats(<<4>>, <<1, 2, 1, 0>>)),
   OneOp([kind |-> "ArgMax", axis |-> -1, keepdims |-> TRUE], <<"h">>, <<>>),
   OneOp([kind |-> "ReduceSum", axes |-> <<1>>, keepdims |-> FALSE], <<"h">>, <<>>),
   OneOp([kind |-> "GatherElements", axis |-> -1], <<"h", "at">>,
         "at" :> [Ints(<<2, 0, 1>>) EXCEPT !.shape = <<1, 3, 1>>]),
   OneOp([kind |-> "OneHot", axis |-> 1], <<"input_ids", "three", "off_on">>,
         "three" :> Ints(<<3>>) @@ "off_on" :> Floats(<<2>>, <<0, 1>>)),
   Shuffled("DCR")}

-----------------------------------------------------------------------------
ShapeNets ==
  {Heads, Mask, Triangular, Past, Vision, Upscaled, Selecting, Deciding, Quantized, Turned, Biased}
    \cup {Arranged, Picked, Shuffled("CRD")} \cup Missed
    \cup GroupedLayers \cup Rebuilding
===============================================================================
