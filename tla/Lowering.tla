-------------------------------- MODULE Lowering --------------------------------
(***************************************************************************)
(* Lowering (lower/dispatch.rs, lower/builder.rs): a graph of concrete     *)
(* shapes becomes a graph of the substrate's kernels.  Every operator is   *)
(* one kernel, an alias, or a pipeline of kernels that lay out, cut, join  *)
(* and multiply flat data; a kernel is told the shape it writes, and makes *)
(* no shape of its own.                                                    *)
(*                                                                         *)
(* Left out: the weight encodings (Dequantize), the norm's epsilon, rotary *)
(* tables fused into an attention, the axis of a Softmax, the constant of  *)
(* a Pad, control flow, and the unfused legacy fusions, which GraphIR has. *)
(***************************************************************************)
EXTENDS ShapeRepair

LOCAL IR == INSTANCE GraphIR

\* A value of the kernel graph: a tensor of the graph that is lowered, a
\* constant, or what a kernel makes of values.
Wire(t) == [from |-> "tensor", tensor |-> t]
Baked(x) == [from |-> "constant", value |-> x]
Kernel(op, ins, dims) == [from |-> "kernel", op |-> op, ins |-> ins, dims |-> dims]
const_i64(numbers) == Baked(Vector(numbers))
const_f32(numbers, dims) == Baked([dtype |-> "F32", shape |-> dims, data |-> numbers])

\* The recorded shape; lower refuses a graph where one is not concrete.
tensor_dims(g, t) == Now([d \in DOMAIN g.info[t].dims |-> g.info[t].dims[d][1]])
in_dims(g, node, n) == tensor_dims(g, node.ins[n])
out_dims(g, node) == tensor_dims(g, node.outs[1])

LOCAL Plain(kind) == [kind |-> kind]
LOCAL Larger(p, q) == IF p > q THEN p ELSE q
\* 1-based.
norm_axis(axis, rank) == IF axis < 0 THEN 1 + Larger(rank + axis, 0)
                         ELSE IF axis < rank THEN 1 + axis ELSE Larger(rank, 1)
\* The axes of a list before and after one, as one size.
LOCAL Lead(dims) == SubSeq(dims, 1, Len(dims) - 2)
LOCAL Rows(dims) == Volume(Front(dims))
LOCAL Ones(n) == [d \in 1 .. n |-> 1]
LOCAL Counting(n) == [p \in 1 .. n |-> p - 1]

-----------------------------------------------------------------------------
(* Pieces of a pipeline.                                                    *)
reshape_to(src, dims) == Kernel(Plain("Reshape"), <<src, const_i64(dims)>>, dims)
\* The element-wise kernels stretch nothing: an operand is laid out at the
\* output's shape first.
broadcast_to(src, from, to) ==
  LET aligned == Ones(Len(to) - Len(from)) \o from
      lifted == IF Len(aligned) = Len(from) THEN src ELSE reshape_to(src, aligned)
  IN IF aligned = to THEN lifted ELSE Kernel(Plain("Expand"), <<lifted>>, to)
transpose(src, dims, perm) ==
  Kernel(Plain("Transpose"), <<src, const_i64(perm)>>, Now([n \in DOMAIN perm |-> dims[perm[n] + 1]]))
Matrices(a, b, m, n) == Kernel(Plain("MatMul"), <<a, b>>, <<m, n>>)
\* Along the first axis a cut is a view, and names neither axes nor steps.
slice_axis(src, dims, a, from, to) ==
  Kernel([kind |-> "Slice", starts |-> <<>>],
         <<src, const_i64(<<from>>), const_i64(<<to>>)>>
           \o (IF a = 1 THEN <<>> ELSE <<const_i64(<<a - 1>>), const_i64(<<1>>)>>),
         Replace(dims, a, to - from))
\* A piece is a value with its shape; pieces are joined two at a time along
\* axis a, by a kernel that appends their data.
Piece0(src, dims) == [src |-> src, dims |-> dims]
LOCAL Joined2(p, q, a) ==
  LET out == [p.dims EXCEPT ![a] = @ + q.dims[a]]
  IN Piece0(Kernel(Plain("Concat"), <<p.src, q.src>>, out), out)
Appended(pieces, a) == IR!Through(LAMBDA p, q : Joined2(p, q, a), Head(pieces), Tail(pieces))

is_broadcast_binary(op) == op.kind \in {"Add", "Sub", "Mul", "Div", "Min", "Max", "And", "Or", "Equal", "Less"}
\* The kernel of a reduction folds all of its operand.
Whole(kind) == [kind |-> kind, axes |-> <<>>, keepdims |-> TRUE]
\* What is left of an operator's attributes in its kernel: a transposed Gemm
\* is taken for a plain one; a window keeps its size, strides and the pads
\* before it; a Clip loses its bounds, which are an attribute by then.
KernelOf(op) ==
  CASE op.kind \in {"Reshape", "Flatten", "Squeeze", "Unsqueeze"} -> Plain("Reshape")
    [] op.kind = "Transpose" -> Plain("Transpose")
    [] op.kind = "Slice" -> [kind |-> "Slice", starts |-> <<>>]
    [] op.kind = "Gemm" -> [op EXCEPT !.transA = FALSE, !.transB = FALSE]
    [] op.kind \in {"Conv", "ConvTranspose", "MaxPool", "AveragePool"} ->
         [op EXCEPT !.dilations = Ones(Len(@)), !.pads = SubSeq(@, 1, 2) \o SubSeq(@, 1, 2), !.ceil = FALSE]
    [] op.kind \in {"ReduceMax", "ReduceMin"} -> Whole(op.kind)
    [] op.kind = "Clip" -> Plain("Clip")
    [] OTHER -> op
\* Attributes the kernel reads as operands, unless they came as inputs.
attribute_operands(node) ==
  LET op == node.op IN
  CASE op.kind = "Transpose" /\ Len(node.ins) = 1 -> IF op.perm = <<>> THEN <<>> ELSE <<const_i64(op.perm)>>
    [] op.kind = "Slice" /\ Len(node.ins) = 1 ->
         <<const_i64(op.starts), const_i64(op.ends), const_i64(op.axes), const_i64(op.steps)>>
    [] OTHER -> <<>>
emit_simple(g, node) ==
  LET out == out_dims(g, node)
      Operand(n) == IF is_broadcast_binary(node.op) THEN broadcast_to(Wire(node.ins[n]), in_dims(g, node, n), out)
                    ELSE Wire(node.ins[n])
  IN Kernel(KernelOf(node.op), [n \in DOMAIN node.ins |-> Operand(n)] \o attribute_operands(node), out)

-----------------------------------------------------------------------------
(* Structure.                                                               *)
desugar_constant(g, node) ==
  LET out == out_dims(g, node) IN const_f32([n \in 1 .. Volume(out) |-> node.op.fill], out)
\* A start counts from the end when negative; an end does not.
desugar_shape(g, node) ==
  LET dims == in_dims(g, node, 1)
      rank == Len(dims)
      end == IF node.op.end < 0 THEN 0 ELSE IF node.op.end > rank THEN rank ELSE node.op.end
  IN const_i64(SubSeq(dims, 1 + (node.op.start % Larger(rank, 1)), end))
\* From the known values of its inputs; {} when one is not known.
desugar_range(g, node) ==
  LET Known(n) == {vals[1] : vals \in {vals \in g.info[node.ins[n]].known : vals # <<>>}} \ {Unknown}
  IN {const_i64(Counted(from, limit, delta).data) : from \in Known(1), limit \in Known(2), delta \in Known(3)}
\* One cut per output.
desugar_split(g, node) ==
  LET dims == in_dims(g, node, 1)
      a == norm_axis(node.op.axis, Len(dims))
      sizes == IF node.op.sizes = <<>> THEN [n \in DOMAIN node.outs |-> dims[a] \div Len(node.outs)]
               ELSE node.op.sizes
  IN [n \in DOMAIN sizes |-> slice_axis(Wire(node.ins[1]), dims, a, Before(sizes, n), Before(sizes, n) + sizes[n])]
\* Copies of all there is so far, axis after axis: a join appends one copy,
\* and declares twice the size the joins before it declared.
desugar_tile(g, node) ==
  LET Copies(acc, a) ==
        LET Copied(p, n) == Piece0(Kernel(Plain("Concat"), <<p.src, acc.src>>, Replace(p.dims, a, 2 * p.dims[a])),
                                   Replace(p.dims, a, 2 * p.dims[a]))
        IN IF a \in DOMAIN acc.dims THEN IR!Through(Copied, acc, Counting(node.op.repeats[a] - 1)) ELSE acc
  IN IR!Through(Copies, Piece0(Wire(node.ins[1]), in_dims(g, node, 1)), [a \in DOMAIN node.op.repeats |-> a]).src
\* Empty operands are dropped.  Data appends along the first axis only: the
\* axis joined along is moved there, and back.
desugar_concat(g, node) ==
  LET rank == Larger(Len(out_dims(g, node)), 1)
      a == norm_axis(node.op.axis, rank)
      full == SelectSeq(node.ins, LAMBDA t : Volume(tensor_dims(g, t)) # 0)
      forth == <<a - 1>> \o SelectSeq(Counting(rank), LAMBDA d : d # a - 1)
      back == [d \in 1 .. rank |-> IndexFirstSubSeq(<<d - 1>>, forth) - 1]
      Moved(t) == transpose(Wire(t), tensor_dims(g, t), forth)
      front == Appended([n \in DOMAIN full |-> Piece0(Moved(full[n]), Moved(full[n]).dims)], 1)
  IN IF full = <<>> THEN Wire(node.ins[1])
     ELSE IF Len(full) = 1 THEN Wire(full[1])
     ELSE IF a = 1 THEN Appended([n \in DOMAIN full |-> Piece0(Wire(full[n]), tensor_dims(g, full[n]))], 1).src
     ELSE transpose(front.src, front.dims, back)
\* Between the channels and the plane, through six axes; the mode of a
\* DepthToSpace is not read.
desugar_depth_space(g, node) ==
  LET x == in_dims(g, node, 1)
      b == node.op.block
      mid == IF node.op.kind = "DepthToSpace" THEN <<x[1], x[2] \div (b * b), b, b, x[3], x[4]>>
             ELSE <<x[1], x[2], x[3] \div b, b, x[4] \div b, b>>
      perm == IF node.op.kind = "DepthToSpace" THEN <<0, 1, 4, 2, 5, 3>> ELSE <<0, 1, 3, 5, 2, 4>>
  IN IF Len(x) # 4 THEN {}
     ELSE {reshape_to(transpose(reshape_to(Wire(node.ins[1]), mid), mid, perm), out_dims(g, node))}

-----------------------------------------------------------------------------
(* Selection.                                                               *)
\* To the type recorded for the output.
desugar_cast(g, node) ==
  Kernel([kind |-> "Cast", to |-> g.info[node.outs[1]].dtype], <<Wire(node.ins[1])>>, out_dims(g, node))
\* The table's rows; the operand of integers is the ids.
desugar_embed(g, node) ==
  LET ids == IF g.info[node.ins[1]].dtype \in {"INT64", "INT32"} THEN 1 ELSE 2
  IN Kernel([kind |-> "Gather", axis |-> 0], <<Wire(node.ins[3 - ids]), Wire(node.ins[ids])>>, out_dims(g, node))
\* GatherElements too, and a GatherND along the first axis.
desugar_gather(g, node) ==
  Kernel([kind |-> "Gather", axis |-> IF node.op.kind = "GatherND" THEN 0 ELSE node.op.axis],
         <<Wire(node.ins[1]), Wire(node.ins[2])>>, out_dims(g, node))
\* One row per index, compared with a row that counts.
one_hot(indices, rows, depth) ==
  LET ids == reshape_to(Kernel([kind |-> "Cast", to |-> "F32"], <<indices>>, <<rows>>), <<rows, 1>>)
      iota == const_f32(Counting(depth), <<1, depth>>)
  IN Kernel(Plain("Equal"), <<broadcast_to(ids, <<rows, 1>>, <<rows, depth>>),
                              broadcast_to(iota, <<1, depth>>, <<rows, depth>>)>>, <<rows, depth>>)
\* Its depth is that of the recorded shape; its values are 0 and 1.
desugar_one_hot(g, node) ==
  LET out == out_dims(g, node)
  IN reshape_to(one_hot(Wire(node.ins[1]), Volume(in_dims(g, node, 1)), out[norm_axis(node.op.axis, Len(out))]), out)
\* The extremum is compared and weighed at the shape it has.
desugar_arg_reduce(g, node) ==
  LET x == in_dims(g, node, 1)
      a == norm_axis(node.op.axis, Len(x))
      mask == Kernel(Plain("Equal"),
                     <<Wire(node.ins[1]),
                       Kernel(Whole("ReduceMax"), <<Wire(node.ins[1])>>, Replace(x, a, 1))>>, x)
      weighted == Kernel(Plain("Mul"), <<mask, const_f32(Counting(x[a]), Replace(Ones(Len(x)), a, x[a]))>>, x)
  IN Kernel(Whole("ReduceMax"), <<weighted>>, out_dims(g, node))
\* The one that is left is picked as an ArgMax does, for the values.
desugar_topk(g, node) ==
  LET out == out_dims(g, node) IN
  IF out[norm_axis(node.op.axis, Len(out))] = 1 THEN {desugar_arg_reduce(g, node)} ELSE {}

-----------------------------------------------------------------------------
(* Arithmetic.                                                              *)
\* Matrices of two axes go to the kernel as they are.  One second matrix for
\* all takes the first's batches as rows; otherwise each batch is cut out,
\* multiplied and joined.  {} when the batches are not one to one.
desugar_matmul(g, node) ==
  LET a == in_dims(g, node, 1)
      b == in_dims(g, node, 2)
      out == out_dims(g, node)
      m == a[Len(a) - 1]
      k == Last(a)
      n == Last(b)
      batch == Volume(Lead(a))
      Flat(src, dims) == reshape_to(src, dims)
      x3 == Flat(Wire(node.ins[1]), <<batch, m, k>>)
      y3 == Flat(Wire(node.ins[2]), <<batch, k, n>>)
      Product(i) == Flat(Matrices(Flat(slice_axis(x3, <<batch, m, k>>, 1, i - 1, i), <<m, k>>),
                                  Flat(slice_axis(y3, <<batch, k, n>>, 1, i - 1, i), <<k, n>>), m, n),
                         <<1, m, n>>)
  IN IF Len(a) <= 2 /\ Len(b) <= 2 THEN {emit_simple(g, node)}
     ELSE IF Len(a) < 2 \/ Len(b) < 2 THEN {}
     ELSE IF k # b[Len(b) - 1] THEN {}
     ELSE IF ToSet(Lead(b)) \subseteq {1}
       THEN {Flat(Matrices(Flat(Wire(node.ins[1]), <<batch * m, k>>), Flat(Wire(node.ins[2]), <<k, n>>),
                           batch * m, n), out)}
     ELSE IF batch # Volume(Lead(b)) THEN {}
     ELSE {Flat(Appended([i \in 1 .. batch |-> Piece0(Product(i), <<1, m, n>>)], 1).src, out)}
\* Over the last axes, as many as are named: rows against a column of ones.
reduce_trailing(src, dims, count, out) ==
  LET reduced == Larger(Volume(SubSeq(dims, Len(dims) - count + 1, Len(dims))), 1)
      rows == Larger(Volume(dims) \div reduced, 1)
  IN reshape_to(Matrices(reshape_to(src, <<rows, reduced>>), const_f32(Ones(reduced), <<reduced, 1>>), rows, 1), out)
desugar_reduce_axis(g, node) ==
  LET dims == in_dims(g, node, 1)
      count == IF node.op.axes = <<>> THEN Len(dims) ELSE Len(node.op.axes)
  IN reduce_trailing(Wire(node.ins[1]), dims, IF count > Len(dims) THEN Len(dims) ELSE count, out_dims(g, node))
\* Each operand as it is, beside the whole of x.  What the square root and
\* the division by it make is left out.
desugar_batchnorm(g, node) ==
  LET dims == in_dims(g, node, 1)
      Step(kind, src, n) == Kernel(Plain(kind), <<src, Wire(node.ins[n])>>, dims)
  IN Step("Add", Step("Mul", Step("Sub", Wire(node.ins[1]), 4), 2), 3)
\* One row per feature.
desugar_norm(g, node) ==
  LET dims == in_dims(g, node, 1)
      flat == <<Rows(dims), Last(dims)>>
  IN reshape_to(Kernel(node.op, <<reshape_to(Wire(node.ins[1]), flat), Wire(node.ins[2])>>, flat), out_dims(g, node))
swiglu_activation(g, node) ==
  LET dims == in_dims(g, node, 1)
  IN Kernel(Plain("Mul"), <<Kernel(Plain("Silu"), <<Wire(node.ins[1])>>, dims), Wire(node.ins[2])>>, dims)
desugar_swiglu_projection(g, node) ==
  LET dims == in_dims(g, node, 1)
      act == reshape_to(swiglu_activation(g, node), <<Rows(dims), Last(dims)>>)
  IN reshape_to(Matrices(act, Wire(node.ins[3]), Rows(dims), Last(in_dims(g, node, 3))), out_dims(g, node))

-----------------------------------------------------------------------------
(* The whole graph.                                                         *)
\* Operators with no kernel of their own: products, norms and layout;
\* reductions, selection, fusions and constants.
LaidOut == {"MatMul", "RmsNorm", "BatchNorm", "Concat", "Split", "Gather", "GatherElements", "GatherND", "Tile",
            "Shape", "Range"}
Worked == {"ReduceSum", "ArgMax", "TopK", "NonZero", "Compress", "ScatterND", "OneHot", "DepthToSpace",
           "SpaceToDepth", "Cast", "Quantize", "Embed", "FusedSwiGLU", "FusedSwiGluProjection", "ConstantOfShape"}
\* A triangle that is not yet a constant is taken for its input.
dispatch(op) == CASE op.kind \in LaidOut \cup Worked -> "Desugar"
                  [] op.kind \in {"Identity", "Trilu"} -> "Identity"
                  [] OTHER -> "Direct"
\* The values of the outputs, the first or all of them; {} when refused.
desugar(g, node) ==
  LET kind == node.op.kind IN
  CASE kind = "MatMul" -> {<<v>> : v \in desugar_matmul(g, node)}
    [] kind = "Concat" -> {<<desugar_concat(g, node)>>}
    [] kind = "ConstantOfShape" -> {<<desugar_constant(g, node)>>}
    [] kind = "Split" -> {desugar_split(g, node)}
    [] kind \in {"Gather", "GatherElements", "GatherND"} -> {<<desugar_gather(g, node)>>}
    [] kind = "Embed" -> {<<desugar_embed(g, node)>>}
    [] kind = "OneHot" -> {<<desugar_one_hot(g, node)>>}
    [] kind = "Cast" -> {<<desugar_cast(g, node)>>}
    [] kind = "Tile" -> {<<desugar_tile(g, node)>>}
    [] kind = "BatchNorm" -> {<<desugar_batchnorm(g, node)>>}
    [] kind = "ReduceSum" -> {<<desugar_reduce_axis(g, node)>>}
    [] kind = "ArgMax" -> {<<desugar_arg_reduce(g, node)>>}
    [] kind = "TopK" -> {<<v>> : v \in desugar_topk(g, node)}
    [] kind \in {"DepthToSpace", "SpaceToDepth"} -> {<<v>> : v \in desugar_depth_space(g, node)}
    [] kind = "Shape" -> {<<desugar_shape(g, node)>>}
    [] kind = "Range" -> {<<v>> : v \in desugar_range(g, node)}
    [] kind = "FusedSwiGLU" -> {<<swiglu_activation(g, node)>>}
    [] kind = "FusedSwiGluProjection" -> {<<desugar_swiglu_projection(g, node)>>}
    [] kind = "RmsNorm" -> {<<desugar_norm(g, node)>>}
    \* What is encoded at compile time is already quantized.
    [] kind = "Quantize" -> {<<Wire(node.ins[1])>>}
    [] kind \in {"NonZero", "Compress", "ScatterND"} -> {}
emit(g, node) == CASE dispatch(node.op) = "Direct" -> {<<emit_simple(g, node)>>}
                   [] dispatch(node.op) = "Identity" -> {<<Wire(node.ins[1])>>}
                   [] dispatch(node.op) = "Desugar" -> desugar(g, node)

\* The operators whose kernels do not compute what they mean.
Misses(g, node) ==
  LET op == node.op
      x == in_dims(g, node, 1)
      Axes == AxesOf(op.axes, Len(x)) IN
  CASE op.kind \in {"GatherElements", "Trilu", "ArgMax", "TopK", "BatchNorm", "SpaceToDepth", "Clip"} -> TRUE
    [] op.kind = "GatherND" -> op.batch # 0 \/ Last(in_dims(g, node, 2)) # 1
    [] op.kind = "DepthToSpace" -> op.mode = "DCR"
    [] op.kind = "Tile" -> \E a \in DOMAIN op.repeats :
                              \/ op.repeats[a] \notin {1, 2}
                              \/ op.repeats[a] = 2 /\ Volume([d \in 1 .. a - 1 |-> x[d] * op.repeats[d]]) # 1
    [] op.kind = "Where" -> \E n \in DOMAIN node.ins : Volume(in_dims(g, node, n)) # Volume(out_dims(g, node))
    [] op.kind = "ReduceSum" -> op.axes # <<>> /\ Axes # (Len(x) - Len(op.axes) + 1) .. Len(x)
    [] op.kind = "OneHot" -> \/ norm_axis(op.axis, Len(x) + 1) # Len(x) + 1
                             \/ node.ins[3] \notin DOMAIN g.params
                             \/ g.params[node.ins[3]].data # <<0, 1>>
    [] op.kind = "Shape" -> op.end < 0
    [] op.kind \in {"ReduceMax", "ReduceMin"} -> Volume(out_dims(g, node)) # 1
    [] op.kind \in {"Gemm", "Conv", "ConvTranspose", "MaxPool", "AveragePool"} -> KernelOf(op) # op
    [] OTHER -> FALSE

\* Inputs and weights have a value from the start.
emit_inputs(g) == [nodes |-> <<>>, bound |-> ToSet(g.inputs) \cup DOMAIN g.params, inexact |-> {}]
\* {} when the node is refused, reads what no node before it wrote, or is of
\* a shape that is not concrete.  inexact is kept for the properties.
emit_nodes(g, whole, node) ==
  LET read == ToSet(node.ins)
      Concrete1(t) == \A d \in DOMAIN g.info[t].dims : Fixed(g.info[t].dims[d])
  IN {[nodes |-> Append(whole.nodes, [ins |-> node.ins, outs |-> SubSeq(node.outs, 1, Len(v)), values |-> v]),
       bound |-> whole.bound \cup {node.outs[n] : n \in DOMAIN v},
       inexact |-> whole.inexact \cup (IF Misses(g, node) THEN {node.op.kind} ELSE {})] :
        v \in IF read \subseteq whole.bound /\ \A t \in read \cup {node.outs[1]} : Concrete1(t)
              THEN emit(g, node) ELSE {}}
emit_outputs(g, whole) ==
  IF ToSet(g.outputs) \subseteq whole.bound
  THEN [g EXCEPT !.nodes = whole.nodes] @@ [inexact |-> whole.inexact] ELSE Refused
\* Nodes in topological order; one refused refuses the graph.
lower(g) ==
  LET After(wholes, node) == UNION {emit_nodes(g, whole, node) : whole \in wholes}
      all == IR!Through(After, {emit_inputs(g)}, g.nodes)
  IN IF all = {} THEN Refused ELSE emit_outputs(g, The(all))

-----------------------------------------------------------------------------
(* The kernels of the substrate, by how the builder uses them.              *)
\* Past the end of an operand there is nothing.
LOCAL Entry(x, n) == IF n \in DOMAIN x.data THEN x.data[n] ELSE 0
LOCAL SideBySide(op, xs, dims) ==
  LET Line(x) == [x EXCEPT !.shape = <<Volume(dims)>>, !.data = [n \in 1 .. Volume(dims) |-> Entry(x, n)]]
  IN Reshaped(Meaning(op, [k \in DOMAIN xs |-> Line(xs[k])])[1], dims)
KernelValue(op, xs, dims) ==
  CASE is_broadcast_binary(op) \/ op.kind = "Where" -> SideBySide(op, xs, dims)
    \* A Clip has its bounds as operands, and is given none.
    [] op.kind \in {"Reshape", "Clip"} -> Reshaped(xs[1], dims)
    [] op.kind = "Expand" -> Spread(xs[1], dims)
    [] op.kind = "Concat" -> [xs[1] EXCEPT !.shape = dims, !.data = @ \o xs[2].data]
    [] op.kind = "Transpose" -> Permuted(xs[1], IF Len(xs) = 1 THEN <<>> ELSE xs[2].data)
    [] OTHER -> Reshaped(Meaning(op, xs)[1], dims)
RECURSIVE ValueOf(_, _)
ValueOf(v, env) ==
  CASE v.from = "tensor" -> env[v.tensor]
    [] v.from = "constant" -> v.value
    [] v.from = "kernel" -> KernelValue(v.op, Now([n \in DOMAIN v.ins |-> ValueOf(v.ins[n], env)]), v.dims)
===============================================================================
