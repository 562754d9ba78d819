------------------------------ MODULE ShapeRules ------------------------------
(***************************************************************************)
(* What the compiler infers of a node's outputs from its inputs' shapes.   *)
(* A dimension <<k, of>> is k times the variable named of: concrete when   *)
(* of is "", anything at all when it is "?".  The empty shape stands for   *)
(* an unknown one (and for a scalar).  Known values of a tensor are {} or  *)
(* {sequence}, with Unknown where one entry is not known.                  *)
(***************************************************************************)
EXTENDS ConstEval

Unknown == -99
Unbounded == 99                    \* i64::MAX, an end nothing reaches
Concrete(n) == <<n, "">>
Dynamic == <<1, "?">>
Fixed(d) == d[2] = ""
Settled(dims) == dims # <<>> /\ \A d \in DOMAIN dims : Fixed(dims[d])
shape_from_concrete(sizes) == [d \in DOMAIN sizes |-> Concrete(sizes[d])]

LOCAL Larger(p, q) == IF p > q THEN p ELSE q
\* A size computed from a dimension, when it is known.
LOCAL Computed(d, F(_)) == IF Fixed(d) THEN Concrete(F(d[1])) ELSE Dynamic
\* The product of the known sizes, at least 1.
LOCAL KnownVolume(dims) == Larger(1, Volume([d \in DOMAIN dims |-> IF Fixed(dims[d]) THEN dims[d][1] ELSE 1]))
LOCAL OrDynamic(dims, d) == IF d \in DOMAIN dims THEN dims[d] ELSE Dynamic
\* Counted from 1; past the rank when the axis is not one of the shape.
LOCAL Axis1(axis, dims) == 1 + normalize_axis(axis, Len(dims))

-----------------------------------------------------------------------------
(* The category of an operator.                                             *)
UnaryElementwise == {"Identity", "Neg", "Not", "Round", "Clip"}
ShapePreserving == {"Softmax", "RmsNorm", "FusedSwiGLU"}
BinaryElementwise == {"Add", "Sub", "Mul", "Div", "Min", "Max", "And", "Or"}
BinaryComparison == {"Less", "Equal"}

add_dims(p, q) == IF Fixed(p) /\ Fixed(q) THEN Concrete(p[1] + q[1]) ELSE Dynamic

broadcast_dims(a, b) ==
  LET rank == Larger(Len(a), Len(b))
      Dim(dims, d) == IF d <= rank - Len(dims) THEN Concrete(1) ELSE dims[d - (rank - Len(dims))]
  IN [d \in 1 .. rank |->
        IF Dim(a, d) = Concrete(1) THEN Dim(b, d)
        ELSE IF Dim(b, d) = Concrete(1) THEN Dim(a, d)
        ELSE IF Fixed(Dim(a, d)) /\ Dim(a, d) = Dim(b, d) THEN Dim(a, d) ELSE Dynamic]

\* Every axis reduced away still claims one dimension.
reduce_shape(x, axes, keepdims) ==
  LET reduced == {Axis1(axes[n], x) : n \in DOMAIN axes}
  IN IF axes = <<>> THEN (IF keepdims THEN [d \in DOMAIN x |-> Concrete(1)] ELSE <<Concrete(1)>>)
     ELSE IF keepdims THEN [d \in DOMAIN x |-> IF d \in reduced THEN Concrete(1) ELSE x[d]]
     ELSE Without(x, reduced)

\* The target of a Reshape: 0 copies the axis, what is missing is solved
\* from the element count, or handed the variables of the data in order.
resolve_reshape_shape(vals, data) ==
  LET missing == {n \in DOMAIN vals : vals[n] \in {-1, Unknown}}
      nones == SelectSeq([n \in DOMAIN vals |-> n], LAMBDA n : vals[n] = Unknown)
      Given(n) == IF vals[n] = 0 THEN OrDynamic(data, n)
                  ELSE IF vals[n] > 0 THEN Concrete(vals[n]) ELSE Dynamic
      symbolic == SelectSeq(data, LAMBDA d : ~Fixed(d))
      Absorbing(ratio, vars) == IF Len(vars) = 1 THEN <<ratio * vars[1][1], vars[1][2]>>
                                ELSE Concrete(Larger(1, ratio))
      Others(S) == KnownVolume([n \in DOMAIN vals |-> IF n \in S THEN Dynamic ELSE Given(n)])
      single == [n \in DOMAIN vals |->
        IF n \notin missing THEN Given(n)
        ELSE IF \A e \in DOMAIN vals \ missing : Fixed(Given(e))
               THEN Absorbing(KnownVolume(data) \div Others(missing), symbolic)
        ELSE OrDynamic(data, n)]
      Heir(n) == LET j == CHOOSE j \in DOMAIN nones : nones[j] = n
                 IN IF j <= Len(symbolic) THEN symbolic[j] ELSE OrDynamic(data, n)
      inherited == [n \in DOMAIN vals |-> IF vals[n] = Unknown THEN Heir(n) ELSE Given(n)]
      left == SubSeq(symbolic, Len(nones) + 1, Len(symbolic))
      wanted_n == {n \in DOMAIN vals : vals[n] = -1}
      several == [n \in DOMAIN vals |->
        IF n \notin wanted_n THEN inherited[n]
        ELSE IF Cardinality(wanted_n) > 1 THEN Dynamic
        ELSE Absorbing(KnownVolume(data) \div
                         KnownVolume([e \in DOMAIN vals |-> IF e = n THEN Dynamic ELSE inherited[e]]), left)]
  IN IF missing = {} THEN [n \in DOMAIN vals |-> Given(n)]
     ELSE IF data = <<>> THEN [n \in DOMAIN vals |-> IF n \in missing THEN Dynamic ELSE Given(n)]
     ELSE IF Cardinality(missing) = 1 THEN single ELSE several

-----------------------------------------------------------------------------
(* The rules of operators of their own.                                     *)
MatMulShape(ins) ==
  IF Len(ins) >= 2 /\ Len(ins[1]) >= 2 /\ Len(ins[2]) >= 2
    THEN Append(Front(ins[1]), Last(ins[2])) ELSE <<>>
GemmShape(op, ins) ==
  IF Len(ins) >= 2 /\ Len(ins[1]) = 2 /\ Len(ins[2]) = 2
    THEN <<IF op.transA THEN ins[1][2] ELSE ins[1][1], IF op.transB THEN ins[2][1] ELSE ins[2][2]>>
    ELSE <<>>
EmbedShape(ins) == IF Len(ins) >= 2 /\ ins[2] # <<>> THEN Append(ins[1], Last(ins[2])) ELSE <<>>
SwiGluProjectionShape(ins) ==
  IF Len(ins) >= 3 /\ ins[1] # <<>> /\ Len(ins[3]) >= 2 THEN Append(Front(ins[1]), Last(ins[3])) ELSE <<>>

ConcatShape(op, ins) ==
  LET ax == Axis1(op.axis, ins[1])
      Joined(sum, x) == IF ax \in DOMAIN x THEN add_dims(sum, x[ax]) ELSE sum
  IN IF ins = <<>> \/ ins[1] = <<>> THEN <<>>
     ELSE IF ax \in DOMAIN ins[1] THEN [ins[1] EXCEPT ![ax] = FoldLeft(Joined, ins[1][ax], Tail(ins))]
     ELSE ins[1]

\* The rank of the input, cut to the wanted entries.
ShapeShape(op, x) ==
  LET after == IF op.end < 0 THEN normalize_axis(op.end, Len(x)) ELSE IF op.end > Len(x) THEN Len(x) ELSE op.end
  IN IF x = <<>> THEN <<>> ELSE <<Concrete(Larger(0, after - normalize_axis(op.start, Len(x))))>>

GatherShape(op, ins) ==
  LET ax == Axis1(op.axis, ins[1])
  IN IF Len(ins) >= 2 /\ ins[1] # <<>>
       THEN SubSeq(ins[1], 1, ax - 1) \o ins[2] \o SubSeq(ins[1], ax + 1, Len(ins[1])) ELSE <<>>
GatherElementsShape(ins) == IF Len(ins) >= 2 THEN ins[2] ELSE <<>>
\* The leading axes of the data, the indices but their last, what is left.
GatherNDShape(op, ins) ==
  LET data == ins[1]
      idx == ins[2]
      left == IF Fixed(Last(idx)) THEN SubSeq(data, op.batch + Last(idx)[1] + 1, Len(data)) ELSE <<>>
  IN IF Len(ins) < 2 THEN <<>> ELSE IF data = <<>> \/ idx = <<>> THEN <<>>
     ELSE SubSeq(data, 1, op.batch) \o SubSeq(idx, op.batch + 1, Len(idx) - 1) \o left

UnsqueezeShape(op, x) ==
  LET rank == Len(x) + Len(op.axes)
      new == {1 + normalize_axis(op.axes[n], rank) : n \in DOMAIN op.axes}
      Taken(d) == Cardinality(1 .. d \ new)
      kept == SelectSeq([d \in 1 .. rank |-> d], LAMBDA d : d \in new \/ Taken(d) <= Len(x))
  IN [p \in DOMAIN kept |-> IF kept[p] \in new THEN Concrete(1) ELSE x[Taken(kept[p])]]
SqueezeShape(op, x) ==
  IF op.axes = <<>> THEN SelectSeq(x, LAMBDA d : d # Concrete(1))
  ELSE Without(x, {Axis1(op.axes[n], x) : n \in DOMAIN op.axes})
TransposeShape(op, x) ==
  IF x = <<>> THEN <<>>
  ELSE IF op.perm = <<>> THEN Reverse(x) ELSE [d \in DOMAIN op.perm |-> OrDynamic(x, op.perm[d] + 1)]
FlattenShape(op, x) ==
  LET ax == normalize_axis(op.axis, Len(x))
      sizes == [d \in DOMAIN x |-> x[d][1]]
  IN IF x = <<>> THEN <<>>
     ELSE IF Settled(x) THEN shape_from_concrete(<<Volume(SubSeq(sizes, 1, ax)),
                                                   Volume(SubSeq(sizes, ax + 1, Len(x)))>>)
     ELSE <<Dynamic, Dynamic>>

\* Each cut is of the input's own axis; with no attributes the whole is kept.
SliceShape(op, x) ==
  LET Cuts(d) == {n \in DOMAIN op.axes : Axis1(op.axes[n], x) = d}
      Length(n, size) ==
        LET first == normalize_slice_bound(op.starts[n], size)
            after == normalize_slice_bound(op.ends[n], size)
            step == Larger(1, op.steps[n])
        IN IF after > first THEN (after - first + step - 1) \div step ELSE 0
  IN [d \in DOMAIN x |-> IF Cuts(d) = {} THEN x[d]
                         ELSE Computed(x[d], LAMBDA size : Length(Max(Cuts(d)), size))]
SplitShapes(op, x) ==
  [n \in DOMAIN op.sizes |-> IF Axis1(op.axis, x) \in DOMAIN x
                               THEN [x EXCEPT ![Axis1(op.axis, x)] = Concrete(op.sizes[n])] ELSE x]
TileShape(op, x) ==
  [d \in DOMAIN x |-> Computed(x[d], LAMBDA size : size * (IF d \in DOMAIN op.repeats THEN op.repeats[d] ELSE 1))]

\* Known targets are broadcast with the input; with none the input's shape
\* is answered.
ExpandShape(x, vals) ==
  IF vals = {} \/ <<>> \in vals THEN x
  ELSE LET wish == CHOOSE v \in vals : TRUE
       IN broadcast_dims(x, [d \in DOMAIN wish |-> IF wish[d] >= 0 THEN Concrete(wish[d]) ELSE Dynamic])
ReshapeShape(x, vals) == IF vals = {} THEN <<>> ELSE resolve_reshape_shape(CHOOSE v \in vals : TRUE, x)

-----------------------------------------------------------------------------
(* Windows, images and selections.                                          *)
\* Fault: a window that starts inside and runs over the end is not counted.
WholeWindows(size, span, stride, before, after, up) == 1 + (size + before + after - span) \div stride

pool_output_dim(size, span, stride, before, after, up) ==
  LET room == size + before + after - span
  IN IF room < 0 THEN 0 ELSE 1 + (IF up THEN (room + stride - 1) \div stride ELSE room \div stride)
LOCAL Image(op, x, channels, Out(_, _)) ==
  <<x[1], channels>> \o
  [d \in DOMAIN op.kernel |-> IF d + 2 \in DOMAIN x THEN Computed(x[d + 2], LAMBDA size : Out(size, d)) ELSE Dynamic]
LOCAL Span(op, d) == op.dilations[d] * (op.kernel[d] - 1) + 1
ConvShape(op, ins) ==
  IF Len(ins) < 2 \/ Len(ins[1]) < 2 THEN <<>>
  ELSE Image(op, ins[1], OrDynamic(ins[2], 1), LAMBDA size, d :
               1 + Larger(0, size + op.pads[d] + op.pads[Len(op.kernel) + d] - Span(op, d)) \div op.strides[d])
ConvTransposeShape(op, ins) ==
  IF Len(ins) < 2 \/ Len(ins[1]) < 2 THEN <<>>
  ELSE Image(op, ins[1], OrDynamic(ins[2], 2), LAMBDA size, d :
               op.strides[d] * (size - 1) + op.extra[d] + Span(op, d)
                 - op.pads[d] - op.pads[Len(op.kernel) + d])
\* An AveragePool's dilations are not read.
MaxPoolShape(op, x) ==
  IF Len(x) < 2 THEN <<>>
  ELSE Image(op, x, x[2], LAMBDA size, d :
               pool_output_dim(size, Span(op, d), op.strides[d], op.pads[d], op.pads[Len(op.kernel) + d], op.ceil))
AveragePoolShape(op, x) ==
  IF Len(x) < 2 THEN <<>>
  ELSE Image(op, x, x[2], LAMBDA size, d :
               pool_output_dim(size, op.kernel[d], op.strides[d], op.pads[d], op.pads[Len(op.kernel) + d], op.ceil))
GlobalAveragePoolShape(x) ==
  IF Len(x) < 2 THEN <<>> ELSE [d \in DOMAIN x |-> IF d <= 2 THEN x[d] ELSE Concrete(1)]

ResizeShape(x, vals) ==
  IF vals = {} \/ <<>> \in vals THEN x
  ELSE LET sizes == CHOOSE v \in vals : TRUE
       IN [d \in DOMAIN sizes |-> IF sizes[d] > 0 THEN Concrete(sizes[d]) ELSE Dynamic]
PadShape(x, vals) ==
  LET pads == CHOOSE v \in vals : TRUE
      Amount(n) == IF pads[n] = Unknown THEN 0 ELSE pads[n]
  IN IF vals = {} THEN x
     ELSE IF Len(pads) # 2 * Len(x) THEN x
     ELSE [d \in DOMAIN x |-> Computed(x[d], LAMBDA size : size + Amount(d) + Amount(Len(x) + d))]

TopKShape(op, x) == [d \in DOMAIN x |-> IF d = Axis1(op.axis, x) THEN Dynamic ELSE x[d]]
NonZeroShape(x) == <<Concrete(Len(x)), Dynamic>>
OneHotShape(op, x) == InsertAt(x, 1 + normalize_axis(op.axis, Len(x) + 1), Dynamic)
DepthToSpaceShape(op, x) ==
  IF Len(x) # 4 THEN x
  ELSE <<x[1], Computed(x[2], LAMBDA size : size \div (op.block * op.block)),
         Computed(x[3], LAMBDA size : size * op.block), Computed(x[4], LAMBDA size : size * op.block)>>
SpaceToDepthShape(op, x) ==
  IF Len(x) # 4 THEN x
  ELSE <<x[1], Computed(x[2], LAMBDA size : size * op.block * op.block),
         Computed(x[3], LAMBDA size : size \div op.block), Computed(x[4], LAMBDA size : size \div op.block)>>
CompressShape(op, x) == IF op.flat THEN <<Dynamic>>
                        ELSE [d \in DOMAIN x |-> IF d = Axis1(op.axis, x) THEN Dynamic ELSE x[d]]
ArgMaxShape(op, x) ==
  IF op.keepdims THEN [d \in DOMAIN x |-> IF d = Axis1(op.axis, x) THEN Concrete(1) ELSE x[d]]
  ELSE Without(x, {Axis1(op.axis, x)})
BatchNormShapes(op, x) == IF op.training /\ Len(x) >= 2 THEN <<x>> \o [n \in 1 .. 4 |-> <<x[2]>>] ELSE <<x>>

-----------------------------------------------------------------------------
infer_output_shapes(op, ins, vals) ==
  LET x == ins[1] IN
  CASE op.kind \in UnaryElementwise \cup ShapePreserving \cup {"Cast", "ScatterND"} -> <<x>>
    [] op.kind \in BinaryElementwise \cup BinaryComparison ->
         <<IF Len(ins) >= 2 THEN broadcast_dims(x, ins[2]) ELSE x>>
    [] op.kind = "MatMul" -> <<MatMulShape(ins)>>
    [] op.kind = "Gemm" -> <<GemmShape(op, ins)>>
    [] op.kind = "Embed" -> <<EmbedShape(ins)>>
    [] op.kind = "FusedSwiGluProjection" -> <<SwiGluProjectionShape(ins)>>
    [] op.kind = "Concat" -> <<ConcatShape(op, ins)>>
    [] op.kind = "GroupedQueryAttention" -> <<x>>
    [] op.kind \in {"ReduceSum", "ReduceMax", "ReduceMin"} -> <<reduce_shape(x, op.axes, op.keepdims)>>
    [] op.kind = "Shape" -> <<ShapeShape(op, x)>>
    [] op.kind = "Gather" -> <<GatherShape(op, ins)>>
    [] op.kind = "GatherElements" -> <<GatherElementsShape(ins)>>
    [] op.kind = "GatherND" -> <<GatherNDShape(op, ins)>>
    [] op.kind = "Unsqueeze" -> <<UnsqueezeShape(op, x)>>
    [] op.kind = "Squeeze" -> <<SqueezeShape(op, x)>>
    [] op.kind = "Transpose" -> <<TransposeShape(op, x)>>
    [] op.kind = "Flatten" -> <<FlattenShape(op, x)>>
    [] op.kind = "Slice" -> <<SliceShape(op, x)>>
    [] op.kind = "Split" -> SplitShapes(op, x)
    [] op.kind = "Tile" -> <<TileShape(op, x)>>
    [] op.kind = "Where" -> <<IF Len(ins) >= 3 THEN broadcast_dims(broadcast_dims(x, ins[2]), ins[3]) ELSE <<>>>>
    [] op.kind = "Reshape" -> <<ReshapeShape(x, vals)>>
    [] op.kind = "Expand" -> <<ExpandShape(x, vals)>>
    [] op.kind = "Conv" -> <<ConvShape(op, ins)>>
    [] op.kind = "ConvTranspose" -> <<ConvTransposeShape(op, ins)>>
    [] op.kind = "MaxPool" -> <<MaxPoolShape(op, x)>>
    [] op.kind = "AveragePool" -> <<AveragePoolShape(op, x)>>
    [] op.kind = "GlobalAveragePool" -> <<GlobalAveragePoolShape(x)>>
    [] op.kind = "Resize" -> <<ResizeShape(x, vals)>>
    [] op.kind = "Pad" -> <<PadShape(x, vals)>>
    [] op.kind = "TopK" -> <<TopKShape(op, x), TopKShape(op, x)>>
    [] op.kind = "NonZero" -> <<NonZeroShape(x)>>
    [] op.kind = "OneHot" -> <<OneHotShape(op, x)>>
    [] op.kind = "DepthToSpace" -> <<DepthToSpaceShape(op, x)>>
    [] op.kind = "SpaceToDepth" -> <<SpaceToDepthShape(op, x)>>
    [] op.kind = "Compress" -> <<CompressShape(op, x)>>
    [] op.kind = "ArgMax" -> <<ArgMaxShape(op, x)>>
    [] op.kind = "BatchNorm" -> BatchNormShapes(op, x)
    [] OTHER -> << <<>> >>

infer_output_dtypes(op, types, n) ==
  CASE op.kind \in BinaryComparison -> [k \in 1 .. n |-> "BOOL"]
    [] op.kind \in {"Shape", "Range", "NonZero"} -> [k \in 1 .. n |-> "INT64"]
    [] op.kind = "Cast" -> [k \in 1 .. n |-> op.to]
    [] op.kind = "TopK" -> <<types[1], "INT64">>
    [] OTHER -> [k \in 1 .. n |-> types[1]]
===============================================================================
