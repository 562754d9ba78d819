------------------------------ MODULE TensorOps ------------------------------
(***************************************************************************)
(* What the operators of a graph mean, on small tensors of integers: the   *)
(* reference that compile-time evaluation, shape inference and known       *)
(* values are held against.  A tensor is its shape and its elements in     *)
(* row-major order; operators whose elements nothing in the compiler       *)
(* computes (convolutions, pools, TopK) have a shape and zeros.            *)
(***************************************************************************)
EXTENDS Integers, FiniteSets, SequencesExt

RECURSIVE Volume(_)
Volume(dims) == IF dims = <<>> THEN 1 ELSE Head(dims) * Volume(Tail(dims))

\* The coordinates of the n-th element, and back.
CoordsOf(n, dims) ==
  [d \in DOMAIN dims |-> (n \div Volume(SubSeq(dims, d + 1, Len(dims)))) % dims[d]]
RECURSIVE Offset(_, _, _)
Offset(c, dims, above) ==
  IF c = <<>> THEN above ELSE Offset(Tail(c), Tail(dims), above * Head(dims) + Head(c))

At(x, c) == x.data[1 + Offset(c, x.shape, 0)]
\* A sequence as a tuple of its elements (TLC evaluates each of them once).
Now(s) == s \o <<>>
Tensor(dtype, dims, Value(_)) ==
  [dtype |-> dtype, shape |-> Now(dims),
   data |-> Now([n \in 1 .. Volume(dims) |-> Value(CoordsOf(n - 1, dims))])]
Zeros(dtype, dims) == Tensor(dtype, dims, LAMBDA c : 0)
Reshaped(x, dims) == [x EXCEPT !.shape = Now(dims)]
Vector(numbers) == [dtype |-> "INT64", shape |-> <<Len(numbers)>>, data |-> numbers]

\* An axis counted from the end when negative; the results are 1-based.
AxisOf(axis, rank) == 1 + (IF axis < 0 THEN rank + axis ELSE axis)
AxesOf(axes, rank) == {AxisOf(axes[n], rank) : n \in DOMAIN axes}
Without(dims, drop) == LET kept == SelectSeq([d \in DOMAIN dims |-> d], LAMBDA d : d \notin drop)
                       IN [n \in DOMAIN kept |-> dims[kept[n]]]
Replace(dims, d, size) == [dims EXCEPT ![d] = size]

-----------------------------------------------------------------------------
(* Broadcasting: shapes meet at their last axes, an axis of 1 stretches.    *)
Joint(a, b) ==
  LET rank == IF Len(a) > Len(b) THEN Len(a) ELSE Len(b)
      Dim(dims, d) == IF d <= rank - Len(dims) THEN 1 ELSE dims[d - (rank - Len(dims))]
  IN [d \in 1 .. rank |-> IF Dim(a, d) = 1 THEN Dim(b, d) ELSE Dim(a, d)]
Stretched(x, c) ==
  At(x, [d \in DOMAIN x.shape |-> IF x.shape[d] = 1 THEN 0 ELSE c[d + Len(c) - Len(x.shape)]])
Elementwise(dtype, x, y, F(_, _)) ==
  Tensor(dtype, Joint(x.shape, y.shape), LAMBDA c : F(Stretched(x, c), Stretched(y, c)))
Chosen(cond, x, y) ==
  Tensor(x.dtype, Joint(Joint(cond.shape, x.shape), y.shape),
         LAMBDA c : IF Stretched(cond, c) # 0 THEN Stretched(x, c) ELSE Stretched(y, c))
Spread(x, dims) == Tensor(x.dtype, Joint(x.shape, dims), LAMBDA c : Stretched(x, c))
Truth(b) == IF b THEN 1 ELSE 0
Toward0(a, b) == IF a >= 0 THEN a \div b ELSE -((-a) \div b)

-----------------------------------------------------------------------------
(* Layout.                                                                  *)
\* A target of Reshape: 0 keeps the axis, -1 takes what is left.
Target(x, wish) ==
  LET given == [d \in DOMAIN wish |-> IF wish[d] = 0 THEN x.shape[d] ELSE wish[d]]
      rest == Volume(SelectSeq(given, LAMBDA size : size # -1))
  IN [d \in DOMAIN given |-> IF given[d] = -1 THEN Len(x.data) \div rest ELSE given[d]]
Permuted(x, perm) ==
  LET order == IF perm = <<>> THEN [d \in DOMAIN x.shape |-> Len(x.shape) - d] ELSE perm
  IN Tensor(x.dtype, [d \in DOMAIN order |-> x.shape[order[d] + 1]],
            LAMBDA c : At(x, [d \in DOMAIN order |-> c[CHOOSE e \in DOMAIN order : order[e] + 1 = d]]))
Inserted(x, axes) ==
  LET rank == Len(x.shape) + Len(axes)
      new == AxesOf(axes, rank)
  IN [d \in 1 .. rank |-> IF d \in new THEN 1
                          ELSE x.shape[Cardinality({e \in 1 .. d : e \notin new})]]

\* Where the pieces of a sequence of sizes begin.
RECURSIVE Before(_, _)
Before(sizes, n) == IF n = 1 THEN 0 ELSE sizes[n - 1] + Before(sizes, n - 1)
Stacked(xs, axis) ==
  LET a == AxisOf(axis, Len(xs[1].shape))
      sizes == [n \in DOMAIN xs |-> xs[n].shape[a]]
      Holder(p) == CHOOSE n \in DOMAIN xs : Before(sizes, n) <= p /\ p < Before(sizes, n + 1)
  IN Tensor(xs[1].dtype, Replace(xs[1].shape, a, Before(sizes, Len(xs) + 1)),
            LAMBDA c : LET n == Holder(c[a])
                       IN At(xs[n], [d \in DOMAIN c |-> IF d = a THEN c[d] - Before(sizes, n) ELSE c[d]]))

Bounded(b, size) == LET p == IF b < 0 THEN b + size ELSE b
                    IN IF p < 0 THEN 0 ELSE IF p > size THEN size ELSE p
Cut(x, axes, starts, ends, steps) ==
  LET Which(d) == {n \in DOMAIN axes : AxisOf(axes[n], Len(x.shape)) = d}
      First(d) == IF Which(d) = {} THEN 0
                  ELSE Bounded(starts[CHOOSE n \in Which(d) : TRUE], x.shape[d])
      Step(d) == IF Which(d) = {} THEN 1 ELSE steps[CHOOSE n \in Which(d) : TRUE]
      Taken(d) == IF Which(d) = {} THEN 0 .. x.shape[d] - 1
                  ELSE {p \in First(d) .. Bounded(ends[CHOOSE n \in Which(d) : TRUE], x.shape[d]) - 1 :
                          (p - First(d)) % Step(d) = 0}
  IN Tensor(x.dtype, [d \in DOMAIN x.shape |-> Cardinality(Taken(d))],
            LAMBDA c : At(x, [d \in DOMAIN c |-> First(d) + c[d] * Step(d)]))
Shares(x, axis, sizes) ==
  [n \in DOMAIN sizes |->
     Cut(x, <<axis>>, <<Before(sizes, n)>>, <<Before(sizes, n) + sizes[n]>>, <<1>>)]
Repeated(x, repeats) ==
  Tensor(x.dtype, [d \in DOMAIN x.shape |-> x.shape[d] * repeats[d]],
         LAMBDA c : At(x, [d \in DOMAIN c |-> c[d] % x.shape[d]]))

-----------------------------------------------------------------------------
(* Selection.                                                               *)
Entry0(p, size) == IF p < 0 THEN p + size ELSE p
Gathered(x, idx, axis) ==
  LET a == AxisOf(axis, Len(x.shape))
      r == Len(idx.shape)
  IN Tensor(x.dtype, SubSeq(x.shape, 1, a - 1) \o idx.shape \o SubSeq(x.shape, a + 1, Len(x.shape)),
            LAMBDA c : At(x, SubSeq(c, 1, a - 1) \o <<Entry0(At(idx, SubSeq(c, a, a + r - 1)), x.shape[a])>>
                             \o SubSeq(c, a + r, Len(c))))
GatheredElements(x, idx, axis) ==
  LET a == AxisOf(axis, Len(x.shape))
  IN Tensor(x.dtype, idx.shape, LAMBDA c : At(x, [c EXCEPT ![a] = Entry0(At(idx, c), x.shape[a])]))
GatheredND(x, idx, batch) ==
  LET r == Len(idx.shape)
      k == idx.shape[r]
  IN Tensor(x.dtype, SubSeq(idx.shape, 1, r - 1) \o SubSeq(x.shape, batch + k + 1, Len(x.shape)),
            LAMBDA c : At(x, SubSeq(c, 1, batch) \o [j \in 1 .. k |-> At(idx, SubSeq(c, 1, r - 1) \o <<j - 1>>)]
                             \o SubSeq(c, r, Len(c))))
ScatteredND(x, idx, updates) ==
  LET r == Len(idx.shape)
      k == idx.shape[r]
      Path(u) == [j \in 1 .. k |-> Entry0(At(idx, Append(u, j - 1)), x.shape[j])]
      Updates == {CoordsOf(n, SubSeq(idx.shape, 1, r - 1)) : n \in 0 .. Volume(SubSeq(idx.shape, 1, r - 1)) - 1}
  IN Tensor(x.dtype, x.shape,
            LAMBDA c : IF \E u \in Updates : Path(u) = SubSeq(c, 1, k)
                       THEN At(updates, (CHOOSE u \in Updates : Path(u) = SubSeq(c, 1, k))
                                        \o SubSeq(c, k + 1, Len(c)))
                       ELSE At(x, c))

-----------------------------------------------------------------------------
(* Arithmetic over axes.                                                    *)
RECURSIVE Total(_)
Total(numbers) == IF numbers = <<>> THEN 0 ELSE Head(numbers) + Total(Tail(numbers))
TotalOver(S, F(_)) == FoldSet(LAMBDA e, sum : F(e) + sum, 0, S)
MatrixProduct(a, b) ==
  LET m == a.shape[Len(a.shape) - 1]
      k == Last(a.shape)
      Batch(x) == SubSeq(x.shape, 1, Len(x.shape) - 2)
      Lined(x, c, row, col) ==
        LET B == Batch(x)
        IN At(x, [d \in DOMAIN B |-> IF B[d] = 1 THEN 0 ELSE c[d + Len(c) - 2 - Len(B)]] \o <<row, col>>)
  IN Tensor(a.dtype, Joint(Batch(a), Batch(b)) \o <<m, Last(b.shape)>>,
            LAMBDA c : TotalOver(0 .. k - 1, LAMBDA j : Lined(a, c, c[Len(c) - 1], j)
                                                        * Lined(b, c, j, c[Len(c)])))
Reduced(x, axes, keepdims, F(_, _)) ==
  LET drop == IF axes = <<>> THEN DOMAIN x.shape ELSE AxesOf(axes, Len(x.shape))
      kept == Without([d \in DOMAIN x.shape |-> d], drop)
      ones == [d \in DOMAIN x.shape |-> IF d \in drop THEN 1 ELSE x.shape[d]]
      cells == {CoordsOf(n, x.shape) : n \in 0 .. Len(x.data) - 1}
      whole == Tensor(x.dtype, Without(x.shape, drop),
                      LAMBDA c : LET mine == {e \in cells : \A n \in DOMAIN kept : e[kept[n]] = c[n]}
                                     first == CHOOSE e \in mine : TRUE
                                 IN FoldSet(LAMBDA e, so_far : F(At(x, e), so_far), At(x, first), mine \ {first}))
  IN IF keepdims THEN Reshaped(whole, ones) ELSE whole
Triangle(x, upper, k) ==
  LET r == Len(x.shape)
  IN Tensor(x.dtype, x.shape,
            LAMBDA c : IF (upper /\ c[r] - c[r - 1] >= k) \/ (~upper /\ c[r] - c[r - 1] <= k)
                       THEN At(x, c) ELSE 0)
Counted(from, limit, delta) ==
  LET n == IF delta > 0 THEN Cardinality({p \in 0 .. limit : from + p * delta < limit})
           ELSE Cardinality({p \in 0 .. from : from + p * delta > limit})
  IN Vector([p \in 1 .. n |-> from + (p - 1) * delta])

\* The windows of a kernel that fit a padded axis; rounding up admits one
\* that starts inside and runs over the end.
Windows(size, span, stride, before, after, up) ==
  Cardinality({p \in 0 .. size + before + after :
                 p * stride + span <= size + before + after + (IF up THEN stride - 1 ELSE 0)})
Swept(op, x, channels) ==
  <<x.shape[1], channels>> \o
  [d \in DOMAIN op.kernel |->
     Windows(x.shape[d + 2], op.dilations[d] * (op.kernel[d] - 1) + 1, op.strides[d], op.pads[d],
             op.pads[d + Len(op.kernel)], op.ceil)]
\* The extent a transposed convolution writes.
Unswept(op, x, channels) ==
  <<x.shape[1], channels>> \o
  [d \in DOMAIN op.kernel |->
     1 + (x.shape[d + 2] - 1) * op.strides[d] + (op.kernel[d] - 1) * op.dilations[d] + op.extra[d]
       - op.pads[d] - op.pads[d + Len(op.kernel)]]

-----------------------------------------------------------------------------
(* Operators of the exporters, given by what they fuse.                     *)
Clipped(x, low, high) ==
  [x EXCEPT !.data = [n \in DOMAIN @ |-> IF @[n] < low THEN low ELSE IF @[n] > high THEN high ELSE @[n]]]
\* Any function of the row serves for the norm.
NormedBy(x, gamma) == Elementwise(x.dtype, x, gamma, LAMBDA p, q : p * q)
\* Causal, and with the scores as they are for their softmax.
AttendedHeads(q, k, v) ==
  LET group == q.shape[2] \div k.shape[2]
      Score(c, t) == TotalOver(0 .. q.shape[4] - 1,
                               LAMBDA e : At(q, <<c[1], c[2], c[3], e>>) * At(k, <<c[1], c[2] \div group, t, e>>))
  IN Tensor(q.dtype, q.shape,
            LAMBDA c : TotalOver(0 .. c[3], LAMBDA t : Score(c, t) * At(v, <<c[1], c[2] \div group, t, c[4]>>)))
\* [batch, sequence, heads * width] as [batch, heads, sequence, width].
HeadsFirst(x, heads) ==
  LET width == x.shape[3] \div heads
  IN Tensor(x.dtype, <<x.shape[1], heads, x.shape[2], width>>,
            LAMBDA c : At(x, <<c[1], c[3], c[2] * width + c[4]>>))
HeadsLast(x) ==
  LET width == x.shape[4]
  IN Tensor(x.dtype, <<x.shape[1], x.shape[3], x.shape[2] * width>>,
            LAMBDA c : At(x, <<c[1], c[3] \div width, c[2], c[3] % width>>))
\* Each head turned by its position, its halves or its neighbours in pairs.
TurnedBy(x, positions, cos, sin, interleaved) ==
  LET half == cos.shape[2]
      Place(c) == c[3] % (2 * half)
      Angle(c) == IF interleaved THEN Place(c) \div 2 ELSE Place(c) % half
      Leads(c) == IF interleaved THEN Place(c) % 2 = 0 ELSE Place(c) < half
      apart == IF interleaved THEN 1 ELSE half
      Turn(table, c) == At(table, <<At(positions, <<c[1], c[2]>>), Angle(c)>>)
  IN Tensor(x.dtype, x.shape,
            LAMBDA c : At(x, c) * Turn(cos, c)
                       + (IF Leads(c) THEN -At(x, <<c[1], c[2], c[3] + apart>>)
                          ELSE At(x, <<c[1], c[2], c[3] - apart>>)) * Turn(sin, c))
\* To 8 bits, around a zero of its own; the scales tried are whole.
DynamicallyQuantized(x) ==
  LET Of(better(_, _)) == FoldSeq(better, 0, x.data)
      high == Of(LAMBDA p, q : IF p > q THEN p ELSE q)
      low == Of(LAMBDA p, q : IF p < q THEN p ELSE q)
      scale == (high - low) \div 255
      zero == (-low) \div scale
      Scalar0(dtype, v) == [dtype |-> dtype, shape |-> <<>>, data |-> <<v>>]
  IN <<[x EXCEPT !.dtype = "U8", !.data = [n \in DOMAIN @ |-> Toward0(@[n], scale) + zero]],
       Scalar0("F32", scale), Scalar0("U8", zero)>>
Centred(x, zero) == Elementwise("INT32", x, zero, LAMBDA p, q : p - q)

-----------------------------------------------------------------------------
(* Places.                                                                  *)
OneHotOf(idx, values, axis, depth) ==
  LET a == AxisOf(axis, Len(idx.shape) + 1)
  IN Tensor(values.dtype, InsertAt(idx.shape, a, depth),
            LAMBDA c : values.data[IF Entry0(At(idx, RemoveAt(c, a)), depth) = c[a] THEN 2 ELSE 1])
FirstLargest(x, axis, keepdims) ==
  LET a == AxisOf(axis, Len(x.shape))
      Best(c) == CHOOSE p \in 0 .. x.shape[a] - 1 :
                   \A q \in 0 .. x.shape[a] - 1 :
                     LET this == At(x, [c EXCEPT ![a] = p])
                         that == At(x, [c EXCEPT ![a] = q])
                     IN this > that \/ (this = that /\ p <= q)
      kept == Tensor("INT64", Replace(x.shape, a, 1), Best)
  IN IF keepdims THEN kept ELSE Reshaped(kept, Without(x.shape, {a}))
\* Blocks of channels laid out on the plane, a block's channels together or
\* apart, and planes taken apart into blocks.
Deepened(x, b, together) ==
  LET channels == x.shape[2] \div (b * b)
      Channel(c) == LET place == (c[3] % b) * b + (c[4] % b)
                    IN IF together THEN place * channels + c[2] ELSE c[2] * b * b + place
  IN Tensor(x.dtype, <<x.shape[1], channels, x.shape[3] * b, x.shape[4] * b>>,
            LAMBDA c : At(x, <<c[1], Channel(c), c[3] \div b, c[4] \div b>>))
Flattened(x, b) ==
  Tensor(x.dtype, <<x.shape[1], x.shape[2] * b * b, x.shape[3] \div b, x.shape[4] \div b>>,
         LAMBDA c : LET place == c[2] \div x.shape[2]
                    IN At(x, <<c[1], c[2] % x.shape[2], c[3] * b + (place \div b), c[4] * b + (place % b)>>))

-----------------------------------------------------------------------------
(* The outputs of a node on the values of its inputs.                       *)
Meaning(op, xs) ==
  LET x == xs[1]
      \* Axes are an attribute, or the second input.
      axes == IF op.axes = <<>> /\ Len(xs) > 1 THEN xs[2].data ELSE op.axes IN
  CASE op.kind \in {"Identity", "Round", "Softmax", "Silu"} -> <<x>>
    [] op.kind = "Neg" -> <<[x EXCEPT !.data = [n \in DOMAIN @ |-> -@[n]]]>>
    [] op.kind = "Not" -> <<[x EXCEPT !.data = [n \in DOMAIN @ |-> Truth(@[n] = 0)]]>>
    [] op.kind = "Cast" -> <<[x EXCEPT !.dtype = op.to,
                                       !.data = [n \in DOMAIN @ |-> IF op.to = "BOOL" THEN Truth(@[n] # 0)
                                                                    ELSE @[n]]]>>
    [] op.kind = "Add" -> <<Elementwise(x.dtype, x, xs[2], LAMBDA p, q : p + q)>>
    [] op.kind = "Sub" -> <<Elementwise(x.dtype, x, xs[2], LAMBDA p, q : p - q)>>
    [] op.kind = "Mul" -> <<Elementwise(x.dtype, x, xs[2], LAMBDA p, q : p * q)>>
    [] op.kind = "Div" -> <<Elementwise(x.dtype, x, xs[2], LAMBDA p, q : Toward0(p, q))>>
    [] op.kind = "Max" -> <<Elementwise(x.dtype, x, xs[2], LAMBDA p, q : IF p > q THEN p ELSE q)>>
    [] op.kind = "Min" -> <<Elementwise(x.dtype, x, xs[2], LAMBDA p, q : IF p < q THEN p ELSE q)>>
    [] op.kind = "Clip" -> <<Clipped(x, IF Len(xs) > 1 THEN xs[2].data[1] ELSE op.min,
                                     IF Len(xs) > 2 THEN xs[3].data[1] ELSE op.max)>>
    [] op.kind = "RmsNorm" -> <<NormedBy(x, xs[2])>>
    [] op.kind = "GroupedQueryAttention" -> <<AttendedHeads(x, xs[2], xs[3])>>
    [] op.kind = "Less" -> <<Elementwise("BOOL", x, xs[2], LAMBDA p, q : Truth(p < q))>>
    [] op.kind = "Equal" -> <<Elementwise("BOOL", x, xs[2], LAMBDA p, q : Truth(p = q))>>
    [] op.kind = "And" -> <<Elementwise("BOOL", x, xs[2], LAMBDA p, q : Truth(p # 0 /\ q # 0))>>
    [] op.kind = "Or" -> <<Elementwise("BOOL", x, xs[2], LAMBDA p, q : Truth(p # 0 \/ q # 0))>>
    [] op.kind = "Where" -> <<Chosen(x, xs[2], xs[3])>>
    [] op.kind = "Expand" -> <<Spread(x, xs[2].data)>>
    [] op.kind = "Reshape" -> <<Reshaped(x, Target(x, xs[2].data))>>
    [] op.kind = "Transpose" -> <<Permuted(x, op.perm)>>
    [] op.kind = "Unsqueeze" -> <<Reshaped(x, Inserted(x, axes))>>
    [] op.kind = "Squeeze" -> <<Reshaped(x, Without(x.shape,
                                   IF axes = <<>> THEN {d \in DOMAIN x.shape : x.shape[d] = 1}
                                   ELSE AxesOf(axes, Len(x.shape))))>>
    [] op.kind = "Flatten" -> LET a == AxisOf(op.axis, Len(x.shape)) - 1
                              IN <<Reshaped(x, <<Volume(SubSeq(x.shape, 1, a)),
                                                 Volume(SubSeq(x.shape, a + 1, Len(x.shape)))>>)>>
    [] op.kind = "Concat" -> <<Stacked(xs, op.axis)>>
    [] op.kind = "Slice" /\ op.starts # <<>> -> <<Cut(x, op.axes, op.starts, op.ends, op.steps)>>
    [] op.kind = "Slice" /\ op.starts = <<>> ->
         LET along == IF Len(xs) > 3 THEN xs[4].data ELSE [n \in DOMAIN xs[2].data |-> n - 1]
         IN <<Cut(x, along, xs[2].data, xs[3].data,
                  IF Len(xs) > 4 THEN xs[5].data ELSE [n \in DOMAIN along |-> 1])>>
    [] op.kind = "Split" -> Shares(x, op.axis, op.sizes)
    [] op.kind = "Tile" -> <<Repeated(x, op.repeats)>>
    [] op.kind = "Gather" -> <<Gathered(x, xs[2], op.axis)>>
    [] op.kind = "GatherElements" -> <<GatheredElements(x, xs[2], op.axis)>>
    [] op.kind = "GatherND" -> <<GatheredND(x, xs[2], op.batch)>>
    [] op.kind = "Embed" -> <<Gathered(xs[2], x, 0)>>
    [] op.kind = "ScatterND" -> <<ScatteredND(x, xs[2], xs[3])>>
    [] op.kind = "MatMul" -> <<MatrixProduct(x, xs[2])>>
    [] op.kind = "Gemm" -> <<MatrixProduct(IF op.transA THEN Permuted(x, <<>>) ELSE x,
                                           IF op.transB THEN Permuted(xs[2], <<>>) ELSE xs[2])>>
    [] op.kind = "FusedSwiGLU" -> <<Elementwise(x.dtype, x, xs[2], LAMBDA p, q : p * q)>>
    [] op.kind = "FusedSwiGluProjection" ->
         <<MatrixProduct(Elementwise(x.dtype, x, xs[2], LAMBDA p, q : p * q), xs[3])>>
    [] op.kind = "ReduceSum" -> <<Reduced(x, axes, op.keepdims, LAMBDA p, q : p + q)>>
    [] op.kind = "ReduceMax" -> <<Reduced(x, axes, op.keepdims, LAMBDA p, q : IF p > q THEN p ELSE q)>>
    [] op.kind = "ReduceMin" -> <<Reduced(x, axes, op.keepdims, LAMBDA p, q : IF p < q THEN p ELSE q)>>
    [] op.kind = "Trilu" -> <<Triangle(x, op.upper, IF Len(xs) > 1 THEN xs[2].data[1] ELSE 0)>>
    [] op.kind = "Shape" ->
         LET r == Len(x.shape)
         IN <<Vector(SubSeq(x.shape, Bounded(op.start, r) + 1, Bounded(op.end, r)))>>
    [] op.kind = "Range" -> <<Counted(x.data[1], xs[2].data[1], xs[3].data[1])>>
    [] op.kind = "ConstantOfShape" -> <<Tensor("F32", x.data, LAMBDA c : op.fill)>>
    [] op.kind = "Conv" -> <<Zeros(x.dtype, Swept(op, x, xs[2].shape[1]))>>
    [] op.kind \in {"MaxPool", "AveragePool"} -> <<Zeros(x.dtype, Swept(op, x, x.shape[2]))>>
    [] op.kind = "ConvTranspose" -> <<Zeros(x.dtype, Unswept(op, x, xs[2].shape[2]))>>
    [] op.kind = "GlobalAveragePool" ->
         <<Zeros(x.dtype, [d \in DOMAIN x.shape |-> IF d <= 2 THEN x.shape[d] ELSE 1])>>
    [] op.kind = "Resize" -> LET by == Last(xs)
                            IN <<Zeros(x.dtype, IF by.dtype = "INT64" THEN by.data
                                                ELSE [d \in DOMAIN x.shape |-> x.shape[d] * by.data[d]])>>
    [] op.kind = "Pad" -> LET r == Len(x.shape)
                          IN <<Zeros(x.dtype, [d \in 1 .. r |-> xs[2].data[d] + x.shape[d] + xs[2].data[r + d]])>>
    [] op.kind = "TopK" -> LET dims == Replace(x.shape, AxisOf(op.axis, Len(x.shape)), xs[2].data[1])
                           IN <<Zeros(x.dtype, dims), Zeros("INT64", dims)>>
    [] op.kind = "NonZero" -> <<Zeros("INT64", <<Len(x.shape), Cardinality({n \in DOMAIN x.data : x.data[n] # 0})>>)>>
    [] op.kind = "OneHot" -> <<OneHotOf(x, xs[3], op.axis, xs[2].data[1])>>
    [] op.kind = "Compress" ->
         LET n == Cardinality({p \in DOMAIN xs[2].data : xs[2].data[p] # 0})
         IN <<Zeros(x.dtype, IF op.flat THEN <<n>> ELSE Replace(x.shape, AxisOf(op.axis, Len(x.shape)), n))>>
    [] op.kind = "ArgMax" -> <<FirstLargest(x, op.axis, op.keepdims)>>
    [] op.kind = "DepthToSpace" -> <<Deepened(x, op.block, op.mode = "DCR")>>
    [] op.kind = "SpaceToDepth" -> <<Flattened(x, op.block)>>
    [] op.kind = "DynamicQuantizeLinear" -> DynamicallyQuantized(x)
    [] op.kind = "MatMulInteger" ->
         <<MatrixProduct(IF Len(xs) > 2 THEN Centred(x, xs[3]) ELSE [x EXCEPT !.dtype = "INT32"],
                         IF Len(xs) > 3 THEN Centred(xs[2], xs[4]) ELSE xs[2])>>
    [] op.kind = "RotaryEmbedding" -> <<TurnedBy(x, xs[2], xs[3], xs[4], op.interleaved = 1)>>
    [] op.kind = "GroupQueryAttention" ->
         LET k == HeadsFirst(xs[2], op.kv_num_heads)
             v == HeadsFirst(xs[3], op.kv_num_heads)
         IN <<HeadsLast(AttendedHeads(HeadsFirst(x, op.num_heads), k, v)), k, v>>
    [] op.kind = "SkipSimplifiedLayerNormalization" ->
         LET residual == Elementwise(x.dtype, x, xs[2], LAMBDA p, q : p + q)
         IN <<NormedBy(residual, xs[3]), residual, residual, residual>>
    [] op.kind = "BatchNorm" ->
         IF op.training THEN <<x>> \o [n \in 1 .. 4 |-> Zeros(x.dtype, <<x.shape[2]>>)] ELSE <<x>>
===============================================================================
