------------------------------- MODULE ConstEval -------------------------------
(***************************************************************************)
(* Compile-time evaluation of a node whose inputs are all constants: the   *)
(* evaluators of const_eval_ops.rs, over flat row-major data and strides.  *)
(* An evaluator answers the set of its one result, or {} when it leaves    *)
(* the node to the runtime.  xs are the constants under their recorded     *)
(* shapes; shapes are the ones the pass settled for them.                  *)
(***************************************************************************)
EXTENDS TensorOps

CONSTANT MAX_OUTPUT_ELEMS

LOCAL Larger(p, q) == IF p > q THEN p ELSE q
LOCAL Smaller(p, q) == IF p < q THEN p ELSE q

\* The layouts read_as_f64 and read_as_i64 decode.
read_as == {"F32", "INT64", "INT32", "BOOL", "U8"}
\* A result of n elements, indexed from 0.
LOCAL Flat(dtype, dims, Value(_)) ==
  [dtype |-> dtype, shape |-> Now(dims), data |-> Now([n \in 1 .. Volume(dims) |-> Value(n - 1)])]
LOCAL Under(xs, shapes) == [n \in DOMAIN xs |-> Reshaped(xs[n], shapes[n])]
\* max(0) of an axis or bound counted from the end.
normalize_axis(axis, rank) == IF axis < 0 THEN Larger(rank + axis, 0) ELSE axis
normalize_slice_bound(b, size) == Larger(0, Smaller(size, IF b < 0 THEN b + size ELSE b))

-----------------------------------------------------------------------------
(* Broadcasting.                                                            *)
compute_strides(dims) == [d \in DOMAIN dims |-> Volume(SubSeq(dims, d + 1, Len(dims)))]
pad_shape(dims, rank) == [d \in 1 .. Larger(0, rank - Len(dims)) |-> 1] \o dims
broadcast_shape(a, b) ==
  LET rank == Larger(Len(a), Len(b))
      pa == pad_shape(a, rank)
      pb == pad_shape(b, rank)
  IN IF \A d \in 1 .. rank : pa[d] = pb[d] \/ pa[d] = 1 \/ pb[d] = 1
       THEN {[d \in 1 .. rank |-> IF pa[d] = 1 THEN pb[d] ELSE pa[d]]} ELSE {}
broadcast_shape_3(a, b, c) == UNION {broadcast_shape(ab, c) : ab \in broadcast_shape(a, b)}

\* One coordinate of a flat index: what the larger strides left of it.
LOCAL Coordinate(flat, strides, d) == (IF d = 1 THEN flat ELSE flat % strides[d - 1]) \div strides[d]
broadcast_input_index(flat, out_strides, padded, in_strides) ==
  Total([d \in DOMAIN padded |->
           IF padded[d] = 1 THEN 0 ELSE Coordinate(flat, out_strides, d) * in_strides[d]])
\* The element of x that lands on a flat index of the output.
LOCAL Landing(x, dims, flat) ==
  LET padded == pad_shape(x.shape, Len(dims))
  IN x.data[1 + broadcast_input_index(flat, compute_strides(dims), padded, compute_strides(padded))]

broadcast_expand_bytes(x, target) ==
  LET padded == pad_shape(x.shape, Len(target))
  IN IF Len(padded) = Len(target) /\ \A d \in DOMAIN target : padded[d] \in {1, target[d]}
       THEN {Flat(x.dtype, target, LAMBDA n : Landing(x, target, n))} ELSE {}

eval_expand(xs) ==
  IF /\ Len(xs) >= 2 /\ xs[1].data # <<>> /\ xs[2].dtype = "INT64"
     /\ Volume(xs[2].data) \in 1 .. MAX_OUTPUT_ELEMS
     \* As many elements again is a reshape, and folding's business.
     /\ Volume(xs[2].data) # Volume(xs[1].shape)
    THEN broadcast_expand_bytes(xs[1], xs[2].data) ELSE {}

\* The evaluators over two broadcast operands: all answer in F32.
LOCAL Joined(xs, F(_, _)) ==
  IF Len(xs) < 2 \/ xs[1].dtype \notin read_as \/ xs[2].dtype \notin read_as THEN {}
  ELSE {Flat("F32", dims, LAMBDA n : F(Landing(xs[1], dims, n), Landing(xs[2], dims, n))) :
          dims \in {dims \in broadcast_shape(xs[1].shape, xs[2].shape) :
                      Volume(dims) <= MAX_OUTPUT_ELEMS}}
eval_binary_f32(kind, xs) ==
  CASE kind = "Add" -> Joined(xs, LAMBDA p, q : p + q)
    [] kind = "Sub" -> Joined(xs, LAMBDA p, q : p - q)
    [] kind = "Mul" -> Joined(xs, LAMBDA p, q : p * q)
    [] kind = "Div" -> Joined(xs, LAMBDA p, q : IF q # 0 THEN Toward0(p, q) ELSE 0)
eval_comparison(kind, xs) ==
  Joined(xs, LAMBDA p, q : Truth(IF kind = "Less" THEN p < q ELSE p = q))
eval_logical(kind, xs) ==
  Joined(xs, LAMBDA p, q : Truth(IF kind = "And" THEN p # 0 /\ q # 0 ELSE p # 0 \/ q # 0))

eval_where(xs) ==
  IF Len(xs) < 3 \/ xs[1].dtype \notin read_as \/ xs[2].dtype # xs[3].dtype THEN {}
  ELSE {Flat(xs[2].dtype, dims,
             LAMBDA n : IF Landing(xs[1], dims, n) # 0 THEN Landing(xs[2], dims, n)
                        ELSE Landing(xs[3], dims, n)) :
          dims \in {dims \in broadcast_shape_3(xs[1].shape, xs[2].shape, xs[3].shape) :
                      Volume(dims) <= MAX_OUTPUT_ELEMS}}

-----------------------------------------------------------------------------
(* One operand, element by element: the shape is the recorded one.          *)
LOCAL Mapped(xs, dtype, F(_)) ==
  IF xs = <<>> \/ xs[1].dtype \notin read_as THEN {}
  ELSE {[dtype |-> dtype, shape |-> xs[1].shape,
           data |-> Now([n \in DOMAIN xs[1].data |-> F(xs[1].data[n])])]}
eval_cast(xs, to) ==
  IF to \notin read_as \/ Len(xs) = 0 \/ Len(xs[1].data) \notin 1 .. MAX_OUTPUT_ELEMS THEN {}
  ELSE Mapped(xs, to, LAMBDA v : IF to = "BOOL" THEN Truth(v # 0)
                                 ELSE IF to = "U8" THEN Larger(0, Smaller(255, v)) ELSE v)
eval_not(xs) == Mapped(xs, "F32", LAMBDA v : Truth(v = 0))
eval_unary_f32(xs) == Mapped(xs, "F32", LAMBDA v : -v)

-----------------------------------------------------------------------------
(* Selection.                                                               *)
\* The offset of a leading block is its number times the stride of the axis.
eval_gather(xs, axis) ==
  IF Len(xs) < 2 \/ xs[1].data = <<>> \/ xs[2].dtype \notin read_as \/ xs[1].shape = <<>> THEN {}
  ELSE LET dims == xs[1].shape
           ax == 1 + Smaller(normalize_axis(axis, Len(dims)), Len(dims) - 1)
           post == Volume(SubSeq(dims, ax + 1, Len(dims)))
           out == SubSeq(dims, 1, ax - 1) \o xs[2].shape \o SubSeq(dims, ax + 1, Len(dims))
           block == Volume(xs[2].shape) * post
           Index(n) == LET v == xs[2].data[1 + (n % block) \div post]
                       IN normalize_axis(v, dims[ax])
           Source(n) == (n \div block) * compute_strides(dims)[ax] + Index(n) * post + (n % post)
       IN IF Volume(out) > MAX_OUTPUT_ELEMS THEN {}
          ELSE {Flat(xs[1].dtype, out,
                     LAMBDA n : IF Index(n) >= dims[ax] \/ Source(n) >= Len(xs[1].data) THEN 0
                                ELSE xs[1].data[1 + Source(n)])}

eval_slice(xs, axes, starts, ends, steps) ==
  LET dims == xs[1].shape
      Axis(k) == 1 + normalize_axis(axes[k], Len(dims))
      Step(k) == IF k \in DOMAIN steps THEN steps[k] ELSE 1
      First(k) == normalize_slice_bound(starts[k], dims[Axis(k)])
      After(k) == normalize_slice_bound(ends[k], dims[Axis(k)])
      cuts == {k \in DOMAIN axes : Axis(k) <= Len(dims)}
      \* The last cut of an axis is the one that counts.
      Of(d) == LET mine == {k \in cuts : Axis(k) = d}
               IN IF mine = {} THEN [first |-> 0, after |-> dims[d], step |-> 1]
                  ELSE LET k == Max(mine)
                       IN [first |-> First(k), after |-> After(k), step |-> Step(k)]
      out == [d \in DOMAIN dims |-> (Of(d).after - Of(d).first + Of(d).step - 1) \div Of(d).step]
      strides == compute_strides(out)
  IN IF xs[1].data = <<>> \/ \E k \in cuts : Step(k) <= 0 \/ First(k) >= After(k) THEN {}
     ELSE IF Volume(out) \notin 1 .. MAX_OUTPUT_ELEMS THEN {}
     ELSE {Flat(xs[1].dtype, out,
                LAMBDA n : xs[1].data[1 + Total([d \in DOMAIN dims |->
                             (Of(d).first + Coordinate(n, strides, d) * Of(d).step)
                             * compute_strides(dims)[d]])])}

eval_concat(xs, axis) ==
  LET rank == Len(xs[1].shape)
      ax == 1 + normalize_axis(axis, rank)
      Sizes == [n \in DOMAIN xs |-> xs[n].shape[ax]]
      out == [xs[1].shape EXCEPT ![ax] = Total(Sizes)]
      post == Volume(SubSeq(xs[1].shape, ax + 1, rank))
      Block(p) == FlattenSeq([n \in DOMAIN xs |->
                                SubSeq(xs[n].data, p * Sizes[n] * post + 1, (p + 1) * Sizes[n] * post)])
  IN IF \/ Len(xs) < 2 \/ ax > rank
        \/ \E n \in DOMAIN xs : xs[n].dtype # xs[1].dtype \/ Len(xs[n].shape) # rank
        \/ \E n \in DOMAIN xs, d \in 1 .. rank \ {ax} : xs[n].shape[d] # xs[1].shape[d]
       THEN {}
     ELSE IF Volume(out) > MAX_OUTPUT_ELEMS THEN {}
     ELSE {[dtype |-> xs[1].dtype, shape |-> out,
            data |-> FlattenSeq([p \in 1 .. Volume(SubSeq(xs[1].shape, 1, ax - 1)) |-> Block(p - 1)])]}

\* Later updates overwrite earlier ones; an index out of range refuses.
eval_scatter_nd(xs) ==
  LET dims == xs[1].shape
      k == Last(xs[2].shape)
      slice == Volume(SubSeq(dims, k + 1, Len(dims)))
      updates == Volume(Front(xs[2].shape))
      Index(u, d) == LET v == xs[2].data[u * k + d] IN IF v < 0 THEN v + dims[d] ELSE v
      Row(u) == Total([d \in 1 .. k |-> Index(u, d) * Volume(SubSeq(dims, d + 1, k))])
      Hits(n) == {u \in 0 .. updates - 1 : Row(u) = n \div slice}
  IN IF Len(xs) < 3 THEN {}
     ELSE IF \/ Volume(dims) \notin 1 .. MAX_OUTPUT_ELEMS \/ Len(xs[1].data) # Volume(dims)
             \/ xs[2].shape = <<>> THEN {}
     ELSE IF k \notin 1 .. Len(dims) THEN {}
     ELSE IF \/ Len(xs[3].data) # updates * slice \/ Len(xs[2].data) # updates * k
             \/ xs[2].dtype \notin read_as
             \/ \E u \in 0 .. updates - 1, d \in 1 .. k : Index(u, d) \notin 0 .. dims[d] - 1 THEN {}
     ELSE {Flat(xs[1].dtype, dims,
                LAMBDA n : IF Hits(n) = {} THEN xs[1].data[n + 1]
                           ELSE xs[3].data[Max(Hits(n)) * slice + (n % slice) + 1])}

-----------------------------------------------------------------------------
(* Structure: the elements stay, the shape changes.                         *)
eval_identity(xs) == IF xs = <<>> THEN {} ELSE {xs[1]}
LOCAL Same(x, dims) == IF Volume(dims) = Volume(x.shape) THEN {Reshaped(x, dims)} ELSE {}

\* Axes are inserted in increasing order, each counted in the shape so far.
eval_structural_reshape(xs, op) ==
  LET dims == xs[1].shape
      Insert(shape, axis) ==
        LET p == IF axis < 0 THEN Larger(Len(shape) + 1 + axis, 0) ELSE axis
        IN InsertAt(shape, 1 + Smaller(p, Len(shape)), 1)
      split == Smaller(normalize_axis(op.axis, Len(dims)), Len(dims))
  IN CASE op.kind = "Unsqueeze" -> Same(xs[1], FoldLeft(Insert, dims, SortSeq(op.axes, <)))
       [] op.kind = "Squeeze" ->
            Same(xs[1], IF op.axes = <<>> THEN SelectSeq(dims, LAMBDA d : d # 1)
                        ELSE Without(dims, {1 + normalize_axis(op.axes[n], Len(dims)) : n \in DOMAIN op.axes}))
       [] op.kind = "Flatten" ->
            Same(xs[1], <<Larger(1, Volume(SubSeq(dims, 1, split))),
                          Larger(1, Volume(SubSeq(dims, split + 1, Len(dims))))>>)

eval_reshape(xs) ==
  LET dims == xs[1].shape
      wish == xs[2].data
      Kept(d) == IF d \in DOMAIN dims THEN dims[d] ELSE 1
      known == Volume([d \in DOMAIN wish |-> IF wish[d] = -1 THEN 1
                                             ELSE IF wish[d] = 0 THEN Kept(d) ELSE wish[d]])
      Size(d) == IF wish[d] = -1 THEN Volume(dims) \div known
                 ELSE IF wish[d] = 0 THEN Kept(d) ELSE wish[d]
  IN IF Len(xs) < 2 THEN {}
     ELSE IF \/ xs[2].dtype \notin read_as
             \/ Cardinality({d \in DOMAIN wish : wish[d] = -1}) > 1
             \/ (\E d \in DOMAIN wish : wish[d] = -1) /\ known = 0 THEN {}
     ELSE Same(xs[1], [d \in DOMAIN wish |-> Size(d)])

\* Fault: the elements stay where they are.
Relabelled(xs, perm) == Same(xs[1], [d \in DOMAIN perm |-> xs[1].shape[perm[d] + 1]])

eval_transpose(xs, perm) ==
  LET dims == xs[1].shape
      out == [d \in DOMAIN perm |-> dims[perm[d] + 1]]
      strides == compute_strides(out)
  IN IF xs = <<>> THEN {}
     ELSE IF xs[1].data = <<>> \/ Len(perm) # Len(dims) \/ Volume(dims) > MAX_OUTPUT_ELEMS THEN {}
     ELSE {Flat(xs[1].dtype, out,
                LAMBDA n : xs[1].data[1 + Total([d \in DOMAIN perm |->
                             Coordinate(n, strides, d) * compute_strides(dims)[perm[d] + 1]])])}

-----------------------------------------------------------------------------
eval_node(op, raw, shapes) ==
  LET xs == Under(raw, shapes) IN
  CASE op.kind = "Expand" -> eval_expand(xs)
    [] op.kind \in {"Add", "Sub", "Mul", "Div"} -> eval_binary_f32(op.kind, xs)
    [] op.kind \in {"Less", "Equal"} -> eval_comparison(op.kind, xs)
    [] op.kind \in {"And", "Or"} -> eval_logical(op.kind, xs)
    [] op.kind = "Where" -> eval_where(xs)
    [] op.kind = "ScatterND" -> eval_scatter_nd(xs)
    [] op.kind = "Cast" -> eval_cast(raw, op.to)
    [] op.kind = "Not" -> eval_not(raw)
    [] op.kind = "Neg" -> eval_unary_f32(raw)
    \* GatherElements goes to the evaluator of Gather.
    [] op.kind \in {"Gather", "GatherElements"} -> eval_gather(xs, op.axis)
    [] op.kind \in {"Unsqueeze", "Squeeze", "Flatten"} -> eval_structural_reshape(xs, op)
    [] op.kind = "Reshape" -> eval_reshape(xs)
    [] op.kind = "Transpose" -> eval_transpose(xs, op.perm)
    [] op.kind = "Slice" -> eval_slice(xs, op.axes, op.starts, op.ends, op.steps)
    [] op.kind = "Concat" -> eval_concat(xs, op.axis)
    [] op.kind = "Identity" -> eval_identity(xs)
    [] OTHER -> {}

\* The shape of a Shape's input, when all of it is known: dims are the
\* concrete sizes, or -1 where one is not.
try_eval_shape(op, dims) ==
  LET first == normalize_axis(op.start, Len(dims))
      after == Smaller(normalize_axis(op.end, Len(dims)), Len(dims))
  IN IF op.kind = "Shape" /\ -1 \notin ToSet(dims) /\ first < after
       THEN {Vector(SubSeq(dims, first + 1, after))} ELSE {}
===============================================================================
