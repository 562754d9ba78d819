------------------------------- MODULE DataRules -------------------------------
(***************************************************************************)
(* DataPropagation: the integers that flow through shape computations,     *)
(* entry by entry where some are not known, and the constants written for  *)
(* the tensors whose values all are.  A graph is its nodes in topological  *)
(* order, what is recorded of each tensor (info: dtype, dims, known) and   *)
(* its constants (params).                                                 *)
(***************************************************************************)
EXTENDS ShapeRules

LOCAL IR == INSTANCE GraphIR

CONSTANT MAX_SHAPE_DATA            \* elements of the largest constant read as shape data

The(option) == CHOOSE v \in option : TRUE
LOCAL Opt(options, n) == IF n \in DOMAIN options THEN options[n] ELSE {}
LOCAL Or(v, default) == IF v = Unknown THEN default ELSE v
LOCAL Both(p, q, F(_, _)) == IF p = Unknown \/ q = Unknown THEN Unknown ELSE F(p, q)

extract_i64_param(x) == IF x.dtype \in {"INT64", "INT32", "INT8", "F32"} THEN {x.data} ELSE {}

-----------------------------------------------------------------------------
(* One operator on known values.                                            *)
\* A size of 0 stands for one the export left open.
ShapeValues(op, x) ==
  LET first == normalize_axis(op.start, Len(x))
      after == IF op.end < 0 THEN normalize_axis(op.end, Len(x)) ELSE IF op.end > Len(x) THEN Len(x) ELSE op.end
  IN IF x = <<>> \/ first > after \/ first >= Len(x) THEN {}
     ELSE {[n \in 1 .. after - first |->
              IF Fixed(x[first + n]) /\ x[first + n][1] # 0 THEN x[first + n][1] ELSE Unknown]}

GatherValues(data, idx) ==
  LET Entry(p) == IF p \in 0 .. Len(data) - 1 THEN data[p + 1] ELSE Unknown
  IN IF idx = <<>> \/ (Len(idx) = 1 /\ idx[1] \notin 0 .. Len(data) - 1) THEN {}
     ELSE {[n \in DOMAIN idx |-> Entry(idx[n])]}

\* An unknown start is taken as 0 and an unknown end as none.
SliceValues(op, ins) ==
  LET fixed == op.starts # <<>>
      Input(n, default) == [k \in DOMAIN The(ins[n]) |-> Or(The(ins[n])[k], default)]
      starts == IF fixed THEN op.starts ELSE Input(2, 0)
      ends == IF fixed THEN op.ends ELSE Input(3, Unbounded)
      axes == IF fixed THEN op.axes
              ELSE IF Opt(ins, 4) # {} THEN Input(4, 0) ELSE [k \in DOMAIN starts |-> k - 1]
      steps == IF fixed THEN op.steps
               ELSE IF Opt(ins, 5) # {} THEN Input(5, 1) ELSE [k \in DOMAIN starts |-> 1]
      data == The(ins[1])
      first == normalize_slice_bound(starts[1], Len(data))
      after == normalize_slice_bound(ends[1], Len(data))
      step == IF steps[1] > 1 THEN steps[1] ELSE 1
  IN IF ins[1] = {} \/ (~fixed /\ (Opt(ins, 2) = {} \/ Opt(ins, 3) = {})) THEN {}
     ELSE IF axes # <<0>> \/ first >= after THEN {}
     ELSE {[n \in 1 .. (after - first + step - 1) \div step |-> data[first + 1 + (n - 1) * step]]}

RangeValues(ins) ==
  LET First(n) == The(ins[n])[1]
  IN IF \E n \in 1 .. 3 : Opt(ins, n) \in {{}, {<<>>}} THEN {}
     ELSE IF \E n \in 1 .. 3 : First(n) = Unknown \/ First(3) = 0 THEN {}
     ELSE {Counted(First(1), First(2), First(3)).data}

\* Lengths that agree, or one that is 1: shapes are not looked at.
eval_binary(kind, ins) ==
  LET a == The(ins[1])
      b == The(ins[2])
      Size == IF Len(a) > Len(b) THEN Len(a) ELSE Len(b)
      At1(s, n) == IF Len(s) = 1 THEN s[1] ELSE s[n]
      Met(F(_, _)) == {[n \in 1 .. Size |-> Both(At1(a, n), At1(b, n), F)]}
  IN IF Len(ins) < 2 \/ Opt(ins, 1) = {} \/ Opt(ins, 2) = {} THEN {}
     ELSE IF Len(a) # Len(b) /\ ~(Len(a) = 1 /\ Len(b) > 1) /\ ~(Len(b) = 1 /\ Len(a) > 1) THEN {}
     ELSE CASE kind = "Add" -> Met(LAMBDA p, q : p + q)
            [] kind = "Sub" -> Met(LAMBDA p, q : p - q)
            [] kind = "Mul" -> Met(LAMBDA p, q : p * q)
            [] kind = "Div" -> Met(LAMBDA p, q : IF q # 0 THEN Toward0(p, q) ELSE Unknown)
eval_binary_by_op(op, ins) ==
  IF op.kind \in {"Add", "Sub", "Mul", "Div"} THEN eval_binary(op.kind, ins) ELSE {}

eval_custom_op(op, ins, dims) ==
  CASE op.kind = "Shape" -> ShapeValues(op, dims[1])
    [] op.kind = "Gather" /\ op.axis = 0 ->
         IF ins[1] = {} \/ ins[2] = {} THEN {} ELSE GatherValues(The(ins[1]), The(ins[2]))
    [] op.kind \in {"Unsqueeze", "Squeeze"} -> ins[1]
    \* Whatever the axis, one after the other.
    [] op.kind = "Concat" -> IF {} \in ToSet(ins) THEN {} ELSE {FlattenSeq([n \in DOMAIN ins |-> The(ins[n])])}
    [] op.kind = "Cast" -> IF op.to \in {"INT64", "INT32"} THEN ins[1] ELSE {}
    [] op.kind = "Slice" -> SliceValues(op, ins)
    [] op.kind = "Range" -> RangeValues(ins)
    \* Determined, and written below.
    [] op.kind = "ConstantOfShape" -> IF ins[1] = {} THEN {} ELSE {<<>>}
    [] op.kind = "Trilu" -> {<<>>}
    [] OTHER -> {}

value_of(op, ins, dims) ==
  IF op.kind = "Identity" THEN ins[1]
  ELSE IF op.kind \in BinaryElementwise THEN eval_binary_by_op(op, ins)
  ELSE eval_custom_op(op, ins, dims)

-----------------------------------------------------------------------------
(* The pass.                                                                *)
\* Values of small integer constants, and those recorded before.
seeded(g) ==
  LET Param(t) == IF t \in DOMAIN g.params
                    THEN IF Len(g.params[t].data) <= MAX_SHAPE_DATA THEN extract_i64_param(g.params[t]) ELSE {}
                    ELSE {}
      From(t) == IF Param(t) # {} THEN Param(t) ELSE g.info[t].known
  IN [t \in {t \in DOMAIN g.info : From(t) # {}} |-> The(From(t))]
evaluated_by(g, acc, node) ==
  LET ins == [n \in DOMAIN node.ins |->
                IF node.ins[n] \in DOMAIN acc.known THEN {acc.known[node.ins[n]]} ELSE {}]
      dims == [n \in DOMAIN node.ins |-> g.info[node.ins[n]].dims]
      result == value_of(node.op, ins, dims)
      out == node.outs[1]
  IN IF result = {} THEN acc
     ELSE [known |-> (out :> The(result)) @@ acc.known, computed |-> acc.computed \cup {out}]

\* A Reshape whose target has one -1: the size it must take goes to the
\* output's own dimensions, never into the target, which others may share.
resolve_minus_one(known, g, node) ==
  LET vals == known[node.ins[2]]
      dims == g.info[node.outs[1]].dims
      data == Volume([d \in DOMAIN g.info[node.ins[1]].dims |->
                        IF Fixed(g.info[node.ins[1]].dims[d]) THEN g.info[node.ins[1]].dims[d][1] ELSE 1])
      missing == data \div Volume([n \in DOMAIN vals |-> IF vals[n] > 0 THEN vals[n] ELSE 1])
      Target1(n) == IF vals[n] = -1 THEN missing ELSE vals[n]
      stronger == IF dims = <<>> THEN [n \in DOMAIN vals |-> IF Target1(n) > 0 THEN Concrete(Target1(n)) ELSE Dynamic]
                  ELSE IF Len(dims) # Len(vals) THEN dims
                  ELSE [n \in DOMAIN vals |-> IF Target1(n) > 0 /\ ~Fixed(dims[n])
                                                THEN Concrete(Target1(n)) ELSE dims[n]]
  IN IF node.op.kind # "Reshape" THEN g
     ELSE IF node.ins[2] \notin DOMAIN known THEN g
     ELSE IF Cardinality({n \in DOMAIN vals : vals[n] = -1}) # 1 \/ data <= 1 \/ missing <= 0 THEN g
     ELSE [g EXCEPT !.info[node.outs[1]].dims = stronger]

\* A constant for a tensor of integers whose every value is known, unless
\* the model brought it or its recorded shape holds another count.
materialized(g, acc, t) ==
  LET vals == acc.known[t]
      dims == g.info[t].dims
      sizes == [d \in DOMAIN dims |-> dims[d][1]]
  IN IF \/ t \in DOMAIN g.params /\ t \notin acc.computed
        \/ g.info[t].dtype \notin {"INT64", "INT32", "INT8"}
        \/ vals = <<>> \/ Unknown \in ToSet(vals)
        \/ Settled(dims) /\ Volume(sizes) # Len(vals)
       THEN {}
     ELSE IF Settled(dims) THEN {[dtype |-> g.info[t].dtype, shape |-> sizes, data |-> vals]}
     ELSE {Vector(vals)}

\* ConstantOfShape and Trilu over known inputs; a size not known is left out.
FilledOver(g, node) ==
  LET known == g.info[node.ins[1]].known
      sizes == SelectSeq(The(known), LAMBDA v : v # Unknown)
      x == g.params[node.ins[1]]
      k == IF Len(node.ins) > 1 /\ node.ins[2] \in DOMAIN g.params
             THEN LET v == extract_i64_param(g.params[node.ins[2]])
                  IN IF v \in {{}, {<<>>}} THEN 0 ELSE The(v)[1]
             ELSE 0
      cols == Last(x.shape)
      Row(n) == ((n - 1) % (cols * x.shape[Len(x.shape) - 1])) \div cols
      Diagonal(n) == ((n - 1) % cols) - Row(n)
  IN IF node.outs[1] \in DOMAIN g.params THEN {}
     ELSE CASE node.op.kind = "ConstantOfShape" ->
                 IF known = {} THEN {} ELSE IF sizes = <<>> THEN {}
                 ELSE {[dtype |-> "F32", shape |-> sizes, data |-> [n \in 1 .. Volume(sizes) |-> node.op.fill]]}
            [] node.op.kind = "Trilu" ->
                 IF node.ins[1] \notin DOMAIN g.params THEN {}
                 ELSE IF x.dtype # "F32" \/ Len(x.shape) < 2 THEN {}
                 ELSE {[x EXCEPT !.data = [n \in DOMAIN x.data |->
                          IF (node.op.upper /\ Diagonal(n) < k) \/ (~node.op.upper /\ Diagonal(n) > k)
                            THEN 0 ELSE x.data[n]]]}
            [] OTHER -> {}

\* A tensor becomes a constant; what is recorded of it follows.
Bind(g, t, value) ==
  [g EXCEPT !.params = (t :> value) @@ @,
            !.info[t] = [dtype |-> value.dtype, dims |-> shape_from_concrete(value.shape), known |-> {}]]
BindAny(g, t, option) == IF option = {} THEN g ELSE Bind(g, t, The(option))

LOCAL Overlaid(params, options) == [t \in {t \in DOMAIN options : options[t] # {}} |-> The(options[t])] @@ params
LOCAL Recorded(g, known) ==
  [g EXCEPT !.info = [t \in DOMAIN @ |-> IF t \in DOMAIN known THEN [@[t] EXCEPT !.known = {known[t]}] ELSE @[t]]]
LOCAL Inlined(g, acc) ==
  [g EXCEPT !.params = Overlaid(@, [t \in DOMAIN acc.known |-> materialized(g, acc, t)])]
LOCAL Filling(g, kind) ==
  IR!Through(LAMBDA h, node : IF node.op.kind = kind THEN BindAny(h, node.outs[1], FilledOver(h, node)) ELSE h,
             g, g.nodes)
LOCAL Settling(g, acc) ==
  Inlined(Recorded(IR!Through(LAMBDA h, node : resolve_minus_one(acc.known, h, node), g, g.nodes), acc.known), acc)
DataPropagation(g) ==
  Filling(Filling(Settling(g, IR!Through(LAMBDA acc, node : evaluated_by(g, acc, node),
                                         [known |-> seeded(g), computed |-> {}], g.nodes)),
                  "ConstantOfShape"), "Trilu")
===============================================================================
