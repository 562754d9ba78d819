------------------------------ MODULE ShapeRepair ------------------------------
(***************************************************************************)
(* concretize_all_dims and post_concretization_repair (compiler.rs): every *)
(* variable gets a size by the input it stands on, or by its name; what    *)
(* is left is guessed by position; slices become gathers and the shapes    *)
(* still empty are healed.                                                 *)
(***************************************************************************)
EXTENDS ShapePasses

LOCAL IR == INSTANCE GraphIR

CONSTANTS Window,                  \* the context length the model is compiled for
          SpatialScale             \* what divides 128 for a height or a width
ASSUME WindowAssumption == Window \in Nat \ {0} /\ SpatialScale \in Nat \ {0}

\* The names a decoder's inputs go by, and what the variables' names hold.
PastInputs == {"past.0", "past_key_values.0.key", "past_key_values.0.value"}
SequenceInputs == {"input_ids", "position_ids", "attention_mask"}
SpatialNames == {"height", "width"}
ChannelNames == {"channels"}
PastNames == {"past_len", "past_seq + 1"}
SequenceNames == {"seq", "total_length"}

\* The first axis of a recognized input is the batch, whatever else a
\* variable stands for; past counts before sequence.
infer_dim_var_roles(g) ==
  LET recognized == {t \in ToSet(g.inputs) : t \in PastInputs \cup SequenceInputs}
      Axes(v, t) == {d \in DOMAIN g.info[t].dims : g.info[t].dims[d][2] = v}
      vars == UNION {{g.info[t].dims[d][2] : d \in DOMAIN g.info[t].dims} : t \in recognized} \ {"", "?"}
  IN [v \in vars |-> IF \E t \in recognized : 1 \in Axes(v, t) THEN "batch"
                     ELSE IF \E t \in recognized \cap PastInputs : Axes(v, t) # {} THEN "past"
                     ELSE "sequence"]

SizeOf(roles, v) ==
  LET role == IF v \in DOMAIN roles THEN roles[v]
              ELSE IF v \in SpatialNames THEN "spatial"
              ELSE IF v \in ChannelNames THEN "channel"
              ELSE IF v \in PastNames THEN "past"
              ELSE IF v \in SequenceNames THEN "sequence" ELSE "batch"
      spatial == 128 \div SpatialScale
  IN CASE role = "past" -> 0
       [] role = "sequence" -> Window
       [] role = "spatial" -> IF spatial > 1 THEN spatial ELSE 1
       [] role = "channel" -> 4
       [] role = "batch" -> 1

LOCAL EveryDims(g, F(_, _)) ==
  [g EXCEPT !.info = [t \in DOMAIN @ |-> [@[t] EXCEPT !.dims = [d \in DOMAIN @ |-> F(@[d], d)]]]]
concretize_all_dims(g) ==
  LET roles == infer_dim_var_roles(g)
      Size(dim, d) == IF Fixed(dim) THEN dim
                      ELSE IF dim[2] # "?" THEN Concrete(dim[1] * SizeOf(roles, dim[2]))
                      ELSE IF dim # Dynamic THEN dim
                      ELSE Concrete(IF d = 1 THEN 1 ELSE Window)
  IN EveryDims(g, Size)
\* ForceConcretize, and what is left after the rounds.
force_concretize(g) == EveryDims(g, LAMBDA dim, d : IF dim = Dynamic THEN Concrete(1) ELSE dim)
dynamic_count(g) ==
  LET Count(t) == Cardinality({d \in DOMAIN g.info[t].dims : g.info[t].dims[d] = Dynamic})
  IN FoldSet(LAMBDA t, sum : Count(t) + sum, 0, DOMAIN g.info)
clear_known(g) == [g EXCEPT !.info = [t \in DOMAIN @ |-> [@[t] EXCEPT !.known = {}]]]

-----------------------------------------------------------------------------
(* SliceToGather: one axis, no step, some but not all of a concrete axis.   *)
slice_to_gather_rewrite(g, p) ==
  LET node == g.nodes[p]
      op == node.op
      dims == g.info[node.ins[1]].dims
      ax == 1 + normalize_axis(op.axes[1], Len(dims))
      size == dims[ax][1]
      first == normalize_slice_bound(op.starts[1], size)
      after == normalize_slice_bound(op.ends[1], size)
      index == node.outs[1] \o ".indices"
      taken == [n \in 1 .. after - first |-> first + n - 1]
      out == node.outs[1]
      matches == /\ op.kind = "Slice" /\ Len(node.ins) = 1
                 /\ Len(op.axes) = 1 /\ Len(op.starts) = 1 /\ Len(op.ends) = 1
                 /\ op.steps \in {<<>>, <<1>>}
                 /\ ax \in DOMAIN dims /\ Fixed(dims[ax]) /\ first < after /\ <<first, after>> # <<0, size>>
  IN IF ~matches THEN g
     ELSE [g EXCEPT !.nodes[p] = [op |-> [kind |-> "Gather", axis |-> op.axes[1]],
                                  ins |-> <<node.ins[1], index>>, outs |-> <<out>>],
                    !.params = (index :> Vector(taken)) @@ @,
                    !.info = (index :> [dtype |-> "INT64", dims |-> <<Concrete(after - first)>>,
                                        known |-> {taken}])
                             @@ (out :> [@[out] EXCEPT !.dims = [d \in DOMAIN @ |->
                                  IF d = 1 + normalize_axis(op.axes[1], Len(@)) THEN Concrete(after - first)
                                  ELSE @[d]]])
                             @@ @]
SliceToGather(g) == IR!Through(slice_to_gather_rewrite, g, [p \in DOMAIN g.nodes |-> p])

-----------------------------------------------------------------------------
(* ShapeHealing: only shapes still empty, in at most three rounds.          *)
LOCAL AtLeast1(n) == IF n > 1 THEN n ELSE 1
LOCAL Or1(dims, d) == IF d \in DOMAIN dims THEN IF Fixed(dims[d]) THEN dims[d] ELSE Concrete(1) ELSE Concrete(1)
heal_reshape(data, vals) ==
  LET elements == AtLeast1(Volume([d \in DOMAIN data |-> IF Fixed(data[d]) THEN data[d][1] ELSE 1]))
      given == AtLeast1(Volume([n \in DOMAIN vals |-> IF vals[n] > 0 THEN vals[n] ELSE 1]))
      one == Cardinality({n \in DOMAIN vals : vals[n] = -1}) = 1
  IN [n \in DOMAIN vals |-> IF vals[n] \in {0, Unknown} THEN Or1(data, n)
                            ELSE IF vals[n] = -1 /\ one THEN Concrete(AtLeast1(elements \div given))
                            ELSE IF vals[n] > 0 THEN Concrete(vals[n]) ELSE Concrete(1)]
\* Sizes that disagree: the first is taken.
heal_broadcast(a, b) ==
  LET rank == IF Len(a) > Len(b) THEN Len(a) ELSE Len(b)
      Dim(dims, d) == IF d <= rank - Len(dims) THEN Concrete(1) ELSE dims[d - (rank - Len(dims))]
  IN [d \in 1 .. rank |-> IF Dim(a, d) = Concrete(1) THEN Dim(b, d) ELSE Dim(a, d)]
heal_concat(op, ins) ==
  LET ax == 1 + (IF op.axis < 0 THEN Len(ins[1]) + op.axis ELSE op.axis)
  IN IF <<>> \in ToSet(ins) \/ ax \notin DOMAIN ins[1] THEN <<>>
     ELSE IF \E n \in DOMAIN ins : ax \notin DOMAIN ins[n] THEN <<>>
     ELSE IF \E n \in DOMAIN ins : ~Fixed(ins[n][ax]) THEN <<>>
     ELSE [ins[1] EXCEPT ![ax] = Concrete(Total([n \in DOMAIN ins |-> ins[n][ax][1]]))]
\* The first two pads are taken for both ends of both axes.
heal_conv(op, ins) ==
  LET x == ins[1]
      Size(d) == IF Fixed(x[d + 2]) THEN x[d + 2][1] ELSE 1
      Out(d) == 1 + (Size(d) + 2 * op.pads[d] - op.dilations[d] * (op.kernel[d] - 1) - 1) \div op.strides[d]
  IN IF Len(x) < 4 THEN <<>>
     ELSE <<x[1], IF Len(ins) > 1 /\ ins[2] # <<>> THEN ins[2][1] ELSE x[2], Concrete(Out(1)), Concrete(Out(2))>>
heal_gather(op, ins) ==
  LET x == ins[1]
      ax == 1 + (IF op.axis < 0 THEN Len(x) + op.axis ELSE op.axis)
  IN IF Len(ins) < 2 \/ <<>> \in {ins[1], ins[2]} THEN <<>>
     ELSE IF ax \notin DOMAIN x THEN x
     ELSE SubSeq(x, 1, ax - 1) \o ins[2] \o SubSeq(x, ax + 1, Len(x))

\* The shape of the first output; <<>> when there is nothing to say.
heal_shape(g, node) ==
  LET op == node.op
      ins == DimsOf(g, node.ins)
      x == ins[1]
      known == g.info[node.ins[2]].known
      matrices == Len(ins) >= 2 /\ Len(x) >= 2 /\ Len(ins[2]) >= 2
  IN CASE op.kind = "Reshape" -> IF known = {} THEN <<>> ELSE heal_reshape(x, The(known))
       [] op.kind = "Squeeze" /\ op.axes = <<>> -> SelectSeq(x, LAMBDA dim : dim # Concrete(1))
       [] op.kind \in UnaryElementwise \cup ShapePreserving \cup {"Cast"} -> x
       [] op.kind \in BinaryElementwise \cup BinaryComparison ->
            IF Len(ins) < 2 \/ x = <<>> \/ ins[2] = <<>> THEN x ELSE heal_broadcast(x, ins[2])
       [] op.kind = "MatMul" -> IF matrices THEN Append(Front(x), Last(ins[2])) ELSE <<>>
       [] op.kind = "Gemm" ->
            IF matrices THEN <<IF op.transA THEN Last(x) ELSE x[1], IF op.transB THEN ins[2][1] ELSE Last(ins[2])>>
            ELSE <<>>
       [] op.kind = "Transpose" ->
            IF Len(op.perm) = Len(x) THEN [d \in DOMAIN x |-> x[op.perm[d] + 1]] ELSE <<>>
       [] op.kind = "Concat" -> heal_concat(op, ins)
       [] op.kind = "Conv" -> heal_conv(op, ins)
       [] op.kind \in {"Gather", "GatherElements"} -> heal_gather(op, ins)
       [] OTHER -> <<>>
Healed(g, node) == IF g.info[node.outs[1]].dims = <<>> THEN [g EXCEPT !.info[node.outs[1]].dims = heal_shape(g, node)]
                   ELSE g
ShapeHealing(g) ==
  LET Round1(h) == IR!Through(Healed, h, h.nodes)
  IN IR!Through(LAMBDA h, round : Round1(h), g, <<1, 2, 3>>)
===============================================================================
