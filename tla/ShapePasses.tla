------------------------------ MODULE ShapePasses ------------------------------
(***************************************************************************)
(* The passes of the generic pipeline that look at shapes and constants,   *)
(* over the graph OnnxImport builds: attributes read from constants,       *)
(* shapes and types propagated, nodes evaluated, folded and dropped.       *)
(* Nodes stay in the topological order the import gives them.              *)
(***************************************************************************)
EXTENDS OnnxImport

LOCAL IR == INSTANCE GraphIR

DimsOf(g, ts) == [n \in DOMAIN ts |-> g.info[ts[n]].dims]
LOCAL KnownOf(g, node, n) == IF n \in DOMAIN node.ins THEN g.info[node.ins[n]].known ELSE {}

-----------------------------------------------------------------------------
(* ResolveSliceParams.                                                      *)
\* An end that is not a constant is taken to be past every axis.
ResolvedSlice(g, node) ==
  LET Read(n) == IF n \in DOMAIN node.ins
                   THEN IF node.ins[n] \in DOMAIN g.params
                          THEN LET x == g.params[node.ins[n]]
                               IN IF x.dtype \in {"INT64", "INT32"} /\ x.data # <<>> THEN {x.data} ELSE {}
                          ELSE {}
                   ELSE {}
      starts == The(Read(2))
      Else(n, Default(_)) == IF Read(n) # {} THEN The(Read(n)) ELSE [k \in DOMAIN starts |-> Default(k)]
  IN IF node.op.kind # "Slice" THEN node
     ELSE IF node.op.starts # <<>> \/ Read(2) = {} THEN node
     ELSE [node EXCEPT !.op = [@ EXCEPT !.starts = starts, !.ends = Else(3, LAMBDA k : Unbounded),
                                        !.axes = Else(4, LAMBDA k : k - 1), !.steps = Else(5, LAMBDA k : 1)]]
ResolveSliceParams(g) == [g EXCEPT !.nodes = [p \in DOMAIN @ |-> ResolvedSlice(g, @[p])]]

-----------------------------------------------------------------------------
(* ShapePropagation, and the aggressive one of the repair.                  *)
\* The sizes a Resize is given, or its scales times what is concrete.
resize_values(g, node) ==
  LET x == g.info[node.ins[1]].dims
      Sizes(n) == IF n \in DOMAIN node.ins /\ g.info[node.ins[n]].dtype = "INT64"
                    THEN g.info[node.ins[n]].known ELSE {}
      by == node.ins[IF Len(node.ins) > 2 THEN 3 ELSE 2]
      scales == g.params[by].data
      Scaled1(d) == IF ~Fixed(x[d]) THEN Unknown
                    ELSE IF d \in DOMAIN scales THEN x[d][1] * scales[d] ELSE x[d][1]
  IN IF Sizes(4) # {} THEN Sizes(4)
     ELSE IF Sizes(2) # {} THEN Sizes(2)
     ELSE IF Len(node.ins) < 2 \/ by \notin DOMAIN g.params THEN {}
     ELSE IF g.params[by].dtype # "F32" THEN {}
     ELSE {[d \in DOMAIN x |-> Scaled1(d)]}
shape_known_values(g, node) ==
  CASE node.op.kind \in {"Reshape", "Expand", "Pad"} -> KnownOf(g, node, 2)
    [] node.op.kind = "Resize" -> resize_values(g, node)
    [] OTHER -> {}

\* Settled shapes are kept when they are protected; a dimension inferred
\* unknown never replaces a concrete one of the same rank.
reshaped(g, node, protect_settled) ==
  LET inferred == infer_output_shapes(node.op, DimsOf(g, node.ins), shape_known_values(g, node))
      Merged(old, new) ==
        IF Len(old) # Len(new) THEN new
        ELSE [d \in DOMAIN new |-> IF ~Fixed(new[d]) /\ new[d][1] = 1 /\ Fixed(old[d]) THEN old[d] ELSE new[d]]
      Becomes(h, n) ==
        LET old == h.info[node.outs[n]].dims
        IN IF (protect_settled /\ Settled(old)) \/ inferred[n] = <<>> THEN h
           ELSE [h EXCEPT !.info[node.outs[n]].dims = Merged(old, inferred[n])]
  IN FoldLeft(Becomes, g, [n \in DOMAIN inferred \cap DOMAIN node.outs |-> n])
retyped(g, node) ==
  LET types == infer_output_dtypes(node.op, [n \in DOMAIN node.ins |-> g.info[node.ins[n]].dtype], Len(node.outs))
  IN FoldLeft(LAMBDA h, n : [h EXCEPT !.info[node.outs[n]].dtype = types[n]], g, [n \in DOMAIN node.outs |-> n])
propagate_shapes(g, protect_settled) ==
  IR!Through(retyped, IR!Through(LAMBDA h, node : reshaped(h, node, protect_settled), g, g.nodes), g.nodes)

-----------------------------------------------------------------------------
(* ConstantEvaluation: a node over constants becomes one.                   *)
\* The shape a constant is read under: the recorded one when it holds as
\* many elements, or the constant's own.
const_shape(g, t) ==
  LET dims == g.info[t].dims
      sizes == [d \in DOMAIN dims |-> dims[d][1]]
      Fits(shape) == Volume(shape) = Len(g.params[t].data)
  IN IF (\A d \in DOMAIN dims : Fixed(dims[d])) /\ Fits(sizes) THEN {sizes}
     ELSE {shape \in {g.params[t].shape} : Fits(shape)}
Evaluation(g, node) ==
  LET first == g.info[node.ins[1]].dims
      vector == try_eval_shape(node.op, [d \in DOMAIN first |-> IF Fixed(first[d]) THEN first[d][1] ELSE -1])
      shapes == [n \in DOMAIN node.ins |-> const_shape(g, node.ins[n])]
  IN IF node.outs[1] \in DOMAIN g.params THEN {}
     ELSE IF vector # {} THEN vector
     ELSE IF ~(ToSet(node.ins) \subseteq DOMAIN g.params) THEN {}
     ELSE IF \E n \in DOMAIN shapes : shapes[n] = {} THEN {}
     ELSE {value \in eval_node(node.op, [n \in DOMAIN node.ins |-> g.params[node.ins[n]]],
                               [n \in DOMAIN node.ins |-> The(shapes[n])]) :
             0 \notin ToSet(value.shape) /\ value.data # <<>>}
EvaluateNodes(g) ==
  IR!Through(LAMBDA h, node : BindAny(h, node.outs[1], Evaluation(h, node)), g, g.nodes)

-----------------------------------------------------------------------------
(* ConstantFolding and DeadNodeElimination.                                 *)
\* An Identity, or a Reshape of a constant, becomes its input; a node whose
\* outputs are constants goes.
Fold1(g, acc, p) ==
  LET node == g.nodes[p]
      To(t) == IF t \in DOMAIN acc.remap THEN acc.remap[t] ELSE t
      from == To(node.ins[1])
      aliased == \/ node.op.kind = "Identity"
                 \/ node.op.kind = "Reshape" /\ from \in DOMAIN g.params
      constant == node.op.kind \notin {"Identity", "Reshape"} /\ ToSet(node.outs) \subseteq DOMAIN g.params
  IN IF aliased THEN [remap |-> (node.outs[1] :> from) @@ acc.remap, gone |-> acc.gone \cup {p}]
     ELSE IF constant THEN [acc EXCEPT !.gone = @ \cup {p}] ELSE acc
FoldNodes(g) ==
  LET acc == IR!Through(LAMBDA a, p : Fold1(g, a, p), [remap |-> <<>>, gone |-> {}],
                        [p \in DOMAIN g.nodes |-> p])
      To(ts) == [n \in DOMAIN ts |-> IF ts[n] \in DOMAIN acc.remap THEN acc.remap[ts[n]] ELSE ts[n]]
      kept == SelectSeq([p \in DOMAIN g.nodes |-> p], LAMBDA p : p \notin acc.gone)
      nodes == [k \in DOMAIN kept |-> [g.nodes[kept[k]] EXCEPT !.ins = To(@), !.outs = To(@)]]
      live == UNION {ToSet(node.ins) \cup ToSet(node.outs) : node \in ToSet(nodes)}
                \cup ToSet(To(g.inputs)) \cup ToSet(To(g.outputs))
  IN IF acc.gone = {} THEN g
     ELSE [g EXCEPT !.nodes = nodes, !.inputs = To(@), !.outputs = To(@),
                    !.params = [t \in DOMAIN @ \cap live |-> @[t]]]
DropDead(g) ==
  LET Reaching(live, node) == IF ToSet(node.outs) \cap live = {} THEN live ELSE live \cup ToSet(node.ins)
      live == IR!Through(Reaching, ToSet(g.outputs), Reverse(g.nodes))
  IN [g EXCEPT !.nodes = SelectSeq(@, LAMBDA node : ToSet(node.outs) \cap live # {})]
===============================================================================
