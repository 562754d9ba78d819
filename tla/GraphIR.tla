-------------------------------- MODULE GraphIR --------------------------------
(***************************************************************************)
(* The compiler's graph (ir/graph.rs in crates/hologram-ai-common) and     *)
(* what lowering makes of it (lower/builder.rs): nodes in a vector, tensors*)
(* named by number, a cached topological order, and the value every tensor *)
(* has once the nodes are emitted in that order.                           *)
(*                                                                         *)
(* Values are terms.  A term keeps the scalars it was multiplied by apart, *)
(* so that a scale may move through a product, as the rewrites move it.    *)
(* Shapes are left out, but for whether a tensor has less than three axes. *)
(***************************************************************************)
EXTENDS Integers, Sequences, FiniteSets, SequencesExt, FiniteSetsExt, Bags, Functions

\* op is <<name, attributes...>>; in and out are sequences of tensors.
Node(id, op, in, out) == [id |-> id, op |-> op, in |-> in, out |-> out]

\* A graph: nodes, inputs, outputs, params (a constant: its value and its
\* kind: "scalar", one f32; "small"; "large", at least 256 bytes;
\* "projection", a large two-axis f32 weight of the sizes the projection
\* rewrite asks for), flat (tensors of fewer than three axes), logits (an
\* output is named "logits" or "output"), causal (inputs that hold the
\* causal mask), order (the cached topological order, <<>> when there is
\* none), overreach (kept for the properties: a custom rewrite was applied
\* where nothing it tests says that it may).

\* A left fold, each step on the value of the one before.
Through(step(_, _), start, items) ==
  LET after[n \in 0 .. Len(items)] ==
        IF n = 0 THEN start ELSE CHOOSE r \in {step(a, items[n]) : a \in {after[n - 1]}} : TRUE
  IN after[Len(items)]

Concatenated(seqs) == Through(\o, <<>>, seqs)

-----------------------------------------------------------------------------
(* Values.                                                                 *)

One == <<"one">>
Term(of) == [by |-> EmptyBag, of |-> of]
Leaf(name) == Term(<<"leaf", name>>)
Scalar(name) == [by |-> SetToBag({name}), of |-> One]
Missing == Term(<<"missing">>)

Scaled(a, by) == [a EXCEPT !.by = @ (+) by]

\* Element-wise product: bilinear and commutative.
Times(a, b) == [by |-> a.by (+) b.by,
                of |-> CASE a.of = One -> b.of
                         [] b.of = One -> a.of
                         [] OTHER -> <<"Mul", {a.of, b.of}>>]

Dot(a, b) == [by |-> a.by (+) b.by, of |-> <<"MatMul", a.of, b.of>>]
Flip(a) == [by |-> a.by, of |-> <<"Transpose", a.of>>]
Sum(a, b) == Term(<<"Add", {a, b}>>)
Of(f, a) == Term(<<f, a>>)

Silu(a) == Times(a, Of("Sigmoid", a))
SwiGlu(gate, up) == Times(Silu(gate), up)
ReduceL1(a) == Of("ReduceSum", Of("Abs", a))
ReduceL2(a) == Of("Sqrt", Of("ReduceSum", Times(a, a)))
Centered(x) == Term(<<"Sub", <<x, Of("ReduceMean", x)>>>>)
Rms(x, two, eps) == Of("Sqrt", Sum(Of("ReduceMean", Term(<<"Pow", <<x, two>>>>)), eps))
Square == Scalar("two")
\* What a batch norm adds to the variance: an attribute.
Epsilon == Leaf("epsilon")

BatchNorm(x, scale, bias, mean, var, eps) ==
  LET weight == Times(scale, Of("Reciprocal", Of("Sqrt", Sum(var, eps))))
  IN Sum(Times(x, weight), Term(<<"Sub", <<bias, Times(mean, weight)>>>>))
RmsNorm(x, weight, eps) == Times(weight, Times(x, Of("Reciprocal", Rms(x, Square, eps))))
LayerNorm(x, weight, bias, eps) ==
  Sum(bias, Times(weight, Times(Centered(x), Of("Reciprocal", Rms(Centered(x), Square, eps)))))

\* The kernel's own causal mask, where the rewrite asks for one.
Causal == Leaf("causal")
Attention(q, k, v, by, causal) ==
  LET scores == Scaled(Dot(q, Flip(k)), by)
  IN Dot(Of("Softmax", IF causal THEN Sum(scores, Causal) ELSE scores), v)

\* What the emitted nodes compute: the values of a node's outputs.
Projected(norm, weights) == [w \in DOMAIN weights |-> Dot(norm, weights[w])]

Emit(op, a, flat) ==
  CASE op[1] \in {"Identity", "Reshape", "Expand", "Unsqueeze"} -> <<a[1]>>
    \* Nothing is NaN but a row that is masked whole, and none is.
    [] op[1] = "Where" -> <<IF a[1] = Of("IsNaN", a[3]) THEN a[3] ELSE Term(<<"Where", a>>)>>
    [] op[1] = "BatchNorm" -> <<BatchNorm(a[1], a[2], a[3], a[4], a[5], Epsilon)>>
    [] op[1] = "Transpose" -> <<Flip(a[1])>>
    [] op[1] = "Mul" -> <<Times(a[1], a[2])>>
    [] op[1] = "Div" -> <<Times(a[1], Of("Reciprocal", a[2]))>>
    [] op[1] = "Add" -> <<Sum(a[1], a[2])>>
    [] op[1] \in {"Sub", "Pow"} -> <<Term(<<op[1], <<a[1], a[2]>>>>)>>
    [] op[1] = "MatMul" -> <<Dot(a[1], a[2])>>
    [] op[1] = "Gemm" -> <<Scaled(Dot(a[1], a[2]), op[2])>>
    [] op[1] = "Silu" -> <<Silu(a[1])>>
    [] op[1] = "ReduceL1" -> <<ReduceL1(a[1])>>
    [] op[1] = "ReduceL2" -> <<ReduceL2(a[1])>>
    [] op[1] = "MatMulRelu" -> <<Of("Relu", Dot(a[1], a[2]))>>
    [] op[1] = "MatMulSilu" -> <<Silu(Dot(a[1], a[2]))>>
    [] op[1] = "FusedSwiGLU" -> <<SwiGlu(a[1], a[2])>>
    [] op[1] = "FusedSwiGluProjection" -> <<Dot(SwiGlu(a[1], a[2]), a[3])>>
    [] op[1] = "RmsNorm" -> <<RmsNorm(a[1], a[2], op[2])>>
    [] op[1] = "LayerNorm" -> <<LayerNorm(a[1], a[2], a[3], op[2])>>
    [] op[1] = "FusedLayerNormResidual" ->
         <<IF flat[1] = flat[2] THEN RmsNorm(Sum(a[1], a[2]), a[3], op[2]) ELSE Missing>>
    [] op[1] = "FusedNormProjection" ->
         IF op[3] THEN Projected(RmsNorm(Sum(a[1], a[2]), a[3], op[2]), SubSeq(a, 4, Len(a)))
                  ELSE Projected(RmsNorm(a[1], a[2], op[2]), SubSeq(a, 3, Len(a)))
    [] op[1] = "GroupedQueryAttention" -> <<Attention(a[1], a[2], a[3], op[2], op[3])>>
    [] OTHER -> <<Of(op[1], a[1])>>

-----------------------------------------------------------------------------
(* Structure.                                                              *)

Positions(g) == DOMAIN g.nodes
InOrder(g, ps) == SelectSeq([p \in Positions(g) |-> p], LAMBDA p : p \in ps)
Made(g) == UNION {ToSet(g.nodes[p].out) : p \in Positions(g)}

\* build_producer_map: the last node that names a tensor as its output.
build_producer_map(g) ==
  [t \in Made(g) |-> Max({p \in Positions(g) : t \in ToSet(g.nodes[p].out)})]

\* Fault: a graph output is not counted as a use.
CountsInside(g) ==
  [t \in Made(g) |->
     FoldFunction(+, 0, [p \in Positions(g) |->
                     Cardinality({k \in DOMAIN g.nodes[p].in : g.nodes[p].in[k] = t})])]

\* A tensor that is a graph output is also consumed.
build_consumer_counts(g) ==
  [t \in Made(g) |->
     Cardinality({k \in DOMAIN g.outputs : g.outputs[k] = t})
       + FoldFunction(+, 0, [p \in Positions(g) |->
           Cardinality({k \in DOMAIN g.nodes[p].in : g.nodes[p].in[k] = t})])]

\* Kahn's algorithm, the least ready position first: a pure function of the
\* vector of nodes.
Needs(g, from) ==
  [p \in Positions(g) |-> {from[t] : t \in ToSet(g.nodes[p].in) \cap DOMAIN from}]
RECURSIVE Drain(_, _)
Drain(needs, done) ==
  LET ready == {p \in DOMAIN needs \ ToSet(done) : needs[p] \subseteq ToSet(done)}
  IN IF ready = {} THEN done ELSE Drain(needs, Append(done, Min(ready)))
Identified(g, positions) == [k \in DOMAIN positions |-> g.nodes[positions[k]].id]
compute_topo_order(g) == Identified(g, Drain(Needs(g, build_producer_map(g)), <<>>))

\* topo_order: the cached order, or a fresh one that is cached.
topo_order(g) == IF g.order # <<>> THEN g.order ELSE compute_topo_order(g)
Cached(g) == [g EXCEPT !.order = topo_order(g)]

next_node_id(g) == 1 + Max({0} \cup {g.nodes[p].id : p \in Positions(g)})

-----------------------------------------------------------------------------
(* lower: inputs, constants, then the nodes in order.  A tensor that is    *)
(* referenced before its definition fails the compilation.                 *)

Failed == <<"failed">>

\* emit_node: the node's outputs join what is defined (out empty: nothing is
\* bound, which dead node elimination leaves to no node).
emit_node(g, done, id) ==
  LET n == g.nodes[Max({p \in Positions(g) : g.nodes[p].id = id})]
      values == Emit(n.op, [k \in DOMAIN n.in |-> done.env[n.in[k]]],
                     [k \in DOMAIN n.in |-> n.in[k] \in g.flat])
  IN IF n.out = <<>> \/ ~done.ok THEN done
     ELSE IF ~(ToSet(n.in) \subseteq DOMAIN done.env) THEN [done EXCEPT !.ok = FALSE]
     ELSE [done EXCEPT !.env = [t \in ToSet(n.out) |->
                                  values[CHOOSE k \in DOMAIN n.out : n.out[k] = t]] @@ @]

Emitted(g, done) ==
  IF done.ok /\ ToSet(g.outputs) \subseteq DOMAIN done.env
    THEN [k \in DOMAIN g.outputs |-> done.env[g.outputs[k]]]
    ELSE Failed

Lowered(g) ==
  LET inputs == [t \in ToSet(g.inputs) |-> IF t \in g.causal THEN Causal ELSE Leaf(t)]
      params == [t \in DOMAIN g.params |-> g.params[t].value]
  IN Emitted(g, Through(LAMBDA d, id : emit_node(g, d, id),
                        [env |-> params @@ inputs, ok |-> TRUE], topo_order(g)))
===============================================================================
