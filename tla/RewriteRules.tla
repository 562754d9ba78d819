----------------------------- MODULE RewriteRules -----------------------------
(***************************************************************************)
(* The declarative rewrite engine (rules/mod.rs) and the rules the         *)
(* pipeline gives it (rules/pattern_rules.rs, opt/graph_utils.rs).         *)
(*                                                                         *)
(* A match in progress is a set of at most one [binds, consumed]: empty    *)
(* means refused.  A pattern, a rule and a rule set are data.              *)
(***************************************************************************)
EXTENDS GraphIR

Var(v) == [is |-> "Var", var |-> v]
Const(v) == [is |-> "Const", var |-> v]
Bound(name, in, v) == [is |-> "Op", op |-> name, in |-> in, bind |-> {v}, comm |-> FALSE]
Op(name, in) == [Bound(name, in, "") EXCEPT !.bind = {}]
Comm(name, a, b) == [Op(name, <<a, b>>) EXCEPT !.comm = TRUE]

bind(m, v, t) ==
  IF v \in DOMAIN m.binds
    THEN IF m.binds[v] = t THEN {m} ELSE {}
    ELSE {[m EXCEPT !.binds = (v :> t) @@ @]}

OrElse(found, other) == IF found = {} THEN other ELSE found

\* s is the sweep: the graph, and the producers and the uses at its start.
RECURSIVE match_at(_, _, _, _, _), match_tensor(_, _, _, _)

match_tensor(s, p, t, m) ==
  CASE p.is = "Var" -> bind(m, p.var, t)
    [] p.is = "Const" -> IF t \in DOMAIN s.g.params THEN bind(m, p.var, t) ELSE {}
    [] OTHER -> IF t \in DOMAIN s.from THEN match_at(s, p, s.from[t], FALSE, m) ELSE {}

match_at(s, p, pos, root, m) ==
  LET n == s.g.nodes[pos]
      Matched(inputs, begun) ==
        Through(LAMBDA found, k : UNION {match_tensor(s, inputs[k], n.in[k], x) : x \in found},
                begun, [k \in DOMAIN inputs |-> k])
      Either(begun) ==
        OrElse(Matched(p.in, begun), IF p.comm THEN Matched(Reverse(p.in), begun) ELSE {})
  IN IF \/ ~root /\ (n.out = <<>> \/ s.uses[n.out[1]] # 1)
        \/ n.op[1] # p.op
        \/ Len(p.in) # Len(n.in)
       THEN {}
       ELSE {[x EXCEPT !.consumed = @ \cup {pos}] :
               x \in Either(IF p.bind = {} THEN {m}
                              ELSE UNION {bind(m, v, n.out[1]) : v \in p.bind})}

-----------------------------------------------------------------------------
(* The rules: what they look for, what they build of which bindings.       *)

Rule(pattern, builds, in) == [pattern |-> pattern, builds |-> builds, in |-> in]

swiglu_rules ==
  LET pair == <<"gate", "up">>
  IN <<Rule(Comm("Mul", Op("Silu", <<Var("gate")>>), Var("up")), "FusedSwiGLU", pair),
       Rule(Comm("Mul", Comm("Mul", Var("gate"), Op("Sigmoid", <<Var("gate")>>)), Var("up")),
            "FusedSwiGLU", pair)>>

matmul_activation_rules ==
  LET OfMatMul(act, fused) ==
        Rule(Op(act, <<Op("MatMul", <<Var("a"), Var("w")>>)>>), fused, <<"a", "w">>)
  IN <<OfMatMul("Silu", "MatMulSilu"), OfMatMul("Gelu", "MatMulGelu"),
       OfMatMul("Relu", "MatMulRelu")>>

add_rmsnorm_rules ==
  <<Rule(Op("RmsNorm", <<Comm("Add", Var("x"), Var("residual")), Var("weight")>>),
         "FusedLayerNormResidual", <<"x", "residual", "weight">>)>>

swiglu_projection_rules ==
  <<Rule(Op("MatMul", <<Op("FusedSwiGLU", <<Var("gate"), Var("up")>>), Var("w_down")>>),
         "FusedSwiGluProjection", <<"gate", "up", "w_down">>)>>

scalar_absorption_rules ==
  <<Rule(Comm("Mul", Op("MatMul", <<Var("a"), Var("b")>>), Const("scalar")), "Gemm", <<"a", "b">>)>>

rms_denom_pattern(x) ==
  Op("Sqrt", <<Comm("Add", Op("ReduceMean", <<Op("Pow", <<Var(x), Const("two")>>)>>),
                    Const("eps"))>>)

rmsnorm_rules ==
  LET Weighted(normed) == Rule(Comm("Mul", Var("weight"), normed), "RmsNorm", <<"x", "weight">>)
  IN <<Weighted(Op("Mul", <<Var("x"), Op("Reciprocal", <<rms_denom_pattern("x")>>)>>)),
       Weighted(Op("Div", <<Var("x"), rms_denom_pattern("x")>>))>>

layernorm_rules ==
  LET centered == Bound("Sub", <<Var("x"), Op("ReduceMean", <<Var("x")>>)>>, "centered")
      divided == Op("Div", <<centered, rms_denom_pattern("centered")>>)
  IN <<Rule(Comm("Add", Var("bias"), Comm("Mul", Var("weight"), divided)), "LayerNorm",
            <<"x", "weight", "bias">>)>>

norm_projection_rule ==
  <<Rule(Op("RmsNorm", <<Var("x"), Var("w")>>), "projection", <<>>),
    Rule(Op("FusedLayerNormResidual", <<Var("x"), Var("r"), Var("w")>>), "projection", <<>>)>>

attention_fusion_rules == <<Rule(Op("MatMul", <<Var("q"), Var("k_t")>>), "attention", <<>>)>>

\* Const("scalar") and its like must hold one f32.
scalar_f32(g, t) == IF t \in DOMAIN g.params /\ g.params[t].kind = "scalar"
                      THEN {g.params[t].value} ELSE {}

\* build: the new operation, or none and the rule is refused.
build(g, rule, root_op, b) ==
  CASE rule.builds = "Gemm" -> {<<"Gemm", s.by>> : s \in scalar_f32(g, b["scalar"])}
    [] rule.builds \in {"RmsNorm", "LayerNorm"} ->
         {<<rule.builds, eps>> : eps \in {e \in scalar_f32(g, b["eps"]) :
                                            scalar_f32(g, b["two"]) = {Square}}}
    [] rule.builds = "FusedLayerNormResidual" ->
         IF (b["x"] \in g.flat) = (b["residual"] \in g.flat)
           THEN {<<"FusedLayerNormResidual", root_op[2]>>} ELSE {}
    [] OTHER -> {<<rule.builds>>}

-----------------------------------------------------------------------------
(* Custom rewrites: [g, node], or none.                                    *)

Users(g, t) == {p \in Positions(g) : t \in ToSet(g.nodes[p].in)}
Silenced(g, ps) ==
  [g EXCEPT !.nodes = [p \in DOMAIN @ |-> IF p \in ps THEN [@[p] EXCEPT !.out = <<>>] ELSE @[p]]]

\* What goes although something that stays reads it, or the caller does.
Orphans(g, gone, kept) ==
  {t \in UNION {ToSet(g.nodes[p].out) : p \in gone} \ kept :
     t \in ToSet(g.outputs) \/ ~(Users(g, t) \subseteq gone)}
Overreaching(g, does) == [g EXCEPT !.overreach = @ \/ does]

norm_projection_fusion_rewrite(g, root) ==
  LET n == g.nodes[root]
      users == InOrder(g, Users(g, n.out[1]))
      weights == [k \in DOMAIN users |-> g.nodes[users[k]].in[2]]
      outs == [k \in DOMAIN users |-> g.nodes[users[k]].out[1]]
      Projects(p) == LET m == g.nodes[p]
                     IN /\ m.op[1] = "MatMul" /\ m.out # <<>>
                        /\ m.in[1] = n.out[1] /\ m.in[2] # n.out[1]
                        /\ m.in[2] \in DOMAIN g.params /\ g.params[m.in[2]].kind = "projection"
      op == <<"FusedNormProjection", n.op[2], n.op[1] = "FusedLayerNormResidual">>
  IN IF Len(users) >= 2 /\ \A k \in DOMAIN users : Projects(users[k])
       THEN {[g |-> Overreaching(Silenced(g, ToSet(users)),
                                 Orphans(g, {root} \cup ToSet(users), ToSet(outs)) # {}),
              node |-> Node(n.id, op, n.in \o weights, outs)]}
       ELSE {}

\* The first user of t, in the order of the nodes, with this operation.
find_consumer_by_op(g, t, name) ==
  LET found == {p \in Users(g, t) : g.nodes[p].op[1] = name}
  IN IF found = {} THEN {} ELSE {Min(found)}

Relabels == {"Reshape", "Flatten", "Squeeze", "Unsqueeze", "Expand", "Identity"}
Producer(g, t) == IF t \in Made(g) THEN {build_producer_map(g)[t]} ELSE {}

\* The scalar of a product and its other operand: the second operand first.
ScalarOf(g, n) ==
  OrElse({[by |-> v.by, rest |-> n.in[1]] : v \in scalar_f32(g, n.in[2])},
         {[by |-> v.by, rest |-> n.in[2]] : v \in scalar_f32(g, n.in[1])})

\* A chain so far: its last tensor, its scale, what it was masked with, the
\* nodes it went through.  A link is taken, or the chain is left as it is.
Chained(g, l, p) == [l EXCEPT !.t = g.nodes[p].out[1], !.through = @ \cup {p}]

WithScale(g, l) ==
  OrElse(UNION {{[Chained(g, l, p) EXCEPT !.by = x.by] :
                   x \in {y \in ScalarOf(g, g.nodes[p]) : y.rest = l.t}} :
                   p \in find_consumer_by_op(g, l.t, "Mul")},
         {l})
WithMask(g, l) ==
  OrElse({[Chained(g, l, p) EXCEPT !.mask = ToSet(g.nodes[p].in) \ {l.t}] :
            p \in find_consumer_by_op(g, l.t, "Add")},
         {l})
WithSoftmax(g, l) == {Chained(g, l, p) : p \in find_consumer_by_op(g, l.t, "Softmax")}
\* The test for NaN, and the choice that is all that reads it.
single_consumer(g, t) ==
  {p \in Users(g, t) : /\ Users(g, t) = {p}
                       /\ Cardinality({k \in DOMAIN g.nodes[p].in : g.nodes[p].in[k] = t}) = 1}
WithNanGuard(g, l) ==
  OrElse({LET tested == [l EXCEPT !.through = @ \cup {p}]
              wheres == {q \in single_consumer(g, g.nodes[p].out[1]) : g.nodes[q].op[1] = "Where"}
          IN CHOOSE next \in OrElse({Chained(g, tested, q) : q \in wheres}, {tested}) : TRUE :
            p \in find_consumer_by_op(g, l.t, "IsNaN")},
         {l})

\* The product with V ends the chain, V on either side of it.
WithV(g, l) ==
  {[chain |-> Chained(g, l, p), left |-> g.nodes[p].in[1] = l.t,
    v |-> g.nodes[p].in[IF g.nodes[p].in[1] = l.t THEN 2 ELSE 1]] :
     p \in {q \in find_consumer_by_op(g, l.t, "MatMul") : g.nodes[q].out # <<>>}}

match_sdpa_chain(g, scores) ==
  LET start == [t |-> scores, by |-> EmptyBag, mask |-> {}, through |-> {}]
      Each(With(_, _), chains) == UNION {With(g, l) : l \in chains}
  IN Each(WithV, Each(WithNanGuard, Each(WithSoftmax, Each(WithMask, Each(WithScale, {start})))))

\* The tensor before the Transpose and the scales passed on the way; the
\* tensor itself where no Transpose is met.  (The code looks five nodes back.)
RECURSIVE find_pre_transpose_with_scale(_, _, _, _), before_node(_, _, _, _)
find_pre_transpose_with_scale(g, t, at, by) ==
  OrElse(UNION {before_node(g, t, g.nodes[p], by) : p \in Producer(g, at)},
         {[k |-> t, by |-> by, turned |-> FALSE]})
before_node(g, t, n, by) ==
  CASE n.op[1] = "Transpose" -> {[k |-> n.in[1], by |-> by, turned |-> TRUE]}
    [] n.op[1] \in Relabels -> find_pre_transpose_with_scale(g, t, n.in[1], by)
    [] n.op[1] = "Mul" ->
         UNION {find_pre_transpose_with_scale(g, t, x.rest, by (+) x.by) : x \in ScalarOf(g, n)}
    [] OTHER -> {}

RECURSIVE trace_past_expand(_, _)
trace_past_expand(g, t) ==
  CHOOSE u \in OrElse({trace_past_expand(g, g.nodes[p].in[1]) :
                         p \in {q \in Producer(g, t) : g.nodes[q].op[1] \in Relabels}},
                      {t}) : TRUE

\* The fused node attends from the queries to keys it turns itself, under the
\* causal mask or none, with the weights to the left of V; and the chain goes.
\* None of it is tested.
OverreachesBy(g, root, pre, sdpa) ==
  \/ Orphans(g, sdpa.chain.through \cup {root}, {sdpa.chain.t}) # {}
  \/ sdpa.chain.mask = {} /\ g.logits
  \/ ~(sdpa.chain.mask \subseteq g.causal)
  \/ ~pre.turned
  \/ ~sdpa.left

attention_fusion_rewrite(g, root) ==
  LET n == g.nodes[root]
      Attends(pre, sdpa) ==
        Node(n.id, <<"GroupedQueryAttention", pre.by (+) sdpa.chain.by,
                     sdpa.chain.mask # {} \/ g.logits>>,
             <<n.in[1], trace_past_expand(g, pre.k), trace_past_expand(g, sdpa.v)>>,
             <<sdpa.chain.t>>)
  IN IF n.in[1] \in g.flat THEN {}
       ELSE {[g |-> Overreaching(Silenced(g, sdpa.chain.through \ {root}),
                                 OverreachesBy(g, root, pre, sdpa)),
              node |-> Attends(pre, sdpa)] :
               sdpa \in match_sdpa_chain(g, n.out[1]),
               pre \in find_pre_transpose_with_scale(g, n.in[2], n.in[2], EmptyBag)}

-----------------------------------------------------------------------------
(* The engine.                                                             *)

\* A rule that matched with x at a root: the sweep after it, or none.
Applied(s, rule, root, x) ==
  LET n == s.g.nodes[root]
      Done(after, node) == [after EXCEPT !.rewritten = (root :> node) @@ @,
                                         !.removed = @ \cup (x.consumed \ {root})]
      Custom(results) == {Done([s EXCEPT !.g = r.g], r.node) : r \in results}
  IN CASE n.out = <<>> -> {}
       [] n.out # <<>> /\ rule.builds = "projection" ->
            Custom(norm_projection_fusion_rewrite(s.g, root))
       [] n.out # <<>> /\ rule.builds = "attention" ->
            Custom(attention_fusion_rewrite(s.g, root))
       [] OTHER ->
            {Done([s EXCEPT !.next = @ + 1],
                  Node(s.next, op, [k \in DOMAIN rule.in |-> x.binds[rule.in[k]]], <<n.out[1]>>)) :
               op \in build(s.g, rule, n.op, x.binds)}

\* The first rule that is not refused at this root.
RECURSIVE FirstOf(_, _, _)
FirstOf(rules, s, root) ==
  IF rules = <<>> THEN {s}
    ELSE OrElse(UNION {Applied(s, Head(rules), root, x) :
                         x \in match_at(s, Head(rules).pattern, root, TRUE,
                                        [binds |-> <<>>, consumed |-> {}])},
                FirstOf(Tail(rules), s, root))

AtRoot(rules, s, root) ==
  IF root \in DOMAIN s.rewritten \cup s.removed THEN s
    ELSE CHOOSE after \in FirstOf(rules, s, root) : TRUE

\* What a sweep that ended leaves: the nodes it kept, some of them rewritten.
SweptTo(end) ==
  LET kept == InOrder(end.g, Positions(end.g) \ end.removed)
  IN [g |-> [end.g EXCEPT !.nodes =
               [k \in DOMAIN kept |-> IF kept[k] \in DOMAIN end.rewritten
                                        THEN end.rewritten[kept[k]] ELSE @[kept[k]]]],
      rewrites |-> Cardinality(DOMAIN end.rewritten)]

\* A sweep.  Producers and uses are those of its start.
apply_pass(rules, g) ==
  SweptTo(Through(LAMBDA s, root : AtRoot(rules, s, root),
                  [g |-> g, from |-> build_producer_map(g), uses |-> build_consumer_counts(g),
                   next |-> next_node_id(g), rewritten |-> <<>>, removed |-> {}],
                  [p \in Positions(g) |-> p]))

\* To a fixed point.  The cached order is left as it is.
RECURSIVE Rewritten(_, _)
Rewritten(rules, g) ==
  CHOOSE end \in {IF swept.rewrites = 0 THEN g ELSE Rewritten(rules, swept.g) :
                    swept \in {apply_pass(rules, g)}} : TRUE
===============================================================================
