------------------------------ MODULE GraphPasses ------------------------------
(***************************************************************************)
(* The standard optimisation pipeline (OptPipeline::mvp, opt/pipeline.rs): *)
(* one action per pass, in the pipeline's order, on one imported graph.    *)
(* What is lowered at the end must compute what was imported.              *)
(*                                                                         *)
(* Left out: PositionIdsInjection (it adds an input on purpose),           *)
(* SliceToGather, the passes that only write shapes or hints (they appear  *)
(* as readers of the cached order), subgraphs, DepthToSpace/SpaceToDepth.  *)
(***************************************************************************)
EXTENDS RewriteRules

CONSTANT Graphs  \* the graphs an import may deliver

VARIABLES graph,  \* the graph between passes
          wanted, \* what the imported graph computes
          pass    \* how many passes have run

graph_vars == <<graph, wanted, pass>>

-----------------------------------------------------------------------------
(* ConstantEvaluation.                                                     *)

Evaluable == {"Expand", "Add", "Sub", "Mul", "Div", "Pow", "Abs", "Sqrt", "Reciprocal",
              "Reshape", "Transpose", "Identity"}

\* eval_node on a node all of whose inputs are constants.
Evaluated(g, id) ==
  LET n == g.nodes[Max({p \in Positions(g) : g.nodes[p].id = id})]
      value == Emit(n.op, [k \in DOMAIN n.in |-> g.params[n.in[k]].value], n.in)[1]
      param == [value |-> value, kind |-> IF value.of = One THEN "scalar" ELSE "small"]
  IN IF /\ n.out # <<>> /\ n.out[1] \notin DOMAIN g.params
        /\ n.op[1] \in Evaluable
        /\ ToSet(n.in) \subseteq DOMAIN g.params
       THEN [g EXCEPT !.params = (n.out[1] :> param) @@ @]
       ELSE g

EvaluateConstants(g) == Through(Evaluated, Cached(g), topo_order(g))

-----------------------------------------------------------------------------
(* ConstantFolding.                                                        *)

\* Where a tensor ends up: along the chain of replacements.
RECURSIVE resolve(_, _)
resolve(remap, t) ==
  IF t \in DOMAIN remap /\ remap[t] # t THEN resolve(remap, remap[t]) ELSE t

Renamed(g, remap) ==
  LET New(ts) == [k \in DOMAIN ts |-> resolve(remap, ts[k])]
  IN [g EXCEPT !.nodes = [p \in DOMAIN @ |-> [@[p] EXCEPT !.in = New(@), !.out = New(@)]],
               !.inputs = New(@), !.outputs = New(@)]

\* One node: an identity, the reshape of a constant, a materialised output.
Folded(g, acc, n) ==
  LET to == resolve(acc.remap, n.in[1])
      renames == /\ n.out # <<>> /\ n.in # <<>>
                 /\ \/ n.op[1] = "Identity"
                    \/ n.op[1] = "Reshape" /\ to \in DOMAIN g.params
      constant == /\ n.op[1] \notin {"Identity", "Reshape"}
                  /\ n.out # <<>> /\ ToSet(n.out) \subseteq DOMAIN g.params
  IN CASE renames -> [remap |-> (n.out[1] :> to) @@ acc.remap, gone |-> acc.gone \cup {n.id}]
       [] constant -> [acc EXCEPT !.gone = @ \cup {n.id}]
       [] OTHER -> acc

\* Only the constants that something still names stay.
OnlyNamed(g) ==
  LET live == UNION {ToSet(n.in) \cup ToSet(n.out) : n \in ToSet(g.nodes)}
                \cup ToSet(g.inputs) \cup ToSet(g.outputs)
  IN [g EXCEPT !.params = Restrict(@, DOMAIN @ \cap live)]

FoldedAway(g, acc) ==
  IF acc.gone = {} THEN g
  ELSE OnlyNamed(Renamed([g EXCEPT !.nodes = SelectSeq(@, LAMBDA n : n.id \notin acc.gone),
                                 !.order = <<>>], acc.remap))

FoldConstants(g) ==
  FoldedAway(g, Through(LAMBDA a, n : Folded(g, a, n), [remap |-> <<>>, gone |-> {}], g.nodes))

-----------------------------------------------------------------------------
(* OpDecomposition, ConstantDeduplication, DeadNodeElimination.            *)

Tensors(g) == UNION {ToSet(n.in) \cup ToSet(n.out) : n \in ToSet(g.nodes)}
                \cup DOMAIN g.params \cup ToSet(g.inputs) \cup ToSet(g.outputs)

\* A batch norm by its weight and bias per channel, unsqueezed to the axes of
\* an image: epsilon first, a constant, then a tensor for each step.
BatchNormParts(d, n, flat) ==
  LET T(k) == d.tid + k
      x_w == IF flat THEN T(6) ELSE T(8)
      steps == <<<<"Add", <<n.in[5], T(0)>>, T(1)>>, <<"Sqrt", <<T(1)>>, T(2)>>,
                 <<"Div", <<n.in[2], T(2)>>, T(3)>>, <<"Mul", <<n.in[4], T(3)>>, T(4)>>,
                 <<"Sub", <<n.in[3], T(4)>>, T(5)>>>>
               \o (IF flat THEN <<>>
                   ELSE <<<<"Unsqueeze", <<T(3)>>, T(6)>>, <<"Unsqueeze", <<T(5)>>, T(7)>>>>)
               \o <<<<"Mul", <<n.in[1], IF flat THEN T(3) ELSE T(6)>>, x_w>>,
                    <<"Add", <<x_w, IF flat THEN T(5) ELSE T(7)>>, n.out[1]>>>>
  IN [k \in DOMAIN steps |-> Node(d.id + k - 1, <<steps[k][1]>>, steps[k][2], <<steps[k][3]>>)]

\* d: the nodes and constants so far, the next free tensor and node number.
Decomposed(g, d, n) ==
  LET x == n.in[1]
      l1 == <<Node(d.id, <<"Abs">>, <<x>>, <<d.tid>>),
              Node(d.id + 1, <<"ReduceSum">>, <<d.tid>>, n.out)>>
      l2 == <<Node(d.id, <<"Mul">>, <<x, x>>, <<d.tid>>),
              Node(d.id + 1, <<"ReduceSum">>, <<d.tid>>, <<d.tid + 1>>),
              Node(d.id + 2, <<"Sqrt">>, <<d.tid + 1>>, n.out)>>
      With(parts, constants) ==
        [nodes |-> d.nodes \o parts, params |-> constants @@ d.params,
         tid |-> d.tid + Len(parts) - 1 + Cardinality(DOMAIN constants), id |-> d.id + Len(parts)]
      Into(parts) == With(parts, <<>>)
  IN CASE n.op[1] = "ReduceL1" -> Into(l1)
       [] n.op[1] = "ReduceL2" -> Into(l2)
       [] n.op[1] = "BatchNorm" /\ Len(n.in) >= 5 ->
            With(BatchNormParts(d, n, x \in g.flat), d.tid :> [value |-> Epsilon, kind |-> "scalar"])
       [] OTHER -> [d EXCEPT !.nodes = Append(@, n)]

DecomposeOps(g) ==
  LET start == [nodes |-> <<>>, params |-> g.params, tid |-> 1 + Max(Tensors(g)), id |-> next_node_id(g)]
      end == Through(LAMBDA d, n : Decomposed(g, d, n), start, g.nodes)
  IN [g EXCEPT !.nodes = end.nodes, !.params = end.params, !.order = <<>>]

\* Equal bytes, dtype and shape: the least tensor number stands for all.
DeduplicateConstants(g) ==
  LET large == {t \in DOMAIN g.params : g.params[t].kind \in {"large", "projection"}}
      First(t) == Min({u \in large : g.params[u].value = g.params[t].value})
      remap == [t \in {u \in large : First(u) # u} |-> First(t)]
  IN [Renamed(g, remap) EXCEPT !.params = Restrict(@, DOMAIN @ \ DOMAIN remap)]

RECURSIVE live_tensors(_, _)
live_tensors(g, live) ==
  LET read == UNION {UNION {ToSet(g.nodes[p].in) : p \in Producer(g, t)} : t \in live}
  IN IF read \subseteq live THEN live ELSE live_tensors(g, live \cup read)

EliminateDeadNodes(g) ==
  LET live == live_tensors(g, ToSet(g.outputs))
  IN [g EXCEPT !.nodes = SelectSeq(@, LAMBDA n : ToSet(n.out) \cap live # {}), !.order = <<>>]

-----------------------------------------------------------------------------
(* The pipeline.                                                           *)

Fresh(g) == [g EXCEPT !.order = <<>>]

GraphInit(among) ==
  /\ graph \in among
  /\ wanted = Lowered(graph)
  /\ pass = 0

Passed(n, result) ==
  /\ pass = n - 1
  /\ pass' = n
  /\ graph' = result
  /\ UNCHANGED wanted

\* Slices resolved, shapes and data propagated: readers of the cached order.
Analyses == Passed(1, Cached(graph))
ConstantEvaluation == Passed(2, EvaluateConstants(graph))
ConstantFolding == Passed(3, FoldConstants(graph))
LayerNormFusion == Passed(4, Rewritten(layernorm_rules, graph))
RmsNormFusion == Passed(5, Rewritten(rmsnorm_rules, graph))
SwiGluFusion == Passed(6, Rewritten(swiglu_rules, graph))
ScalarAbsorption == Passed(7, Rewritten(scalar_absorption_rules, graph))
MatMulActivationFusion == Passed(8, Rewritten(matmul_activation_rules, graph))
AddRmsNormFusion == Passed(9, Rewritten(add_rmsnorm_rules, graph))
NormProjectionFusion == Passed(10, Rewritten(norm_projection_rule, graph))
SwiGluProjectionFusion == Passed(11, Rewritten(swiglu_projection_rules, graph))
AttentionFusion == Passed(12, Rewritten(attention_fusion_rules, graph))
SemanticPropagation == Passed(13, Cached(graph))
OpDecomposition == Passed(14, DecomposeOps(graph))
ConstantDeduplication == Passed(15, DeduplicateConstants(graph))
DeadNodeElimination == Passed(16, EliminateDeadNodes(graph))

GraphNext ==
  \/ Analyses \/ ConstantEvaluation \/ ConstantFolding
  \/ LayerNormFusion \/ RmsNormFusion \/ SwiGluFusion \/ ScalarAbsorption
  \/ MatMulActivationFusion \/ AddRmsNormFusion \/ NormProjectionFusion
  \/ SwiGluProjectionFusion \/ AttentionFusion
  \/ SemanticPropagation \/ OpDecomposition \/ ConstantDeduplication \/ DeadNodeElimination

\* No pass changes what the graph computes, whatever order the nodes are in:
\* every output lowers to the value the import gave it, and at the end under
\* the very order the graph has cached.  A pattern's interior tensors may be
\* read elsewhere or returned to the caller (rules/mod.rs:643-651).  The two
\* custom rewrites test nothing of the kind: a graph one of them was applied
\* to where it may not be is left out by name (overreach): an interior
\* that is read or returned, another mask than the causal one, none where
\* the output is called logits, a K behind no Transpose, a V to the left.
MeaningKept == graph.overreach \/ Lowered(IF pass = 16 THEN graph ELSE Fresh(graph)) = wanted
===============================================================================
