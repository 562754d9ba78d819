------------------------------- MODULE ShapeFlow -------------------------------
(***************************************************************************)
(* An ONNX model on its way to a graph of concrete shapes: import, the     *)
(* generic pipeline, concretization to one window, the repair rounds       *)
(* (compile_at_inner), one pass a step, and the kernels it is lowered to.  *)
(* What the model means is run from its own nodes at the sizes it is       *)
(* compiled for.                                                           *)
(*                                                                         *)
(* Left out: OpDecomposition, SemanticPropagation and constant             *)
(* deduplication, which GraphPasses has; subgraphs; quantized weights.     *)
(***************************************************************************)
EXTENDS Lowering

LOCAL IR == INSTANCE GraphIR

CONSTANT ShapeModels               \* the models tried, with the sizes their variables stand for

VARIABLES
  model,    \* the ONNX model
  flow,     \* the compiler's graph, or Refused
  meant,    \* the values of the model's outputs
  step,     \* passes run
  round,    \* repair rounds run
  prior     \* dimensions left unknown by the last round, or none counted yet
shape_vars == <<model, flow, meant, step, round, prior>>

-----------------------------------------------------------------------------
(* Running.                                                                 *)
\* The values fed: small numbers by position, or those the model gives.
Fed(m) ==
  LET Size(dim) == dim[1] * (IF Fixed(dim) THEN 1 ELSE m.sizes[dim[2]])
      Value(dtype, n) == IF dtype = "INT64" THEN n % 3 ELSE ((n * 5) % 7) - 2
      Input(input) == LET shape == [d \in DOMAIN input.dims |-> Size(input.dims[d])]
                      IN [dtype |-> input.dtype, shape |-> shape,
                          data |-> [n \in 1 .. Volume(shape) |-> Value(input.dtype, n - 1)]]
      at == {k \in DOMAIN m.inputs : m.inputs[k].name \notin DOMAIN m.initializers}
  IN [t \in {m.inputs[k].name : k \in at} |->
        IF t \in DOMAIN m.feed THEN m.feed[t]
        ELSE Input(m.inputs[CHOOSE k \in at : m.inputs[k].name = t])]
\* A tensor that has a value keeps it: a constant stands for its node.
Ran1(env, node) ==
  LET outs == IF "values" \in DOMAIN node THEN [n \in DOMAIN node.values |-> ValueOf(node.values[n], env)]
              ELSE Meaning(node.op, [n \in DOMAIN node.ins |-> env[node.ins[n]]])
  IN env @@ [t \in ToSet(node.outs) |-> outs[CHOOSE n \in DOMAIN node.outs : node.outs[n] = t]]
Ran(nodes, start) == IR!Through(Ran1, start, nodes)
Strict(m) == LET Filter(node) == [node EXCEPT !.ins = Present(@)]
             IN [p \in DOMAIN m.nodes |-> Filter(m.nodes[p])]
OutputValues(env, outputs) ==
  [k \in DOMAIN outputs |-> [shape |-> env[outputs[k]].shape, data |-> env[outputs[k]].data]]

-----------------------------------------------------------------------------
(* One pass a step.                                                         *)
ShapeInit(models) ==
  /\ model \in models
  /\ flow = build_ai_graph(model)
  /\ meant = IF flow = Refused THEN <<>>
             ELSE OutputValues(Ran(Strict(model), Fed(model) @@ model.initializers), model.outputs)
  /\ step = 0 /\ round = 0 /\ prior = -1

LOCAL Runs(n, result) ==
  /\ flow # Refused /\ step = n
  /\ flow' = result
  /\ step' = n + 1
  /\ UNCHANGED <<model, meant, round, prior>>

\* OptPipeline::generic is steps 0 to 6, a round of the repair 8 to 18; only
\* the pipeline's ShapePropagation leaves settled shapes alone.
Resolve == Runs(0, ResolveSliceParams(flow))
Shapes == \E n \in {1, 3, 8, 10, 12, 17} : Runs(n, propagate_shapes(flow, n < 8))
Data == \E n \in {2, 9, 11, 13} : Runs(n, DataPropagation(flow))
\* Between them, the sizes for the window.
Concretize == Runs(7, clear_known(concretize_all_dims(flow)))
Force == Runs(14, force_concretize(flow))
Evaluate == \E n \in {4, 15} : Runs(n, EvaluateNodes(flow))
Fold == \E n \in {5, 16} : Runs(n, FoldNodes(flow))
Drop == \E n \in {6, 18} : Runs(n, DropDead(flow))
\* Another round while it leaves fewer dimensions unknown.
Again ==
  /\ flow # Refused /\ step = 19
  /\ LET count == dynamic_count(flow)
         converged == prior # -1 /\ count >= prior
     IN /\ flow' = IF converged THEN flow ELSE clear_known(flow)
        /\ step' = IF converged \/ round = 2 THEN 20 ELSE 8
        /\ prior' = IF converged THEN prior ELSE count
  /\ round' = round + 1
  /\ UNCHANGED <<model, meant>>
GatherSlices == Runs(20, SliceToGather(force_concretize(flow)))
Heal == Runs(21, ShapeHealing(flow))
Done == 22
\* The finished graph becomes kernels.
Lower == Runs(Done, lower(flow))

ShapeNext ==
  \/ Resolve \/ Shapes \/ Data \/ Concretize \/ Force \/ Evaluate \/ Fold \/ Drop
  \/ Again \/ GatherSlices \/ Heal \/ Lower

-----------------------------------------------------------------------------
(* Properties.                                                              *)
Env == Ran(flow.nodes, flow.params @@ Fed(model))

\* Every pass keeps what the model computes: the imported graph, with the
\* constants so far written into it, gives the outputs of the ONNX model at
\* the sizes it is compiled for, and so do the kernels it becomes
\* (build_ai_graph, data_prop.rs, const_eval.rs, constant_fold.rs,
\* slice_to_gather_rewrite, lower; dispatch.rs:14-15 "Every desugaring is
\* exact").  Graphs with an operator that lowering misses are left out.
ValuesTrue ==
  (flow # Refused /\ (step > Done => flow.inexact = {})) => OutputValues(Env, flow.outputs) = meant

\* A size an operator takes from the values of its input is guessed.
Counts == {"TopK", "NonZero", "OneHot", "Compress"}
\* Lowering bakes the recorded shapes: of every tensor the finished graph
\* reads or writes, the shape recorded by then is the one it takes when the
\* graph runs (shape_prop.rs, shape_inference.rs, compiler.rs repair).
ShapesTrue ==
  (flow # Refused /\ step = Done) =>
    LET env == Env
        guessed == UNION {ToSet(node.outs) : node \in {node \in ToSet(flow.nodes) : node.op.kind \in Counts}}
        used == UNION {ToSet(node.ins) \cup ToSet(node.outs) : node \in ToSet(flow.nodes)}
    IN \A t \in used \ guessed :
         \/ flow.info[t].dims = shape_from_concrete(env[t].shape)
         \/ env[t].shape = <<>> /\ flow.info[t].dims = <<Concrete(1)>>
===============================================================================
