-------------------------------- MODULE HostWork --------------------------------
(***************************************************************************)
(* The work around a forward that shares no state with another part: the   *)
(* input buffers of a pass, the prompt lookup, the streamed text, the      *)
(* derived-stage store, the graph passes, the compiler's shapes and        *)
(* values, the decoder's plans and the tokenizers, checked side by side.   *)
(* An execution is one part's: the others keep one initial state.          *)
(***************************************************************************)
EXTENDS PassBuffers, PromptLookup, StreamText, DerivedStages, GraphPasses, PlanSession, TextCodec,
        ShapeFlow

VARIABLE part

Parts == {"buffers", "lookup", "stream", "derived", "graph", "plan", "codec", "shape"}

\* What the parts that do not run start from.
IdleGraph == [nodes |-> <<>>, inputs |-> <<>>, outputs |-> <<>>, params |-> <<>>, flat |-> {},
              logits |-> FALSE, causal |-> {}, order |-> <<>>, overreach |-> FALSE]
IdleRecipe == [arch |-> "Llama", layers |-> 1, block |-> 1, vocab |-> 1, narrow |-> FALSE,
               biased |-> FALSE, mlp_biased |-> FALSE, manifest |-> {}, twin |-> FALSE,
               staged |-> FALSE, int8 |-> FALSE]
IdleFile == [format |-> "none"]
\* No model: nothing is computed.
ShapeIdle == model = <<>> /\ flow = Refused /\ meant = <<>> /\ step = 0 /\ round = 0 /\ prior = -1

HostInit ==
  /\ part \in Parts
  /\ Init /\ (part = "buffers" \/ \A rung \in Buckets : rung <= bucket)
  /\ LookupInit(IF part = "lookup" THEN Prompts ELSE {<<>>})
  /\ StreamInit(IF part = "stream" THEN StopSets ELSE {{}},
                IF part = "stream" THEN BOOLEAN ELSE {FALSE})
  /\ DerivedInit
  /\ GraphInit(IF part = "graph" THEN Graphs ELSE {IdleGraph})
  /\ PlanInit(IF part = "plan" THEN PlanRecipes ELSE {IdleRecipe})
  /\ CodecInit(IF part = "codec" THEN TokenizerFiles ELSE {IdleFile})
  /\ IF part = "shape" THEN ShapeInit(ShapeModels) ELSE ShapeIdle

HostNext ==
  /\ UNCHANGED part
  /\ \/ /\ part = "buffers" /\ Next
        /\ UNCHANGED <<lookup_vars, stream_vars, derived_vars, graph_vars, plan_vars, codec_vars, shape_vars>>
     \/ /\ part = "lookup" /\ LookupNext
        /\ UNCHANGED <<vars, stream_vars, derived_vars, graph_vars, plan_vars, codec_vars, shape_vars>>
     \/ /\ part = "stream" /\ StreamNext
        /\ UNCHANGED <<vars, lookup_vars, derived_vars, graph_vars, plan_vars, codec_vars, shape_vars>>
     \/ /\ part = "derived" /\ DerivedNext
        /\ UNCHANGED <<vars, lookup_vars, stream_vars, graph_vars, plan_vars, codec_vars, shape_vars>>
     \/ /\ part = "graph" /\ GraphNext
        /\ UNCHANGED <<vars, lookup_vars, stream_vars, derived_vars, plan_vars, codec_vars, shape_vars>>
     \/ /\ part = "plan" /\ PlanNext
        /\ UNCHANGED <<vars, lookup_vars, stream_vars, derived_vars, graph_vars, codec_vars, shape_vars>>
     \/ /\ part = "codec" /\ CodecNext
        /\ UNCHANGED <<vars, lookup_vars, stream_vars, derived_vars, graph_vars, plan_vars, shape_vars>>
     \/ /\ part = "shape" /\ ShapeNext
        /\ UNCHANGED <<vars, lookup_vars, stream_vars, derived_vars, graph_vars, plan_vars, codec_vars>>

HostSpec == HostInit /\ [][HostNext]_<<part, vars, lookup_vars, stream_vars, derived_vars, graph_vars,
                                       plan_vars, codec_vars, shape_vars>>
===============================================================================
