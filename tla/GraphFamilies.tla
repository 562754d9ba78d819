----------------------------- MODULE GraphFamilies -----------------------------
(***************************************************************************)
(* Graphs an import may deliver: the chains the rewrites look for, with    *)
(* their interior tensors read elsewhere or returned, and near misses.     *)
(***************************************************************************)
EXTENDS RewriteRules

Small(value) == [value |-> value, kind |-> "small"]
Scale(name) == [value |-> Scalar(name), kind |-> "scalar"]
Weight(name, kind) == [value |-> Leaf(name), kind |-> kind]

\* Inputs 1..3; constants 10..19; every chain makes tensors from 21 on.
w == 11  two == 12  eps == 13  s == 14  p1 == 15  p2 == 16  p1Again == 17  three == 18  c == 19  zero == 10

Constants ==
  (w :> Small(Leaf("w"))) @@ (two :> Scale("two")) @@ (eps :> Scale("eps"))
    @@ (s :> Scale("s")) @@ (p1 :> Weight("p1", "projection")) @@ (p2 :> Weight("p2", "projection"))
    @@ (p1Again :> Weight("p1", "projection")) @@ (three :> Scale("three")) @@ (c :> Small(Leaf("c")))
    @@ (zero :> Scale("zero"))

\* steps: <<operation, inputs, output>>, in the order of the vector.
Graph(steps, outputs, flat, logits) ==
  [nodes |-> [k \in DOMAIN steps |-> Node(k, <<steps[k][1]>>, steps[k][2], <<steps[k][3]>>)],
   inputs |-> <<1, 2, 3>>, outputs |-> outputs, params |-> Constants,
   flat |-> flat \cup {w, two, eps, s, three, zero}, logits |-> logits,
   causal |-> {}, order |-> <<>>, overreach |-> FALSE]

Final(steps) == Last(steps)[3]
Plain(steps) == Graph(steps, <<Final(steps)>>, {}, FALSE)

\* A tensor of the chain is also returned, or also read by another node.
ExposedOf(steps, outs) ==
  LET made == {steps[k][3] : k \in DOMAIN steps}
  IN {Graph(steps, outs, {}, FALSE)}
       \cup {Graph(steps, Append(outs, t), {}, FALSE) : t \in made \ ToSet(outs)}
       \cup {Graph(Append(steps, <<"Relu", <<t>>, 90>>), Append(outs, 90), {}, FALSE) : t \in made}
Exposed(steps) == ExposedOf(steps, <<Final(steps)>>)

Rooted(exponent, x) == <<<<"Pow", <<x, exponent>>, 21>>, <<"ReduceMean", <<21>>, 22>>,
                         <<"Add", <<22, eps>>, 23>>, <<"Sqrt", <<23>>, 24>>>>
ByProduct(exponent, x) ==
  Rooted(exponent, x) \o <<<<"Reciprocal", <<24>>, 25>>, <<"Mul", <<x, 25>>, 26>>,
                           <<"Mul", <<26, w>>, 27>>>>
ByQuotient == Rooted(two, 1) \o <<<<"Div", <<1, 24>>, 26>>, <<"Mul", <<w, 26>>, 27>>>>

Residual(r) == <<<<"Add", <<r, 1>>, 20>>>> \o ByProduct(two, 20)
Projections(steps) == steps \o <<<<"MatMul", <<27, p1>>, 31>>, <<"MatMul", <<27, p2>>, 32>>>>

Gated == <<<<"Silu", <<1>>, 21>>, <<"Mul", <<2, 21>>, 22>>, <<"MatMul", <<22, c>>, 23>>>>
GatedBySigmoid == <<<<"Sigmoid", <<1>>, 21>>, <<"Mul", <<1, 21>>, 22>>, <<"Mul", <<22, 2>>, 23>>,
                    <<"MatMul", <<23, c>>, 24>>>>
Layered ==
  <<<<"ReduceMean", <<1>>, 20>>, <<"Sub", <<1, 20>>, 30>>>> \o Rooted(two, 30)
    \o <<<<"Div", <<30, 24>>, 25>>, <<"Mul", <<25, w>>, 26>>, <<"Add", <<26, c>>, 27>>>>
\* A scale computed from constants, a reshaped constant, an identity.
ScaledProduct(by) ==
  <<<<"Mul", <<s, two>>, 21>>, <<"Reshape", <<c>>, 22>>, <<"Identity", <<1>>, 23>>,
    <<"MatMul", <<23, 22>>, 24>>, <<"Mul", <<by, 24>>, 25>>, <<"Relu", <<25>>, 26>>>>
Activated(act) == <<<<"MatMul", <<1, c>>, 21>>, <<act, <<21>>, 22>>, <<"ReduceL2", <<22>>, 23>>>>
Twins == <<<<"MatMul", <<1, p1>>, 21>>, <<"MatMul", <<2, p1Again>>, 22>>,
           <<"ReduceL1", <<22>>, 23>>, <<"Add", <<21, 23>>, 24>>>>

\* Attention: K behind a scale and a Transpose, or turned before; a guard
\* against NaN, or none; V made after the scores.
Attends(turn, masked, guarded) ==
  <<<<"Expand", <<2>>, 20>>, <<turn, <<20>>, 21>>, <<"Mul", <<21, s>>, 22>>,
    <<"MatMul", <<1, 22>>, 23>>>>
    \o (IF masked THEN <<<<"Add", <<23, 3>>, 24>>>> ELSE <<<<"Identity", <<23>>, 24>>>>)
    \o <<<<"Softmax", <<24>>, 25>>, <<"Relu", <<2>>, 26>>, <<"Reshape", <<26>>, 27>>>>
    \o (IF guarded THEN <<<<"IsNaN", <<25>>, 29>>, <<"Where", <<29, zero, 25>>, 30>>,
                          <<"MatMul", <<30, 27>>, 28>>>>
        ELSE <<<<"MatMul", <<25, 27>>, 28>>>>)
Attentions ==
  {[g EXCEPT !.causal = causal, !.logits = logits] :
     g \in UNION {Exposed(Attends(turn, masked, guarded)) :
                    turn \in {"Transpose", "Relu"}, masked \in BOOLEAN, guarded \in BOOLEAN},
     causal \in {{}, {3}}, logits \in BOOLEAN}
BatchNormed == <<<<"BatchNorm", <<1, w, c, p1, p2>>, 21>>, <<"Relu", <<21>>, 22>>,
            <<"BatchNorm", <<22, w, c, p1, p2>>, 23>>>>

\* Every graph of three operations over few tensors, the last on the second.
Triples ==
  LET Steps(ins, out) ==
        {<<f, <<t>>, out>> : f \in {"Identity", "Relu"}, t \in ins}
          \cup {<<f, <<t, u>>, out>> : f \in {"MatMul", "Mul"}, t \in ins, u \in ins}
      Ends(ins, out) ==
        {<<"Relu", <<22>>, out>>} \cup {<<"Mul", <<22, t>>, out>> : t \in ins}
          \cup {<<"Mul", <<t, 22>>, out>> : t \in ins}
  IN UNION {{Graph(<<a, b, e>>, outs, {}, FALSE) : outs \in {<<23>>, <<23, 22>>}} :
              a \in Steps({1, s}, 21), b \in Steps({1, s, 21}, 22), e \in Ends({1, s, 21, 22}, 23)}

Imported ==
  UNION {Exposed(steps) :
           steps \in {ByProduct(two, 1), ByProduct(three, 1), ByQuotient, Gated, GatedBySigmoid,
                      Layered, ScaledProduct(21), ScaledProduct(c), Activated("Relu"),
                      Activated("Silu"), Twins, BatchNormed}
                     \cup {Residual(2)}}
    \cup {Graph(Residual(2), <<27>>, {2}, FALSE)}
    \cup UNION {ExposedOf(Projections(steps), outs) :
                  steps \in {Residual(2), ByProduct(two, 1)}, outs \in {<<31, 32>>, <<32>>}}
    \cup {Graph(Attends("Transpose", FALSE, FALSE), <<28>>, {1}, FALSE),
           Graph(BatchNormed, <<23>>, {1}, FALSE)}
    \cup Attentions
    \cup Triples
===============================================================================
