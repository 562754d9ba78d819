------------------------------ MODULE MCHostWork ------------------------------
(* Finite instances of HostWork.                                            *)
EXTENDS HostWork, GraphFamilies, ShapeFamilies

TokenSymmetry == Permutations(Token)

\* Characters and Metaspace marks whole, cut over tokens, and stray bytes.
MCPieces == {<<"U", "C", "C">>, <<"a">>, <<"L">>, <<"U">>, <<"C">>, <<"a", "L">>, <<"C", "C">>,
             <<"U", "C", "C", "a">>, <<>>}
MCStopSets == {{}, {<<"x", "a">>}, {<<"a", "sp", "a">>, <<"x", "x">>}, {<<"a", "a", "a">>}}

\* Models of two layers, of each known family and of one known by its tensors.
PerLayer(names) == {<<name, k>> : name \in names, k \in {0, 1}}
Norms == {"input_layernorm", "post_attention_layernorm"}
Separate == Norms \cup {"q_proj", "k_proj", "v_proj", "o_proj", "gate_proj", "up_proj", "down_proj"}
Fused == Norms \cup {"qkv_proj", "o_proj", "gate_up_proj", "down_proj"}
QkvBiases == {"q_proj.bias", "k_proj.bias", "v_proj.bias"}
QkNorms == {"q_norm", "k_norm"}
Tied == {Embed, FinalNorm}
Untied == Tied \cup {LmHead}
Recipe(arch, names, ends) ==
  [arch |-> arch, layers |-> 2, block |-> 1, vocab |-> 9, narrow |-> FALSE, biased |-> FALSE,
   mlp_biased |-> FALSE, manifest |-> PerLayer(names) \cup ends, twin |-> FALSE, staged |-> TRUE,
   int8 |-> FALSE]

\* A vocabulary of 20 is a head of three chunks, or of two at two layers a
\* stage.  The last three are refused: a bias that attention_bias asks for is
\* missing, a norm of the key is, a tensor is read by no stage.
MCRecipes ==
  {[Recipe("Llama", Separate, Tied) EXCEPT !.staged = FALSE],
   [Recipe("Llama", Separate, Tied) EXCEPT !.int8 = TRUE],
   [Recipe("Llama", Separate, Untied) EXCEPT !.int8 = TRUE, !.twin = TRUE, !.narrow = TRUE],
   [Recipe("Llama", Separate, Untied) EXCEPT !.int8 = TRUE, !.twin = TRUE, !.vocab = 20],
   [Recipe("Qwen2", Separate \cup QkvBiases, Tied) EXCEPT !.int8 = TRUE, !.vocab = 20, !.narrow = TRUE],
   [Recipe("Qwen3", Separate \cup QkNorms, Untied) EXCEPT !.int8 = TRUE, !.vocab = 20, !.block = 2],
   [Recipe("Phi3", Fused, Untied) EXCEPT !.int8 = TRUE],
   [Recipe("Phi3", Fused, Untied) EXCEPT !.staged = FALSE, !.narrow = TRUE],
   [Recipe("other", Separate \cup QkvBiases \cup QkNorms \cup {"down_proj.bias"}, Untied) EXCEPT
      !.mlp_biased = FALSE, !.block = 2],
   [Recipe("Llama", Separate, Untied) EXCEPT !.biased = TRUE],
   Recipe("other", Separate \cup {"q_norm"}, Tied),
   Recipe("Llama", Separate \cup QkNorms, Tied)}

\* Texts over a space, two letters and a character of three bytes; the mark.
MCTexts == UNION {[1 .. k -> {"a", "b", "sp", "x"}] : k \in 0 .. 3}
             \cup [1 .. 4 -> {"a", "b", "sp"}]
             \cup [1 .. 2 -> {"a", "mark", "sp"}]

\* SentencePiece models; the order of the pieces is not that of the scores.
Piece(chars, score) == [chars |-> chars, score |-> score, type |-> "normal"]
Control(name) == [chars |-> <<name>>, score |-> 0, type |-> "control"]
Byte(b) == [chars |-> <<BytePiece[b]>>, score |-> 0, type |-> "byte"]
MCPiecesSP == <<Control("<unk>"), Control("<s>"), Control("</s>"), Piece(<<"mark">>, -9), Piece(<<"a">>, -7),
                Piece(<<"b">>, -8), Piece(<<"a", "b">>, -5), Piece(<<"b", "a">>, -4), Piece(<<"a", "a">>, -6),
                Piece(<<"mark", "a">>, -3), Piece(<<"mark", "a", "b">>, -2), Byte("L"), Byte("C")>>
ModelFile(kind) ==
  [format |-> "model", kind |-> kind, pieces |-> MCPiecesSP, charsmap |-> FALSE, unk |-> 0, bos |-> 1,
   eos |-> 2, prefix |-> TRUE, collapse |-> FALSE, escape |-> TRUE, fallback |-> TRUE, sibling |-> NoSibling]
\* With escaping off the pieces hold plain spaces.
PlainPieces == [id \in DOMAIN MCPiecesSP |-> [MCPiecesSP[id] EXCEPT !.chars = Spaced(@)]]

JsonFile(kind, vocab) ==
  [format |-> "json", kind |-> kind, vocab |-> vocab, scores |-> <<>>, merges |-> <<>>, added |-> <<>>,
   pre |-> "None", prepend |-> FALSE, regex |-> "none", fallback |-> FALSE, post |-> FALSE, cap |-> 3,
   sibling |-> NoSibling]
Letters == <<<<"<unk>">>, <<"a">>, <<"b">>, <<"a", "b">>, <<"b", "a">>, <<"a", "a">>>>
LetterMerges == <<<<<<"b">>, <<"a">>>>, <<<<"a">>, <<"b">>>>, <<<<"a">>, <<"a">>>>>>
ByteLetters == Letters \o <<<<"sp">>, <<"L">>, <<"C">>, <<"sp", "a">>, <<"L", "C">>, <<"L", "C", "C">>>>
ByteMerges == LetterMerges \o <<<<<<"sp">>, <<"a">>>>, <<<<"L">>, <<"C">>>>, <<<<"L", "C">>, <<"C">>>>>>
ChatEnd == <<<<"<|im_end|>">>, 14>>
Llama == [JsonFile("BPE", Letters \o <<<<"mark">>, <<"mark", "a">>, <<"<0xE4>">>, <<"<0x80>">>>>) EXCEPT
            !.merges = LetterMerges \o <<<<<<"mark">>, <<"a">>>>>>, !.pre = "Metaspace", !.prepend = TRUE,
            !.fallback = TRUE, !.post = TRUE, !.added = <<<<<<"<s>">>, 10>>, <<<<"</s>">>, 11>>>>]
Chat == [JsonFile("BPE", ByteLetters) EXCEPT
           !.merges = ByteMerges, !.pre = "ByteLevel", !.regex = "ok", !.post = TRUE, !.added = <<ChatEnd>>,
           !.sibling = [eos |-> ChatEnd[1], bos |-> <<>>, add_bos |-> "no"]]
Viterbi == [JsonFile("Unigram", <<<<"mark">>, <<"a">>, <<"b">>, <<"a", "b">>, <<"mark", "b", "a">>>>) EXCEPT
              !.scores = <<-2, -3, -3, -5, -9>>, !.pre = "Metaspace", !.prepend = TRUE]

\* The last four are refused.
MCTokenizerFiles ==
  {ModelFile("BPE"), ModelFile("Unigram"),
   [ModelFile("BPE") EXCEPT !.prefix = FALSE, !.collapse = TRUE, !.eos = -1, !.fallback = FALSE],
   [ModelFile("Unigram") EXCEPT !.collapse = TRUE, !.bos = -1],
   [ModelFile("BPE") EXCEPT !.escape = FALSE, !.pieces = PlainPieces],
   [ModelFile("Unigram") EXCEPT !.escape = FALSE, !.collapse = TRUE, !.pieces = PlainPieces],
   Llama, [Llama EXCEPT !.prepend = FALSE],
   Chat, [Chat EXCEPT !.regex = "lookahead"], [Chat EXCEPT !.regex = "none", !.sibling = NoSibling],
   [JsonFile("BPE", Letters \o <<<<"sp">>>>) EXCEPT !.merges = LetterMerges, !.pre = "Regex", !.regex = "ok"],
   Viterbi, [Viterbi EXCEPT !.pre = "None", !.prepend = FALSE],
   JsonFile("WordPiece", Letters \o <<<<"##", "a">>, <<"##", "b", "a">>, <<"[UNK]">>>>),
   [JsonFile("WordPiece", <<<<"a">>, <<"b">>, <<"##", "b">>, <<"##", "a">>, <<"##", "b", "a">>>>) EXCEPT
      !.added = <<<<<<"</s>">>, 9>>>>, !.cap = 200],
   JsonFile("WordLevel", Letters), [ModelFile("BPE") EXCEPT !.charsmap = TRUE],
   [ModelFile("BPE") EXCEPT !.unk = 99], [IdleFile EXCEPT !.format = "tiktoken"]}
===============================================================================
